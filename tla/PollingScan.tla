---------------------------- MODULE PollingScan ----------------------------
(***************************************************************************)
(* The polling scheduler, on several instances that share the cache.  A    *)
(* scan, which a lock without release keeps to one instance at a time,     *)
(* stops and starts the instance's own pollers; a poller fetches an        *)
(* endpoint, compares the answer with what the cache remembers, stores it, *)
(* and triggers the workflow with the snapshot it was started with.        *)
(***************************************************************************)
EXTENDS Integers, FiniteSets

CONSTANTS
    Instance,      \* API processes
    Watched,       \* workflows with a polling trigger
    Config,        \* their configurations
    InitialConfig, \* InitialConfig[w]: the one at the start
    Off,           \* not active, or not a polling workflow; no poller
    Dedup,         \* Dedup[c]: the deduplication of configuration c
    Poll,          \* bound: the polls there are
    MaxContent,    \* bound: different answers of an endpoint
    MaxChanges     \* bound: edits of the workflows and changes of the answers

VARIABLES
    config,      \* config[w]: the configuration in the database, or Off
    changes,     \* how much of MaxChanges is used
    scanLock,    \* the lock of the scan is taken
    scan,        \* scan[i]: where i's scan is
    poller,      \* poller[i][w]: the snapshot of i's poller of w, or Off
    poll,        \* poll[p]: poll p
    content,     \* content[w]: what the endpoint answers now
    turns,       \* history: turns[w][v]: how often it came to answer v
    lastHash,    \* lastHash[w]: the answer whose hash is stored, 0 for none
    fields,      \* fields[w]: the answers whose field is stored
    triggered,   \* history: triggered[w][d][v]: runs for v by deduplication d
    mixed        \* history: the pairs of answers of w that were in flight together

pollVars == <<config, changes, scanLock, scan, poller, poll, content, turns,
              lastHash, fields, triggered, mixed>>

Content == 1 .. MaxContent
Mode == {"hash", "field", "none"}
PollAt == {"idle", "fetch", "compare", "store", "limit", "insert", "done"}

PollRecord ==
    [at : PollAt, by : Instance, wf : Watched, mode : Mode, data : 0 .. MaxContent]

ASSUME PollAssumption ==
    /\ Instance # {} /\ Watched # {}
    /\ Off \notin Config
    /\ InitialConfig \in [Watched -> Config \cup {Off}]
    /\ Dedup \in [Config -> Mode]
    /\ IsFiniteSet(Poll)
    /\ MaxContent \in Nat \ {0} /\ MaxChanges \in Nat

PollTypeOK ==
    /\ config \in [Watched -> Config \cup {Off}]
    /\ changes \in 0 .. MaxChanges
    /\ scanLock \in BOOLEAN
    /\ scan \in [Instance -> {"idle", "read"}]
    /\ poller \in [Instance -> [Watched -> Config \cup {Off}]]
    /\ poll \in [Poll -> PollRecord]
    /\ content \in [Watched -> Content]
    /\ turns \in [Watched -> [Content -> Nat]]
    /\ lastHash \in [Watched -> 0 .. MaxContent]
    /\ fields \in [Watched -> SUBSET Content]
    /\ triggered \in [Watched -> [Mode -> [Content -> Nat]]]
    /\ mixed \in [Watched -> SUBSET (Content \X Content)]

\* A poll that is not under way, all of them alike.
Still(at) ==
    [at |-> at, by |-> CHOOSE i \in Instance : TRUE, wf |-> CHOOSE w \in Watched : TRUE,
     mode |-> "none", data |-> 0]

Polls(at) == [p \in Poll |-> Still(at)]

PollStart ==
    /\ config = InitialConfig
    /\ changes = 0
    /\ scanLock = FALSE
    /\ scan = [i \in Instance |-> "idle"]
    /\ poller = [i \in Instance |-> [w \in Watched |-> Off]]
    /\ content = [w \in Watched |-> 1]
    /\ turns = [w \in Watched |-> [v \in Content |-> IF v = 1 THEN 1 ELSE 0]]
    /\ lastHash = [w \in Watched |-> 0]
    /\ fields = [w \in Watched |-> {}]
    /\ triggered = [w \in Watched |-> [d \in Mode |-> [v \in Content |-> 0]]]
    /\ mixed = [w \in Watched |-> {}]

\* The polls are still to come, or there are none.
PollInit == PollStart /\ poll \in {Polls("idle"), Polls("done")}

-----------------------------------------------------------------------------
Cache == <<scanLock, lastHash, fields>>
Scheduler == <<scan, poller>>
Source == <<config, changes, content, turns>>
Past == <<triggered, mixed>>

\* The workflow is edited, disabled or enabled again.
Edit(w, c) ==
    /\ changes < MaxChanges
    /\ c # config[w]
    /\ config' = [config EXCEPT ![w] = c]
    /\ changes' = changes + 1
    /\ UNCHANGED <<Cache, Scheduler, poll, content, turns, Past>>

\* The endpoint answers something else, new or as it did before.
NewContent(w, v) ==
    /\ v # content[w]
    /\ changes < MaxChanges
    /\ content' = [content EXCEPT ![w] = v]
    /\ turns' = [turns EXCEPT ![w][v] = @ + 1]
    /\ changes' = changes + 1
    /\ UNCHANGED <<config, Cache, Scheduler, poll, Past>>

-----------------------------------------------------------------------------
(* scanPollingWorkflows *)

\* SET NX; the lock is never released, it expires.
AcquireLock(i) ==
    /\ scan[i] = "idle"
    /\ ~scanLock
    /\ scanLock' = TRUE
    /\ scan' = [scan EXCEPT ![i] = "read"]
    /\ UNCHANGED <<lastHash, fields, poller, poll, Source, Past>>

LockExpires ==
    /\ scanLock
    /\ scanLock' = FALSE
    /\ UNCHANGED <<lastHash, fields, Scheduler, poll, Source, Past>>

ScanFails(i) ==
    /\ scan[i] = "read"
    /\ scan' = [scan EXCEPT ![i] = "idle"]
    /\ UNCHANGED <<Cache, poller, poll, Source, Past>>

\* The polls that may start; each starts once, and which is which does not
\* matter.
Idle == {p \in Poll : poll[p].at = "idle"}

Fetching(i, w, c) ==
    [at |-> "fetch", by |-> i, wf |-> w, mode |-> Dedup[c], data |-> 0]

\* The workflows are read and the pollers stopped and started accordingly; one
\* that runs keeps its snapshot.  A new poller polls at once (as long as the
\* bound on the polls allows).
ScanPollers(i) ==
    /\ scan[i] = "read"
    /\ scan' = [scan EXCEPT ![i] = "idle"]
    /\ poller' = [poller EXCEPT ![i] = [w \in Watched |->
                    IF config[w] # Off /\ poller[i][w] # Off
                      THEN poller[i][w] ELSE config[w]]]
    /\ LET new == {w \in Watched : poller[i][w] = Off /\ config[w] # Off}
       IN  \E first \in {f \in [new -> Idle] : \A v, w \in new : f[v] = f[w] => v = w} :
             poll' = [p \in Poll |->
               IF \E w \in new : first[w] = p
                 THEN LET w == CHOOSE w \in new : first[w] = p
                      IN  Fetching(i, w, config[w])
                 ELSE poll[p]]
    /\ UNCHANGED <<Cache, Source, Past>>

\* A poller's timer fires, also while its last poll is under way.
FirePoller(i, w) ==
    /\ poller[i][w] # Off
    /\ Idle # {}
    /\ poll' = [poll EXCEPT ![CHOOSE p \in Idle : TRUE] = Fetching(i, w, poller[i][w])]
    /\ UNCHANGED <<Cache, Scheduler, Source, Past>>

-----------------------------------------------------------------------------
(* pollWorkflow *)

In(p, at) == poll[p].at = at
Step(p, at) ==
    poll' = [poll EXCEPT ![p] = IF at = "done" THEN Still(at) ELSE [@ EXCEPT !.at = at]]
Mine(p) == poll[p].wf

\* Polls of w between their fetch and their store.
Comparing(w) == {p \in Poll : poll[p].at \in {"compare", "store"} /\ Mine(p) = w}

\* The answer, beside others that are in flight.
FetchContent(p) ==
    /\ In(p, "fetch")
    /\ LET w == Mine(p)
           beside == {poll[q].data : q \in Comparing(w)}
       IN  /\ poll' = [poll EXCEPT ![p].at = "compare", ![p].data = content[w]]
           /\ mixed' = [mixed EXCEPT ![w] = @ \cup ({content[w]} \X beside)
                                             \cup (beside \X {content[w]})]
    /\ UNCHANGED <<Cache, Scheduler, Source, triggered>>

FetchFails(p) ==
    /\ In(p, "fetch")
    /\ Step(p, "done")
    /\ UNCHANGED <<Cache, Scheduler, Source, Past>>

\* isNewData: the stored hash or field is looked up,
IsNewData(p) ==
    /\ In(p, "compare")
    /\ LET w == Mine(p)
           v == poll[p].data
       IN  Step(p, CASE poll[p].mode = "none" -> "limit"
                     [] poll[p].mode = "hash" -> IF lastHash[w] = v THEN "done" ELSE "store"
                     [] OTHER -> IF v \in fields[w] THEN "done" ELSE "store")
    /\ UNCHANGED <<Cache, Scheduler, Source, Past>>

\* Mutant: the new hash is not stored.
StoreFieldOnly(p) ==
    /\ In(p, "store")
    /\ fields' = IF poll[p].mode = "field"
                   THEN [fields EXCEPT ![Mine(p)] = @ \cup {poll[p].data}] ELSE fields
    /\ Step(p, "limit")
    /\ UNCHANGED <<scanLock, lastHash, Scheduler, Source, Past>>

\* and then stored, before anything is triggered.
StoreSeen(p) ==
    /\ In(p, "store")
    /\ IF poll[p].mode = "hash"
         THEN lastHash' = [lastHash EXCEPT ![Mine(p)] = poll[p].data] /\ UNCHANGED fields
         ELSE fields' = [fields EXCEPT ![Mine(p)] = @ \cup {poll[p].data}] /\ UNCHANGED lastHash
    /\ Step(p, "limit")
    /\ UNCHANGED <<scanLock, Scheduler, Source, Past>>

\* The monthly limit allows one more, or the answer is dropped.
CheckPollLimit(p) ==
    /\ In(p, "limit")
    /\ Step(p, "insert") \/ Step(p, "done")
    /\ UNCHANGED <<Cache, Scheduler, Source, Past>>

\* The run is inserted and dispatched (module WorkflowRun), or that fails.
TriggerPolled(p) ==
    /\ In(p, "insert")
    /\ \/ triggered' = [triggered EXCEPT ![Mine(p)][poll[p].mode][poll[p].data] = @ + 1]
       \/ UNCHANGED triggered
    /\ Step(p, "done")
    /\ UNCHANGED <<Cache, Scheduler, Source, mixed>>

\* The process stops or dies; what the cache holds stays.
StopInstance(i) ==
    /\ scan[i] = "read" \/ \E w \in Watched : poller[i][w] # Off
    /\ scan' = [scan EXCEPT ![i] = "idle"]
    /\ poller' = [poller EXCEPT ![i] = [w \in Watched |-> Off]]
    /\ poll' = [p \in Poll |-> IF poll[p].by = i /\ poll[p].at # "idle"
                                 THEN Still("done") ELSE poll[p]]
    /\ UNCHANGED <<Cache, Source, Past>>

-----------------------------------------------------------------------------
PollNext ==
    \/ LockExpires
    \/ \E w \in Watched :
         \/ \E v \in Content : NewContent(w, v)
         \/ \E c \in Config \cup {Off} : Edit(w, c)
    \/ \E i \in Instance :
         \/ AcquireLock(i) \/ ScanFails(i) \/ ScanPollers(i) \/ StopInstance(i)
         \/ \E w \in Watched : FirePoller(i, w)
    \/ \E p \in Poll :
         \/ FetchContent(p) \/ FetchFails(p) \/ IsNewData(p) \/ StoreSeen(p)
         \/ CheckPollLimit(p) \/ TriggerPolled(p)

PollSpec == PollInit /\ [][PollNext]_pollVars

-----------------------------------------------------------------------------
(* By hash an endpoint triggers its workflow at most once each time it comes to
   an answer, however often and on however many instances it is polled then; by
   field an answer triggers once and for all.  Only an answer that was in flight
   beside another (by field: beside the same) may do so more often.         *)
TriggeredOnce ==
    \A w \in Watched, v \in Content :
        /\ triggered[w]["hash"][v] > turns[w][v] => \E u \in Content : <<v, u>> \in mixed[w]
        /\ triggered[w]["field"][v] > 1 => <<v, v>> \in mixed[w]
=============================================================================
