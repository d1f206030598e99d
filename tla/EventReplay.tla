---------------------------- MODULE EventReplay ----------------------------
(***************************************************************************)
(* The event stream of one organization and the two ways of sending an     *)
(* event again: from the dead letters, which a replay marks resolved, and  *)
(* from the event log, which the events client fills behind its callers'   *)
(* back and the retention sweep prunes.  Requests and sweeps are one step  *)
(* per await, and the process may die between two of them.                 *)
(***************************************************************************)
EXTENDS PlanLimits

CONSTANTS
    Letter,       \* dead letters; each stands for the event it holds
    Event,        \* events, those of the dead letters included
    NoEvent,      \* no event
    Retention,    \* EVENT_LOG_RETENTION_DAYS, in days
    MaxDays,      \* bound: the days that pass
    Batch,        \* BATCH_SIZE of the sweep
    MaxBatches,   \* MAX_BATCHES_PER_SWEEP
    EventMix      \* the requests and sweeps there are

VARIABLES
    letter,      \* letter[d]: the row of dead_letter_event
    topic,       \* the organization's topic exists
    log,         \* log[e][t]: the rows of event_log for e recorded on day t
    writing,     \* writing[e]: inserts into the log under way
    today,       \* the day
    ereq,        \* ereq[r]: request r
    sent,        \* history: sent[e]: how often e went to the stream
    replayed,    \* history: replayed[d]: how often as a dead letter
    billed,      \* the letters whose execution is recorded under their key
    discarded,   \* history: letters that were discarded
    slipped      \* history: letters in two hands at once, or sent and left open

eventVars == <<letter, topic, log, writing, today, ereq, sent, replayed, billed,
               discarded, slipped>>

EventOp == {"none", "ingest", "replay", "replayAll", "discard", "discardAll",
            "relog", "sweep"}
EventAt == {"start", "afford", "topic", "create", "send", "mark", "drop",
            "delete", "done"}

\* A request: the event or letter it is about, what it has still to publish,
\* the event in hand, and for a sweep its cutoff, batches and how it ended.
EventRequest ==
    [op : EventOp, event : Event, at : EventAt, todo : [Event -> Nat],
     cur : Event \cup {NoEvent}, cutoff : Int, batches : 0 .. MaxBatches,
     clean : BOOLEAN]

Days == 0 .. MaxDays

ASSUME EventAssumption ==
    /\ Letter \subseteq Event /\ NoEvent \notin Event
    /\ Retention \in Nat \ {0} /\ MaxDays \in Nat
    /\ Batch \in Nat \ {0} /\ MaxBatches \in Nat \ {0}
    /\ EventMix \subseteq [Request -> EventRequest]
    \* The requests and sweeps are still to come.
    /\ \A mix \in EventMix : \A r \in Request :
         /\ mix[r].at \in {"start", "done"} /\ mix[r].cur = NoEvent
         /\ mix[r].batches = 0 /\ ~mix[r].clean
         /\ mix[r].op \in {"replay", "discard"} => mix[r].event \in Letter

EventTypeOK ==
    /\ letter \in [Letter -> {"open", "resolved"}]
    /\ topic \in BOOLEAN
    /\ log \in [Event -> [Days -> Nat]]
    /\ writing \in [Event -> Nat]
    /\ today \in Days
    /\ ereq \in [Request -> EventRequest]
    /\ sent \in [Event -> Nat]
    /\ replayed \in [Letter -> Nat]
    /\ billed \cup discarded \cup slipped \subseteq Letter

EventStart ==
    /\ letter = [d \in Letter |-> "open"]
    /\ topic = FALSE
    /\ log = [e \in Event |-> [t \in Days |-> 0]]
    /\ writing = [e \in Event |-> 0]
    /\ today = 0
    /\ sent = [e \in Event |-> 0]
    /\ replayed = [d \in Letter |-> 0]
    /\ billed = {} /\ discarded = {} /\ slipped = {}

EventInit == EventStart /\ ereq \in EventMix

-----------------------------------------------------------------------------
Letters == <<letter, billed, discarded, slipped>>
Stream == <<topic, log, writing, today, sent, replayed>>

Being(r, step) == ereq[r].at = step
Asks(r, op) == Being(r, "start") /\ ereq[r].op = op
Move(r, step) == ereq' = [ereq EXCEPT ![r].at = step]

Nothing == [e \in Event |-> 0]
One(e) == [Nothing EXCEPT ![e] = 1]

\* r takes the next of todo in hand, or is done.
Take(r, todo) ==
    IF todo = Nothing
      THEN ereq' = [ereq EXCEPT ![r].at = "done", ![r].todo = todo,
                                ![r].cur = NoEvent]
      ELSE \E e \in {x \in Event : todo[x] > 0} :
             ereq' = [ereq EXCEPT ![r].at = "topic", ![r].cur = e,
                                  ![r].todo = [todo EXCEPT ![e] = @ - 1]]

\* The letters r has read as open and not yet dealt with.
Holding(r) ==
    IF ereq[r].op \notin {"replay", "replayAll"} \/ ereq[r].at \in {"start", "done"}
      THEN {}
      ELSE {d \in Letter : ereq[r].todo[d] > 0 \/ ereq[r].cur = d}

\* r reads D as open; another has some of them in hand.
Reads(r, D) ==
    slipped' = slipped \cup (D \cap UNION {Holding(q) : q \in Request \ {r}})

-----------------------------------------------------------------------------
(* The dead letter routes. *)

\* No credentials, not an admin, a bad date, the monthly limit, no client.
RefuseEvent(r) ==
    /\ Being(r, "start") /\ ereq[r].op # "sweep"
    /\ Move(r, "done")
    /\ UNCHANGED <<Letters, Stream>>

\* Mutant: a resolved letter may be replayed.
ReplayAnyLetter(r) ==
    /\ Asks(r, "replay")
    /\ LET d == ereq[r].event
       IN  Reads(r, {d}) /\ Take(r, One(d))
    /\ UNCHANGED <<letter, billed, discarded, Stream>>

\* POST /dlq/:id/replay reads the letter: 409 if it is resolved.
ReplayLetter(r) ==
    /\ Asks(r, "replay")
    /\ LET d == ereq[r].event
       IN  \/ letter[d] = "open" /\ Reads(r, {d}) /\ Take(r, One(d))
           \/ letter[d] = "resolved" /\ Move(r, "done") /\ UNCHANGED slipped
    /\ UNCHANGED <<letter, billed, discarded, Stream>>

\* POST /dlq/replay reads the open letters its filter and limit select,
ReplayLetters(r) ==
    /\ Asks(r, "replayAll")
    /\ \E D \in SUBSET {d \in Letter : letter[d] = "open"} :
         /\ Reads(r, D)
         /\ ereq' = [ereq EXCEPT
              ![r].at = IF D = {} THEN "done" ELSE "afford",
              ![r].todo = [e \in Event |-> IF e \in D THEN 1 ELSE 0]]
    /\ UNCHANGED <<letter, billed, discarded, Stream>>

\* and, if the month has room for all of them, sends one after the other.
AffordBatch(r) ==
    /\ Being(r, "afford")
    /\ Take(r, ereq[r].todo) \/ Move(r, "done")
    /\ UNCHANGED <<Letters, Stream>>

\* After a letter is sent it is marked, whoever marked it before, and its
\* execution recorded under its key, if that call arrives.  If the update fails
\* the single replay answers 500, the bulk replay counts it and goes on.
MarkLetter(r) ==
    /\ Being(r, "mark")
    /\ LET d == ereq[r].cur
       IN  \/ /\ letter' = [letter EXCEPT ![d] = "resolved"]
              /\ billed' \in {billed, billed \cup {d}}
              /\ UNCHANGED slipped
           \/ /\ slipped' = slipped \cup {d}
              /\ UNCHANGED <<letter, billed>>
    /\ Take(r, ereq[r].todo)
    /\ UNCHANGED <<discarded, Stream>>

DiscardLetter(r) ==
    /\ Asks(r, "discard")
    /\ Move(r, IF letter[ereq[r].event] = "open" THEN "drop" ELSE "done")
    /\ UNCHANGED <<Letters, Stream>>

DropLetter(r) ==
    /\ Being(r, "drop")
    /\ letter' = [letter EXCEPT ![ereq[r].event] = "resolved"]
    /\ discarded' = discarded \cup {ereq[r].event}
    /\ Move(r, "done")
    /\ UNCHANGED <<billed, slipped, Stream>>

\* POST /dlq/discard is one statement.
DiscardLetters(r) ==
    /\ Asks(r, "discardAll")
    /\ \E D \in SUBSET {d \in Letter : letter[d] = "open"} :
         /\ letter' = [d \in Letter |-> IF d \in D THEN "resolved" ELSE letter[d]]
         /\ discarded' = discarded \cup D
    /\ Move(r, "done")
    /\ UNCHANGED <<billed, slipped, Stream>>

-----------------------------------------------------------------------------
(* EventsClient.publish. *)

\* What a handler does when publish throws: the bulk replays go on.
PublishFails(r) ==
    Take(r, IF ereq[r].op \in {"replayAll", "relog"} THEN ereq[r].todo ELSE Nothing)

\* A publisher that finds no topic creates it; who comes second fails.
FindTopic(r) ==
    /\ Being(r, "topic")
    /\ Move(r, IF topic THEN "send" ELSE "create")
    /\ UNCHANGED <<Letters, Stream>>

CreateTopic(r) ==
    /\ Being(r, "create")
    /\ \/ ~topic /\ topic' = TRUE /\ Move(r, "send")
       \/ UNCHANGED topic /\ PublishFails(r)
    /\ UNCHANGED <<Letters, log, writing, today, sent, replayed>>

\* Mutants: the log is written first; a failed send goes unnoticed.
SendLoggedFirst(r) ==
    /\ Being(r, "send")
    /\ LET e == ereq[r].cur
           asLetter == ereq[r].op \in {"replay", "replayAll"}
       IN  /\ writing' = [writing EXCEPT ![e] = @ + 1]
           /\ \/ /\ sent' = [sent EXCEPT ![e] = @ + 1]
                 /\ IF asLetter
                      THEN /\ replayed' = [replayed EXCEPT ![e] = @ + 1]
                           /\ Move(r, "mark")
                      ELSE UNCHANGED replayed /\ Take(r, ereq[r].todo)
              \/ PublishFails(r) /\ UNCHANGED <<sent, replayed>>
    /\ UNCHANGED <<Letters, topic, log, today>>

SendUnchecked(r) ==
    /\ Being(r, "send")
    /\ LET e == ereq[r].cur
       IN  \/ /\ writing' = [writing EXCEPT ![e] = @ + 1]
              /\ sent' = [sent EXCEPT ![e] = @ + 1]
              /\ replayed' = [d \in Letter |->
                                replayed[d] + IF d = e THEN 1 ELSE 0]
           \/ UNCHANGED <<writing, sent, replayed>>
    /\ IF ereq[r].op \in {"replay", "replayAll"}
         THEN Move(r, "mark") ELSE Take(r, ereq[r].todo)
    /\ UNCHANGED <<Letters, topic, log, today>>

\* The message goes out, and a row of the log after it, which nobody awaits.  Or
\* the send throws, before the stream took the message or after, its answer lost:
\* then nothing is logged and a letter stays open.
SendEvent(r) ==
    /\ Being(r, "send")
    /\ LET e == ereq[r].cur
           asLetter == ereq[r].op \in {"replay", "replayAll"}
       IN  \/ /\ sent' = [sent EXCEPT ![e] = @ + 1]
              /\ writing' = [writing EXCEPT ![e] = @ + 1]
              /\ IF asLetter
                   THEN /\ replayed' = [replayed EXCEPT ![e] = @ + 1]
                        /\ Move(r, "mark")
                   ELSE UNCHANGED replayed /\ Take(r, ereq[r].todo)
              /\ UNCHANGED slipped
           \/ /\ sent' = [sent EXCEPT ![e] = @ + 1]
              /\ IF asLetter
                   THEN /\ replayed' = [replayed EXCEPT ![e] = @ + 1]
                        /\ slipped' = slipped \cup {e}
                   ELSE UNCHANGED <<replayed, slipped>>
              /\ PublishFails(r)
              /\ UNCHANGED writing
           \/ PublishFails(r) /\ UNCHANGED <<sent, writing, replayed, slipped>>
    /\ UNCHANGED <<letter, billed, discarded, topic, log, today>>

\* The insert is done, or fails.
WriteLog(e) ==
    /\ writing[e] > 0
    /\ writing' = [writing EXCEPT ![e] = @ - 1]
    /\ log' \in {log, [log EXCEPT ![e][today] = @ + 1]}
    /\ UNCHANGED <<Letters, topic, today, ereq, sent, replayed>>

\* POST /events, and the webhooks' best-effort publish.
Ingest(r) ==
    /\ Asks(r, "ingest")
    /\ Take(r, One(ereq[r].event))
    /\ UNCHANGED <<Letters, Stream>>

\* The rows of the log: of which event, of which day, and a number.
Rows == UNION {{e} \X {t} \X (1 .. log[e][t]) : e \in Event, t \in Days}

\* How many of the rows are of e.
Count(rows, e) == Cardinality({x \in rows : x[1] = e})

\* POST /events/replay reads the rows of its filter and limit and publishes
\* each, which logs it once more.
ReplayLog(r) ==
    /\ Asks(r, "relog")
    /\ \E some \in SUBSET Rows : Take(r, [e \in Event |-> Count(some, e)])
    /\ UNCHANGED <<Letters, Stream>>

-----------------------------------------------------------------------------
(* sweepEventLog. *)

\* With the lock, and a cutoff, or not at all.
StartSweep(r) ==
    /\ Asks(r, "sweep")
    /\ \/ ereq' = [ereq EXCEPT ![r].at = "delete", ![r].cutoff = today - Retention]
       \/ Move(r, "done")
    /\ UNCHANGED <<Letters, Stream>>

\* The rows before the cutoff.
Due(cutoff) == {x \in Rows : x[2] < cutoff}

\* The log without the rows of cut.
Without(cut) ==
    [e \in Event |-> [t \in Days |->
        log[e][t] - Cardinality({n \in 1 .. log[e][t] : <<e, t, n>> \in cut})]]

\* Mutant: a full batch is taken for the last.
LastBatchFull(deleted) == deleted <= Batch

LastBatch(deleted) == deleted < Batch

\* One DELETE of at most Batch rows; a short one is the last, and so is one too
\* many.
DeleteBatch(r) ==
    /\ Being(r, "delete")
    /\ LET due == Due(ereq[r].cutoff)
           batches == ereq[r].batches + 1
       IN  \E cut \in SUBSET due :
             LET deleted == Cardinality(cut)
             IN  /\ deleted = IF Cardinality(due) < Batch THEN Cardinality(due) ELSE Batch
                 /\ log' = Without(cut)
                 /\ ereq' = [ereq EXCEPT
                      ![r].batches = batches,
                      ![r].clean = LastBatch(deleted),
                      ![r].at = IF LastBatch(deleted) \/ batches = MaxBatches
                                  THEN "done" ELSE "delete"]
    /\ UNCHANGED <<Letters, topic, writing, today, sent, replayed>>

SweepFails(r) ==
    /\ Being(r, "delete")
    /\ Move(r, "done")
    /\ UNCHANGED <<Letters, Stream>>

-----------------------------------------------------------------------------
NextDay ==
    /\ today < MaxDays
    /\ today' = today + 1
    /\ UNCHANGED <<Letters, topic, log, writing, ereq, sent, replayed>>

InFlight == {r \in Request : ereq[r].at \notin {"start", "done"}}

\* The process dies: with its requests, and with the log's inserts.  A message
\* the stream took before that was sent, and its answer came, a step earlier.
Crash ==
    /\ InFlight # {} \/ writing # Nothing
    /\ ereq' = [r \in Request |-> IF r \in InFlight THEN [ereq[r] EXCEPT !.at = "done"]
                                                  ELSE ereq[r]]
    /\ writing' = Nothing
    /\ slipped' = slipped \cup {ereq[r].cur : r \in {q \in Request : Being(q, "mark")}}
    /\ UNCHANGED <<letter, billed, discarded, topic, log, today, sent, replayed>>

ServeEvent(r) ==
    \/ RefuseEvent(r) \/ Ingest(r)
    \/ ReplayLetter(r) \/ ReplayLetters(r) \/ AffordBatch(r) \/ MarkLetter(r)
    \/ DiscardLetter(r) \/ DropLetter(r) \/ DiscardLetters(r)
    \/ FindTopic(r) \/ CreateTopic(r) \/ SendEvent(r) \/ ReplayLog(r)
    \/ StartSweep(r) \/ DeleteBatch(r) \/ SweepFails(r)

EventNext ==
    \/ NextDay
    \/ Crash
    \/ \E e \in Event : WriteLog(e)
    \/ \E r \in Request : ServeEvent(r)

EventSpec == EventInit /\ [][EventNext]_eventVars

-----------------------------------------------------------------------------
(* A dead letter is replayed at most once, unless two replays had it in hand at
   the same time, or it was sent and then its answer was lost, its mark failed
   or the process died.                                                     *)
ReplayedOnce == \A d \in Letter : replayed[d] > 1 => d \in slipped

(* A dead letter that is resolved, or whose execution is billed, was sent; only
   a discard resolves it without.                                           *)
ResolvedWasSent ==
    /\ \A d \in Letter : letter[d] = "resolved" => replayed[d] > 0 \/ d \in discarded
    /\ \A d \in billed : replayed[d] > 0

(* The log never holds more of an event than went to the stream, although its
   rows are written behind the callers' back and replays log them again: no
   replay sends what was never sent.                                        *)
LoggedWasSent == \A e \in Event : Count(Rows, e) + writing[e] <= sent[e]

(* A sweep that ended by itself has left nothing that was due when it started,
   whatever was logged, replayed or swept beside it.                        *)
SweptClean ==
    \A r \in Request : ereq[r].op = "sweep" /\ ereq[r].clean => Due(ereq[r].cutoff) = {}
=============================================================================
