----------------------------- MODULE RunStream -----------------------------
(***************************************************************************)
(* The event streams of runs (GET /runs/:runId/stream) of one API process. *)
(* A counter keeps the streams that are open below a maximum; a stream     *)
(* ends on the run's last message, on a status poll that finds the run     *)
(* over, on an error of its subscriber, or on its timeout, whichever comes *)
(* first, and the others may still come after it.  The response has no     *)
(* cancel handler: a client that goes away ends nothing.                   *)
(***************************************************************************)
EXTENDS PlanLimits

CONSTANTS
    Runs,          \* the runs that are streamed
    MaxStreams,    \* MAX_SSE_CONNECTIONS
    StreamMix      \* the requests that are made

VARIABLES
    over,      \* the runs with a terminal status
    active,    \* activeSseConnections
    sreq,      \* sreq[r]: request r and its stream
    speak      \* history: the most requests past the check at once

streamVars == <<over, active, sreq, speak>>

StreamAt == {"none", "start", "run", "owner", "authorize", "open", "closed", "done"}

\* A request: its run, whether its user is known to the identity provider, the
\* status it read; of its stream, the subscription and whether a status poll is
\* under way.
StreamRequest ==
    [run : Runs, known : BOOLEAN, at : StreamAt, ended : BOOLEAN,
     sub : {"none", "joining", "on"}, polling : BOOLEAN]

ASSUME StreamAssumption ==
    /\ MaxStreams \in Nat \ {0}
    /\ StreamMix \subseteq [Request -> StreamRequest]
    /\ \A mix \in StreamMix : \A r \in Request : mix[r].at \in {"none", "start"}

StreamTypeOK ==
    /\ over \subseteq Runs
    /\ active \in Nat
    /\ sreq \in [Request -> StreamRequest]
    /\ speak \in 0 .. Cardinality(Request)

StreamStart ==
    /\ over = {}
    /\ active = 0
    /\ speak = 0

StreamInit == StreamStart /\ sreq \in StreamMix

-----------------------------------------------------------------------------
Where(r, at) == sreq[r].at = at
OpenStreams == {r \in Request : Where(r, "open")}

\* The requests that passed the check and are not yet counted.
Entering == {r \in Request : sreq[r].at \in {"run", "owner", "authorize"}}

Go(r, at) == sreq' = [sreq EXCEPT ![r].at = at]

FinishRun(x) ==
    /\ x \notin over
    /\ over' = over \cup {x}
    /\ UNCHANGED <<active, sreq, speak>>

-----------------------------------------------------------------------------
(* The handler, one step per await. *)

\* No credentials, no cache.
RefuseStream(r) ==
    /\ Where(r, "start")
    /\ Go(r, "done")
    /\ UNCHANGED <<over, active, speak>>

\* Mutant: the comparison lets one more in.
CheckCapacityLate(r) ==
    /\ Where(r, "start")
    /\ IF active > MaxStreams THEN Go(r, "done") /\ UNCHANGED speak
       ELSE /\ Go(r, "run")
            /\ speak' = IF Cardinality(Entering) < speak THEN speak
                                                ELSE Cardinality(Entering) + 1
    /\ UNCHANGED <<over, active>>

\* At the maximum a request is turned away.
CheckCapacity(r) ==
    /\ Where(r, "start")
    /\ IF active >= MaxStreams THEN Go(r, "done") /\ UNCHANGED speak
       ELSE /\ Go(r, "run")
            /\ speak' = IF Cardinality(Entering) < speak THEN speak
                                                ELSE Cardinality(Entering) + 1
    /\ UNCHANGED <<over, active>>

\* The run is read, or there is none.
ReadRun(r) ==
    /\ Where(r, "run")
    /\ \/ sreq' = [sreq EXCEPT ![r].at = "owner", ![r].ended = sreq[r].run \in over]
       \/ Go(r, "done")
    /\ UNCHANGED <<over, active, speak>>

\* The stream is counted and started: its timers run, its subscriber connects.
StartStream(r) ==
    /\ active' = active + 1
    /\ sreq' = [sreq EXCEPT ![r].at = "open", ![r].sub = "joining"]

\* The run's workflow is read: it must be the organization's.  A run that was
\* over when it was read is answered at once.  Only a known user is authorized.
ReadOwner(r) ==
    /\ Where(r, "owner")
    /\ \/ Go(r, "done") /\ UNCHANGED active
       \/ /\ ~sreq[r].ended
          /\ IF sreq[r].known THEN Go(r, "authorize") /\ UNCHANGED active
             ELSE StartStream(r)
    /\ UNCHANGED <<over, speak>>

AuthorizeStream(r) ==
    /\ Where(r, "authorize")
    /\ \/ StartStream(r)
       \/ Go(r, "done") /\ UNCHANGED active
    /\ UNCHANGED <<over, speak>>

-----------------------------------------------------------------------------
(* What ends a stream. *)

Close(record) == [record EXCEPT !.at = "closed", !.sub = "none"]

\* Mutant: the closed flag is forgotten.
CleanupTwice(r, record) ==
    /\ sreq' = [sreq EXCEPT ![r] = Close(record)]
    /\ active' = active - 1

\* cleanup: the first time it is called, the others do nothing.
Cleanup(r, record) ==
    IF Where(r, "closed") THEN sreq' = [sreq EXCEPT ![r] = record] /\ UNCHANGED active
    ELSE /\ sreq' = [sreq EXCEPT ![r] = Close(record)]
         /\ active' = active - 1

\* Mutant: the client is told, the stream stays.
TimeoutOnlyTells(r) ==
    /\ Where(r, "open")
    /\ UNCHANGED streamVars

\* The ten minutes are over.
StreamTimeout(r) ==
    /\ Where(r, "open")
    /\ Cleanup(r, sreq[r])
    /\ UNCHANGED <<over, speak>>

\* The poll's query goes out while the timer runs,
PollStatus(r) ==
    /\ Where(r, "open") /\ ~sreq[r].polling
    /\ sreq' = [sreq EXCEPT ![r].polling = TRUE]
    /\ UNCHANGED <<over, active, speak>>

\* and its answer comes, perhaps after the stream was closed, or it fails.
PollAnswered(r) ==
    /\ sreq[r].at \in {"open", "closed"} /\ sreq[r].polling
    /\ LET asked == [sreq[r] EXCEPT !.polling = FALSE]
       IN  \/ sreq[r].run \in over /\ Cleanup(r, asked)
           \/ sreq' = [sreq EXCEPT ![r] = asked] /\ UNCHANGED active
    /\ UNCHANGED <<over, speak>>

Subscribed(r) ==
    /\ Where(r, "open") /\ sreq[r].sub = "joining"
    /\ sreq' = [sreq EXCEPT ![r].sub = "on"]
    /\ UNCHANGED <<over, active, speak>>

\* Subscribing fails, or the connection is lost; either may be reported after
\* the stream was closed, and the one after the other.
SubscriberFails(r) ==
    /\ sreq[r].at \in {"open", "closed"}
    /\ Cleanup(r, sreq[r])
    /\ UNCHANGED <<over, speak>>

\* The run's last message, if it gets here.
LastMessage(r) ==
    /\ Where(r, "open") /\ sreq[r].sub = "on"
    /\ sreq[r].run \in over
    /\ Cleanup(r, sreq[r])
    /\ UNCHANGED <<over, speak>>

-----------------------------------------------------------------------------
ServeStream(r) ==
    \/ RefuseStream(r) \/ CheckCapacity(r) \/ ReadRun(r) \/ ReadOwner(r)
    \/ AuthorizeStream(r)
    \/ StreamTimeout(r) \/ PollStatus(r) \/ PollAnswered(r)
    \/ Subscribed(r) \/ SubscriberFails(r) \/ LastMessage(r)

StreamNext ==
    \/ \E x \in Runs : FinishRun(x)
    \/ \E r \in Request : ServeStream(r)

\* A timer of the runtime fires.
StreamFairness == \A r \in Request : WF_streamVars(StreamTimeout(r))

StreamSpec == StreamInit /\ [][StreamNext]_streamVars /\ StreamFairness

-----------------------------------------------------------------------------
(* The counter is the number of open streams, whatever ends a stream and
   however often it is told to end.                                        *)
SlotsExact == active = Cardinality(OpenStreams)

(* Checking and counting are several awaits apart, so there may be more streams
   than the maximum, but by no more than the requests that were in between at
   once less one.                                                          *)
SlotsHeld == active + 1 <= MaxStreams + speak

(* Every stream gives its slot back, also when its run never ends, its messages
   are lost, its polls fail and its client has gone.                       *)
SlotsReturned == \A r \in Request : Where(r, "open") ~> Where(r, "closed")
=============================================================================
