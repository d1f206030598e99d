----------------------------- MODULE EventPlane -----------------------------
(***************************************************************************)
(* What flows through the system: events that are published, stored and    *)
(* replayed, endpoints that are polled, the runs' event streams, and the   *)
(* jobs that sweep up after them.  A trigger of one part ends in a         *)
(* publication or an execution that another module models in full; they    *)
(* share no variable, and the composition lets the requests of one part    *)
(* meet at a time.                                                         *)
(***************************************************************************)
EXTENDS EventReplay, PollingScan, RunStream, SweepLock

\* What the mix of a part holds while another part is busy.
Idling(mix) == {asks \in mix : \A r \in Request : asks[r].op = "none"}
IdleEvent == Idling(EventMix)
IdleStream == {asks \in StreamMix : \A r \in Request : asks[r].at = "none"}

FlowVars == <<eventVars, pollVars, streamVars, sweepVars>>

FlowInit ==
    /\ \E busy \in {"event", "poll", "stream", "sweep"} :
         /\ ereq \in IF busy = "event" THEN EventMix ELSE IdleEvent
         /\ poll = Polls(IF busy = "poll" THEN "idle" ELSE "done")
         /\ sreq \in IF busy = "stream" THEN StreamMix ELSE IdleStream
         /\ job \in IF busy = "sweep" THEN Job ELSE {"none"}
    /\ EventStart /\ PollStart /\ StreamStart /\ SweepStart

\* The world around a part changes while there is somebody to see it.
FlowNext ==
    \/ /\ \E r \in Request : ereq[r].op # "none"
       /\ EventNext
       /\ UNCHANGED <<pollVars, streamVars, sweepVars>>
    \/ /\ \E p \in Poll : poll[p].at # "done"
       /\ PollNext
       /\ UNCHANGED <<eventVars, streamVars, sweepVars>>
    \/ /\ \E r \in Request : sreq[r].at # "none"
       /\ StreamNext
       /\ UNCHANGED <<eventVars, pollVars, sweepVars>>
    \/ /\ job # "none"
       /\ SweepNext
       /\ UNCHANGED <<eventVars, pollVars, streamVars>>

FlowSpec == FlowInit /\ [][FlowNext]_FlowVars /\ StreamFairness /\ SweepFairness

FlowTypeOK ==
    /\ EventTypeOK
    /\ PollTypeOK
    /\ StreamTypeOK
    /\ SweepTypeOK
=============================================================================
