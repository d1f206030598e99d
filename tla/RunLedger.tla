----------------------------- MODULE RunLedger -----------------------------
(***************************************************************************)
(* What the workflow_run table promises to its readers (run list, statistics, *)
(* SSE stream): a run is opened once, settles once, and a settled run is   *)
(* never open again.  Rows disappear only with their workflow.  Several    *)
(* rows may settle or disappear in one statement.                          *)
(***************************************************************************)
CONSTANT Run

VARIABLE ledger

LedgerState == {"none", "open", "settled", "gone"}

Init == ledger = [r \in Run |-> "none"]

\* The runs in S leave a state of From for the state to; the others stay.
Move(S, From, to) ==
    /\ \A r \in S : ledger[r] \in From
    /\ ledger' = [r \in Run |-> IF r \in S THEN to ELSE ledger[r]]

Open(S)   == Move(S, {"none"}, "open")
Settle(S) == Move(S, {"open"}, "settled")
Drop(S)   == Move(S, {"open", "settled"}, "gone")

Next == \E S \in SUBSET Run : Open(S) \/ Settle(S) \/ Drop(S)

Spec == Init /\ [][Next]_ledger
=============================================================================
