----------------------------- MODULE PlanLimits -----------------------------
(***************************************************************************)
(* The plan limits that every create handler reads before it inserts.  The *)
(* limit comes from the billing provider's cache, from the provider, or,   *)
(* when it does not answer, from the free tier's defaults, so two requests *)
(* at the same time may read different limits: a read is a choice out of   *)
(* LimitRead.                                                              *)
(***************************************************************************)
EXTENDS Integers, FiniteSets

CONSTANTS
    Request,    \* the requests that are served
    LimitRead   \* the limits a read may return

Unlimited == -1

ASSUME PlanAssumption ==
    /\ IsFiniteSet(Request)
    /\ LimitRead \subseteq Nat \cup {Unlimited}

\* Mutant: one too many.
UnderLimitOrAt(limit, count) == limit = Unlimited \/ count <= limit

\* assertUnderLimit, and the comparison the REST handlers spell out.
UnderLimit(limit, count) == limit = Unlimited \/ count < limit

\* Mutant: the batch is not budgeted, only its first execution.
WithinAllowanceOfOne(limit, count, additional) ==
    limit = Unlimited \/ count + 1 <= limit

\* The comparison of isExecutionAllowed.
WithinAllowance(limit, count, additional) ==
    limit = Unlimited \/ count + additional <= limit

\* A limit that every read honours.
Bounding(m) == m \in Nat /\ \A limit \in LimitRead : limit \in 0 .. m
=============================================================================
