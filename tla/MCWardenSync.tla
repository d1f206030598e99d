---------------------------- MODULE MCWardenSync ----------------------------
(* Small instances of WardenSync. *)
EXTENDS WardenSync, TLC

\* u1 owns o1; u2 is a member of every organization.
OwnerAndMember ==
    [p \in Pair |-> IF p = <<"u1", "o1">> THEN "owner"
                    ELSE IF p[1] = "u2" THEN "member" ELSE "none"]
=============================================================================
