----------------------------- MODULE CacheLock -----------------------------
(***************************************************************************)
(* The lock keys in the cache: SET key token EX ttl NX to acquire, a       *)
(* compare-and-delete script to release.  Each acquisition draws a fresh   *)
(* random token; a token is abstracted to the holder that still knows it,  *)
(* and to Unknown once no process does (the answer to the SET was lost, or *)
(* the process died).  Without a cache, which production refuses, every    *)
(* acquisition succeeds; that mode is not modelled.                        *)
(***************************************************************************)
EXTENDS Integers

CONSTANTS
    Key,       \* what is locked
    Holder,    \* those who acquire
    Unknown,   \* a token nobody knows, not a holder
    LockTTL    \* the life of a key, in units of time

VARIABLE
    lock       \* lock[k]: the token under key k and the time it has left

LockTypeOK ==
    lock \in [Key -> [token : Holder \cup {Unknown}, ttl : Nat]]

NoEntry == [token |-> Unknown, ttl |-> 0]

LockInit == lock = [k \in Key |-> NoEntry]

Absent(k) == lock[k] = NoEntry

\* Mutant: the expiry option forgotten, the key lives for ever (TTL -1).
SetNXForever(k, token) ==
    /\ Absent(k)
    /\ lock' = [lock EXCEPT ![k] = [token |-> token, ttl |-> -1]]

\* The SET is executed and the key was absent.
SetNX(k, token) ==
    /\ Absent(k)
    /\ lock' = [lock EXCEPT ![k] = [token |-> token, ttl |-> LockTTL]]

\* Mutant: a plain DEL.
PlainDelete(k, h) == lock' = [lock EXCEPT ![k] = NoEntry]

\* The script deletes the key only if it still holds h's token.
CompareAndDelete(k, h) ==
    lock' = IF lock[k].token = h
              THEN [lock EXCEPT ![k] = NoEntry]
              ELSE lock

\* The holders in H are gone, their keys stay until they expire.
Orphan(H) ==
    lock' = [k \in Key |-> IF lock[k].token \in H
                             THEN [lock[k] EXCEPT !.token = Unknown]
                             ELSE lock[k]]

\* Time moves on; the keys whose time has come are gone.
Elapse ==
    lock' = [k \in Key |-> CASE lock[k].ttl = 1 -> NoEntry
                             [] lock[k].ttl > 1 -> [lock[k] EXCEPT !.ttl = @ - 1]
                             [] OTHER -> lock[k]]
=============================================================================
