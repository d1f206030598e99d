------------------------- MODULE WardenSync_proofs -------------------------
(***************************************************************************)
(* Proofs about WardenSync, for any users, organizations, webhooks, ticks, *)
(* attempts and faults: every variable keeps its type, and Warden agrees   *)
(* with the table wherever nobody is at work any more.                     *)
(***************************************************************************)
EXTENDS WardenSync, TLAPS

Row(t) == <<t[1], t[3]>>
Right(t) == member[Row(t)] = t[2]

\* What a webhook says and how far its handler may be, by its type.
ShapeOf(e) ==
    LET ev == event[e]
    IN  /\ ev \in Webhook
        /\ pc[e] # "unsent"
        /\ ev.type = "deleted" => ev.user = "none" /\ pc[e] \in {"sent", "done"}
        /\ ev.type # "deleted" => ev.user \in User
        /\ ev.type \in {"created", "added"} =>
             /\ ev.old = "none" /\ ev.new \in Role
             /\ found[e] = "none"
             /\ pc[e] \in {"sent", "grant", "done"}
        /\ ev.type = "created" /\ pc[e] # "sent" => PairOf(e) \in excused
        /\ ev.type = "removed" =>
             /\ ev.old \in Role /\ ev.new = "none"
             /\ found[e] \in Role \cup {"none"}
             /\ pc[e] \in {"sent", "deleting", "revoke", "done"}
             /\ pc[e] = "revoke" => found[e] \in Role
        /\ ev.type = "role_changed" =>
             /\ ev.old \in Role /\ ev.new \in Role \ {ev.old}
             /\ pc[e] \in {"sent", "revoke", "lookup", "grant", "demote", "done"}
             /\ found[e] \in User \cup {"none"}
             /\ pc[e] \in {"sent", "revoke", "lookup"} => found[e] = "none"
             /\ pc[e] = "demote" => found[e] \in User
             /\ found[e] \in User => <<found[e], ev.org>> \in excused

Shapes == \A e \in Event : (pc[e] = "unsent" /\ found[e] = "none") \/ ShapeOf(e)

\* A call that may still be made: its item waits, or is in some tick's batch.
Outstanding(i) ==
    \/ queue[i].status = "pending"
    \/ \E p \in Poller : \E b \in batch[p] : b[1] = i

\* Only a handler that is past a call leaves it behind.
ItemMade(e, part) ==
    /\ pc[e] \notin {"unsent", "sent", "deleting", "revoke"}
    /\ part = "revoke" => /\ event[e].type \in {"removed", "role_changed"}
                          /\ event[e].type = "removed" => found[e] \in Role
    /\ part = "grant" => /\ event[e].type \in {"created", "added", "role_changed"}
                         /\ pc[e] = "done"
    /\ part = "demote" => /\ event[e].type = "role_changed"
                          /\ pc[e] = "done" /\ found[e] \in User

ItemsMade ==
    \A e \in Event, part \in Part : Outstanding(<<e, part>>) => ItemMade(e, part)

\* To repeat the call brings Warden nearer to the table.
CallRight(e, part) ==
    Row(TupleOf(e, part)) \notin excused =>
        (Right(TupleOf(e, part)) <=> part = "grant")

ItemsRight ==
    \A e \in Event, part \in Part : Outstanding(<<e, part>>) => CallRight(e, part)

AttemptsLeft ==
    /\ \A i \in Item : queue[i].status = "pending" => queue[i].attempts < MaxAttempts
    /\ \A p \in Poller : \A b \in batch[p] : b[2] < MaxAttempts

\* The table still says what a handler at work looked up or wrote.
HandlerRight(e) ==
    PairOf(e) \notin excused =>
        IF pc[e] = "deleting" THEN found[e] = member[PairOf(e)]
                              ELSE event[e].new = member[PairOf(e)]

HandlersRight == \A e \in Event : InFlight(e) => HandlerRight(e)

\* So it does for the reconciler and for a repair.
RepairRight ==
    \A t \in Tuple : Row(t) \notin excused =>
        /\ t \in wanted \cup repair.missing => Right(t)
        /\ t \in repair.orphans => ~Right(t)
        /\ repair.at = "drift" /\ Right(t) => t \in repair.missing

\* Where Warden disagrees with the table a call is still to come.
HandlerOwes(e, t) ==
    \/ pc[e] = "revoke" /\ t = TupleOf(e, "revoke")
    \/ /\ pc[e] \in {"revoke", "lookup", "grant"}
       /\ event[e].type # "removed"
       /\ t = TupleOf(e, "grant")

ItemOwes(i, t) == queue[i].status = "pending" /\ t = TupleOf(i[1], i[2])

Good(t) ==
    \/ t \in tuples <=> Right(t)
    \/ \E e \in Event : HandlerOwes(e, t)
    \/ \E i \in Item : ItemOwes(i, t)

Owed == \A t \in Tuple : Row(t) \notin excused => Good(t)

WardenInv ==
    /\ TypeOK
    /\ Shapes
    /\ ItemsMade
    /\ ItemsRight
    /\ AttemptsLeft
    /\ HandlersRight
    /\ RepairRight
    /\ Owed

-----------------------------------------------------------------------------
(* What a step may leave alone, part by part. *)

LEMMA TupleFields ==
  ASSUME NEW e \in Event
  PROVE  /\ TupleOf(e, "grant") = <<event[e].user, event[e].new, event[e].org>>
         /\ TupleOf(e, "demote") = <<found[e], "owner", event[e].org>>
         /\ event[e].type = "removed" =>
              TupleOf(e, "revoke") = <<event[e].user, found[e], event[e].org>>
         /\ event[e].type # "removed" =>
              TupleOf(e, "revoke") = <<event[e].user, event[e].old, event[e].org>>
  BY DEF TupleOf

LEMMA RowOfCall ==
  ASSUME NEW e \in Event
  PROVE  /\ Row(TupleOf(e, "grant")) = PairOf(e)
         /\ Row(TupleOf(e, "revoke")) = PairOf(e)
         /\ Row(TupleOf(e, "demote")) = <<found[e], event[e].org>>
         /\ \A part \in Part : PairOfItem(<<e, part>>) = Row(TupleOf(e, part))
  BY DEF TupleOf, Row, PairOf, PairOfItem, Part

LEMMA Calls ==
  ASSUME NEW f, event'[f] = event[f], found'[f] = found[f]
  PROVE  PairOf(f)' = PairOf(f) /\ \A part \in Part : TupleOf(f, part)' = TupleOf(f, part)
  BY DEF PairOf, TupleOf, Part

\* Nothing happens to the handlers of other webhooks than e.
Others(e) ==
    \A f \in Event \ {e} :
        event'[f] = event[f] /\ pc'[f] = pc[f] /\ found'[f] = found[f]

LEMMA ShapesKept ==
  ASSUME Shapes, NEW e \in Event, Others(e), excused \subseteq excused',
         ShapeOf(e)' \/ (UNCHANGED <<event[e], pc[e], found[e]>>)
  PROVE  Shapes'
  BY DEF Shapes, ShapeOf, Others, PairOf

LEMMA MadeKept ==
  ASSUME ItemsMade, NEW e \in Event, Others(e),
         \A f \in Event, part \in Part :
            Outstanding(<<f, part>>)' => Outstanding(<<f, part>>) \/ ItemMade(f, part)',
         \A part \in Part :
            Outstanding(<<e, part>>) /\ ItemMade(e, part) => ItemMade(e, part)'
  PROVE  ItemsMade'
  BY DEF ItemsMade, ItemMade, Others

LEMMA RightKept ==
  ASSUME ItemsRight, NEW e \in Event, Others(e), excused \subseteq excused',
         \A f \in Event, part \in Part :
            Outstanding(<<f, part>>)' => Outstanding(<<f, part>>) \/ CallRight(f, part)',
         \A part \in Part :
            Outstanding(<<e, part>>) => TupleOf(e, part)' = TupleOf(e, part),
         \A f \in Event, part \in Part :
            Outstanding(<<f, part>>) /\ Row(TupleOf(f, part)) \notin excused' =>
              member'[Row(TupleOf(f, part))] = member[Row(TupleOf(f, part))]
  PROVE  ItemsRight'
  <1> SUFFICES ASSUME NEW f \in Event, NEW part \in Part,
                      Outstanding(<<f, part>>), ~CallRight(f, part)'
               PROVE  FALSE
    BY DEF ItemsRight
  <1>1. TupleOf(f, part)' = TupleOf(f, part)
    BY Calls DEF Others
  <1>2. CallRight(f, part)
    BY DEF ItemsRight
  <1> QED
    BY <1>1, <1>2 DEF CallRight, Right, Row

LEMMA HandlersKept ==
  ASSUME HandlersRight, NEW e \in Event, Others(e), excused \subseteq excused',
         InFlight(e)' => HandlerRight(e)',
         \A f \in Event \ {e} : InFlight(f) /\ PairOf(f) \notin excused' =>
            member'[PairOf(f)] = member[PairOf(f)]
  PROVE  HandlersRight'
  <1> SUFFICES ASSUME NEW f \in Event \ {e}, InFlight(f)'
               PROVE  HandlerRight(f)'
    BY DEF HandlersRight
  <1>1. InFlight(f) /\ HandlerRight(f) /\ PairOf(f)' = PairOf(f)
    BY Calls DEF HandlersRight, Others, InFlight
  <1> QED
    BY <1>1 DEF HandlerRight, Others

LEMMA RepairKept ==
  ASSUME RepairRight, UNCHANGED <<wanted, repair>>, excused \subseteq excused',
         \A t \in Tuple :
            /\ Row(t) \notin excused'
            /\ t \in wanted \cup repair.missing \cup repair.orphans \/ repair.at = "drift"
            => member'[Row(t)] = member[Row(t)]
  PROVE  RepairRight'
  BY DEF RepairRight, Right, Row

LEMMA OwedKept ==
  ASSUME Owed, excused \subseteq excused',
         \A t \in Tuple : Row(t) \notin excused' =>
            \/ Good(t)'
            \/ /\ t \in tuples' <=> t \in tuples
               /\ member'[Row(t)] = member[Row(t)]
               /\ \A f \in Event : HandlerOwes(f, t) => HandlerOwes(f, t)'
               /\ \A i \in Item : ItemOwes(i, t) => ItemOwes(i, t)'
  PROVE  Owed'
  <1> SUFFICES ASSUME NEW t \in Tuple, Row(t) \notin excused', ~Good(t)'
               PROVE  FALSE
    BY DEF Owed, Row
  <1>1. Good(t)
    BY DEF Owed
  <1>2. /\ t \in tuples' <=> t \in tuples
        /\ Right(t)' <=> Right(t)
        /\ \A f \in Event : HandlerOwes(f, t) => HandlerOwes(f, t)'
        /\ \A i \in Item : ItemOwes(i, t) => ItemOwes(i, t)'
    BY DEF Right, Row
  <1> QED
    BY <1>1, <1>2 DEF Good

-----------------------------------------------------------------------------
(* The pollers, the reconciler and the repairs: rows and handlers rest. *)

\* A call in Warden, if it makes the tuple what the table says, or not at all.
Nearer ==
    \A t \in Tuple : Row(t) \notin excused =>
        (t \in tuples' <=> t \in tuples) \/ (t \in tuples' <=> Right(t))

LEMMA Quiet ==
  ASSUME WardenInv, TypeOK', UNCHANGED <<rows, handlers>>, excused \subseteq excused',
         \A i \in Item : Outstanding(i)' => Outstanding(i),
         AttemptsLeft', RepairRight', Nearer,
         \A t \in Tuple, i \in Item :
            Row(t) \notin excused' /\ ItemOwes(i, t) =>
               ItemOwes(i, t)' \/ (t \in tuples' <=> Right(t))
  PROVE  WardenInv'
  <1> USE DEF rows, handlers
  <1>1. Shapes'
    BY DEF WardenInv, Shapes, ShapeOf, PairOf
  <1>2. \A e \in Event, part \in Part :
          /\ Outstanding(<<e, part>>)' => Outstanding(<<e, part>>)
          /\ TupleOf(e, part)' = TupleOf(e, part)
    BY DEF TupleOf, Item, Part
  <1>3. ItemsMade'
    BY <1>2 DEF WardenInv, ItemsMade, ItemMade
  <1>4. ItemsRight'
    <2> SUFFICES ASSUME NEW e \in Event, NEW part \in Part, Outstanding(<<e, part>>)'
                 PROVE  CallRight(e, part)'
      BY DEF ItemsRight
    <2>1. CallRight(e, part)
      BY <1>2 DEF WardenInv, ItemsRight
    <2> QED
      BY <1>2, <2>1 DEF CallRight, Right, Row
  <1>5. HandlersRight'
    BY DEF WardenInv, HandlersRight, HandlerRight, InFlight, PairOf
  <1>6. Owed'
    <2>1. \A t \in Tuple, f \in Event : HandlerOwes(f, t) => HandlerOwes(f, t)'
      BY DEF HandlerOwes, TupleOf
    <2>2. \A t \in Tuple : Right(t)' <=> Right(t)
      BY DEF Right, Row
    <2> SUFFICES ASSUME NEW t \in Tuple, Row(t) \notin excused', ~Good(t)'
                 PROVE  FALSE
      BY DEF Owed, Row
    <2>3. Row(t) \notin excused /\ Good(t)
      BY DEF WardenInv, Owed
    <2>4. ~(t \in tuples' <=> Right(t))
      BY <2>2 DEF Good
    <2>5. (t \in tuples' <=> t \in tuples)
      BY <2>3, <2>4 DEF Nearer
    <2>6. \/ \E f \in Event : HandlerOwes(f, t)
          \/ \E i \in Item : ItemOwes(i, t)
      BY <2>3, <2>4, <2>5 DEF Good
    <2> QED
      BY <2>1, <2>4, <2>6 DEF Good
  <1> QED
    BY <1>1, <1>3, <1>4, <1>5, <1>6 DEF WardenInv

\* An item of a batch or of the queue stands for a call.
LEMMA ItemCall ==
  ASSUME NEW i \in Item
  PROVE  /\ i[1] \in Event /\ i[2] \in Part
         /\ i = <<i[1], i[2]>>
         /\ PairOfItem(i) = Row(TupleOf(i[1], i[2]))
  BY RowOfCall DEF Item

\* The pair an item is about.
LEMMA PairMade ==
  ASSUME NEW e \in Event, NEW part \in Part, ItemMade(e, part), ShapeOf(e)
  PROVE  Row(TupleOf(e, part)) \in Pair
  <1>1. event[e].org \in Org /\ (event[e].type # "deleted" => event[e].user \in User)
    BY DEF ShapeOf, Webhook
  <1>2. event[e].type # "deleted"
    BY DEF ItemMade, Part
  <1>3. part = "demote" => found[e] \in User
    BY DEF ItemMade
  <1>4. PairOf(e) \in Pair
    BY <1>1, <1>2 DEF PairOf, Pair
  <1>5. part = "demote" => <<found[e], event[e].org>> \in Pair
    BY <1>1, <1>3 DEF Pair
  <1> QED
    BY <1>4, <1>5, RowOfCall DEF Part

\* What the call of an outstanding item makes of Warden's tuples.
LEMMA Repeated ==
  ASSUME WardenInv, NEW i \in Item, Outstanding(i),
         tuples' \in {tuples, Applied(i[1], i[2])}
  PROVE  /\ tuples' \subseteq Tuple
         /\ Nearer
         /\ Row(TupleOf(i[1], i[2])) \in Pair
         /\ tuples' = Applied(i[1], i[2]) =>
              LET t == TupleOf(i[1], i[2])
              IN  Row(t) \notin excused => (t \in tuples' <=> Right(t))
  <1> DEFINE e == i[1]  part == i[2]  T == TupleOf(e, part)
  <1>1. e \in Event /\ part \in Part /\ Outstanding(<<e, part>>)
    BY ItemCall
  <1>2. CallRight(e, part) /\ ItemMade(e, part) /\ ShapeOf(e)
    BY <1>1 DEF WardenInv, ItemsRight, ItemsMade, Shapes, ItemMade
  <1>3. part = "grant" => T \in Tuple
    BY <1>1, <1>2, TupleFields DEF ItemMade, ShapeOf, Tuple, Webhook
  <1>4. tuples' = Applied(e, part) =>
          IF part = "grant" THEN tuples' = tuples \cup {T} ELSE tuples' = tuples \ {T}
    BY DEF Applied
  <1>5. tuples' \subseteq Tuple
    BY <1>3, <1>4 DEF WardenInv, TypeOK
  <1>6. tuples' = Applied(e, part) /\ Row(T) \notin excused =>
          (T \in tuples' <=> Right(T))
    BY <1>2, <1>4 DEF CallRight
  <1>7. \A t \in Tuple : t # T => (t \in tuples' <=> t \in tuples)
    BY <1>4
  <1>8. Row(T) \in Pair
    BY <1>1, <1>2, PairMade
  <1> HIDE DEF T
  <1>9. Nearer
    BY <1>6, <1>7 DEF Nearer
  <1> QED
    BY <1>5, <1>6, <1>8, <1>9 DEF T

LEMMA PollStartStep ==
  ASSUME WardenInv, NEW p \in Poller, PollStart(p)
  PROVE  WardenInv'
  <1> USE DEF PollStart
  <1>1. PICK Due \in SUBSET {i \in Item : queue[i].status = "pending"} :
          batch' = [batch EXCEPT ![p] = {<<i, queue[i].attempts>> : i \in Due}]
    OBVIOUS
  <1>2. \A i \in Due : /\ i \in Item /\ queue[i].status = "pending"
                       /\ queue[i].attempts \in 0 .. MaxAttempts
                       /\ queue[i].attempts < MaxAttempts
    BY DEF WardenInv, TypeOK, AttemptsLeft
  <1>3. {<<i, queue[i].attempts>> : i \in Due} \in SUBSET (Item \X (0 .. MaxAttempts))
    BY <1>2
  <1>4. TypeOK'
    BY <1>1, <1>3 DEF WardenInv, TypeOK, truth, rows, handlers
  <1>5. \A q \in Poller : \A b \in batch'[q] :
          b \in batch[q] \/ \E i \in Due : b = <<i, queue[i].attempts>>
    BY <1>1 DEF WardenInv, TypeOK
  <1>6. \A i \in Item : Outstanding(i)' => Outstanding(i)
    BY <1>2, <1>5 DEF Outstanding
  <1>7. AttemptsLeft'
    BY <1>2, <1>5 DEF AttemptsLeft, WardenInv
  <1>8. RepairRight' /\ Nearer
    BY DEF WardenInv, RepairRight, Nearer, Right, Row, rows
  <1>9. \A t \in Tuple, i \in Item : ItemOwes(i, t) => ItemOwes(i, t)'
    BY DEF ItemOwes, TupleOf, handlers
  <1> QED
    BY <1>4, <1>6, <1>7, <1>8, <1>9, Quiet

LEMMA RetryStep ==
  ASSUME WardenInv, NEW p \in Poller, NEW b \in batch[p], Retry(p, b[1], b[2])
  PROVE  WardenInv'
  <1> DEFINE i == b[1]  n == b[2]  T == TupleOf(i[1], i[2])
  <1> USE DEF Retry
  <1>1. i \in Item /\ n \in 0 .. MaxAttempts /\ n < MaxAttempts
    BY DEF WardenInv, TypeOK, AttemptsLeft
  <1>2. Outstanding(i) /\ tuples' \in {tuples, Applied(i[1], i[2])}
    BY DEF Outstanding
  <1>3. PairOfItem(i) = Row(T)
    BY <1>1, ItemCall
  <1>4. PICK status \in {"pending", "completed", "failed"} :
          /\ queue' = [queue EXCEPT ![i] = [status |-> status, attempts |-> n + 1]]
          /\ status = "pending" => n + 1 < MaxAttempts
          /\ status = "completed" => tuples' = Applied(i[1], i[2])
          /\ status = "failed" => Row(T) \in excused'
    <2>1. Exhausted(n + 1) \/ n + 1 < MaxAttempts
      BY <1>1, WardenAssumption DEF Exhausted
    <2> QED
      BY <1>3, <2>1
  <1>5. excused' \in {excused, excused \cup {Row(T)}}
    BY <1>3
  <1> HIDE DEF Retry
  <1>6. UNCHANGED <<rows, handlers>> /\ UNCHANGED <<truth, reconciler, wanted, repair, faults>>
    BY DEF Retry
  <1>7. \A j \in Item : queue'[j] = IF j = i THEN [status |-> status, attempts |-> n + 1]
                                              ELSE queue[j]
    BY <1>1, <1>4 DEF WardenInv, TypeOK
  <1>8. /\ batch' = [batch EXCEPT ![p] = @ \ {<<i, n>>}]
        /\ \A q \in Poller : batch'[q] \subseteq batch[q]
    BY DEF Retry, WardenInv, TypeOK
  <1>9. /\ tuples' \subseteq Tuple /\ Nearer /\ Row(T) \in Pair
        /\ status = "completed" /\ Row(T) \notin excused =>
              (T \in tuples' <=> Right(T))
    BY <1>1, <1>2, <1>4, Repeated
  <1>10. TypeOK'
    <2>1. [status |-> status, attempts |-> n + 1]
             \in [status : {"none", "pending", "completed", "failed"},
                 attempts : 0 .. MaxAttempts]
      BY <1>1, WardenAssumption
    <2>2. queue' \in [Item -> [status : {"none", "pending", "completed", "failed"},
                              attempts : 0 .. MaxAttempts]]
      BY <1>4, <2>1 DEF WardenInv, TypeOK
    <2>3. batch' \in [Poller -> SUBSET (Item \X (0 .. MaxAttempts))]
      BY <1>8 DEF WardenInv, TypeOK
    <2>4. excused' \subseteq Pair
      BY <1>5, <1>9 DEF WardenInv, TypeOK
    <2> QED
      BY <1>6, <1>9, <2>2, <2>3, <2>4 DEF WardenInv, TypeOK, truth, rows, handlers
  <1>11. \A j \in Item : Outstanding(j)' => Outstanding(j)
    BY <1>2, <1>7, <1>8 DEF Outstanding
  <1>12. AttemptsLeft'
    BY <1>4, <1>7, <1>8 DEF AttemptsLeft, WardenInv
  <1>13. RepairRight'
    BY <1>5, <1>6 DEF WardenInv, RepairRight, Right, Row, rows
  <1>14. ASSUME NEW t \in Tuple, NEW j \in Item, Row(t) \notin excused', ItemOwes(j, t)
         PROVE  ItemOwes(j, t)' \/ (t \in tuples' <=> Right(t))
    <2>1. TupleOf(j[1], j[2])' = TupleOf(j[1], j[2])
      BY <1>6 DEF TupleOf, handlers
    <2>2. CASE j # i
      BY <1>7, <1>14, <2>1, <2>2 DEF ItemOwes
    <2>3. CASE j = i
      <3>1. t = T
        BY <1>14, <2>3 DEF ItemOwes
      <3>2. status # "failed" /\ Row(T) \notin excused
        BY <1>4, <1>5, <1>14, <3>1
      <3>3. CASE status = "completed"
        BY <1>9, <3>1, <3>2, <3>3
      <3>4. CASE status = "pending"
        BY <1>7, <1>14, <2>1, <2>3, <3>4 DEF ItemOwes
      <3> QED
        BY <3>2, <3>3, <3>4
    <2> QED
      BY <2>2, <2>3
  <1> QED
    BY <1>5, <1>6, <1>9, <1>10, <1>11, <1>12, <1>13, <1>14, Quiet

LEMMA PollAbortStep ==
  ASSUME WardenInv, NEW p \in Poller, PollAbort(p)
  PROVE  WardenInv'
  <1>1. /\ UNCHANGED <<rows, handlers>>
        /\ UNCHANGED <<truth, queue, reconciler, wanted, repair, excused>>
        /\ faults' \in 0 .. MaxFaults
    BY WardenAssumption DEF PollAbort, Fault, WardenInv, TypeOK
  <1>2. batch' \in [Poller -> SUBSET (Item \X (0 .. MaxAttempts))]
        /\ \A q \in Poller : batch'[q] \subseteq batch[q]
    BY DEF PollAbort, WardenInv, TypeOK
  <1>3. PICK b \in batch[p] : tuples' \in {tuples, Applied(b[1][1], b[1][2])}
    BY DEF PollAbort
  <1>4. b[1] \in Item /\ Outstanding(b[1])
    BY DEF WardenInv, TypeOK, Outstanding
  <1>5. tuples' \subseteq Tuple /\ Nearer
    BY <1>3, <1>4, Repeated
  <1>6. TypeOK'
    BY <1>1, <1>2, <1>5 DEF WardenInv, TypeOK, truth, rows, handlers
  <1>7. \A i \in Item : Outstanding(i)' => Outstanding(i)
    BY <1>1, <1>2 DEF Outstanding
  <1>8. AttemptsLeft' /\ RepairRight'
    BY <1>1, <1>2 DEF WardenInv, AttemptsLeft, RepairRight, Right, Row, rows
  <1>9. \A t \in Tuple, i \in Item : ItemOwes(i, t) => ItemOwes(i, t)'
    BY <1>1 DEF ItemOwes, TupleOf, handlers
  <1> QED
    BY <1>1, <1>5, <1>6, <1>7, <1>8, <1>9, Quiet

\* The reconciler and the repairs: what they write is in the table, and what
\* they delete is not.
LEMMA Repairs ==
  ASSUME WardenInv, UNCHANGED <<rows, handlers>>, UNCHANGED <<truth, queue, batch, excused>>,
         tuples' \subseteq Tuple, Nearer,
         reconciler' \in {"idle", "expecting", "writing"}, wanted' \subseteq Tuple,
         repair' \in Repair, faults' \in 0 .. MaxFaults, RepairRight'
  PROVE  WardenInv'
  <1>1. TypeOK'
    BY DEF WardenInv, TypeOK, truth, rows, handlers
  <1>2. AttemptsLeft' /\ \A i \in Item : Outstanding(i)' => Outstanding(i)
    BY DEF WardenInv, AttemptsLeft, Outstanding
  <1>3. \A t \in Tuple, i \in Item : ItemOwes(i, t) => ItemOwes(i, t)'
    BY DEF ItemOwes, TupleOf, handlers
  <1> QED
    BY <1>1, <1>2, <1>3, Quiet

LEMMA TableTuples ==
  ASSUME NEW t \in Tuple
  PROVE  t \in TuplesOf(member) <=> Right(t)
  BY DEF TuplesOf, Right, Row

LEMMA ReconcileSteps ==
  ASSUME WardenInv, Reconcile
  PROVE  WardenInv'
  <1>1. /\ UNCHANGED <<rows, handlers>> /\ UNCHANGED <<truth, queue, batch, excused>>
        /\ UNCHANGED <<repair, faults>>
        /\ reconciler' \in {"idle", "expecting", "writing"}
    BY DEF Reconcile, buildExpectedTuples, fetchActualTuples, RestoreAll,
           ReconcileFails, WriteMissing, Reconciling
  <1>2. /\ tuples \subseteq tuples' /\ tuples' \subseteq tuples \cup wanted
        /\ wanted' \in {{}, TuplesOf(member), wanted \ tuples}
    BY DEF Reconcile, buildExpectedTuples, fetchActualTuples, RestoreAll,
           ReconcileFails, WriteMissing
  <1>3. \A t \in wanted : t \in Tuple /\ (Row(t) \notin excused => Right(t))
    BY DEF WardenInv, TypeOK, RepairRight
  <1>4. tuples' \subseteq Tuple /\ Nearer
    BY <1>2, <1>3 DEF WardenInv, TypeOK, Nearer
  <1>5. wanted' \subseteq Tuple
    BY <1>2 DEF WardenInv, TypeOK, TuplesOf
  <1>6. \A t \in wanted' : t \in wanted \/ Right(t)
    BY <1>2, <1>5, TableTuples
  <1>7. RepairRight'
    BY <1>1, <1>6 DEF WardenInv, RepairRight, Right, Row, rows
  <1>8. repair' \in Repair /\ faults' \in 0 .. MaxFaults
    BY <1>1 DEF WardenInv, TypeOK
  <1> QED
    BY <1>1, <1>4, <1>5, <1>7, <1>8, Repairs

LEMMA RepairFields ==
  ASSUME WardenInv
  PROVE  /\ repair \in Repair
         /\ repair.missing \subseteq Tuple /\ repair.orphans \subseteq Tuple
         /\ \A t \in repair.missing : Row(t) \notin excused => Right(t)
         /\ \A t \in repair.orphans : Row(t) \notin excused => ~Right(t)
  BY DEF WardenInv, TypeOK, RepairRight, Repair

LEMMA RepairMoves ==
  ASSUME WardenInv, RouteRepair \/ ScriptRepair
  PROVE  WardenInv'
  <1>0. UNCHANGED faults \/ Fault => faults' \in 0 .. MaxFaults
    BY WardenAssumption DEF Fault, WardenInv, TypeOK
  <1> USE DEF RouteRepair, ScriptRepair, RepairSteps, RepairReads, computeDrift,
              DriftUnread, RepairWrites, RepairDeletes, RepairEnds, Repairing
  <1>1. /\ UNCHANGED <<rows, handlers>> /\ UNCHANGED <<truth, queue, batch, excused>>
        /\ UNCHANGED <<reconciler, wanted>>
    OBVIOUS
  <1>2. faults' \in 0 .. MaxFaults
    <2>1. UNCHANGED faults \/ Fault
      OBVIOUS
    <2> QED
      BY <1>0, <2>1
  <1>3. /\ tuples' \subseteq Tuple
        /\ Nearer
    <2>1. \/ tuples' = tuples
          \/ \E Written \in SUBSET repair.missing : tuples' = tuples \cup Written
          \/ \E Deleted \in SUBSET repair.orphans : tuples' = tuples \ Deleted
      OBVIOUS
    <2> QED
      BY <2>1, RepairFields DEF WardenInv, TypeOK, Nearer
  <1>4. PICK by \in {"route", "script"} :
          \/ RepairReads(by)
          \/ \E deleteOrphans \in BOOLEAN : computeDrift(by, deleteOrphans)
          \/ repair.at = "drift" /\ repair' = [repair EXCEPT !.at = "write"]
          \/ repair' = [repair EXCEPT !.at = "delete", !.missing = {}]
          \/ repair' = NoRepair
    OBVIOUS
  <1>5. repair' \in Repair /\ RepairRight'
    <2>1. ASSUME NEW r \in Repair, repair' = r,
                 \A t \in r.missing : Row(t) \notin excused => Right(t),
                 \A t \in r.orphans : Row(t) \notin excused => ~Right(t),
                 r.at = "drift" => \A t \in Tuple : Right(t) => t \in r.missing
          PROVE  repair' \in Repair /\ RepairRight'
      BY <1>1, <2>1 DEF WardenInv, RepairRight, Right, Row, rows
    <2>2. CASE RepairReads(by)
      <3> DEFINE r == [by |-> by, at |-> "drift", missing |-> TuplesOf(member),
                       orphans |-> {}]
      <3>1. repair' = r
        BY <2>2 DEF NoRepair
      <3>2. r \in Repair
        BY DEF Repair, TuplesOf
      <3>3. \A t \in Tuple : t \in r.missing <=> Right(t)
        BY TableTuples
      <3> QED
        BY <2>1, <3>1, <3>2, <3>3 DEF TuplesOf
    <2>3. ASSUME NEW deleteOrphans \in BOOLEAN, computeDrift(by, deleteOrphans)
          PROVE  repair' \in Repair /\ RepairRight'
      <3> DEFINE r == [by |-> repair.by, at |-> "write",
                       missing |-> repair.missing \ tuples,
                       orphans |-> IF deleteOrphans THEN tuples \ repair.missing ELSE {}]
      <3>1. repair' = r /\ repair.at = "drift"
        BY <2>3, RepairFields DEF Repair
      <3>2. r \in Repair
        BY RepairFields DEF Repair, WardenInv, TypeOK
      <3>3. \A t \in Tuple : Row(t) \notin excused /\ Right(t) => t \in repair.missing
        BY <3>1 DEF WardenInv, RepairRight
      <3>4. \A t \in r.orphans : t \in Tuple /\ t \notin repair.missing
        BY DEF WardenInv, TypeOK
      <3> QED
        BY <2>1, <3>1, <3>2, <3>3, <3>4, RepairFields
    <2>4. CASE repair.at = "drift" /\ repair' = [repair EXCEPT !.at = "write"]
      <3> DEFINE r == [by |-> repair.by, at |-> "write",
                       missing |-> repair.missing, orphans |-> repair.orphans]
      <3>1. repair' = r /\ r \in Repair
        BY <2>4, RepairFields DEF Repair
      <3> QED
        BY <2>1, <3>1, RepairFields
    <2>5. CASE repair' = [repair EXCEPT !.at = "delete", !.missing = {}]
      <3> DEFINE r == [by |-> repair.by, at |-> "delete",
                       missing |-> {}, orphans |-> repair.orphans]
      <3>1. repair' = r /\ r \in Repair
        BY <2>5, RepairFields DEF Repair
      <3> QED
        BY <2>1, <3>1, RepairFields
    <2>6. CASE repair' = NoRepair
      <3>1. NoRepair \in Repair
        BY DEF NoRepair, Repair
      <3> QED
        BY <2>1, <2>6, <3>1 DEF NoRepair
    <2> QED
      BY <1>4, <2>2, <2>3, <2>4, <2>5, <2>6
  <1>6. reconciler' \in {"idle", "expecting", "writing"} /\ wanted' \subseteq Tuple
    BY <1>1 DEF WardenInv, TypeOK
  <1> QED
    BY <1>1, <1>2, <1>3, <1>5, <1>6, Repairs

-----------------------------------------------------------------------------
(* The handlers' calls of Warden: rows rest, a call is made or left behind. *)

Label == {"unsent", "sent", "deleting", "revoke", "lookup", "grant", "demote", "done"}

\* What a call leaves: Again are the calls that are queued if it fails.
LEMMA CallEffect ==
  ASSUME WardenInv, NEW e \in Event, NEW part \in Part, NEW Again \in SUBSET Part,
         NEW label, NEW next \in Label, NEW onFailure \in Label, part \in Again,
         part = "grant" => TupleOf(e, part) \in Tuple, PairOf(e) \in Pair,
         Calling(e, label), Call(e, part, Again, next, onFailure)
  PROVE  /\ TypeOK'
         /\ UNCHANGED <<rows, event, found, batch, wanted, repair>>
         /\ Others(e)
         /\ pc'[e] \in {next, onFailure}
         /\ excused \subseteq excused'
         /\ tuples' \in {tuples, Applied(e, part)}
         /\ \A i \in Item :
              \/ queue'[i] = queue[i]
              \/ /\ i \in {e} \X Again /\ pc'[e] = onFailure
                 /\ queue'[i].status = "pending" /\ queue'[i].attempts = 0
         /\ \/ tuples' = Applied(e, part)
            \/ PairOf(e) \in excused'
            \/ queue'[<<e, part>>].status = "pending"
  <1>1. UNCHANGED <<rows, event, found, batch, wanted, repair>> /\ UNCHANGED <<truth, reconciler>>
    BY DEF Calling
  <1>2. PICK l \in {next, onFailure} : pc' = [pc EXCEPT ![e] = l]
    BY DEF Call, Goto
  <1>3. tuples' \in {tuples, Applied(e, part)}
    BY DEF Call
  <1>4. excused' \in {excused, excused \cup {PairOf(e)}}
    BY DEF Call
  <1>5. faults' \in 0 .. MaxFaults
    BY WardenAssumption DEF Call, Fault, WardenInv, TypeOK
  <1>6. \/ UNCHANGED queue
        \/ /\ pc' = [pc EXCEPT ![e] = onFailure]
           /\ queue' = [i \in Item |->
                IF i \in {e} \X Again THEN [status |-> "pending", attempts |-> 0]
                                     ELSE queue[i]]
    BY DEF Call, Goto
  <1>7. queue' \in [Item -> [status : {"none", "pending", "completed", "failed"},
                            attempts : 0 .. MaxAttempts]]
    BY <1>6, WardenAssumption DEF WardenInv, TypeOK
  <1>8. tuples' \subseteq Tuple
    BY <1>3 DEF Applied, WardenInv, TypeOK
  <1>9. pc' \in [Event -> Label] /\ pc'[e] = l /\ \A f \in Event \ {e} : pc'[f] = pc[f]
    BY <1>2 DEF WardenInv, TypeOK, Label
  <1>10. TypeOK'
    BY <1>1, <1>4, <1>5, <1>7, <1>8, <1>9 DEF WardenInv, TypeOK, truth, rows, Label
  <1>11. Others(e)
    BY <1>1, <1>9 DEF Others
  <1>12. <<e, part>> \in Item /\ <<e, part>> \in {e} \X Again
    BY DEF Item
  <1>13. \/ tuples' = Applied(e, part)
         \/ PairOf(e) \in excused'
         \/ queue' = [i \in Item |->
                IF i \in {e} \X Again THEN [status |-> "pending", attempts |-> 0]
                                     ELSE queue[i]]
    BY DEF Call
  <1>14. \/ tuples' = Applied(e, part)
         \/ PairOf(e) \in excused'
         \/ queue'[<<e, part>>].status = "pending"
    BY <1>12, <1>13
  <1>15. \A i \in Item :
              \/ queue'[i] = queue[i]
              \/ /\ i \in {e} \X Again /\ pc'[e] = onFailure
                 /\ queue'[i].status = "pending" /\ queue'[i].attempts = 0
    BY <1>2, <1>6, <1>9
  <1> QED
    BY <1>1, <1>3, <1>4, <1>9, <1>10, <1>11, <1>14, <1>15

LEMMA Called ==
  ASSUME WardenInv, NEW e \in Event, NEW part \in Part, NEW Again \in SUBSET Part,
         NEW label, NEW next \in Label, NEW onFailure \in Label, part \in Again,
         part = "grant" => TupleOf(e, part) \in Tuple, PairOf(e) \in Pair,
         Calling(e, label), Call(e, part, Again, next, onFailure),
         \A again \in Again : CallRight(e, again),
         Row(TupleOf(e, part)) = PairOf(e) \/ Row(TupleOf(e, part)) \in excused,
         ShapeOf(e)',
         InFlight(e)' => HandlerRight(e)',
         pc'[e] = onFailure => \A again \in Again : ItemMade(e, again)',
         \A q \in Part : Outstanding(<<e, q>>) /\ ItemMade(e, q) => ItemMade(e, q)',
         \A t \in Tuple : HandlerOwes(e, t) => t = TupleOf(e, part) \/ HandlerOwes(e, t)'
  PROVE  WardenInv'
  <1> DEFINE T == TupleOf(e, part)
  <1>1. /\ TypeOK'
        /\ UNCHANGED <<rows, event, found, batch, wanted, repair>>
        /\ Others(e)
        /\ pc'[e] \in {next, onFailure}
        /\ excused \subseteq excused'
        /\ tuples' \in {tuples, Applied(e, part)}
        /\ \A i \in Item :
              \/ queue'[i] = queue[i]
              \/ /\ i \in {e} \X Again /\ pc'[e] = onFailure
                 /\ queue'[i].status = "pending" /\ queue'[i].attempts = 0
    BY CallEffect
  <1>2. \/ tuples' = Applied(e, part)
        \/ PairOf(e) \in excused'
        \/ queue'[<<e, part>>].status = "pending"
    BY CallEffect
  <1>3. \A f \in Event, q \in Part : TupleOf(f, q)' = TupleOf(f, q)
    BY <1>1, Calls
  <1>4. \A t : Right(t)' <=> Right(t)
    BY <1>1 DEF Right, Row, rows
  <1>5. Shapes'
    BY <1>1, ShapesKept DEF WardenInv
  <1>6. \A f \in Event, q \in Part :
          Outstanding(<<f, q>>)' =>
             \/ Outstanding(<<f, q>>)
             \/ f = e /\ q \in Again /\ pc'[e] = onFailure
    <2> TAKE f \in Event, q \in Part
    <2>1. <<f, q>> \in Item
      BY DEF Item
    <2> QED
      BY <1>1, <2>1 DEF Outstanding
  <1>7. ItemsMade'
    BY <1>1, <1>6, MadeKept DEF WardenInv
  <1>8. \A again \in Again : CallRight(e, again)'
    BY <1>1, <1>3, <1>4 DEF CallRight, Row
  <1>9. \A f \in Event, q \in Part :
           Outstanding(<<f, q>>)' => Outstanding(<<f, q>>) \/ CallRight(f, q)'
    BY <1>6, <1>8
  <1>10. ItemsRight'
    BY <1>1, <1>3, <1>9, RightKept DEF WardenInv, rows
  <1>11. AttemptsLeft'
    BY <1>1, WardenAssumption DEF WardenInv, AttemptsLeft
  <1>12. HandlersRight'
    BY <1>1, HandlersKept DEF WardenInv, rows
  <1>13. RepairRight'
    BY <1>1, RepairKept DEF WardenInv, rows
  <1>14. Owed'
    <2> SUFFICES ASSUME NEW t \in Tuple, Row(t) \notin excused'
                 PROVE  \/ Good(t)'
                        \/ /\ t \in tuples' <=> t \in tuples
                           /\ member'[Row(t)] = member[Row(t)]
                           /\ \A f \in Event : HandlerOwes(f, t) => HandlerOwes(f, t)'
                           /\ \A i \in Item : ItemOwes(i, t) => ItemOwes(i, t)'
      BY <1>1, OwedKept DEF WardenInv
    <2>1. CASE t = T
      <3>1. PairOf(e) \notin excused' /\ T \notin {} /\ Row(T) \notin excused
        BY <1>1, <2>1
      <3>2. CASE tuples' = Applied(e, part)
        <4>1. T \in tuples' <=> part = "grant"
          BY <3>2 DEF Applied
        <4>2. Right(T) <=> part = "grant"
          BY <3>1 DEF CallRight
        <4> QED
          BY <1>4, <2>1, <4>1, <4>2 DEF Good
      <3>3. CASE queue'[<<e, part>>].status = "pending"
        <4>1. <<e, part>> \in Item
          BY DEF Item
        <4>2. ItemOwes(<<e, part>>, t)'
          BY <1>3, <2>1, <3>3 DEF ItemOwes
        <4> QED
          BY <4>1, <4>2 DEF Good
      <3> QED
        BY <1>2, <3>1, <3>2, <3>3
    <2>2. CASE t # T
      <3>1. t \in tuples' <=> t \in tuples
        BY <1>1, <2>2 DEF Applied
      <3>2. \A f \in Event \ {e} : HandlerOwes(f, t) => HandlerOwes(f, t)'
        BY <1>1, <1>3 DEF HandlerOwes, Others, Part
      <3>3. HandlerOwes(e, t) => HandlerOwes(e, t)'
        BY <2>2
      <3>4. \A i \in Item : ItemOwes(i, t) => ItemOwes(i, t)'
        BY <1>1, <1>3, ItemCall DEF ItemOwes
      <3>5. member'[Row(t)] = member[Row(t)]
        BY <1>1 DEF rows
      <3> QED
        BY <3>1, <3>2, <3>3, <3>4, <3>5
    <2> QED
      BY <2>1, <2>2
  <1> QED
    BY <1>1, <1>5, <1>7, <1>10, <1>11, <1>12, <1>13, <1>14 DEF WardenInv

\* What holds of a webhook whose handler is at work.
LEMMA AtWork ==
  ASSUME WardenInv, NEW e \in Event, pc[e] # "unsent"
  PROVE  /\ ShapeOf(e)
         /\ event[e] \in Webhook /\ event[e].org \in Org
         /\ event[e].type \in {"created", "deleted", "added", "removed", "role_changed"}
         /\ event[e].type # "deleted" => event[e].user \in User /\ PairOf(e) \in Pair
         /\ InFlight(e) => HandlerRight(e)
         /\ \A part \in Part : Outstanding(<<e, part>>) => ItemMade(e, part)
  BY DEF WardenInv, Shapes, ShapeOf, Webhook, PairOf, Pair, HandlersRight, ItemsMade

LEMMA RevokeStep ==
  ASSUME WardenInv, NEW e \in Event, Revoke(e)
  PROVE  WardenInv'
  <1> DEFINE next == IF event[e].type = "removed" THEN "done"
                     ELSE IF event[e].new = "owner" THEN "lookup" ELSE "grant"
             T == TupleOf(e, "revoke")
  <1>1. /\ Calling(e, "revoke") /\ pc[e] = "revoke" /\ InFlight(e)
        /\ Call(e, "revoke", {"revoke"}, next, next)
    BY DEF Revoke, Calling, InFlight
  <1>2. /\ ShapeOf(e) /\ HandlerRight(e)
        /\ event[e].type \in {"removed", "role_changed"} /\ PairOf(e) \in Pair
        /\ \A q \in Part : ~Outstanding(<<e, q>>)
    BY <1>1, AtWork DEF ShapeOf, ItemMade
  <1>3. /\ UNCHANGED <<event, found, member>> /\ pc'[e] = next /\ excused \subseteq excused'
        /\ PairOf(e)' = PairOf(e)
    <2> HIDE DEF next
    <2>1. UNCHANGED <<rows, event, found>> /\ excused \subseteq excused'
      BY <1>1 DEF Calling, Call
    <2>2. pc' = [pc EXCEPT ![e] = next]
      BY <1>1 DEF Call, Goto
    <2> QED
      BY <2>1, <2>2 DEF rows, PairOf, WardenInv, TypeOK
  <1>4. Row(T) = PairOf(e) /\ T[2] = IF event[e].type = "removed" THEN found[e] ELSE event[e].old
    BY RowOfCall, TupleFields
  <1>5. CallRight(e, "revoke")
    <2>1. CASE event[e].type = "removed"
      BY <1>1, <1>2, <1>4, <2>1 DEF CallRight, Right, HandlerRight, ShapeOf, Role
    <2>2. CASE event[e].type = "role_changed"
      BY <1>1, <1>2, <1>4, <2>2 DEF CallRight, Right, HandlerRight, ShapeOf, Role
    <2> QED
      BY <1>2, <2>1, <2>2
  <1>6. ShapeOf(e)'
    BY <1>1, <1>2, <1>3 DEF ShapeOf
  <1>7. InFlight(e)' => HandlerRight(e)'
    BY <1>1, <1>2, <1>3 DEF HandlerRight
  <1>8. ItemMade(e, "revoke")'
    BY <1>1, <1>2, <1>3 DEF ItemMade, ShapeOf
  <1>9. \A t \in Tuple : HandlerOwes(e, t) => t = T \/ HandlerOwes(e, t)'
    <2>1. TupleOf(e, "grant")' = TupleOf(e, "grant")
      BY <1>3, Calls DEF Part
    <2>2. event[e].type # "removed" => next \in {"lookup", "grant"}
      OBVIOUS
    <2> QED
      BY <1>3, <2>1, <2>2 DEF HandlerOwes
  <1> HIDE DEF next
  <1>10. next \in Label
    BY DEF next, Label
  <1>11. "revoke" \in Part /\ {"revoke"} \in SUBSET Part
    BY DEF Part
  <1> QED
    BY <1>1, <1>2, <1>4, <1>5, <1>6, <1>7, <1>8, <1>9, <1>10, <1>11, Called

LEMMA GrantStep ==
  ASSUME WardenInv, NEW e \in Event, Grant(e)
  PROVE  WardenInv'
  <1> DEFINE T == TupleOf(e, "grant")
  <1>1. Calling(e, "grant") /\ pc[e] = "grant" /\ InFlight(e)
    BY DEF Grant, Calling, InFlight
  <1>2. /\ ShapeOf(e) /\ HandlerRight(e)
        /\ event[e].type \in {"created", "added", "role_changed"}
        /\ event[e].user \in User /\ event[e].new \in Role /\ event[e].org \in Org
        /\ PairOf(e) \in Pair
        /\ \A q \in Part : Outstanding(<<e, q>>) => ItemMade(e, q)
    BY <1>1, AtWork DEF ShapeOf
  <1>3. T \in Tuple /\ Row(T) = PairOf(e) /\ T[2] = event[e].new
    BY <1>2, TupleFields, RowOfCall DEF Tuple
  <1>4. CallRight(e, "grant")
    BY <1>1, <1>2, <1>3 DEF CallRight, Right, HandlerRight
  <1>5. \A t \in Tuple : HandlerOwes(e, t) => t = T
    BY <1>1 DEF HandlerOwes
  <1>6. "grant" \in Part /\ {"grant"} \in SUBSET Part /\ {"grant", "demote"} \in SUBSET Part
        /\ "done" \in Label /\ "demote" \in Label
    BY DEF Part, Label
  <1>7. UNCHANGED <<event, found, member>> /\ excused \subseteq excused'
        /\ PairOf(e)' = PairOf(e)
    BY DEF Grant, Calling, Call, rows, PairOf
  <1>8. \A q \in Part : pc'[e] = "done" /\ ItemMade(e, q) => ItemMade(e, q)'
    BY <1>7 DEF ItemMade
  <1>9. pc'[e] = "done" => ItemMade(e, "grant")'
    BY <1>2, <1>7 DEF ItemMade
  <1>10. CASE Transferring(e)
    <2>1. Call(e, "grant", {"grant", "demote"}, "demote", "done")
      BY <1>10 DEF Grant
    <2>2. /\ found[e] \in User /\ found[e] # "none" /\ event[e].type = "role_changed"
          /\ <<found[e], event[e].org>> \in excused
      BY <1>2, <1>10, WardenAssumption DEF Transferring, ShapeOf
    <2>3. CallRight(e, "demote")
      BY <2>2, RowOfCall DEF CallRight
    <2>4. pc'[e] \in {"demote", "done"}
      BY <2>1 DEF Call, Goto, WardenInv, TypeOK
    <2>5. ShapeOf(e)'
      BY <1>2, <1>7, <2>2, <2>4 DEF ShapeOf
    <2>6. InFlight(e)' => HandlerRight(e)'
      BY <1>1, <1>2, <1>7, <2>4 DEF HandlerRight
    <2>7. pc'[e] = "done" => \A again \in {"grant", "demote"} : ItemMade(e, again)'
      BY <1>7, <1>9, <2>2 DEF ItemMade
    <2>8. \A q \in Part : Outstanding(<<e, q>>) /\ ItemMade(e, q) => ItemMade(e, q)'
      BY <1>1, <1>7, <1>8, <2>4 DEF ItemMade
    <2>9. \A again \in {"grant", "demote"} : CallRight(e, again)
      BY <1>4, <2>3
    <2> QED
      BY <1>1, <1>2, <1>3, <1>5, <1>6, <2>1, <2>5, <2>6, <2>7, <2>8, <2>9, Called
  <1>11. CASE ~Transferring(e)
    <2>1. Call(e, "grant", {"grant"}, "done", "done")
      BY <1>11 DEF Grant
    <2>2. pc'[e] = "done"
      BY <2>1 DEF Call, Goto, WardenInv, TypeOK
    <2>3. ShapeOf(e)'
      BY <1>1, <1>2, <1>7, <2>2 DEF ShapeOf
    <2>4. ~InFlight(e)'
      BY <2>2 DEF InFlight
    <2>5. \A again \in {"grant"} : CallRight(e, again) /\ ItemMade(e, again)'
      BY <1>4, <1>9, <2>2
    <2> QED
      BY <1>1, <1>2, <1>3, <1>5, <1>6, <1>8, <2>1, <2>2, <2>3, <2>4, <2>5, Called
  <1> QED
    BY <1>10, <1>11

LEMMA DemoteStep ==
  ASSUME WardenInv, NEW e \in Event, Demote(e)
  PROVE  WardenInv'
  <1> DEFINE T == TupleOf(e, "demote")
  <1>1. /\ Calling(e, "demote") /\ pc[e] = "demote" /\ InFlight(e)
        /\ Call(e, "demote", {"grant", "demote"}, "done", "done")
    BY DEF Demote, Calling, InFlight
  <1>2. /\ ShapeOf(e) /\ HandlerRight(e) /\ event[e].type = "role_changed"
        /\ found[e] \in User /\ <<found[e], event[e].org>> \in excused
        /\ PairOf(e) \in Pair
        /\ \A q \in Part : Outstanding(<<e, q>>) => ItemMade(e, q)
    BY <1>1, AtWork DEF ShapeOf
  <1>3. Row(T) \in excused
    BY <1>2, RowOfCall
  <1>4. \A again \in {"grant", "demote"} : CallRight(e, again)
    BY <1>1, <1>2, <1>3, RowOfCall, TupleFields DEF CallRight, Right, HandlerRight
  <1>5. /\ UNCHANGED <<event, found, member>> /\ excused \subseteq excused'
        /\ PairOf(e)' = PairOf(e)
    BY DEF Demote, Calling, Call, rows, PairOf
  <1>6. pc'[e] = "done" /\ ~InFlight(e)'
    BY <1>1 DEF Call, Goto, WardenInv, TypeOK, InFlight
  <1>7. ShapeOf(e)'
    BY <1>2, <1>5, <1>6 DEF ShapeOf
  <1>8. \A q \in Part : Outstanding(<<e, q>>) /\ ItemMade(e, q) => ItemMade(e, q)'
    BY <1>5, <1>6 DEF ItemMade
  <1>9. \A again \in {"grant", "demote"} : ItemMade(e, again)'
    BY <1>2, <1>5, <1>6 DEF ItemMade
  <1>10. \A t \in Tuple : ~HandlerOwes(e, t)
    BY <1>1 DEF HandlerOwes
  <1>11. "demote" \in Part /\ {"grant", "demote"} \in SUBSET Part /\ "done" \in Label
    BY DEF Part, Label
  <1> QED
    BY <1>1, <1>2, <1>3, <1>4, <1>6, <1>7, <1>8, <1>9, <1>10, <1>11, Called

-----------------------------------------------------------------------------
(* Steps of a handler that call nobody and leave the rows alone. *)

LEMMA Walks ==
  ASSUME WardenInv, NEW e \in Event, TypeOK', Others(e),
         UNCHANGED <<rows, tuples, queue, batch, wanted, repair>>,
         excused \subseteq excused',
         ShapeOf(e)',
         InFlight(e)' => HandlerRight(e)',
         \A q \in Part : Outstanding(<<e, q>>) =>
            ItemMade(e, q)' /\ TupleOf(e, q)' = TupleOf(e, q),
         \A t \in Tuple : Row(t) \notin excused' /\ HandlerOwes(e, t) => HandlerOwes(e, t)'
  PROVE  WardenInv'
  <1>1. Shapes'
    BY ShapesKept DEF WardenInv
  <1>2. \A i : Outstanding(i)' => Outstanding(i)
    BY DEF Outstanding
  <1>3. ItemsMade'
    BY <1>2, MadeKept DEF WardenInv
  <1>4. ItemsRight'
    BY <1>2, RightKept DEF WardenInv, rows
  <1>5. AttemptsLeft'
    BY DEF WardenInv, AttemptsLeft
  <1>6. HandlersRight'
    BY HandlersKept DEF WardenInv, rows
  <1>7. RepairRight'
    BY RepairKept DEF WardenInv, rows
  <1>8. Owed'
    <2>1. ASSUME NEW t \in Tuple, Row(t) \notin excused', NEW i \in Item, ItemOwes(i, t)
          PROVE  ItemOwes(i, t)'
      <3>1. i[1] \in Event /\ i[2] \in Part /\ Outstanding(<<i[1], i[2]>>)
        BY <2>1, ItemCall DEF ItemOwes, Outstanding
      <3>2. TupleOf(i[1], i[2])' = TupleOf(i[1], i[2])
        BY <3>1, Calls DEF Others
      <3> QED
        BY <2>1, <3>2 DEF ItemOwes
    <2>2. ASSUME NEW t \in Tuple, NEW f \in Event \ {e}, HandlerOwes(f, t)
          PROVE  HandlerOwes(f, t)'
      BY <2>2, Calls DEF HandlerOwes, Others, Part
    <2> QED
      BY <2>1, <2>2, OwedKept DEF WardenInv, rows
  <1> QED
    BY <1>1, <1>3, <1>4, <1>5, <1>6, <1>7, <1>8 DEF WardenInv

LEMMA Steps ==
  ASSUME WardenInv, NEW e \in Event, NEW l \in Label, Goto(e, l)
  PROVE  /\ pc' \in [Event -> Label] /\ pc'[e] = l
         /\ \A f \in Event \ {e} : pc'[f] = pc[f]
  BY DEF WardenInv, TypeOK, Label, Goto

LEMMA SkipStep ==
  ASSUME WardenInv, NEW e \in Event, Skip(e)
  PROVE  WardenInv'
  <1>1. pc' \in [Event -> Label] /\ pc'[e] = "done" /\ \A f \in Event \ {e} : pc'[f] = pc[f]
    BY Steps DEF Skip, Label
  <1>2. ShapeOf(e) /\ \A q \in Part : ~Outstanding(<<e, q>>)
    BY AtWork DEF Skip, ItemMade
  <1>3. ShapeOf(e)' /\ ~InFlight(e)'
    BY <1>1, <1>2 DEF Skip, ShapeOf, InFlight
  <1>4. \A t : ~HandlerOwes(e, t)
    BY DEF HandlerOwes, Skip
  <1>5. TypeOK' /\ Others(e)
    BY <1>1 DEF WardenInv, TypeOK, Others, Label, Skip, truth, rows
  <1>6. UNCHANGED <<rows, tuples, queue, batch, wanted, repair>> /\ excused \subseteq excused'
    BY DEF Skip
  <1> QED
    BY <1>2, <1>3, <1>4, <1>5, <1>6, Walks

LEMMA OrganizationCreatedStep ==
  ASSUME WardenInv, NEW e \in Event, OrganizationCreated(e)
  PROVE  WardenInv'
  <1>1. pc' \in [Event -> Label] /\ pc'[e] = "grant" /\ \A f \in Event \ {e} : pc'[f] = pc[f]
    BY Steps DEF OrganizationCreated, Label
  <1>2. /\ ShapeOf(e) /\ PairOf(e) \in Pair
        /\ pc[e] = "sent" /\ event[e].type = "created"
        /\ \A q \in Part : ~Outstanding(<<e, q>>)
    BY AtWork DEF OrganizationCreated, Receive, ItemMade
  <1>3. /\ UNCHANGED <<rows, tuples, queue, batch, wanted, repair>>
        /\ UNCHANGED <<event, found>> /\ excused' = excused \cup {PairOf(e)}
        /\ PairOf(e)' = PairOf(e)
    BY DEF OrganizationCreated, PairOf
  <1>4. ShapeOf(e)' /\ HandlerRight(e)'
    BY <1>1, <1>2, <1>3 DEF ShapeOf, HandlerRight
  <1>5. \A t : ~HandlerOwes(e, t)
    BY <1>2 DEF HandlerOwes
  <1>6. TypeOK' /\ Others(e)
    BY <1>1, <1>2 DEF WardenInv, TypeOK, Others, Label, OrganizationCreated, truth, rows
  <1> QED
    BY <1>2, <1>3, <1>4, <1>5, <1>6, Walks

LEMMA MemberRemovedStep ==
  ASSUME WardenInv, NEW e \in Event, MemberRemoved(e)
  PROVE  WardenInv'
  <1>1. pc' \in [Event -> Label] /\ pc'[e] = "deleting" /\ \A f \in Event \ {e} : pc'[f] = pc[f]
    BY Steps DEF MemberRemoved, Label
  <1>2. /\ ShapeOf(e) /\ PairOf(e) \in Pair
        /\ pc[e] = "sent" /\ event[e].type = "removed"
        /\ \A q \in Part : ~Outstanding(<<e, q>>)
    BY AtWork DEF MemberRemoved, Receive, ItemMade
  <1>3. /\ UNCHANGED <<rows, tuples, queue, batch, wanted, repair>>
        /\ UNCHANGED <<member, event, excused>> /\ PairOf(e)' = PairOf(e)
    BY DEF MemberRemoved, PairOf, rows
  <1>4. member[PairOf(e)] \in Role \cup {"none"}
    BY <1>2 DEF WardenInv, TypeOK
  <1>5. /\ found' \in [Event -> Role \cup User \cup {"none"}]
        /\ found'[e] = member[PairOf(e)] /\ \A f \in Event \ {e} : found'[f] = found[f]
    BY <1>4 DEF WardenInv, TypeOK, MemberRemoved
  <1>6. ShapeOf(e)' /\ HandlerRight(e)'
    BY <1>1, <1>2, <1>3, <1>4, <1>5 DEF ShapeOf, HandlerRight
  <1>7. \A t : ~HandlerOwes(e, t)
    BY <1>2 DEF HandlerOwes
  <1>8. TypeOK' /\ Others(e)
    BY <1>1, <1>3, <1>5 DEF WardenInv, TypeOK, Others, Label, MemberRemoved, truth, rows
  <1> QED
    BY <1>2, <1>3, <1>6, <1>7, <1>8, Walks

LEMMA LookupOwnerStep ==
  ASSUME WardenInv, NEW e \in Event, LookupOwner(e)
  PROVE  WardenInv'
  <1>1. pc' \in [Event -> Label] /\ pc'[e] = "grant" /\ \A f \in Event \ {e} : pc'[f] = pc[f]
    BY Steps DEF LookupOwner, Label
  <1>2. /\ ShapeOf(e) /\ PairOf(e) \in Pair /\ HandlerRight(e) /\ event[e].org \in Org
        /\ pc[e] = "lookup" /\ event[e].type = "role_changed"
        /\ \A q \in Part : Outstanding(<<e, q>>) => ItemMade(e, q)
    BY AtWork DEF LookupOwner, ShapeOf, InFlight
  <1>3. /\ UNCHANGED <<rows, tuples, queue, batch, wanted, repair>>
        /\ UNCHANGED <<member, event>> /\ PairOf(e)' = PairOf(e)
    BY DEF LookupOwner, PairOf, rows
  <1>4. \/ UNCHANGED <<found, excused>>
        \/ \E v \in User : /\ found' = [found EXCEPT ![e] = v]
                           /\ excused' = excused \cup {<<v, event[e].org>>}
    BY DEF LookupOwner
  <1>5. /\ found' \in [Event -> Role \cup User \cup {"none"}]
        /\ \A f \in Event \ {e} : found'[f] = found[f]
        /\ excused' \subseteq Pair /\ excused \subseteq excused'
        /\ \/ found'[e] = found[e]
           \/ found'[e] \in User /\ <<found'[e], event[e].org>> \in excused'
    BY <1>2, <1>4 DEF WardenInv, TypeOK, Pair
  <1>6. ShapeOf(e)'
    BY <1>1, <1>2, <1>3, <1>5 DEF ShapeOf
  <1>7. HandlerRight(e)'
    BY <1>1, <1>2, <1>3, <1>5 DEF HandlerRight
  <1>8. \A q \in Part : Outstanding(<<e, q>>) =>
            ItemMade(e, q)' /\ TupleOf(e, q)' = TupleOf(e, q)
    <2>1. \A q \in Part : Outstanding(<<e, q>>) => q = "revoke"
      BY <1>2 DEF ItemMade, Part
    <2>2. ItemMade(e, "revoke")' /\ TupleOf(e, "revoke")' = TupleOf(e, "revoke")
      BY <1>1, <1>2, <1>3 DEF ItemMade, TupleOf
    <2> QED
      BY <2>1, <2>2
  <1>9. \A t \in Tuple : HandlerOwes(e, t) => HandlerOwes(e, t)'
    <2>1. TupleOf(e, "grant")' = TupleOf(e, "grant")
      BY <1>3 DEF TupleOf
    <2> QED
      BY <1>1, <1>2, <1>3, <2>1 DEF HandlerOwes
  <1>10. TypeOK' /\ Others(e)
    BY <1>1, <1>3, <1>5 DEF WardenInv, TypeOK, Others, Label, LookupOwner, truth, rows
  <1> QED
    BY <1>3, <1>5, <1>6, <1>7, <1>8, <1>9, <1>10, Walks

LEMMA CrashStep ==
  ASSUME WardenInv, NEW e \in Event, Crash(e)
  PROVE  WardenInv'
  <1>1. pc' \in [Event -> Label] /\ pc'[e] = "done" /\ \A f \in Event \ {e} : pc'[f] = pc[f]
    BY Steps DEF Crash, Label
  <1>2. /\ InFlight(e) /\ ShapeOf(e) /\ PairOf(e) \in Pair
        /\ \A q \in Part : Outstanding(<<e, q>>) => ItemMade(e, q)
    BY AtWork DEF Crash, InFlight, ShapeOf
  <1>3. /\ UNCHANGED <<rows, tuples, queue, batch, wanted, repair>>
        /\ UNCHANGED <<event, found>> /\ excused' = excused \cup {PairOf(e)}
        /\ PairOf(e)' = PairOf(e)
    BY DEF Crash, PairOf
  <1>4. ShapeOf(e)' /\ ~InFlight(e)'
    BY <1>1, <1>2, <1>3 DEF ShapeOf, InFlight
  <1>5. \A q \in Part : Outstanding(<<e, q>>) =>
            ItemMade(e, q)' /\ TupleOf(e, q)' = TupleOf(e, q)
    BY <1>1, <1>2, <1>3, Calls DEF ItemMade
  <1>6. \A t : HandlerOwes(e, t) => Row(t) \in excused'
    BY <1>3, RowOfCall DEF HandlerOwes
  <1>7. faults' \in 0 .. MaxFaults
    BY WardenAssumption DEF Crash, Fault, WardenInv, TypeOK
  <1>8. TypeOK' /\ Others(e)
    BY <1>1, <1>2, <1>3, <1>7 DEF WardenInv, TypeOK, Others, Label, Crash, truth, rows
  <1> QED
    BY <1>3, <1>4, <1>5, <1>6, <1>8, Walks

\* What the identity provider may send.
Sendable(type, u, o, old, new) ==
    /\ [type |-> type, user |-> u, org |-> o, old |-> old, new |-> new] \in Webhook
    /\ type = "deleted" => u = "none" /\ new = "none"
    /\ type # "deleted" => u \in User
    /\ type \in {"created", "added"} => old = "none" /\ new \in Role
    /\ type = "removed" => old \in Role /\ new = "none"
    /\ type = "role_changed" => old \in Role /\ new \in Role \ {old}

LEMMA Sent ==
  ASSUME WardenInv, NEW e \in Event, IdpChanges(e)
  PROVE  \E type, u, o, old, new :
           Send(e, type, u, o, old, new) /\ Sendable(type, u, o, old, new)
  <1>1. PICK o \in Org :
          \/ Send(e, "deleted", "none", o, "none", "none")
          \/ \E u \in User :
               LET old == idp[<<u, o>>]
               IN  \/ Send(e, "created", u, o, "none", "owner")
                   \/ old # "none" /\ Send(e, "removed", u, o, old, "none")
                   \/ \E new \in Role \ {old} :
                        Send(e, IF old = "none" THEN "added" ELSE "role_changed",
                             u, o, old, new)
    BY DEF IdpChanges
  <1>2. Sendable("deleted", "none", o, "none", "none")
    BY <1>1 DEF Sendable, Webhook
  <1>3. ASSUME NEW u \in User
        PROVE  /\ Sendable("created", u, o, "none", "owner")
               /\ idp[<<u, o>>] # "none" => Sendable("removed", u, o, idp[<<u, o>>], "none")
               /\ \A new \in Role \ {idp[<<u, o>>]} :
                    Sendable(IF idp[<<u, o>>] = "none" THEN "added" ELSE "role_changed",
                             u, o, idp[<<u, o>>], new)
    <2>1. idp[<<u, o>>] \in Role \cup {"none"}
      BY DEF WardenInv, TypeOK, Pair
    <2> QED
      BY <2>1 DEF Sendable, Webhook, Role
  <1> QED
    BY <1>1, <1>2, <1>3

LEMMA SendStep ==
  ASSUME WardenInv, NEW e \in Event, IdpChanges(e)
  PROVE  WardenInv'
  <1>1. PICK type, u, o, old, new :
           Send(e, type, u, o, old, new) /\ Sendable(type, u, o, old, new)
    BY Sent
  <1> DEFINE ev == [type |-> type, user |-> u, org |-> o, old |-> old, new |-> new]
  <1>2. /\ pc[e] = "unsent" /\ pc' = [pc EXCEPT ![e] = "sent"]
        /\ event' = [event EXCEPT ![e] = ev]
        /\ granted' = granted \cup TuplesOf(idp')
        /\ UNCHANGED <<rows, tuples, found, queue, batch, reconciler,
                       wanted, repair, excused, faults>>
    BY <1>1 DEF Send
  <1>3. ev \in Webhook /\ o \in Org /\ new \in Role \cup {"none"} /\ u \in User \cup {"none"}
    BY <1>1 DEF Sendable, Webhook
  <1>4. idp' \in [Pair -> Role \cup {"none"}]
    BY <1>1, <1>3 DEF Send, WardenInv, TypeOK
  <1>5. pc' \in [Event -> Label] /\ pc'[e] = "sent" /\ \A f \in Event \ {e} : pc'[f] = pc[f]
    BY <1>2 DEF WardenInv, TypeOK, Label
  <1>6. /\ event' \in [Event -> Webhook \cup {NoEvent}]
        /\ event'[e] = ev /\ \A f \in Event \ {e} : event'[f] = event[f]
    BY <1>2, <1>3 DEF WardenInv, TypeOK
  <1>7. TypeOK' /\ Others(e)
    BY <1>2, <1>4, <1>5, <1>6 DEF WardenInv, TypeOK, Others, Label, TuplesOf, rows
  <1>8. found[e] = "none" /\ \A q \in Part : ~Outstanding(<<e, q>>)
    BY <1>2 DEF WardenInv, Shapes, ShapeOf, ItemsMade, ItemMade
  <1>9. ShapeOf(e)'
    BY <1>1, <1>2, <1>5, <1>6, <1>8, WardenAssumption DEF ShapeOf, Sendable, Webhook
  <1>10. ~InFlight(e)' /\ \A t : ~HandlerOwes(e, t)
    BY <1>2, <1>5 DEF InFlight, HandlerOwes
  <1> QED
    BY <1>2, <1>7, <1>8, <1>9, <1>10, Walks

-----------------------------------------------------------------------------
(* Steps that write rows. *)

\* Whoever holds something about a pair would be surprised.
LEMMA Unbusy ==
  ASSUME NEW p, NEW e \in Event, ~Busy(p, e)
  PROVE  /\ \A f \in Event \ {e} : InFlight(f) => PairOf(f) # p
         /\ \A f \in Event, q \in Part :
              Outstanding(<<f, q>>) => Row(TupleOf(f, q)) # p
         /\ \A t \in wanted \cup repair.missing \cup repair.orphans : Row(t) # p
         /\ repair.at # "drift"
  <1>1. ASSUME NEW f \in Event, NEW q \in Part, Outstanding(<<f, q>>)
        PROVE  Row(TupleOf(f, q)) # p
    <2>1. <<f, q>> \in Item /\ PairOfItem(<<f, q>>) = Row(TupleOf(f, q))
      BY RowOfCall DEF Item
    <2> QED
      BY <1>1, <2>1 DEF Busy, Outstanding
  <1> QED
    BY <1>1 DEF Busy, Row

\* Nobody but e being busy with a pair, Warden agrees with the table on it.
LEMMA Agreed ==
  ASSUME WardenInv, NEW t \in Tuple, NEW e \in Event, ~Busy(Row(t), e),
         Row(t) \notin excused, ~HandlerOwes(e, t)
  PROVE  t \in tuples <=> Right(t)
  <1>1. ASSUME NEW f \in Event, HandlerOwes(f, t)
        PROVE  FALSE
    <2>1. InFlight(f) /\ PairOf(f) = Row(t)
      BY <1>1, RowOfCall DEF HandlerOwes, InFlight
    <2> QED
      BY <1>1, <2>1, Unbusy
  <1>2. ASSUME NEW i \in Item, ItemOwes(i, t)
        PROVE  FALSE
    <2>1. i[1] \in Event /\ i[2] \in Part /\ Outstanding(<<i[1], i[2]>>)
          /\ Row(TupleOf(i[1], i[2])) = Row(t)
      BY <1>2, ItemCall DEF ItemOwes, Outstanding
    <2> QED
      BY <2>1, Unbusy
  <1> QED
    BY <1>1, <1>2 DEF WardenInv, Owed, Good

LEMMA RowsWritten ==
  ASSUME WardenInv, NEW e \in Event, NEW m, TypeOK', Others(e),
         HandlerWrites(e, m), m \in [Pair -> Role \cup {"none"}],
         UNCHANGED <<event, found, tuples, queue, batch, wanted, repair>>,
         pc[e] \in {"sent", "deleting"},
         ShapeOf(e)',
         InFlight(e)' => HandlerRight(e)',
         \A t \in Tuple :
            /\ Row(t) = PairOf(e) /\ Row(t) \notin excused'
            /\ member[Row(t)] = event[e].old
            /\ t \in tuples <=> t[2] = event[e].old
            => Good(t)'
  PROVE  WardenInv'
  <1>1. excused' = excused \cup Surprises(e, m) /\ member' = m
    BY DEF HandlerWrites, WriteRows
  <1>2. ASSUME NEW p \in Pair, p \notin excused'
        PROVE  /\ p # PairOf(e) => member'[p] = member[p]
               /\ p = PairOf(e) => ~Busy(p, e) /\ member[p] = event[e].old
    BY <1>1, <1>2 DEF Surprises, Changed
  <1>3. \A q \in Part : ~Outstanding(<<e, q>>)
    BY DEF WardenInv, ItemsMade, ItemMade
  <1>4. \A i : Outstanding(i)' => Outstanding(i)
    BY DEF Outstanding
  <1>5. excused \subseteq excused'
    BY <1>1
  <1>6. Shapes'
    BY <1>5, ShapesKept DEF WardenInv
  <1>7. ItemsMade'
    BY <1>3, <1>4, MadeKept DEF WardenInv
  <1>8. ItemsRight'
    <2>1. ASSUME NEW f \in Event, NEW q \in Part, Outstanding(<<f, q>>),
                 Row(TupleOf(f, q)) \notin excused'
          PROVE  member'[Row(TupleOf(f, q))] = member[Row(TupleOf(f, q))]
      <3>1. Row(TupleOf(f, q)) \in Pair
        <4>1. ItemMade(f, q) /\ ShapeOf(f)
          BY <2>1 DEF WardenInv, ItemsMade, Shapes, ItemMade
        <4> QED
          BY <4>1, PairMade
      <3>2. Row(TupleOf(f, q)) # PairOf(e)
        BY <1>2, <2>1, <3>1, Unbusy
      <3> QED
        BY <1>2, <2>1, <3>1, <3>2
    <2> QED
      BY <1>3, <1>4, <1>5, <2>1, RightKept DEF WardenInv
  <1>9. AttemptsLeft'
    BY DEF WardenInv, AttemptsLeft
  <1>10. HandlersRight'
    <2>1. ASSUME NEW f \in Event \ {e}, InFlight(f), PairOf(f) \notin excused'
          PROVE  member'[PairOf(f)] = member[PairOf(f)]
      <3>1. PairOf(f) \in Pair
        BY <2>1, AtWork DEF InFlight, ShapeOf
      <3> QED
        BY <1>2, <2>1, <3>1, Unbusy
    <2> QED
      BY <1>5, <2>1, HandlersKept DEF WardenInv
  <1>11. RepairRight'
    <2>1. \A t \in Tuple : Row(t) \in Pair
      BY DEF Tuple, Row, Pair
    <2>2. ASSUME NEW t \in Tuple, Row(t) \notin excused',
                 t \in wanted \cup repair.missing \cup repair.orphans \/ repair.at = "drift"
          PROVE  member'[Row(t)] = member[Row(t)]
      BY <1>2, <2>1, <2>2, Unbusy
    <2> QED
      BY <1>5, <2>2, RepairKept DEF WardenInv
  <1>12. Owed'
    <2> SUFFICES ASSUME NEW t \in Tuple, Row(t) \notin excused'
                 PROVE  \/ Good(t)'
                        \/ /\ t \in tuples' <=> t \in tuples
                           /\ member'[Row(t)] = member[Row(t)]
                           /\ \A f \in Event : HandlerOwes(f, t) => HandlerOwes(f, t)'
                           /\ \A i \in Item : ItemOwes(i, t) => ItemOwes(i, t)'
      BY <1>5, OwedKept DEF WardenInv
    <2>1. Row(t) \in Pair
      BY DEF Tuple, Row, Pair
    <2>2. ~HandlerOwes(e, t)
      BY DEF HandlerOwes
    <2>3. CASE Row(t) = PairOf(e)
      <3>1. ~Busy(Row(t), e) /\ member[Row(t)] = event[e].old
        BY <1>2, <2>1, <2>3
      <3>2. t \in tuples <=> Right(t)
        BY <1>5, <2>2, <3>1, Agreed
      <3> QED
        BY <2>3, <3>1, <3>2 DEF Right
    <2>4. CASE Row(t) # PairOf(e)
      <3>1. member'[Row(t)] = member[Row(t)]
        BY <1>2, <2>1, <2>4
      <3>2. \A f \in Event, q \in Part : TupleOf(f, q)' = TupleOf(f, q)
        BY Calls
      <3>3. \A f \in Event : HandlerOwes(f, t) => HandlerOwes(f, t)'
        BY <2>2, <3>2 DEF HandlerOwes, Others, Part
      <3>4. \A i \in Item : ItemOwes(i, t) => ItemOwes(i, t)'
        BY <3>2, ItemCall DEF ItemOwes
      <3> QED
        BY <3>1, <3>3, <3>4
    <2> QED
      BY <2>3, <2>4
  <1> QED
    BY <1>6, <1>7, <1>8, <1>9, <1>10, <1>11, <1>12 DEF WardenInv

\* The tuples of a pair.
LEMMA OfPair ==
  ASSUME NEW t \in Tuple
  PROVE  /\ t = <<t[1], t[2], t[3]>> /\ t[1] \in User /\ t[2] \in Role /\ t[3] \in Org
         /\ "none" \notin Role
         /\ \A e \in Event : Row(t) = PairOf(e) => t[1] = event[e].user /\ t[3] = event[e].org
  BY DEF Tuple, Row, PairOf, Role

\* What the handlers that write rows have in common.
LEMMA Writes ==
  ASSUME WardenInv, NEW e \in Event, NEW m \in [Pair -> Role \cup {"none"}],
         NEW l \in Label, HandlerWrites(e, m), Goto(e, l),
         UNCHANGED <<truth, known, tuples, event, found, queue, batch,
                     reconciler, wanted, repair, faults>>
  PROVE  /\ TypeOK' /\ Others(e) /\ pc'[e] = l
         /\ excused \subseteq excused' /\ member' = m
         /\ PairOf(e)' = PairOf(e)
         /\ \A q \in Part : TupleOf(e, q)' = TupleOf(e, q)
         /\ PairOf(e) \in Pair /\ PairOf(e) \notin excused' => member[PairOf(e)] = event[e].old
  <1>1. pc' \in [Event -> Label] /\ pc'[e] = l /\ \A f \in Event \ {e} : pc'[f] = pc[f]
    BY Steps
  <1>2. excused' = excused \cup Surprises(e, m) /\ member' = m
    BY DEF HandlerWrites, WriteRows
  <1>3. Surprises(e, m) \subseteq Pair
    BY DEF Surprises, Changed
  <1>4. TypeOK' /\ Others(e)
    BY <1>1, <1>2, <1>3 DEF WardenInv, TypeOK, Others, Label, truth
  <1>5. PairOf(e) \in Pair /\ PairOf(e) \notin excused' => member[PairOf(e)] = event[e].old
    BY <1>2 DEF Surprises
  <1> QED
    BY <1>1, <1>2, <1>4, <1>5, Calls

LEMMA OrganizationDeletedStep ==
  ASSUME WardenInv, NEW e \in Event, OrganizationDeleted(e)
  PROVE  WardenInv'
  <1> DEFINE m == [p \in Pair |-> IF p[2] = event[e].org THEN "none" ELSE member[p]]
  <1>1. m \in [Pair -> Role \cup {"none"}]
    BY DEF WardenInv, TypeOK
  <1>2. /\ HandlerWrites(e, m) /\ Goto(e, "done") /\ pc[e] = "sent"
        /\ UNCHANGED <<truth, known, tuples, event, found, queue, batch,
                       reconciler, wanted, repair, faults>>
    BY DEF OrganizationDeleted, Receive
  <1>3. ShapeOf(e) /\ event[e].type = "deleted" /\ event[e].user = "none"
    BY AtWork DEF OrganizationDeleted, Receive, ShapeOf
  <1> HIDE DEF m
  <1>4. "done" \in Label
    BY DEF Label
  <1>5. TypeOK' /\ Others(e) /\ pc'[e] = "done"
    BY <1>1, <1>2, <1>4, Writes
  <1>6. ShapeOf(e)' /\ ~InFlight(e)'
    BY <1>2, <1>3, <1>5 DEF ShapeOf, InFlight
  <1>7. \A t \in Tuple : Row(t) # PairOf(e)
    BY <1>3, OfPair, WardenAssumption
  <1> QED
    BY <1>1, <1>2, <1>5, <1>6, <1>7, RowsWritten

LEMMA MemberAddedStep ==
  ASSUME WardenInv, NEW e \in Event, MemberAdded(e)
  PROVE  WardenInv'
  <1> DEFINE m == [member EXCEPT ![PairOf(e)] = event[e].new]
  <1>1. /\ HandlerWrites(e, m) /\ Goto(e, "grant") /\ pc[e] = "sent"
        /\ UNCHANGED <<truth, known, tuples, event, found, queue, batch,
                       reconciler, wanted, repair, faults>>
    BY DEF MemberAdded, Receive
  <1>2. /\ ShapeOf(e) /\ PairOf(e) \in Pair
        /\ event[e].type = "added" /\ event[e].new \in Role
    BY AtWork DEF MemberAdded, Receive, ShapeOf
  <1>3. m \in [Pair -> Role \cup {"none"}] /\ m[PairOf(e)] = event[e].new
    BY <1>2 DEF WardenInv, TypeOK
  <1> HIDE DEF m
  <1>4. "grant" \in Label
    BY DEF Label
  <1>5. /\ TypeOK' /\ Others(e) /\ pc'[e] = "grant"
        /\ excused \subseteq excused' /\ member' = m /\ PairOf(e)' = PairOf(e)
        /\ \A q \in Part : TupleOf(e, q)' = TupleOf(e, q)
    BY <1>1, <1>3, <1>4, Writes
  <1>6. ShapeOf(e)' /\ HandlerRight(e)'
    BY <1>1, <1>2, <1>3, <1>5 DEF ShapeOf, HandlerRight
  <1>7. ASSUME NEW t \in Tuple, Row(t) = PairOf(e), t \in tuples <=> t[2] = event[e].old
        PROVE  Good(t)'
    <2>1. t \notin tuples'
      BY <1>1, <1>2, <1>7, OfPair DEF ShapeOf, WardenInv
    <2>2. CASE t[2] = event[e].new
      <3>1. t = TupleOf(e, "grant")
        BY <1>7, <2>2, OfPair, TupleFields
      <3>2. HandlerOwes(e, t)'
        BY <1>1, <1>2, <1>5, <3>1 DEF HandlerOwes, Part
      <3> QED
        BY <3>2 DEF Good
    <2>3. CASE t[2] # event[e].new
      <3>1. ~Right(t)'
        BY <1>3, <1>5, <1>7, <2>3 DEF Right, Row
      <3> QED
        BY <2>1, <3>1 DEF Good
    <2> QED
      BY <2>2, <2>3
  <1> QED
    BY <1>1, <1>3, <1>5, <1>6, <1>7, RowsWritten

LEMMA MemberRoleChangedStep ==
  ASSUME WardenInv, NEW e \in Event, MemberRoleChanged(e)
  PROVE  WardenInv'
  <1> DEFINE m == [p \in Pair |-> IF p[1] = event[e].user /\ member[p] # "none"
                                   THEN event[e].new ELSE member[p]]
  <1>1. /\ HandlerWrites(e, m) /\ Goto(e, "revoke") /\ pc[e] = "sent"
        /\ UNCHANGED <<truth, known, tuples, event, found, queue, batch,
                       reconciler, wanted, repair, faults>>
    BY DEF MemberRoleChanged, Receive
  <1>2. /\ ShapeOf(e) /\ PairOf(e) \in Pair /\ event[e].type = "role_changed"
        /\ event[e].old \in Role /\ event[e].new \in Role \ {event[e].old}
        /\ PairOf(e)[1] = event[e].user
    BY AtWork DEF MemberRoleChanged, Receive, ShapeOf, PairOf
  <1>3. /\ m \in [Pair -> Role \cup {"none"}]
        /\ member[PairOf(e)] = event[e].old => m[PairOf(e)] = event[e].new
    BY <1>2 DEF WardenInv, TypeOK, Role
  <1> HIDE DEF m
  <1>4. "revoke" \in Label
    BY DEF Label
  <1>5. /\ TypeOK' /\ Others(e) /\ pc'[e] = "revoke"
        /\ excused \subseteq excused' /\ member' = m /\ PairOf(e)' = PairOf(e)
        /\ \A q \in Part : TupleOf(e, q)' = TupleOf(e, q)
        /\ PairOf(e) \notin excused' => member[PairOf(e)] = event[e].old
    BY <1>1, <1>2, <1>3, <1>4, Writes
  <1>6. ShapeOf(e)' /\ HandlerRight(e)'
    BY <1>1, <1>2, <1>3, <1>5 DEF ShapeOf, HandlerRight
  <1>7. ASSUME NEW t \in Tuple, Row(t) = PairOf(e), member[Row(t)] = event[e].old,
               t \in tuples <=> t[2] = event[e].old
        PROVE  Good(t)'
    <2>1. Right(t)' <=> t[2] = event[e].new
      BY <1>3, <1>5, <1>7 DEF Right, Row
    <2>2. CASE t[2] = event[e].new
      <3>1. t = TupleOf(e, "grant")
        BY <1>7, <2>2, OfPair, TupleFields
      <3>2. HandlerOwes(e, t)'
        BY <1>1, <1>2, <1>5, <3>1 DEF HandlerOwes, Part
      <3> QED
        BY <3>2 DEF Good
    <2>3. CASE t[2] = event[e].old
      <3>1. t = TupleOf(e, "revoke")
        BY <1>2, <1>7, <2>3, OfPair, TupleFields
      <3>2. HandlerOwes(e, t)'
        BY <1>5, <3>1 DEF HandlerOwes, Part
      <3> QED
        BY <3>2 DEF Good
    <2>4. CASE t[2] # event[e].old /\ t[2] # event[e].new
      BY <1>1, <1>7, <2>1, <2>4 DEF Good
    <2> QED
      BY <2>2, <2>3, <2>4
  <1> QED
    BY <1>1, <1>3, <1>5, <1>6, <1>7, RowsWritten

LEMMA DeleteRowsStep ==
  ASSUME WardenInv, NEW e \in Event, DeleteRows(e)
  PROVE  WardenInv'
  <1> DEFINE m == [p \in Pair |-> IF p[1] = event[e].user THEN "none" ELSE member[p]]
             l == IF found[e] = "none" THEN "done" ELSE "revoke"
  <1>1. /\ HandlerWrites(e, m) /\ Goto(e, l) /\ pc[e] = "deleting"
        /\ UNCHANGED <<truth, known, tuples, event, found, queue, batch,
                       reconciler, wanted, repair, faults>>
    BY DEF DeleteRows
  <1>2. /\ ShapeOf(e) /\ PairOf(e) \in Pair /\ event[e].type = "removed"
        /\ event[e].old \in Role /\ event[e].new = "none"
        /\ found[e] \in Role \cup {"none"}
        /\ PairOf(e)[1] = event[e].user
        /\ PairOf(e) \notin excused => found[e] = member[PairOf(e)]
    BY <1>1, AtWork DEF ShapeOf, PairOf, InFlight, HandlerRight
  <1>3. m \in [Pair -> Role \cup {"none"}] /\ m[PairOf(e)] = "none"
    BY <1>2 DEF WardenInv, TypeOK
  <1>4. l \in Label /\ (l = "revoke" => found[e] \in Role) /\ l \in {"done", "revoke"}
        /\ (found[e] \in Role => l = "revoke")
    BY <1>2 DEF Label, Role
  <1> HIDE DEF m, l
  <1>5. /\ TypeOK' /\ Others(e) /\ pc'[e] = l
        /\ excused \subseteq excused' /\ member' = m /\ PairOf(e)' = PairOf(e)
        /\ \A q \in Part : TupleOf(e, q)' = TupleOf(e, q)
    BY <1>1, <1>3, <1>4, Writes
  <1>6. ShapeOf(e)' /\ HandlerRight(e)'
    BY <1>1, <1>2, <1>3, <1>4, <1>5 DEF ShapeOf, HandlerRight
  <1>7. ASSUME NEW t \in Tuple, Row(t) = PairOf(e), Row(t) \notin excused',
               member[Row(t)] = event[e].old, t \in tuples <=> t[2] = event[e].old
        PROVE  Good(t)'
    <2>1. ~Right(t)'
      BY <1>3, <1>5, <1>7, OfPair DEF Right, Row
    <2>2. CASE t[2] = event[e].old
      <3>1. found[e] = event[e].old
        BY <1>2, <1>5, <1>7
      <3>2. t = TupleOf(e, "revoke")
        BY <1>2, <1>7, <2>2, <3>1, OfPair, TupleFields
      <3>3. HandlerOwes(e, t)'
        BY <1>2, <1>4, <1>5, <3>1, <3>2 DEF HandlerOwes, Part
      <3> QED
        BY <3>3 DEF Good
    <2>3. CASE t[2] # event[e].old
      BY <1>1, <1>7, <2>1, <2>3 DEF Good
    <2> QED
      BY <2>2, <2>3
  <1> QED
    BY <1>1, <1>3, <1>5, <1>6, <1>7, RowsWritten

LEMMA LoginStep ==
  ASSUME WardenInv, NEW u \in User, NEW claims \in {Initial, idp}, Login(u, claims)
  PROVE  WardenInv'
  <1> DEFINE m == [p \in Pair |-> IF p[1] = u THEN claims[p] ELSE member[p]]
  <1>1. /\ known' = known \cup {u} /\ faults' = faults + 1 /\ faults < MaxFaults
        /\ \/ UNCHANGED <<member, excused>>
           \/ member' = m /\ excused' = excused \cup Changed(m)
        /\ UNCHANGED <<truth, tuples, event, pc, found, queue, batch, reconciler,
                       wanted, repair>>
    BY DEF Login, Fault, WriteRows, handlers
  <1>2. m \in [Pair -> Role \cup {"none"}] /\ Changed(m) \subseteq Pair
    BY WardenAssumption DEF WardenInv, TypeOK, Changed
  <1>3. \A p \in Pair : p \notin excused' => member'[p] = member[p]
    BY <1>1 DEF Changed
  <1> HIDE DEF m
  <1>4. TypeOK'
    BY <1>1, <1>2, WardenAssumption DEF WardenInv, TypeOK, truth
  <1>5. excused \subseteq excused'
    BY <1>1
  <1>6. Shapes'
    BY <1>1, <1>5 DEF WardenInv, Shapes, ShapeOf, PairOf
  <1>7. \A i : Outstanding(i)' <=> Outstanding(i)
    BY <1>1 DEF Outstanding
  <1>8. ItemsMade'
    BY <1>1, <1>7 DEF WardenInv, ItemsMade, ItemMade
  <1>9. \A e \in Event : /\ PairOf(e)' = PairOf(e)
                         /\ \A q \in Part : TupleOf(e, q)' = TupleOf(e, q)
    BY <1>1, Calls
  <1>10. ItemsRight'
    <2> SUFFICES ASSUME NEW e \in Event, NEW q \in Part, Outstanding(<<e, q>>),
                        Row(TupleOf(e, q)) \notin excused'
                 PROVE  CallRight(e, q)'
      BY <1>7, <1>9 DEF ItemsRight, CallRight, Row
    <2>1. ItemMade(e, q) /\ ShapeOf(e) /\ CallRight(e, q)
      BY DEF WardenInv, ItemsMade, ItemsRight, Shapes, ItemMade
    <2>2. Row(TupleOf(e, q)) \in Pair
      BY <2>1, PairMade
    <2> QED
      BY <1>3, <1>5, <1>9, <2>1, <2>2 DEF CallRight, Right, Row
  <1>11. AttemptsLeft'
    BY <1>1 DEF WardenInv, AttemptsLeft
  <1>12. HandlersRight'
    <2> SUFFICES ASSUME NEW e \in Event, InFlight(e)
                 PROVE  HandlerRight(e)'
      BY <1>1 DEF HandlersRight, InFlight
    <2>1. HandlerRight(e) /\ PairOf(e) \in Pair
      BY AtWork DEF InFlight, ShapeOf
    <2> QED
      BY <1>1, <1>3, <1>5, <1>9, <2>1 DEF HandlerRight
  <1>13. \A t \in Tuple : Row(t) \in Pair /\ Row(t)' = Row(t)
    BY DEF Tuple, Row, Pair
  <1>14. RepairRight'
    BY <1>1, <1>3, <1>5, <1>13, RepairKept DEF WardenInv
  <1>15. Owed'
    <2>1. \A t \in Tuple, e \in Event : HandlerOwes(e, t) => HandlerOwes(e, t)'
      BY <1>1, <1>9 DEF HandlerOwes, Part
    <2>2. \A t \in Tuple, i \in Item : ItemOwes(i, t) => ItemOwes(i, t)'
      BY <1>1, <1>9, ItemCall DEF ItemOwes
    <2> QED
      BY <1>1, <1>3, <1>5, <1>13, <2>1, <2>2, OwedKept DEF WardenInv
  <1> QED
    BY <1>4, <1>6, <1>8, <1>10, <1>11, <1>12, <1>14, <1>15 DEF WardenInv

-----------------------------------------------------------------------------
LEMMA WardenStarts == Init => WardenInv
  <1> SUFFICES ASSUME Init PROVE WardenInv
    OBVIOUS
  <1> USE DEF Init
  <1>1. idp \in [Pair -> Role \cup {"none"}] /\ member \in [Pair -> Role \cup {"none"}]
    BY WardenAssumption
  <1>2. TypeOK
    BY <1>1, WardenAssumption DEF TypeOK, TuplesOf, NoRepair, Repair
  <1>3. Shapes
    BY DEF Shapes
  <1>4. \A i \in Item : ~Outstanding(i)
    BY DEF Outstanding
  <1>5. ItemsMade /\ ItemsRight
    BY <1>4 DEF ItemsMade, ItemsRight, Item
  <1>6. AttemptsLeft
    BY DEF AttemptsLeft
  <1>7. HandlersRight
    BY DEF HandlersRight, InFlight
  <1>8. RepairRight
    BY DEF RepairRight, NoRepair
  <1>9. Owed
    BY TableTuples DEF Owed, Good
  <1> QED
    BY <1>2, <1>3, <1>5, <1>6, <1>7, <1>8, <1>9 DEF WardenInv

LEMMA WardenSteps == WardenInv /\ [Next]_vars => WardenInv'
  <1> SUFFICES ASSUME WardenInv, [Next]_vars
               PROVE  WardenInv'
    OBVIOUS
  <1>1. ASSUME NEW e \in Event, IdpChanges(e) \/ Handler(e)
        PROVE  WardenInv'
    BY <1>1, SendStep, SkipStep, OrganizationCreatedStep, OrganizationDeletedStep,
       MemberAddedStep, MemberRemovedStep, DeleteRowsStep, MemberRoleChangedStep,
       RevokeStep, LookupOwnerStep, GrantStep, DemoteStep, CrashStep DEF Handler
  <1>2. ASSUME NEW u \in User, NEW claims \in {Initial, idp}, Login(u, claims)
        PROVE  WardenInv'
    BY <1>2, LoginStep
  <1>3. ASSUME NEW p \in Poller, PollerStep(p)
        PROVE  WardenInv'
    BY <1>3, PollStartStep, RetryStep, PollAbortStep DEF PollerStep
  <1>4. CASE Reconcile
    BY <1>4, ReconcileSteps
  <1>5. CASE RouteRepair \/ ScriptRepair
    BY <1>5, RepairMoves
  <1>6. CASE UNCHANGED vars
    <2>1. /\ UNCHANGED <<rows, handlers>> /\ UNCHANGED <<truth, queue, batch, excused>>
          /\ UNCHANGED <<tuples, reconciler, wanted, repair, faults>>
      BY <1>6 DEF vars
    <2>2. /\ tuples' \subseteq Tuple /\ Nearer /\ wanted' \subseteq Tuple
          /\ reconciler' \in {"idle", "expecting", "writing"}
          /\ repair' \in Repair /\ faults' \in 0 .. MaxFaults
      BY <2>1 DEF WardenInv, TypeOK, Nearer
    <2>3. RepairRight'
      BY <2>1 DEF WardenInv, RepairRight, Right, Row, rows
    <2> QED
      BY <2>1, <2>2, <2>3, Repairs
  <1> QED
    BY <1>1, <1>2, <1>3, <1>4, <1>5, <1>6 DEF Next

(* The inductive invariant: whoever is still to make a call of Warden would
   make the tuple what the table says, and wherever Warden disagrees with the
   table somebody still is.                                                  *)
THEOREM WardenInvariant == Spec => []WardenInv
  BY WardenStarts, WardenSteps, PTL DEF Spec

(* Every variable keeps its type: no item is retried past maxAttempts, and no
   tuple or pair is made of anything but users, roles and organizations.     *)
THEOREM WardenTypes == Spec => []TypeOK
  <1>1. WardenInv => TypeOK
    BY DEF WardenInv
  <1> QED
    BY <1>1, WardenInvariant, PTL

(* Once everything about a membership is settled, Warden holds the tuple of
   its row and no other, whatever webhooks, retries, reconcilers and repairs
   came between.                                                             *)
THEOREM SyncedOnceSettled == Spec => []SyncedWhenSettled
  <1>1. ASSUME WardenInv
        PROVE  SyncedWhenSettled
    <2> SUFFICES ASSUME NEW p \in Pair, p \notin excused, Settled(p), NEW r \in Role
                 PROVE  <<p[1], r, p[2]>> \in tuples <=> member[p] = r
      BY DEF SyncedWhenSettled
    <2> DEFINE t == <<p[1], r, p[2]>>
    <2>1. t \in Tuple /\ Row(t) = p /\ t[2] = r
      BY DEF Tuple, Pair, Row
    <2>2. \A e \in Event : e \in Event \ {0}
      BY WardenAssumption
    <2>3. ASSUME NEW e \in Event, HandlerOwes(e, t)
          PROVE  FALSE
      <3>1. InFlight(e) /\ PairOf(e) = p
        BY <2>1, <2>3, RowOfCall DEF HandlerOwes, InFlight
      <3> QED
        BY <2>2, <3>1 DEF Settled, Busy
    <2>4. ASSUME NEW i \in Item, ItemOwes(i, t)
          PROVE  FALSE
      BY <2>1, <2>4, ItemCall DEF ItemOwes, Settled, Busy
    <2>5. t \in tuples <=> Right(t)
      BY <1>1, <2>1, <2>3, <2>4 DEF WardenInv, Owed, Good
    <2> QED
      BY <2>1, <2>5 DEF Right
  <1> QED
    BY <1>1, WardenInvariant, PTL
=============================================================================
