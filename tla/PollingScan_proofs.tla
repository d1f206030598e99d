------------------------- MODULE PollingScan_proofs -------------------------
(***************************************************************************)
(* Proofs about PollingScan, for any instances, workflows, polls, answers  *)
(* and changes.                                                            *)
(***************************************************************************)
EXTENDS PollingScan, FiniteSetTheorems, TLAPS

Deduplicated == {"hash", "field"}

\* A poll that has stored its answer and not triggered its workflow yet.
Carrier(p, w, d, v) ==
    poll[p].at \in {"limit", "insert"} /\ Mine(p) = w /\ poll[p].mode = d
    /\ poll[p].data = v

Carriers(w, d, v) == {p \in Poll : Carrier(p, w, d, v)}

\* How often answer v has triggered w, or is about to.
Used(w, d, v) == triggered[w][d][v] + Cardinality(Carriers(w, d, v))

\* What is in a poll's hands is an answer.
Answered(p) ==
    poll[p].at \in {"compare", "store", "limit", "insert"} => poll[p].data \in Content

\* The answers of two polls that compare at once are mixed.
Alone(w) ==
    \A p, q \in Comparing(w) : p # q => <<poll[p].data, poll[q].data>> \in mixed[w]

Marked(w, v) == \E u \in Content : <<v, u>> \in mixed[w]

\* By hash, answer v has not been used more often than it came; less often, while
\* it is there, or in a poll's hands, and not the one that is remembered.
HashOnce(w, v) ==
    LET used == Used(w, "hash", v)
        left == used < turns[w][v]
    IN  /\ used <= turns[w][v]
        /\ content[w] = v => lastHash[w] = v \/ left
        /\ \A p \in Comparing(w) :
             /\ poll[p].data = v => lastHash[w] = v \/ left
             /\ poll[p].data # v /\ content[w] = v => left
             /\ poll[p].at = "store" /\ poll[p].mode = "hash" /\ poll[p].data = v => left

\* By field, it is used once, when it has been stored.
FieldOnce(w, v) ==
    /\ Used(w, "field", v) <= 1
    /\ Used(w, "field", v) > 0 => v \in fields[w]
    /\ \A p \in Comparing(w) :
         poll[p].at = "store" /\ poll[p].mode = "field" /\ poll[p].data = v
           => v \notin fields[w]

PollInv ==
    /\ PollTypeOK
    /\ \A p \in Poll : Answered(p)
    /\ \A w \in Watched : Alone(w)
    /\ \A w \in Watched, v \in Content :
         /\ ~Marked(w, v) => HashOnce(w, v)
         /\ <<v, v>> \notin mixed[w] => FieldOnce(w, v)

-----------------------------------------------------------------------------
(* Counting. *)

LEMMA Uses ==
  ASSUME PollTypeOK, NEW w \in Watched, NEW d \in Mode, NEW v \in Content
  PROVE  /\ IsFiniteSet(Carriers(w, d, v)) /\ Cardinality(Carriers(w, d, v)) \in Nat
         /\ triggered[w][d][v] \in Nat /\ Used(w, d, v) \in Nat
         /\ turns[w][v] \in Nat
         /\ triggered[w][d][v] <= Used(w, d, v)
  <1>1. Carriers(w, d, v) \in SUBSET Poll /\ IsFiniteSet(Poll)
    BY PollAssumption DEF Carriers
  <1>2. IsFiniteSet(Carriers(w, d, v)) /\ Cardinality(Carriers(w, d, v)) \in Nat
    BY <1>1, FS_Subset, FS_CardinalityType
  <1>3. triggered[w][d][v] \in Nat /\ turns[w][v] \in Nat
    BY DEF PollTypeOK
  <1> QED
    BY <1>2, <1>3 DEF Used

\* Nothing is used more often where nobody takes up an answer.
LEMMA UsedLess ==
  ASSUME PollTypeOK, PollTypeOK', NEW w \in Watched, NEW d \in Mode, NEW v \in Content,
         triggered'[w][d][v] = triggered[w][d][v],
         Carriers(w, d, v)' \subseteq Carriers(w, d, v)
  PROVE  Used(w, d, v)' <= Used(w, d, v) /\ Used(w, d, v)' \in Nat
  <1>1. PICK A : A = Carriers(w, d, v)
    OBVIOUS
  <1>2. PICK B : B = Carriers(w, d, v)'
    OBVIOUS
  <1>3. IsFiniteSet(A) /\ B \in SUBSET A
    BY <1>1, <1>2, Uses
  <1>4. Cardinality(B) <= Cardinality(A) /\ Cardinality(B) \in Nat /\ Cardinality(A) \in Nat
    BY <1>3, FS_Subset, FS_CardinalityType
  <1>5. triggered[w][d][v] \in Nat
    BY Uses
  <1> QED
    BY <1>1, <1>2, <1>4, <1>5 DEF Used

\* The poll that takes one up.
LEMMA UsedMore ==
  ASSUME PollTypeOK, PollTypeOK', NEW w \in Watched, NEW d \in Mode, NEW v \in Content,
         triggered'[w][d][v] = triggered[w][d][v],
         NEW p, Carriers(w, d, v)' \subseteq Carriers(w, d, v) \cup {p}
  PROVE  Used(w, d, v)' <= Used(w, d, v) + 1 /\ Used(w, d, v)' \in Nat
  <1>1. PICK A : A = Carriers(w, d, v)
    OBVIOUS
  <1>2. PICK B : B = Carriers(w, d, v)'
    OBVIOUS
  <1>3. IsFiniteSet(A) /\ B \in SUBSET (A \cup {p})
    BY <1>1, <1>2, Uses
  <1>4. /\ IsFiniteSet(A \cup {p}) /\ Cardinality(A) \in Nat
        /\ Cardinality(A \cup {p}) = Cardinality(A)
           \/ Cardinality(A \cup {p}) = Cardinality(A) + 1
    BY <1>3, FS_AddElement, FS_CardinalityType
  <1>5. Cardinality(B) <= Cardinality(A \cup {p}) /\ Cardinality(B) \in Nat
    BY <1>3, <1>4, FS_Subset, FS_CardinalityType
  <1>6. Cardinality(B) <= Cardinality(A) + 1
    BY <1>4, <1>5
  <1>7. triggered[w][d][v] \in Nat
    BY Uses
  <1> QED
    BY <1>1, <1>2, <1>4, <1>5, <1>6, <1>7 DEF Used

\* The poll that has used it up.
LEMMA UsedUp ==
  ASSUME PollTypeOK, PollTypeOK', NEW w \in Watched, NEW d \in Mode, NEW v \in Content,
         triggered'[w][d][v] = triggered[w][d][v] + 1,
         NEW p \in Carriers(w, d, v),
         Carriers(w, d, v)' \subseteq Carriers(w, d, v) \ {p}
  PROVE  Used(w, d, v)' <= Used(w, d, v) /\ Used(w, d, v)' \in Nat
  <1>1. PICK A : A = Carriers(w, d, v)
    OBVIOUS
  <1>2. PICK B : B = Carriers(w, d, v)'
    OBVIOUS
  <1>3. IsFiniteSet(A) /\ B \in SUBSET (A \ {p}) /\ p \in A
    BY <1>1, <1>2, Uses
  <1>4. /\ IsFiniteSet(A \ {p}) /\ Cardinality(A) \in Nat
        /\ Cardinality(A \ {p}) = Cardinality(A) - 1
    BY <1>3, FS_RemoveElement, FS_CardinalityType
  <1>5. Cardinality(B) <= Cardinality(A \ {p}) /\ Cardinality(B) \in Nat
    BY <1>3, <1>4, FS_Subset, FS_CardinalityType
  <1>6. Cardinality(B) <= Cardinality(A) - 1
    BY <1>4, <1>5
  <1>7. triggered[w][d][v] \in Nat
    BY Uses
  <1> QED
    BY <1>1, <1>2, <1>4, <1>5, <1>6, <1>7 DEF Used

-----------------------------------------------------------------------------
(* What a step that remembers nothing new keeps. *)

\* The answers change by coming back.
Turning ==
    \A w \in Watched, v \in Content :
        /\ turns[w][v] <= turns'[w][v]
        /\ content'[w] = v => content[w] = v \/ turns[w][v] < turns'[w][v]

\* Who compares did so before.
NoneCompares ==
    \A w \in Watched : \A p \in Comparing(w)' :
        /\ p \in Comparing(w)
        /\ poll'[p].at = poll[p].at /\ poll'[p].mode = poll[p].mode
        /\ poll'[p].data = poll[p].data

LEMMA Keeps ==
  ASSUME PollInv, PollTypeOK', Turning, NoneCompares,
         UNCHANGED <<lastHash, fields, mixed>>,
         \A p \in Poll : Answered(p)',
         \A w \in Watched, d \in Deduplicated, v \in Content :
             Used(w, d, v)' <= Used(w, d, v) /\ Used(w, d, v)' \in Nat
  PROVE  PollInv'
  <1>1. ASSUME NEW w \in Watched
        PROVE  Alone(w)'
    BY DEF PollInv, Alone, NoneCompares
  <1>2. ASSUME NEW w \in Watched, NEW v \in Content, ~Marked(w, v)'
        PROVE  HashOnce(w, v)'
    <2>1. HashOnce(w, v)
      BY <1>2 DEF PollInv, Marked
    <2>2. /\ Used(w, "hash", v)' <= Used(w, "hash", v) /\ Used(w, "hash", v)' \in Nat
          /\ Used(w, "hash", v) \in Nat /\ turns[w][v] \in Nat /\ turns'[w][v] \in Nat
      BY Uses DEF PollInv, Deduplicated, Mode, PollTypeOK
    <2>3. /\ turns[w][v] <= turns'[w][v]
          /\ content'[w] = v => content[w] = v \/ turns[w][v] < turns'[w][v]
      BY DEF Turning
    <2>4. /\ Used(w, "hash", v) <= turns[w][v] => Used(w, "hash", v)' <= turns'[w][v]
          /\ Used(w, "hash", v) < turns[w][v] => Used(w, "hash", v)' < turns'[w][v]
          /\ Used(w, "hash", v) <= turns[w][v] /\ turns[w][v] < turns'[w][v]
               => Used(w, "hash", v)' < turns'[w][v]
      BY <2>2, <2>3
    <2>5. ASSUME NEW p \in Comparing(w)'
          PROVE  /\ p \in Comparing(w)
                 /\ poll'[p].at = poll[p].at /\ poll'[p].mode = poll[p].mode
                 /\ poll'[p].data = poll[p].data
      BY DEF NoneCompares
    <2> QED
      BY <2>1, <2>3, <2>4, <2>5 DEF HashOnce
  <1>3. ASSUME NEW w \in Watched, NEW v \in Content, <<v, v>> \notin mixed'[w]
        PROVE  FieldOnce(w, v)'
    <2>1. FieldOnce(w, v)
      BY <1>3 DEF PollInv
    <2>2. /\ Used(w, "field", v)' <= Used(w, "field", v) /\ Used(w, "field", v)' \in Nat
          /\ Used(w, "field", v) \in Nat
      BY Uses DEF PollInv, Deduplicated, Mode
    <2>3. /\ Used(w, "field", v)' <= 1
          /\ Used(w, "field", v)' > 0 => v \in fields'[w]
      BY <2>1, <2>2 DEF FieldOnce
    <2>4. ASSUME NEW p \in Comparing(w)'
          PROVE  /\ p \in Comparing(w)
                 /\ poll'[p].at = poll[p].at /\ poll'[p].mode = poll[p].mode
                 /\ poll'[p].data = poll[p].data
      BY DEF NoneCompares
    <2> QED
      BY <2>1, <2>3, <2>4 DEF FieldOnce
  <1> QED
    BY <1>1, <1>2, <1>3 DEF PollInv

\* Polls that end or begin, and those that go from the limit to the insertion.
Calm ==
    \A p \in Poll :
        \/ poll'[p].at \in {"idle", "fetch", "done"}
        \/ /\ poll'[p].wf = poll[p].wf /\ poll'[p].mode = poll[p].mode
           /\ poll'[p].data = poll[p].data
           /\ \/ poll'[p].at = poll[p].at
              \/ {poll'[p].at, poll[p].at} \subseteq {"limit", "insert"}

LEMMA CalmKeeps ==
  ASSUME PollInv, PollTypeOK', Calm, Turning, UNCHANGED <<lastHash, fields, Past>>
  PROVE  PollInv'
  <1>1. /\ UNCHANGED <<lastHash, fields, mixed>> /\ triggered' = triggered
    BY DEF Past
  <1>2. NoneCompares
    BY DEF NoneCompares, Calm, Comparing, Mine
  <1>3. ASSUME NEW p \in Poll
        PROVE  Answered(p)'
    <2>1. Answered(p)
      BY DEF PollInv
    <2> QED
      BY <2>1 DEF Answered, Calm, Content
  <1>4. ASSUME NEW w \in Watched, NEW d \in Deduplicated, NEW v \in Content
        PROVE  Used(w, d, v)' <= Used(w, d, v) /\ Used(w, d, v)' \in Nat
    <2>1. d \in Mode
      BY DEF Deduplicated, Mode
    <2>2. Carriers(w, d, v)' \subseteq Carriers(w, d, v)
      BY DEF Carriers, Carrier, Calm, Mine
    <2> QED
      BY <1>1, <2>1, <2>2, UsedLess DEF PollInv
  <1> QED
    BY <1>1, <1>2, <1>3, <1>4, Keeps

\* Where the answers stay what they are.
LEMMA NoTurn ==
  ASSUME PollInv, UNCHANGED <<content, turns>>
  PROVE  Turning
  BY DEF PollInv, PollTypeOK, Turning

-----------------------------------------------------------------------------
(* Types. *)

LEMMA Records ==
  ASSUME NEW s \in PollRecord
  PROVE  /\ s.at \in PollAt /\ s.by \in Instance /\ s.wf \in Watched
         /\ s.mode \in Mode /\ s.data \in 0 .. MaxContent
         /\ \A at \in PollAt : [s EXCEPT !.at = at] \in PollRecord
         /\ \A at \in PollAt : /\ [s EXCEPT !.at = at].at = at
                               /\ [s EXCEPT !.at = at].wf = s.wf
                               /\ [s EXCEPT !.at = at].mode = s.mode
                               /\ [s EXCEPT !.at = at].data = s.data
  <1>1. /\ s.at \in PollAt /\ s.by \in Instance /\ s.wf \in Watched
        /\ s.mode \in Mode /\ s.data \in 0 .. MaxContent
        /\ \A at \in PollAt : [s EXCEPT !.at = at] \in PollRecord
        /\ \A at \in PollAt : /\ [s EXCEPT !.at = at].at = at
                              /\ [s EXCEPT !.at = at].wf = s.wf
                              /\ [s EXCEPT !.at = at].mode = s.mode
                              /\ [s EXCEPT !.at = at].data = s.data
    BY DEF PollRecord
  <1> QED
    BY <1>1

LEMMA StillType ==
  ASSUME NEW at \in PollAt
  PROVE  Still(at) \in PollRecord /\ Still(at).at = at
  <1> DEFINE i == CHOOSE i \in Instance : TRUE
             w == CHOOSE w \in Watched : TRUE
  <1>1. i \in Instance /\ w \in Watched /\ "none" \in Mode /\ 0 \in 0 .. MaxContent
    BY PollAssumption DEF Mode
  <1>2. Still(at) = [at |-> at, by |-> i, wf |-> w, mode |-> "none", data |-> 0]
    BY DEF Still
  <1> HIDE DEF i, w
  <1> QED
    BY <1>1, <1>2 DEF PollRecord

LEMMA FetchingType ==
  ASSUME NEW i \in Instance, NEW w \in Watched, NEW c \in Config
  PROVE  Fetching(i, w, c) \in PollRecord /\ Fetching(i, w, c).at = "fetch"
  <1>1. "fetch" \in PollAt /\ Dedup[c] \in Mode /\ 0 \in 0 .. MaxContent
    BY PollAssumption DEF PollAt
  <1> QED
    BY <1>1 DEF Fetching, PollRecord

\* A poll that takes a step.
LEMMA Steps ==
  ASSUME PollInv, NEW p \in Poll, NEW at \in PollAt, Step(p, at)
  PROVE  /\ poll' \in [Poll -> PollRecord]
         /\ \A q \in Poll \ {p} : poll'[q] = poll[q]
         /\ poll'[p].at = at
         /\ at # "done" => /\ poll'[p].wf = poll[p].wf /\ poll'[p].mode = poll[p].mode
                           /\ poll'[p].data = poll[p].data
  <1> DEFINE s == poll[p]
             u == IF at = "done" THEN Still(at) ELSE [s EXCEPT !.at = at]
  <1>1. s \in PollRecord /\ poll \in [Poll -> PollRecord]
    BY DEF PollInv, PollTypeOK
  <1>2. poll' = [poll EXCEPT ![p] = u]
    BY DEF Step
  <1> HIDE DEF s
  <1>3. /\ u \in PollRecord /\ u.at = at
        /\ at # "done" => u.wf = s.wf /\ u.mode = s.mode /\ u.data = s.data
    <2>1. CASE at = "done"
      BY <2>1, StillType
    <2>2. CASE at # "done"
      BY <1>1, <2>2, Records
    <2> QED
      BY <2>1, <2>2
  <1> HIDE DEF u
  <1> QED
    BY <1>1, <1>2, <1>3 DEF s

-----------------------------------------------------------------------------
(* The steps of the scans, the timers and the world around. *)

LEMMA WorldSteps ==
  ASSUME PollInv, NEW w \in Watched,
         (\E v \in Content : NewContent(w, v)) \/ \E c \in Config \cup {Off} : Edit(w, c)
  PROVE  PollInv'
  <1>1. UNCHANGED <<scanLock, lastHash, fields, scan, poller, poll>> /\ UNCHANGED Past
    BY DEF NewContent, Edit, Cache, Scheduler
  <1>2. /\ content \in [Watched -> Content] /\ changes \in 0 .. MaxChanges
        /\ turns \in [Watched -> [Content -> Nat]]
        /\ config \in [Watched -> Config \cup {Off}] /\ MaxChanges \in Nat
    BY PollAssumption DEF PollInv, PollTypeOK
  <1>3. /\ content' \in [Watched -> Content] /\ turns' \in [Watched -> [Content -> Nat]]
        /\ Turning
    <2>1. ASSUME NEW v \in Content, NewContent(w, v)
          PROVE  /\ content' \in [Watched -> Content]
                 /\ turns' \in [Watched -> [Content -> Nat]]
                 /\ Turning
      <3> DEFINE n == turns[w][v] + 1
                 row == [turns[w] EXCEPT ![v] = n]
      <3>1. content' = [content EXCEPT ![w] = v] /\ turns' = [turns EXCEPT ![w] = row]
        BY <2>1 DEF NewContent
      <3>2. /\ n \in Nat /\ turns[w] \in [Content -> Nat] /\ turns[w][v] < n
        BY <1>2
      <3> HIDE DEF n
      <3>3. /\ row \in [Content -> Nat] /\ row[v] = n
            /\ \A u \in Content \ {v} : row[u] = turns[w][u]
        BY <3>2
      <3> HIDE DEF row
      <3>4. /\ turns' \in [Watched -> [Content -> Nat]] /\ turns'[w] = row
            /\ \A x \in Watched \ {w} : turns'[x] = turns[x] /\ content'[x] = content[x]
            /\ content' \in [Watched -> Content] /\ content'[w] = v
        BY <1>2, <3>1, <3>3
      <3>5. ASSUME NEW x \in Watched, NEW u \in Content
            PROVE  /\ turns[x][u] <= turns'[x][u]
                   /\ content'[x] = u => content[x] = u \/ turns[x][u] < turns'[x][u]
        <4>1. turns[x][u] \in Nat /\ n \in Nat
          BY <1>2, <3>2
        <4>2. CASE x = w /\ u = v
          BY <3>2, <3>3, <3>4, <4>1, <4>2
        <4>3. CASE x = w /\ u # v
          BY <3>3, <3>4, <4>1, <4>3
        <4>4. CASE x # w
          BY <3>4, <4>1, <4>4
        <4> QED
          BY <4>2, <4>3, <4>4
      <3> QED
        BY <3>4, <3>5 DEF Turning
    <2>2. CASE UNCHANGED <<content, turns>>
      BY <1>2, <2>2, NoTurn
    <2> QED
      BY <2>1, <2>2 DEF Edit
  <1>4. config' \in [Watched -> Config \cup {Off}] /\ changes' \in 0 .. MaxChanges
    BY <1>2 DEF NewContent, Edit
  <1>5. PollTypeOK'
    BY <1>1, <1>3, <1>4 DEF PollInv, PollTypeOK, Past
  <1>6. Calm
    BY <1>1 DEF Calm
  <1> QED
    BY <1>1, <1>3, <1>5, <1>6, CalmKeeps

LEMMA ScanSteps ==
  ASSUME PollInv, NEW i \in Instance,
         \/ AcquireLock(i) \/ ScanFails(i) \/ ScanPollers(i) \/ StopInstance(i)
         \/ \E w \in Watched : FirePoller(i, w)
         \/ LockExpires
  PROVE  PollInv'
  <1>1. UNCHANGED <<lastHash, fields, config, changes, content, turns>> /\ UNCHANGED Past
    BY DEF AcquireLock, ScanFails, ScanPollers, StopInstance, FirePoller, LockExpires,
       Cache, Source
  <1>2. /\ poll \in [Poll -> PollRecord] /\ config \in [Watched -> Config \cup {Off}]
        /\ scan \in [Instance -> {"idle", "read"}] /\ scanLock \in BOOLEAN
        /\ poller \in [Instance -> [Watched -> Config \cup {Off}]]
    BY DEF PollInv, PollTypeOK
  <1>3. scanLock' \in BOOLEAN
    BY <1>2 DEF AcquireLock, ScanFails, ScanPollers, StopInstance, FirePoller,
       LockExpires, Cache
  <1>4. /\ scan' \in [Instance -> {"idle", "read"}]
        /\ poller' \in [Instance -> [Watched -> Config \cup {Off}]]
    <2>1. CASE AcquireLock(i)
      BY <1>2, <2>1 DEF AcquireLock
    <2>2. CASE ScanFails(i)
      BY <1>2, <2>2 DEF ScanFails
    <2>3. CASE ScanPollers(i)
      BY <1>2, <2>3 DEF ScanPollers
    <2>4. CASE StopInstance(i)
      BY <1>2, <2>4 DEF StopInstance
    <2>5. CASE LockExpires \/ \E w \in Watched : FirePoller(i, w)
      BY <1>2, <2>5 DEF FirePoller, LockExpires, Scheduler
    <2> QED
      BY <2>1, <2>2, <2>3, <2>4, <2>5
  <1>5. /\ poll' \in [Poll -> PollRecord]
        /\ \A p \in Poll : poll'[p] = poll[p] \/ poll'[p].at \in {"fetch", "done"}
    <2>1. CASE AcquireLock(i) \/ ScanFails(i) \/ LockExpires
      BY <1>2, <2>1 DEF AcquireLock, ScanFails, LockExpires
    <2>2. CASE ScanPollers(i)
      <3> DEFINE new == {w \in Watched : poller[i][w] = Off /\ config[w] # Off}
      <3>1. PICK first \in [new -> Idle] :
              poll' = [p \in Poll |->
                         IF \E w \in new : first[w] = p
                           THEN LET w == CHOOSE w \in new : first[w] = p
                                IN  Fetching(i, w, config[w])
                           ELSE poll[p]]
        BY <2>2 DEF ScanPollers
      <3>2. ASSUME NEW p \in Poll, \E w \in new : first[w] = p
            PROVE  poll'[p] \in PollRecord /\ poll'[p].at = "fetch"
        <4> DEFINE w == CHOOSE w \in new : first[w] = p
        <4>1. w \in new
          BY <3>2
        <4>2. poll'[p] = Fetching(i, w, config[w])
          BY <3>1, <3>2
        <4> HIDE DEF w
        <4>3. config[w] \in Config /\ w \in Watched
          BY <1>2, <4>1
        <4> QED
          BY <4>2, <4>3, FetchingType
      <3>3. ASSUME NEW p \in Poll, ~\E w \in new : first[w] = p
            PROVE  poll'[p] \in PollRecord /\ poll'[p] = poll[p]
        BY <1>2, <3>1, <3>3
      <3> QED
        BY <3>1, <3>2, <3>3
    <2>3. CASE StopInstance(i)
      <3>1. poll' = [p \in Poll |-> IF poll[p].by = i /\ poll[p].at # "idle"
                                      THEN Still("done") ELSE poll[p]]
        BY <2>3 DEF StopInstance
      <3>2. Still("done") \in PollRecord /\ Still("done").at = "done"
        BY StillType DEF PollAt
      <3> QED
        BY <1>2, <3>1, <3>2
    <2>4. CASE \E w \in Watched : FirePoller(i, w)
      <3>1. PICK w \in Watched : FirePoller(i, w)
        BY <2>4
      <3> DEFINE q == CHOOSE p \in Idle : TRUE
                 u == Fetching(i, w, poller[i][w])
      <3>2. q \in Poll
        BY <3>1 DEF FirePoller, Idle
      <3>3. u \in PollRecord /\ u.at = "fetch"
        <4>1. poller[i][w] \in Config
          BY <1>2, <3>1 DEF FirePoller
        <4> QED
          BY <4>1, FetchingType
      <3>4. poll' = [poll EXCEPT ![q] = u]
        BY <3>1 DEF FirePoller
      <3> HIDE DEF q, u
      <3> QED
        BY <1>2, <3>2, <3>3, <3>4
    <2> QED
      BY <2>1, <2>2, <2>3, <2>4
  <1>6. PollTypeOK'
    BY <1>1, <1>3, <1>4, <1>5 DEF PollInv, PollTypeOK, Past
  <1>7. Calm
    BY <1>5 DEF Calm
  <1>8. Turning
    BY <1>1, NoTurn
  <1> QED
    BY <1>1, <1>6, <1>7, <1>8, CalmKeeps

\* A poll that ends, and one that is let through by the limit.
LEMMA EndSteps ==
  ASSUME PollInv, NEW p \in Poll, UNCHANGED <<Cache, Scheduler, Source, Past>>,
         Step(p, "done") \/ (In(p, "limit") /\ Step(p, "insert"))
  PROVE  PollInv'
  <1>1. /\ UNCHANGED <<scanLock, lastHash, fields, scan, poller, config, changes, content, turns>>
        /\ UNCHANGED Past
    BY DEF Cache, Scheduler, Source
  <1>2. /\ poll' \in [Poll -> PollRecord]
        /\ \A q \in Poll \ {p} : poll'[q] = poll[q]
        /\ \/ poll'[p].at = "done"
           \/ /\ poll'[p].at = "insert" /\ poll[p].at = "limit"
              /\ poll'[p].wf = poll[p].wf /\ poll'[p].mode = poll[p].mode
              /\ poll'[p].data = poll[p].data
    <2>1. "done" \in PollAt /\ "insert" \in PollAt
      BY DEF PollAt
    <2> QED
      BY <2>1, Steps DEF In
  <1>3. PollTypeOK'
    BY <1>1, <1>2 DEF PollInv, PollTypeOK, Past
  <1>4. Calm
    BY <1>2 DEF Calm
  <1>5. Turning
    BY <1>1, NoTurn
  <1> QED
    BY <1>1, <1>3, <1>4, <1>5, CalmKeeps

-----------------------------------------------------------------------------
(* The steps between the fetch and the run. *)

LEMMA Numbers ==
  ASSUME PollInv
  PROVE  /\ Content \subseteq Nat
         /\ \A w \in Watched : content[w] \in Content /\ lastHash[w] \in Nat
         /\ \A p \in Poll : /\ poll[p] \in PollRecord /\ poll[p].wf \in Watched
                            /\ poll[p].mode \in Mode /\ poll[p].data \in Nat
         /\ poll \in [Poll -> PollRecord]
  BY PollAssumption, Records DEF PollInv, PollTypeOK, Content

LEMMA FetchStep ==
  ASSUME PollInv, NEW p \in Poll, FetchContent(p)
  PROVE  PollInv'
  <1>1. PICK w : w = Mine(p)
    OBVIOUS
  <1>2. PICK beside : beside = {poll[q].data : q \in Comparing(w)}
    OBVIOUS
  <1> DEFINE c == content[w]
             s == poll[p]
             at == "compare"
             u == [s EXCEPT !.at = at, !.data = c]
             more == mixed[w] \cup ({c} \X beside) \cup (beside \X {c})
  <1>3. /\ In(p, "fetch") /\ poll' = [poll EXCEPT ![p] = u]
        /\ mixed' = [mixed EXCEPT ![w] = more]
        /\ UNCHANGED <<scanLock, lastHash, fields, scan, poller, config, changes,
                       content, turns, triggered>>
    BY <1>1, <1>2 DEF FetchContent, Cache, Scheduler, Source
  <1>4. /\ w \in Watched /\ c \in Content /\ Content \subseteq Nat
        /\ s \in PollRecord /\ poll \in [Poll -> PollRecord] /\ w = s.wf
        /\ mixed \in [Watched -> SUBSET (Content \X Content)]
    BY <1>1, Numbers DEF PollInv, PollTypeOK, Mine
  <1>5. at \in PollAt /\ c \in 0 .. MaxContent /\ s.at = "fetch"
    BY <1>3, <1>4 DEF PollAt, Content, In
  <1>6. beside \subseteq Content
    <2>1. \A q \in Comparing(w) : poll[q].data \in Content
      BY DEF Comparing, PollInv, Answered
    <2> QED
      BY <1>2, <2>1
  <1>7. more \subseteq Content \X Content
    BY <1>4, <1>6
  <1>8. \A q \in Comparing(w) : <<c, poll[q].data>> \in more /\ <<poll[q].data, c>> \in more
    BY <1>2
  <1>9. mixed[w] \subseteq more
    OBVIOUS
  <1> HIDE DEF c, s, at, more
  <1>10. u \in PollRecord /\ u.at = at /\ u.data = c /\ u.wf = w /\ u.mode = s.mode
    BY <1>4, <1>5 DEF PollRecord
  <1> HIDE DEF u
  <1>11. /\ poll' \in [Poll -> PollRecord] /\ poll'[p] = u
         /\ \A q \in Poll \ {p} : poll'[q] = poll[q]
    BY <1>3, <1>4, <1>10
  <1>12. /\ mixed' \in [Watched -> SUBSET (Content \X Content)] /\ mixed'[w] = more
         /\ \A x \in Watched : mixed[x] \subseteq mixed'[x]
    BY <1>3, <1>4, <1>7, <1>9
  <1>13. PollTypeOK'
    BY <1>3, <1>11, <1>12 DEF PollInv, PollTypeOK
  <1>14. ASSUME NEW x \in Watched, NEW q \in Comparing(x)'
         PROVE  /\ q = p => x = w /\ poll'[q].at = "compare" /\ poll'[q].data = c
                /\ q # p => q \in Comparing(x) /\ poll'[q] = poll[q]
    <2>1. q \in Poll
      BY DEF Comparing
    <2>2. CASE q = p
      BY <1>10, <1>11, <2>2 DEF Comparing, Mine, at
    <2>3. CASE q # p
      BY <1>11, <2>1, <2>3 DEF Comparing, Mine
    <2> QED
      BY <2>2, <2>3
  <1>15. ASSUME NEW x \in Watched, NEW d \in Deduplicated, NEW v \in Content
         PROVE  Used(x, d, v)' = Used(x, d, v)
    <2>1. \A q \in Poll : Carrier(q, x, d, v)' <=> Carrier(q, x, d, v)
      BY <1>5, <1>10, <1>11 DEF Carrier, at, s, Mine
    <2>2. Carriers(x, d, v)' = Carriers(x, d, v)
      BY <2>1 DEF Carriers
    <2> QED
      BY <1>3, <2>2 DEF Used
  <1>16. ASSUME NEW q \in Poll
         PROVE  Answered(q)'
    BY <1>4, <1>10, <1>11 DEF PollInv, Answered, Content
  <1>17. ASSUME NEW x \in Watched
         PROVE  Alone(x)'
    <2>1. ASSUME NEW q \in Comparing(x)', NEW r \in Comparing(x)', q # r
          PROVE  <<poll'[q].data, poll'[r].data>> \in mixed'[x]
      <3>1. CASE q # p /\ r # p
        BY <1>12, <1>14, <2>1, <3>1 DEF PollInv, Alone
      <3>2. CASE q = p
        BY <1>8, <1>12, <1>14, <2>1, <3>2
      <3>3. CASE r = p
        BY <1>8, <1>12, <1>14, <2>1, <3>3
      <3> QED
        BY <3>1, <3>2, <3>3
    <2> QED
      BY <2>1 DEF Alone
  <1>18. ASSUME NEW x \in Watched, NEW v \in Content, ~Marked(x, v)'
         PROVE  HashOnce(x, v)'
    <2>1. HashOnce(x, v)
      BY <1>12, <1>18 DEF PollInv, Marked
    <2>2. Used(x, "hash", v)' = Used(x, "hash", v)
      BY <1>15 DEF Deduplicated
    <2>3. ASSUME NEW q \in Comparing(x)', q = p
          PROVE  x = w /\ poll'[q].at = "compare" /\ poll'[q].data = content[x]
      BY <1>14, <2>3 DEF c
    <2>4. ASSUME NEW q \in Comparing(x)', q # p
          PROVE  q \in Comparing(x) /\ poll'[q] = poll[q]
      BY <1>14, <2>4
    <2> QED
      BY <1>3, <2>1, <2>2, <2>3, <2>4 DEF HashOnce
  <1>19. ASSUME NEW x \in Watched, NEW v \in Content, <<v, v>> \notin mixed'[x]
         PROVE  FieldOnce(x, v)'
    <2>1. FieldOnce(x, v)
      BY <1>12, <1>19 DEF PollInv
    <2>2. Used(x, "field", v)' = Used(x, "field", v)
      BY <1>15 DEF Deduplicated
    <2>3. ASSUME NEW q \in Comparing(x)', poll'[q].at = "store"
          PROVE  q \in Comparing(x) /\ poll'[q] = poll[q]
      BY <1>14, <2>3
    <2> QED
      BY <1>3, <2>1, <2>2, <2>3 DEF FieldOnce
  <1> QED
    BY <1>13, <1>16, <1>17, <1>18, <1>19 DEF PollInv

\* A poll takes its answer on to the store if it is not the one remembered.
LEMMA CompareStep ==
  ASSUME PollInv, NEW p \in Poll, IsNewData(p)
  PROVE  PollInv'
  <1>1. PICK w : w = Mine(p)
    OBVIOUS
  <1>2. PICK u : u = poll[p].data
    OBVIOUS
  <1>3. PICK m : m = poll[p].mode
    OBVIOUS
  <1>4. UNCHANGED <<Cache, Scheduler, Source, Past>> /\ poll[p].at = "compare"
    BY DEF IsNewData, In
  <1>5. CASE Step(p, "done")
    BY <1>4, <1>5, EndSteps
  <1>6. ASSUME NEW at \in {"store", "limit"}, Step(p, at),
               at = "limit" => m = "none",
               at = "store" /\ m = "hash" => lastHash[w] # u,
               at = "store" /\ m = "field" => u \notin fields[w]
        PROVE  PollInv'
    <2>1. /\ lastHash' = lastHash /\ fields' = fields /\ content' = content
          /\ triggered' = triggered /\ mixed' = mixed /\ turns' = turns
      BY <1>4 DEF Cache, Source, Past
    <2>2. /\ poll' \in [Poll -> PollRecord]
          /\ \A q \in Poll \ {p} : poll'[q] = poll[q]
          /\ poll'[p].at = at /\ poll'[p].wf = w /\ poll'[p].mode = m
          /\ poll'[p].data = u
      <3>1. at \in PollAt /\ at # "done"
        BY DEF PollAt
      <3> QED
        BY <1>1, <1>2, <1>3, <1>6, <3>1, Steps DEF Mine
    <2>3. PollTypeOK'
      BY <1>4, <2>2 DEF PollInv, PollTypeOK, Cache, Scheduler, Source, Past
    <2>4. w \in Watched /\ u \in Content /\ p \in Comparing(w)
      BY <1>1, <1>2, <1>4, Numbers DEF PollInv, Answered, Mine, Comparing
    <2>5. ASSUME NEW x \in Watched, NEW q \in Comparing(x)'
          PROVE  /\ q \in Comparing(x) /\ poll'[q].data = poll[q].data
                 /\ poll'[q].mode = poll[q].mode
                 /\ q # p => poll'[q].at = poll[q].at
                 /\ q = p => x = w /\ poll'[q].at = "store" /\ at = "store"
      BY <1>1, <1>2, <1>3, <1>4, <2>2 DEF Comparing, Mine
    <2>6. ASSUME NEW x \in Watched, NEW d \in Deduplicated, NEW v \in Content
          PROVE  Used(x, d, v)' <= Used(x, d, v) /\ Used(x, d, v)' \in Nat
      <3>1. ASSUME NEW q \in Poll, Carrier(q, x, d, v)'
            PROVE  Carrier(q, x, d, v)
        <4>1. CASE q = p
          BY <1>6, <2>2, <3>1, <4>1 DEF Carrier, Deduplicated
        <4>2. CASE q # p
          BY <2>2, <3>1, <4>2 DEF Carrier, Mine
        <4> QED
          BY <4>1, <4>2
      <3>2. Carriers(x, d, v)' \subseteq Carriers(x, d, v)
        BY <3>1 DEF Carriers
      <3>3. d \in Mode
        BY DEF Deduplicated, Mode
      <3> QED
        BY <2>1, <2>3, <3>2, <3>3, UsedLess DEF PollInv
    <2>7. ASSUME NEW q \in Poll
          PROVE  Answered(q)'
      BY <2>2, <2>4 DEF PollInv, Answered, Content
    <2>8. ASSUME NEW x \in Watched
          PROVE  Alone(x)'
      BY <2>1, <2>5 DEF PollInv, Alone
    <2>9. ASSUME NEW x \in Watched, NEW v \in Content, ~Marked(x, v)'
          PROVE  HashOnce(x, v)'
      <3>1. HashOnce(x, v)
        BY <2>1, <2>9 DEF PollInv, Marked
      <3>2. /\ Used(x, "hash", v)' <= Used(x, "hash", v) /\ Used(x, "hash", v)' \in Nat
            /\ Used(x, "hash", v) \in Nat /\ turns[x][v] \in Nat
        BY <2>6, Uses DEF PollInv, Deduplicated, Mode
      <3>3. /\ Used(x, "hash", v) <= turns[x][v] => Used(x, "hash", v)' <= turns'[x][v]
            /\ Used(x, "hash", v) < turns[x][v] => Used(x, "hash", v)' < turns'[x][v]
        BY <2>1, <3>2
      <3>4. ASSUME NEW q \in Comparing(x)'
            PROVE  poll'[q].at = "store" /\ poll'[q].mode = "hash" /\ poll'[q].data = v
                     => Used(x, "hash", v)' < turns'[x][v]
        <4>1. CASE q # p
          BY <2>5, <3>1, <3>3, <4>1 DEF HashOnce
        <4>2. CASE q = p
          <5>1. SUFFICES ASSUME m = "hash", u = v
                         PROVE  Used(x, "hash", v) < turns[x][v]
            BY <2>2, <3>3, <4>2
          <5>2. lastHash[x] # v /\ p \in Comparing(x)
            BY <1>6, <2>5, <4>2, <5>1
          <5> QED
            BY <1>2, <3>1, <5>1, <5>2 DEF HashOnce
        <4> QED
          BY <4>1, <4>2
      <3> QED
        BY <2>1, <2>5, <3>1, <3>3, <3>4 DEF HashOnce
    <2>10. ASSUME NEW x \in Watched, NEW v \in Content, <<v, v>> \notin mixed'[x]
           PROVE  FieldOnce(x, v)'
      <3>1. FieldOnce(x, v)
        BY <2>1, <2>10 DEF PollInv
      <3>2. /\ Used(x, "field", v)' <= Used(x, "field", v) /\ Used(x, "field", v)' \in Nat
            /\ Used(x, "field", v) \in Nat
        BY <2>6, Uses DEF PollInv, Deduplicated, Mode
      <3>3. /\ Used(x, "field", v)' <= 1
            /\ Used(x, "field", v)' > 0 => v \in fields'[x]
        BY <2>1, <3>1, <3>2 DEF FieldOnce
      <3>4. ASSUME NEW q \in Comparing(x)', poll'[q].at = "store",
                   poll'[q].mode = "field", poll'[q].data = v
            PROVE  v \notin fields'[x]
        <4>1. CASE q # p
          BY <2>1, <2>5, <3>1, <3>4, <4>1 DEF FieldOnce
        <4>2. CASE q = p
          BY <1>6, <2>1, <2>2, <2>5, <3>4, <4>2
        <4> QED
          BY <4>1, <4>2
      <3> QED
        BY <3>3, <3>4 DEF FieldOnce
    <2> QED
      BY <2>3, <2>7, <2>8, <2>9, <2>10 DEF PollInv
  <1>7. \/ Step(p, "done")
        \/ m = "none" /\ Step(p, "limit")
        \/ m = "hash" /\ lastHash[w] # u /\ Step(p, "store")
        \/ m = "field" /\ u \notin fields[w] /\ Step(p, "store")
    <2>1. m \in {"hash", "field", "none"}
      BY <1>3, Numbers DEF Mode
    <2>2. CASE m = "none"
      BY <1>3, <2>2 DEF IsNewData
    <2>3. CASE m = "hash"
      BY <1>1, <1>2, <1>3, <2>3 DEF IsNewData
    <2>4. CASE m = "field"
      BY <1>1, <1>2, <1>3, <2>4 DEF IsNewData
    <2> QED
      BY <2>1, <2>2, <2>3, <2>4
  <1> QED
    BY <1>5, <1>6, <1>7

\* What is stored is stored before it is used, by one poll or mixed.
LEMMA StoreStep ==
  ASSUME PollInv, NEW p \in Poll, StoreSeen(p)
  PROVE  PollInv'
  <1>1. PICK w : w = Mine(p)
    OBVIOUS
  <1>2. PICK u : u = poll[p].data
    OBVIOUS
  <1>3. PICK m : m = poll[p].mode
    OBVIOUS
  <1>4. /\ poll[p].at = "store" /\ Step(p, "limit")
        /\ UNCHANGED <<scanLock, scan, poller, config, changes, content, turns>>
        /\ UNCHANGED <<triggered, mixed>>
    BY DEF StoreSeen, In, Scheduler, Source, Past
  <1>5. /\ w \in Watched /\ u \in Content /\ p \in Comparing(w)
        /\ fields \in [Watched -> SUBSET Content]
        /\ lastHash \in [Watched -> 0 .. MaxContent]
    BY <1>1, <1>2, <1>4, Numbers DEF PollInv, PollTypeOK, Answered, Mine, Comparing
  <1>6. /\ poll' \in [Poll -> PollRecord]
        /\ \A q \in Poll \ {p} : poll'[q] = poll[q]
        /\ poll'[p].at = "limit" /\ poll'[p].wf = w /\ poll'[p].mode = m
        /\ poll'[p].data = u
    <2>1. "limit" \in PollAt
      BY DEF PollAt
    <2> QED
      BY <1>1, <1>2, <1>3, <1>4, <2>1, Steps DEF Mine
  <1>7. IF m = "hash"
          THEN lastHash' = [lastHash EXCEPT ![w] = u] /\ fields' = fields
          ELSE fields' = [fields EXCEPT ![w] = @ \cup {u}] /\ lastHash' = lastHash
    BY <1>1, <1>2, <1>3 DEF StoreSeen
  <1>8. /\ lastHash' \in [Watched -> 0 .. MaxContent]
        /\ fields' \in [Watched -> SUBSET Content]
        /\ \A x \in Watched : fields[x] \subseteq fields'[x]
        /\ \A x \in Watched : lastHash'[x] = lastHash[x]
                              \/ (x = w /\ m = "hash" /\ lastHash'[x] = u)
        /\ m = "hash" => lastHash'[w] = u
        /\ m # "hash" => u \in fields'[w]
    <2>1. u \in 0 .. MaxContent
      BY <1>5 DEF Content
    <2>2. lastHash' \in [Watched -> 0 .. MaxContent]
      BY <1>5, <1>7, <2>1
    <2>3. fields' \in [Watched -> SUBSET Content]
      <3>1. CASE fields' = fields
        BY <1>5, <3>1
      <3>2. CASE fields' = [fields EXCEPT ![w] = @ \cup {u}]
        BY <1>5, <3>2
      <3> QED
        BY <1>7, <3>1, <3>2
    <2>4. ASSUME NEW x \in Watched
          PROVE  fields[x] \subseteq fields'[x]
      <3>1. fields'[x] = fields[x] \/ fields'[x] = fields[x] \cup {u}
        BY <1>5, <1>7
      <3> QED
        BY <3>1
    <2>5. \A x \in Watched : lastHash'[x] = lastHash[x]
                             \/ (x = w /\ m = "hash" /\ lastHash'[x] = u)
      BY <1>5, <1>7
    <2>6. m = "hash" => lastHash'[w] = u
      BY <1>5, <1>7
    <2>7. m # "hash" => u \in fields'[w]
      BY <1>5, <1>7
    <2> QED
      BY <2>2, <2>3, <2>4, <2>5, <2>6, <2>7
  <1>9. PollTypeOK'
    BY <1>4, <1>6, <1>8 DEF PollInv, PollTypeOK
  <1>10. ASSUME NEW x \in Watched, NEW q \in Comparing(x)'
         PROVE  q \in Comparing(x) /\ q # p /\ poll'[q] = poll[q]
    BY <1>6 DEF Comparing, Mine
  <1>11. ASSUME NEW x \in Watched, NEW d \in Deduplicated, NEW v \in Content
         PROVE  /\ Used(x, d, v)' \in Nat /\ Used(x, d, v) \in Nat
                /\ Used(x, d, v)' <= Used(x, d, v) + 1
                /\ ~(x = w /\ d = m /\ v = u) => Used(x, d, v)' <= Used(x, d, v)
    <2>1. ASSUME NEW q \in Poll, q # p
          PROVE  Carrier(q, x, d, v)' <=> Carrier(q, x, d, v)
      BY <1>6, <2>1 DEF Carrier, Mine
    <2>2. Carrier(p, x, d, v)' => x = w /\ d = m /\ v = u
      BY <1>6 DEF Carrier, Mine
    <2>3. /\ Carriers(x, d, v)' \subseteq Carriers(x, d, v) \cup {p}
          /\ ~(x = w /\ d = m /\ v = u) => Carriers(x, d, v)' \subseteq Carriers(x, d, v)
      BY <2>1, <2>2 DEF Carriers
    <2>4. d \in Mode /\ PollTypeOK /\ triggered'[x][d][v] = triggered[x][d][v]
      BY <1>4 DEF Deduplicated, Mode, PollInv
    <2>5. Used(x, d, v)' \in Nat /\ Used(x, d, v)' <= Used(x, d, v) + 1
      BY <1>9, <2>3, <2>4, UsedMore
    <2>6. ~(x = w /\ d = m /\ v = u) => Used(x, d, v)' <= Used(x, d, v)
      BY <1>9, <2>3, <2>4, UsedLess
    <2> QED
      BY <2>4, <2>5, <2>6, Uses
  <1>12. ASSUME NEW q \in Poll
         PROVE  Answered(q)'
    BY <1>5, <1>6 DEF PollInv, Answered, Content
  <1>13. ASSUME NEW x \in Watched
         PROVE  Alone(x)'
    BY <1>4, <1>10 DEF PollInv, Alone
  \* Who else compares has an answer that is mixed with this one.
  <1>14. \A q \in Comparing(w) \ {p} : /\ <<u, poll[q].data>> \in mixed[w]
                                       /\ <<poll[q].data, u>> \in mixed[w]
                                       /\ poll[q].data \in Content
    BY <1>2, <1>5 DEF PollInv, Alone, Answered, Comparing
  <1>15. ASSUME NEW x \in Watched
         PROVE  fields'[x] \subseteq fields[x] \cup {u} /\ (x # w => fields'[x] = fields[x])
    BY <1>5, <1>7
  <1>16. ASSUME NEW x \in Watched, NEW v \in Content, ~Marked(x, v)'
         PROVE  HashOnce(x, v)'
    <2>1. HashOnce(x, v) /\ ~Marked(x, v) /\ turns'[x][v] = turns[x][v]
          /\ content'[x] = content[x]
      BY <1>4, <1>16 DEF PollInv, Marked
    <2>2. /\ Used(x, "hash", v)' \in Nat /\ Used(x, "hash", v) \in Nat
          /\ Used(x, "hash", v)' <= Used(x, "hash", v) + 1
          /\ ~(x = w /\ m = "hash" /\ v = u) => Used(x, "hash", v)' <= Used(x, "hash", v)
          /\ turns[x][v] \in Nat
      BY <1>11, Uses DEF Deduplicated, Mode, PollInv
    <2>3. CASE x = w /\ m = "hash" /\ v = u
      <3>1. Used(x, "hash", v) < turns[x][v]
        BY <1>2, <1>3, <1>4, <1>5, <2>1, <2>3 DEF HashOnce
      <3>2. Used(x, "hash", v)' <= turns'[x][v]
        BY <2>1, <2>2, <3>1
      <3>3. lastHash'[x] = v
        BY <1>8, <2>3
      <3>4. \A q \in Comparing(x)' : FALSE
        BY <1>10, <1>14, <2>1, <2>3 DEF Marked
      <3> QED
        BY <3>2, <3>3, <3>4 DEF HashOnce
    <2>4. CASE x = w /\ m = "hash" /\ v # u
      <3>1. Used(x, "hash", v)' <= Used(x, "hash", v)
        BY <2>2, <2>4
      <3>2. /\ Used(x, "hash", v) <= turns[x][v] => Used(x, "hash", v)' <= turns'[x][v]
            /\ Used(x, "hash", v) < turns[x][v] => Used(x, "hash", v)' < turns'[x][v]
        BY <2>1, <2>2, <3>1
      <3>3. content[x] = v => Used(x, "hash", v) < turns[x][v]
        BY <1>2, <1>5, <2>1, <2>4 DEF HashOnce
      <3>4. ASSUME NEW q \in Comparing(x)'
            PROVE  q \in Comparing(x) /\ poll'[q] = poll[q] /\ poll[q].data # v
        <4>1. q \in Comparing(w) \ {p} /\ poll'[q] = poll[q]
          BY <1>10, <2>4
        <4> QED
          BY <1>5, <1>14, <2>1, <2>4, <4>1 DEF Marked
      <3> QED
        BY <2>1, <3>2, <3>3, <3>4 DEF HashOnce
    <2>5. CASE ~(x = w /\ m = "hash")
      <3>1. Used(x, "hash", v)' <= Used(x, "hash", v) /\ lastHash'[x] = lastHash[x]
        BY <1>8, <2>2, <2>5
      <3>2. /\ Used(x, "hash", v) <= turns[x][v] => Used(x, "hash", v)' <= turns'[x][v]
            /\ Used(x, "hash", v) < turns[x][v] => Used(x, "hash", v)' < turns'[x][v]
        BY <2>1, <2>2, <3>1
      <3> QED
        BY <1>10, <2>1, <3>1, <3>2 DEF HashOnce
    <2> QED
      BY <2>3, <2>4, <2>5
  <1>17. ASSUME NEW x \in Watched, NEW v \in Content, <<v, v>> \notin mixed'[x]
         PROVE  FieldOnce(x, v)'
    <2>1. FieldOnce(x, v) /\ <<v, v>> \notin mixed[x]
      BY <1>4, <1>17 DEF PollInv
    <2>2. /\ Used(x, "field", v)' \in Nat /\ Used(x, "field", v) \in Nat
          /\ Used(x, "field", v)' <= Used(x, "field", v) + 1
          /\ ~(x = w /\ m = "field" /\ v = u) => Used(x, "field", v)' <= Used(x, "field", v)
      BY <1>11 DEF Deduplicated
    <2>3. CASE x = w /\ m = "field" /\ v = u
      <3>1. v \notin fields[x]
        BY <1>2, <1>3, <1>4, <1>5, <2>1, <2>3 DEF FieldOnce
      <3>2. Used(x, "field", v)' <= 1
        BY <2>1, <2>2, <3>1 DEF FieldOnce
      <3>3. v \in fields'[x]
        BY <1>8, <2>3
      <3>4. ASSUME NEW q \in Comparing(x)'
            PROVE  poll'[q].data # v
        <4>1. q \in Comparing(w) \ {p} /\ poll'[q] = poll[q]
          BY <1>10, <2>3
        <4> QED
          BY <1>14, <2>1, <2>3, <4>1
      <3> QED
        BY <3>2, <3>3, <3>4 DEF FieldOnce
    <2>4. CASE ~(x = w /\ m = "field" /\ v = u)
      <3>1. /\ Used(x, "field", v)' <= 1
            /\ Used(x, "field", v)' > 0 => v \in fields'[x]
        BY <1>8, <2>1, <2>2, <2>4 DEF FieldOnce
      <3>2. ASSUME NEW q \in Comparing(x)', poll'[q].at = "store",
                   poll'[q].mode = "field", poll'[q].data = v
            PROVE  v \notin fields'[x]
        <4>1. q \in Comparing(x) /\ q # p /\ poll'[q] = poll[q] /\ v \notin fields[x]
          BY <1>10, <2>1, <3>2 DEF FieldOnce
        <4>2. CASE x = w
          BY <1>8, <1>14, <1>15, <2>1, <3>2, <4>1, <4>2
        <4>3. CASE x # w
          BY <1>15, <4>1, <4>3
        <4> QED
          BY <4>2, <4>3
      <3> QED
        BY <3>1, <3>2 DEF FieldOnce
    <2> QED
      BY <2>3, <2>4
  <1> QED
    BY <1>9, <1>12, <1>13, <1>16, <1>17 DEF PollInv

\* The one that carries an answer triggers once.
LEMMA TriggerStep ==
  ASSUME PollInv, NEW p \in Poll, TriggerPolled(p)
  PROVE  PollInv'
  <1>1. PICK w : w = Mine(p)
    OBVIOUS
  <1>2. PICK u : u = poll[p].data
    OBVIOUS
  <1>3. PICK m : m = poll[p].mode
    OBVIOUS
  <1>4. CASE UNCHANGED triggered
    BY <1>4, EndSteps DEF TriggerPolled, Past
  <1>5. CASE triggered' = [triggered EXCEPT ![w][m][u] = @ + 1]
    <2>1. /\ poll[p].at = "insert" /\ Step(p, "done")
          /\ UNCHANGED <<scanLock, lastHash, fields, scan, poller, config, changes,
                         content, turns, mixed>>
      BY DEF TriggerPolled, In, Cache, Scheduler, Source
    <2>2. /\ w \in Watched /\ u \in Content /\ m \in Mode
          /\ triggered \in [Watched -> [Mode -> [Content -> Nat]]]
      BY <1>1, <1>2, <1>3, <2>1, Numbers DEF PollInv, PollTypeOK, Answered, Mine
    <2>3. /\ poll' \in [Poll -> PollRecord] /\ poll'[p].at = "done"
          /\ \A q \in Poll \ {p} : poll'[q] = poll[q]
      <3>1. "done" \in PollAt
        BY DEF PollAt
      <3> QED
        BY <2>1, <3>1, Steps
    <2>4. /\ triggered' \in [Watched -> [Mode -> [Content -> Nat]]]
          /\ triggered'[w][m][u] = triggered[w][m][u] + 1
          /\ \A x \in Watched, d \in Mode, v \in Content :
               ~(x = w /\ d = m /\ v = u) => triggered'[x][d][v] = triggered[x][d][v]
      <3> DEFINE n == triggered[w][m][u] + 1
      <3>1. n \in Nat
        BY <2>2
      <3>2. triggered' = [triggered EXCEPT ![w] = [triggered[w] EXCEPT ![m] =
                            [triggered[w][m] EXCEPT ![u] = n]]]
        BY <1>5
      <3> HIDE DEF n
      <3> QED
        BY <2>2, <3>1, <3>2 DEF n
    <2>5. PollTypeOK'
      BY <2>1, <2>3, <2>4 DEF PollInv, PollTypeOK
    <2>6. Carrier(p, w, m, u)
      BY <1>1, <1>2, <1>3, <2>1 DEF Carrier
    <2>7. ASSUME NEW x, NEW q \in Comparing(x)'
          PROVE  q \in Comparing(x) /\ poll'[q] = poll[q]
      BY <2>3 DEF Comparing, Mine
    <2>8. ASSUME NEW x, NEW d, NEW v, NEW q \in Poll, Carrier(q, x, d, v)'
          PROVE  q # p /\ Carrier(q, x, d, v)
      BY <2>3, <2>8 DEF Carrier, Mine
    <2>9. ASSUME NEW q \in Poll
          PROVE  Answered(q)'
      BY <2>1, <2>3 DEF PollInv, Answered, Content
    <2>10. ASSUME NEW x \in Watched, NEW d \in Deduplicated, NEW v \in Content
           PROVE  Used(x, d, v)' <= Used(x, d, v) /\ Used(x, d, v)' \in Nat
      <3>1. d \in Mode /\ PollTypeOK
        BY DEF Deduplicated, Mode, PollInv
      <3>2. Carriers(x, d, v)' \subseteq Carriers(x, d, v) \ {p}
        BY <2>8 DEF Carriers
      <3>3. CASE x = w /\ d = m /\ v = u
        BY <2>4, <2>5, <2>6, <3>1, <3>2, <3>3, UsedUp DEF Carriers
      <3>4. CASE ~(x = w /\ d = m /\ v = u)
        BY <2>4, <2>5, <3>1, <3>2, <3>4, UsedLess
      <3> QED
        BY <3>3, <3>4
    <2>11. NoneCompares /\ Turning
      BY <2>1, <2>7, NoTurn DEF NoneCompares
    <2> QED
      BY <2>1, <2>5, <2>9, <2>10, <2>11, Keeps
  <1> QED
    BY <1>1, <1>2, <1>3, <1>4, <1>5 DEF TriggerPolled

-----------------------------------------------------------------------------
(* The theorems. *)

LEMMA PollStarts == PollInit => PollInv
  <1> SUFFICES ASSUME PollInit
               PROVE  PollInv
    OBVIOUS
  <1>1. PICK at \in {"idle", "done"} : poll = Polls(at)
    BY DEF PollInit
  <1>2. Still(at) \in PollRecord /\ Still(at).at = at
    BY StillType DEF PollAt
  <1>3. poll \in [Poll -> PollRecord] /\ \A p \in Poll : poll[p].at \in {"idle", "done"}
    BY <1>1, <1>2 DEF Polls
  <1>4. /\ \A x \in Watched : content[x] = 1 /\ lastHash[x] = 0
        /\ \A x \in Watched, d \in Mode, v \in Content : triggered[x][d][v] = 0
        /\ \A x \in Watched, v \in Content : turns[x][v] = IF v = 1 THEN 1 ELSE 0
    BY DEF PollInit, PollStart
  <1>5. PollTypeOK
    <2>1. 1 \in Content /\ 0 \in 0 .. MaxContent /\ 0 \in 0 .. MaxChanges
      BY PollAssumption DEF Content
    <2> QED
      BY <1>3, <2>1, PollAssumption DEF PollInit, PollStart, PollTypeOK
  <1>6. \A p \in Poll : Answered(p)
    BY <1>3 DEF Answered
  <1>7. \A x : Comparing(x) = {}
    BY <1>3 DEF Comparing
  <1>8. ASSUME NEW x \in Watched, NEW d \in Deduplicated, NEW v \in Content
        PROVE  Used(x, d, v) = 0
    <2>1. Carriers(x, d, v) = {} /\ d \in Mode
      BY <1>3 DEF Carriers, Carrier, Deduplicated, Mode
    <2>2. Cardinality(Carriers(x, d, v)) = 0
      BY <2>1, FS_EmptySet
    <2> QED
      BY <1>4, <2>1, <2>2 DEF Used
  <1>9. ASSUME NEW x \in Watched, NEW v \in Content
        PROVE  HashOnce(x, v) /\ FieldOnce(x, v)
    <2>1. /\ Used(x, "hash", v) = 0 /\ Used(x, "field", v) = 0 /\ Comparing(x) = {}
          /\ turns[x][v] \in {0, 1} /\ (content[x] = v => turns[x][v] = 1)
      BY <1>4, <1>7, <1>8 DEF Deduplicated
    <2> QED
      BY <2>1 DEF HashOnce, FieldOnce
  <1> QED
    BY <1>5, <1>6, <1>7, <1>9 DEF PollInv, Alone

LEMMA PollSteps == PollInv /\ [PollNext]_pollVars => PollInv'
  <1> SUFFICES ASSUME PollInv, [PollNext]_pollVars
               PROVE  PollInv'
    OBVIOUS
  <1>1. CASE LockExpires
    <2>1. PICK i : i \in Instance
      BY PollAssumption
    <2> QED
      BY <1>1, <2>1, ScanSteps
  <1>2. ASSUME NEW w \in Watched,
               \/ \E v \in Content : NewContent(w, v)
               \/ \E c \in Config \cup {Off} : Edit(w, c)
        PROVE  PollInv'
    BY <1>2, WorldSteps
  <1>3. ASSUME NEW i \in Instance,
               \/ AcquireLock(i) \/ ScanFails(i) \/ ScanPollers(i) \/ StopInstance(i)
               \/ \E w \in Watched : FirePoller(i, w)
        PROVE  PollInv'
    BY <1>3, ScanSteps
  <1>4. ASSUME NEW p \in Poll,
               \/ FetchContent(p) \/ FetchFails(p) \/ IsNewData(p) \/ StoreSeen(p)
               \/ CheckPollLimit(p) \/ TriggerPolled(p)
        PROVE  PollInv'
    <2>1. CASE FetchFails(p) \/ CheckPollLimit(p)
      BY <2>1, EndSteps DEF FetchFails, CheckPollLimit
    <2> QED
      BY <1>4, <2>1, FetchStep, CompareStep, StoreStep, TriggerStep
  <1>5. CASE UNCHANGED pollVars
    <2>1. /\ UNCHANGED <<config, changes, scanLock, scan, poller, poll, content, turns>>
          /\ UNCHANGED <<lastHash, fields, triggered, mixed>>
      BY <1>5 DEF pollVars
    <2>2. PollTypeOK'
      BY <2>1 DEF PollInv, PollTypeOK
    <2>3. Calm
      BY <2>1 DEF Calm
    <2>4. Turning
      BY <2>1, NoTurn
    <2> QED
      BY <2>1, <2>2, <2>3, <2>4, CalmKeeps DEF Past
  <1> QED
    BY <1>1, <1>2, <1>3, <1>4, <1>5 DEF PollNext

(* The inductive invariant of the polls. *)
THEOREM PollInvariant == PollSpec => []PollInv
  BY PollStarts, PollSteps, PTL DEF PollSpec

(* Every variable keeps its type. *)
THEOREM PollTypes == PollSpec => []PollTypeOK
  <1>1. PollInv => PollTypeOK
    BY DEF PollInv
  <1> QED
    BY <1>1, PollInvariant, PTL

(* However many instances poll a workflow, and whatever becomes of them, an
   answer that was in flight beside no other triggers it by hash at most once
   each time the endpoint comes to it, and by field once.                   *)
THEOREM TriggersOnce == PollSpec => []TriggeredOnce
  <1>1. ASSUME PollInv
        PROVE  TriggeredOnce
    <2>1. ASSUME NEW w \in Watched, NEW v \in Content
          PROVE  /\ triggered[w]["hash"][v] > turns[w][v] => Marked(w, v)
                 /\ triggered[w]["field"][v] > 1 => <<v, v>> \in mixed[w]
      <3>1. /\ triggered[w]["hash"][v] \in Nat /\ triggered[w]["field"][v] \in Nat
            /\ Used(w, "hash", v) \in Nat /\ Used(w, "field", v) \in Nat
            /\ triggered[w]["hash"][v] <= Used(w, "hash", v)
            /\ triggered[w]["field"][v] <= Used(w, "field", v)
            /\ turns[w][v] \in Nat
        BY <1>1, Uses DEF PollInv, Mode
      <3>2. ~Marked(w, v) => Used(w, "hash", v) <= turns[w][v]
        BY <1>1 DEF PollInv, HashOnce
      <3>3. <<v, v>> \notin mixed[w] => Used(w, "field", v) <= 1
        BY <1>1 DEF PollInv, FieldOnce
      <3> QED
        BY <3>1, <3>2, <3>3
    <2> QED
      BY <2>1 DEF TriggeredOnce, Marked
  <1> QED
    BY <1>1, PollInvariant, PTL
=============================================================================
