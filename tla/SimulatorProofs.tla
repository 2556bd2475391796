-------------------------- MODULE SimulatorProofs ---------------------------
(***************************************************************************)
(* Proofs about the simulated network (module Simulator), for any number   *)
(* of callers, runners and events and any distance.                        *)
(***************************************************************************)
EXTENDS Simulator, FiniteSetTheorems, SequenceTheorems, TLAPS

-----------------------------------------------------------------------------
(***************************************************************************)
(* The queue and the batches.                                              *)
(***************************************************************************)
Sizes == [Runner -> 0 .. MaxSent]

\* The sequence new is q with e as its i-th element.
IsInserted(new, q, i, e) ==
  /\ new \in Seq(Nat)
  /\ Len(new) = Len(q) + 1
  /\ \A j \in 1 .. Len(q) + 1 :
       new[j] = IF j < i THEN q[j] ELSE IF j = i THEN e ELSE q[j - 1]

\* Where an element is after another was inserted.
LEMMA Inserted ==
  ASSUME NEW q \in Seq(Nat), NEW i \in 1 .. Len(q) + 1, NEW e \in Nat
  PROVE  IsInserted(InsertAt(q, i, e), q, i, e)
<1> DEFINE low  == SubSeq(q, 1, i - 1)
           high == SubSeq(q, i, Len(q))
<1>1. /\ low \in Seq(Nat)
      /\ Len(low) = i - 1
      /\ \A j \in 1 .. i - 1 : low[j] = q[j]
  <2>1. \A j \in 1 .. i - 1 : q[j] \in Nat
    BY LenProperties
  <2> QED  BY <2>1, LenProperties, SubSeqProperties
<1>2. /\ high \in Seq(Nat)
      /\ Len(high) = Len(q) + 1 - i
      /\ \A j \in 1 .. Len(q) + 1 - i : high[j] = q[i + j - 1]
  <2>1. \A j \in i .. Len(q) : q[j] \in Nat
    BY LenProperties
  <2> QED  BY <2>1, LenProperties, SubSeqProperties
<1>3. /\ <<e>> \in Seq(Nat) /\ Len(<<e>>) = 1 /\ <<e>>[1] = e
  OBVIOUS
<1> DEFINE left == low \o <<e>>
<1>4. InsertAt(q, i, e) = left \o high
  BY DEF InsertAt
<1> HIDE DEF low, high
<1>5. /\ left \in Seq(Nat)
      /\ Len(left) = i
      /\ \A j \in 1 .. i : left[j] = IF j < i THEN q[j] ELSE e
  BY <1>1, <1>3, ConcatProperties, LenProperties
<1> HIDE DEF left
<1>6. /\ left \o high \in Seq(Nat)
      /\ Len(left \o high) = Len(left) + Len(high)
      /\ \A j \in 1 .. Len(left) + Len(high) :
           (left \o high)[j] = IF j <= Len(left) THEN left[j]
                              ELSE high[j - Len(left)]
  BY <1>2, <1>5, ConcatProperties, Zenon
<1>7. Len(left) + Len(high) = Len(q) + 1
  BY <1>2, <1>5, LenProperties
<1>8. ASSUME NEW j \in 1 .. Len(q) + 1
      PROVE  (left \o high)[j] = IF j < i THEN q[j]
                                ELSE IF j = i THEN e ELSE q[j - 1]
  <2>1. (left \o high)[j] = IF j <= i THEN left[j] ELSE high[j - i]
    BY <1>5, <1>6, <1>7
  <2>2. CASE j <= i
    BY <2>1, <2>2, <1>5
  <2>3. CASE j > i
    <3>1. j - i \in 1 .. Len(q) + 1 - i
      BY <2>3, LenProperties
    <3>2. high[j - i] = q[i + (j - i) - 1]
      BY <3>1, <1>2
    <3> QED  BY <2>1, <2>3, <3>2, LenProperties
  <2>4. Len(q) \in Nat /\ i \in Nat /\ j \in Nat
    BY LenProperties
  <2>5. j <= i \/ j > i
    BY <2>4
  <2> QED  BY <2>2, <2>3, <2>5, Zenon
<1>9. IsInserted(left \o high, q, i, e)
  BY <1>6, <1>7, <1>8 DEF IsInserted
<1> QED  BY <1>4, <1>9

\* The events that can be in a batch are finite, and so are those that are.
LEMMA BatchesAreFinite ==
  \A sizes \in Sizes : /\ IsFiniteSet(Batched(sizes))
                       /\ Cardinality(Batched(sizes)) \in Nat
<1>1. IsFiniteSet(Runner) /\ IsFiniteSet(1 .. MaxSent)
  BY FS_Interval, BoundAssumption DEF Runner
<1>2. IsFiniteSet(Runner \X (1 .. MaxSent))
  BY <1>1, FS_Product
<1>3. ASSUME NEW sizes \in Sizes PROVE IsFiniteSet(Batched(sizes))
  <2>1. Batched(sizes) \in SUBSET (Runner \X (1 .. MaxSent))
    BY DEF Batched
  <2> QED  BY <1>2, <2>1, FS_Subset
<1> QED  BY <1>3, FS_CardinalityType

\* A batch that begins counts with all its events.
LEMMA BatchCounts ==
  ASSUME NEW sizes \in Sizes, NEW r \in Runner, NEW n \in 0 .. MaxSent,
         sizes[r] = 0
  PROVE  Cardinality(Batched([sizes EXCEPT ![r] = n]))
           = Cardinality(Batched(sizes)) + n
<1> DEFINE new == {r} \X (1 .. n)
<1>1. IsFiniteSet({r}) /\ Cardinality({r}) = 1
  BY FS_Singleton
<1>2. IsFiniteSet(1 .. n) /\ Cardinality(1 .. n) = n
  BY FS_Interval, BoundAssumption
<1>3. /\ IsFiniteSet(new)
      /\ Cardinality(new) = Cardinality({r}) * Cardinality(1 .. n)
  BY <1>1, <1>2, FS_Product, Zenon
<1>4. Batched([sizes EXCEPT ![r] = n]) = Batched(sizes) \cup new
  BY BoundAssumption DEF Batched, Sizes
<1>5. Batched(sizes) \cap new = {}
  BY BoundAssumption DEF Batched, Sizes
<1>6. IsFiniteSet(Batched(sizes)) /\ Cardinality(Batched(sizes)) \in Nat
  BY BatchesAreFinite
<1> HIDE DEF new
<1>7. Cardinality(Batched(sizes) \cup new)
        = Cardinality(Batched(sizes)) + Cardinality(new)
            - Cardinality(Batched(sizes) \cap new)
  BY <1>3, <1>6, FS_Union
<1>8. Cardinality(new) = n
  BY <1>1, <1>2, <1>3
<1>9. Cardinality(Batched(sizes) \cap new) = 0
  BY <1>5, FS_EmptySet
<1>10. n \in Nat
  BY BoundAssumption
<1>11. Cardinality(Batched(sizes) \cup new) = Cardinality(Batched(sizes)) + n
  BY <1>6, <1>7, <1>8, <1>9, <1>10
<1> QED  BY <1>4, <1>11, Zenon

\* If everything that was sent is delivered, nothing waits.
LEMMA NothingWaits ==
  ASSUME NEW q \in Seq(Nat), NEW sizes \in Sizes, NEW n \in Nat,
         n = n + Cardinality(Batched(sizes)) + Len(q)
  PROVE  q = << >> /\ \A r \in Runner : sizes[r] = 0
<1>1. IsFiniteSet(Batched(sizes)) /\ Cardinality(Batched(sizes)) \in Nat
  BY BatchesAreFinite
<1>2. Cardinality(Batched(sizes)) = 0 /\ Len(q) = 0
  BY <1>1, LenProperties
<1>3. Batched(sizes) = {}
  BY <1>1, <1>2, FS_EmptySet
<1>4. ASSUME NEW r \in Runner PROVE sizes[r] = 0
  <2>1. <<r, 1>> \notin Batched(sizes)
    BY <1>3
  <2> QED  BY <2>1, BoundAssumption DEF Batched, Sizes
<1> QED  BY <1>2, <1>4, EmptySeq

\* EventsAhead, of any queue at any time.
Ahead(q, t) ==
  /\ \A i, j \in 1 .. Len(q) : i < j => q[i] <= q[j]
  /\ \A i \in 1 .. Len(q) : t < q[i]

\* An event that is inserted by its arrival keeps the queue in order.
LEMMA InsertedAhead ==
  ASSUME NEW q \in Seq(Nat), NEW t \in Nat, Ahead(q, t),
         NEW e \in Nat, t < e, NEW i \in 1 .. Len(q) + 1,
         \A j \in 1 .. Len(q) : IF j < i THEN q[j] <= e ELSE e <= q[j]
  PROVE  Ahead(InsertAt(q, i, e), t)
<1> DEFINE m == Len(q) + 1
<1> HIDE DEF m
<1>0. m = Len(q) + 1
  BY DEF m
<1> DEFINE new == InsertAt(q, i, e)
<1>1. /\ new \in Seq(Nat)
      /\ Len(new) = m
      /\ \A j \in 1 .. m :
           new[j] = IF j < i THEN q[j] ELSE IF j = i THEN e ELSE q[j - 1]
  <2>1. IsInserted(InsertAt(q, i, e), q, i, e)
    BY Inserted, Zenon
  <2> QED  BY <2>1, <1>0 DEF IsInserted
<1> HIDE DEF new
<1>2. /\ Len(q) \in Nat /\ i \in Nat /\ m \in Nat
      /\ \A j \in 1 .. Len(q) : q[j] \in Nat
  BY <1>0, LenProperties
<1>3. ASSUME NEW j \in 1 .. m
      PROVE  /\ j \in Nat /\ new[j] \in Nat /\ t < new[j]
             /\ j < i => j \in 1 .. Len(q) /\ new[j] = q[j] /\ q[j] <= e
             /\ j = i => new[j] = e
             /\ j > i => /\ j - 1 \in 1 .. Len(q) /\ new[j] = q[j - 1]
                         /\ e <= q[j - 1]
  <2>1. new[j] = IF j < i THEN q[j] ELSE IF j = i THEN e ELSE q[j - 1]
    BY <1>1, Zenon
  <2>2. j < i => j \in 1 .. Len(q)
    BY <1>0, <1>2
  <2>3. j > i => j - 1 \in 1 .. Len(q) /\ ~ (j - 1 < i) /\ ~ (j < i) /\ j # i
    BY <1>0, <1>2
  <2>4. j < i => new[j] = q[j] /\ q[j] <= e /\ q[j] \in Nat /\ t < q[j]
    BY <2>1, <2>2, <1>2, Zenon DEF Ahead
  <2>5. j = i => new[j] = e /\ ~ (j < i)
    BY <2>1, <1>2
  <2>6. j > i => /\ new[j] = q[j - 1] /\ e <= q[j - 1] /\ q[j - 1] \in Nat
                 /\ t < q[j - 1]
    BY <2>1, <2>3, <1>2, Zenon DEF Ahead
  <2>7. j < i \/ j = i \/ j > i
    BY <1>2
  <2> QED  BY <2>2, <2>3, <2>4, <2>5, <2>6, <2>7
<1>4. ASSUME NEW j \in 1 .. m, NEW k \in 1 .. m, j < k
      PROVE  new[j] <= new[k]
  <2>1. CASE k < i
    <3>1. j < i  BY <2>1, <1>2, <1>4
    <3>2. new[j] = q[j] /\ new[k] = q[k] /\ j \in 1 .. Len(q) /\ k \in 1 .. Len(q)
      BY <3>1, <2>1, <1>3
    <3> QED  BY <3>2, <1>4 DEF Ahead
  <2>2. CASE k = i
    BY <2>2, <1>3, <1>4
  <2>3. CASE k > i /\ j < i
    <3>1. new[j] <= e /\ e <= new[k] /\ new[j] \in Nat /\ new[k] \in Nat
      BY <2>3, <1>3
    <3> QED  BY <3>1
  <2>4. CASE k > i /\ j = i
    BY <2>4, <1>3
  <2>5. CASE k > i /\ j > i
    <3>1. /\ new[j] = q[j - 1] /\ new[k] = q[k - 1]
          /\ j - 1 \in 1 .. Len(q) /\ k - 1 \in 1 .. Len(q)
      BY <2>5, <1>3
    <3>2. j - 1 < k - 1
      BY <1>3, <1>4
    <3> QED  BY <3>1, <3>2 DEF Ahead
  <2>6. \/ k < i
        \/ k = i
        \/ k > i /\ (j < i \/ j = i \/ j > i)
    <3>1. i \in Nat /\ j \in Nat /\ k \in Nat
      BY <1>2, <1>3
    <3> QED  BY <3>1
  <2> QED  BY <2>1, <2>2, <2>3, <2>4, <2>5, <2>6
<1>5. Ahead(new, t)
  BY <1>1, <1>3, <1>4 DEF Ahead
<1> QED  BY <1>5 DEF new

\* What is left of a queue after its first n elements.
LEMMA Rest ==
  ASSUME NEW q \in Seq(Nat), NEW n \in 0 .. Len(q)
  PROVE  /\ SubSeq(q, n + 1, Len(q)) \in Seq(Nat)
         /\ Len(SubSeq(q, n + 1, Len(q))) = Len(q) - n
         /\ \A j \in 1 .. Len(q) - n : SubSeq(q, n + 1, Len(q))[j] = q[n + j]
<1>1. Len(q) \in Nat /\ \A j \in 1 .. Len(q) : q[j] \in Nat
  BY LenProperties
<1> DEFINE m    == n + 1
           last == Len(q)
<1>2. m \in Int /\ last \in Int /\ \A j \in m .. last : q[j] \in Nat
  BY <1>1
<1>3. n \in Nat /\ m = n + 1 /\ last = Len(q) /\ n <= last /\ last \in Nat
  BY <1>1
<1> HIDE DEF m, last
<1> DEFINE rest == SubSeq(q, m, last)
<1>4. /\ rest \in Seq(Nat)
      /\ Len(rest) = IF m <= last THEN last - m + 1 ELSE 0
      /\ \A j \in 1 .. last - m + 1 : rest[j] = q[m + j - 1]
  BY <1>2, SubSeqProperties
<1> HIDE DEF rest
<1>5. Len(rest) = last - n
  BY <1>3, <1>4
<1>6. ASSUME NEW j \in 1 .. last - n PROVE rest[j] = q[n + j]
  <2>1. j \in 1 .. last - m + 1 /\ m + j - 1 = n + j
    BY <1>3
  <2> QED  BY <1>4, <2>1
<1> QED  BY <1>3, <1>4, <1>5, <1>6 DEF rest

\* When those of one instant are taken, all others are later.
LEMMA RestAhead ==
  ASSUME NEW q \in Seq(Nat), NEW t \in Nat, Ahead(q, t),
         NEW n \in 1 .. Len(q),
         \A i \in 1 .. Len(q) : i <= n <=> q[i] <= q[1]
  PROVE  Ahead(SubSeq(q, n + 1, Len(q)), q[1])
<1> DEFINE rest == SubSeq(q, n + 1, Len(q))
<1>1. /\ Len(rest) = Len(q) - n
      /\ \A j \in 1 .. Len(q) - n : rest[j] = q[n + j]
  BY Rest, LenProperties
<1> HIDE DEF rest
<1>2. /\ Len(q) \in Nat
      /\ \A j \in 1 .. Len(q) : q[j] \in Nat
  BY LenProperties
<1>3. \A j \in 1 .. Len(q) - n : q[1] < rest[j]
  BY <1>1, <1>2
<1>4. ASSUME NEW j \in 1 .. Len(q) - n, NEW k \in 1 .. Len(q) - n, j < k
      PROVE  rest[j] <= rest[k]
  <2>1. /\ n + j \in 1 .. Len(q) /\ n + k \in 1 .. Len(q) /\ n + j < n + k
    BY <1>2, <1>4
  <2>2. q[n + j] <= q[n + k]
    BY <2>1 DEF Ahead
  <2> QED  BY <1>1, <2>2
<1> QED  BY <1>1, <1>3, <1>4 DEF Ahead, rest

-----------------------------------------------------------------------------
(***************************************************************************)
(* The inductive invariant: NothingLost bounds a batch by what was sent,   *)
(* and a runner that begins a batch has none.                              *)
(***************************************************************************)
BatchInv == \A r \in Runner : state[r] # "deliver" => batch[r] = 0

Inv == TypeOK /\ EventsAhead /\ NothingLost /\ BatchInv

LEMMA InitInv == Init => Inv
<1> SUFFICES ASSUME Init PROVE Inv  OBVIOUS
<1>1. TypeOK
  <2>1. queue \in Seq(Nat)
    BY DEF Init
  <2>6. clock \in Nat /\ woke \in BOOLEAN
    BY DEF Init
  <2>2. /\ sent \in 0 .. MaxSent /\ delivered \in 0 .. sent
        /\ waker \in 0 .. MaxStarts /\ runner \in 0 .. MaxStarts
    BY BoundAssumption DEF Init
  <2>3. holder \in Caller \cup {None}
    BY DEF Init
  <2>4. /\ state \in [Runner -> {"new", "delay", "parked", "woken", "deliver",
                                 "gone"}]
        /\ pc \in [Caller -> {"idle", "sleeping", "waiting", "released"}]
    BY DEF Init
  <2>5. batch \in [Runner -> 0 .. MaxSent]
    BY BoundAssumption DEF Init
  <2> QED  BY <2>1, <2>2, <2>3, <2>4, <2>5, <2>6 DEF TypeOK
<1>6. BatchInv
  BY DEF Init, BatchInv
<1>2. DOMAIN queue = {} /\ Len(queue) = 0
  BY DEF Init
<1>3. EventsAhead
  BY <1>2, Zenon DEF EventsAhead
<1>4. Batched(batch) = {}
  BY BoundAssumption DEF Init, Batched
<1>5. NothingLost
  <2>1. Cardinality(Batched(batch)) = 0
    BY <1>4, FS_EmptySet, Zenon
  <2> QED  BY <1>2, <2>1 DEF Init, NothingLost, InFlight
<1> QED  BY <1>1, <1>3, <1>5, <1>6 DEF Inv

LEMMA AddEventInv ==
  ASSUME Inv, NEW distance \in 0 .. MaxDistance, AddEvent(distance)
  PROVE  Inv'
<1> USE DEF Inv
<1>1. Arrival(distance) \in Nat /\ clock < Arrival(distance)
  BY BoundAssumption DEF Arrival, TypeOK
<1>2. PICK i \in Places(Arrival(distance)) :
        queue' = InsertAt(queue, i, Arrival(distance))
  BY DEF AddEvent
<1>3. /\ queue \in Seq(Nat) /\ clock \in Nat
      /\ DOMAIN queue = 1 .. Len(queue) /\ Len(queue) \in Nat
  BY LenProperties DEF TypeOK
<1>4. /\ i \in 1 .. Len(queue) + 1
      /\ \A j \in 1 .. Len(queue) : IF j < i THEN queue[j] <= Arrival(distance)
                                    ELSE Arrival(distance) <= queue[j]
  BY <1>3 DEF Places
<1>5. queue' \in Seq(Nat) /\ Len(queue') = Len(queue) + 1
  BY <1>1, <1>2, <1>3, <1>4, Inserted DEF IsInserted
<1>6. TypeOK'
  <2>1. sent' \in 0 .. MaxSent /\ delivered' \in 0 .. sent'
    BY BoundAssumption DEF AddEvent, TypeOK
  <2>2. woke' \in BOOLEAN
    BY DEF AddEvent, TypeOK
  <2>3. state' \in [Runner -> {"new", "delay", "parked", "woken", "deliver",
                               "gone"}]
    BY DEF AddEvent, TypeOK
  <2> QED  BY <1>5, <2>1, <2>2, <2>3 DEF AddEvent, TypeOK
<1>7. EventsAhead'
  <2>1. Ahead(queue, clock)
    BY <1>3 DEF EventsAhead, Ahead
  <2>2. Ahead(queue', clock)
    BY <1>1, <1>2, <1>3, <1>4, <2>1, InsertedAhead
  <2>3. DOMAIN queue' = 1 .. Len(queue')
    BY <1>5, LenProperties
  <2> QED  BY <2>2, <2>3 DEF EventsAhead, Ahead, AddEvent
<1>8. NothingLost'
  <2>1. Cardinality(Batched(batch)) \in Nat
    BY BatchesAreFinite DEF TypeOK, Sizes
  <2> QED  BY <2>1, <1>3, <1>5 DEF NothingLost, InFlight, AddEvent, TypeOK
<1>9. BatchInv'
  BY DEF BatchInv, AddEvent, TypeOK
<1> QED  BY <1>6, <1>7, <1>8, <1>9

LEMMA FetchInv ==
  ASSUME Inv, NEW r \in Runner, Fetch(r)
  PROVE  Inv'
<1> USE DEF Inv
<1>1. /\ DOMAIN queue = 1 .. Len(queue) /\ Len(queue) \in Nat \ {0}
      /\ queue \in Seq(Nat)
      /\ \A j \in 1 .. Len(queue) : queue[j] \in Nat
  BY LenProperties, EmptySeq DEF TypeOK, Fetch
<1>2. PICK n \in 1 .. Len(queue) :
        /\ Due(n)
        /\ batch' = [batch EXCEPT ![r] = n]
        /\ queue' = SubSeq(queue, n + 1, Len(queue))
  BY <1>1 DEF Fetch
<1>3. batch[r] = 0 /\ state[r] # "deliver"
  BY DEF Fetch, Pollable, BatchInv
<1>4. queue' \in Seq(Nat) /\ Len(queue') = Len(queue) - n
  <2>1. n \in 0 .. Len(queue)
    BY <1>1, <1>2
  <2> QED  BY <1>1, <1>2, <2>1, Rest, Zenon
<1>5. batch \in Sizes /\ Cardinality(Batched(batch)) \in Nat
  BY BatchesAreFinite DEF TypeOK, Sizes
<1>6. n \in 0 .. MaxSent
  <2>1. sent = delivered + Cardinality(Batched(batch)) + Len(queue)
    BY DEF NothingLost, InFlight
  <2>2. sent \in Nat /\ sent <= MaxSent /\ delivered \in Nat /\ MaxSent \in Nat
    BY BoundAssumption DEF TypeOK
  <2>3. n \in Nat /\ n <= Len(queue)
    BY <1>1, <1>2
  <2> QED  BY <2>1, <2>2, <2>3, <1>1, <1>5
<1>7. NothingLost'
  <2>1. Cardinality(Batched(batch')) = Cardinality(Batched(batch)) + n
    BY <1>2, <1>3, <1>5, <1>6, BatchCounts
  <2>2. sent = delivered + Cardinality(Batched(batch)) + Len(queue)
    BY DEF NothingLost, InFlight
  <2>3. sent' = sent /\ delivered' = delivered /\ delivered \in Nat
    BY BoundAssumption DEF Fetch, TypeOK
  <2>4. n \in Nat /\ n <= Len(queue)
    BY <1>1, <1>2
  <2>5. sent' = delivered' + Cardinality(Batched(batch')) + Len(queue')
    BY <2>1, <2>2, <2>3, <2>4, <1>1, <1>4, <1>5
  <2> QED  BY <2>5 DEF NothingLost, InFlight
<1>8. TypeOK'
  <2>1. batch' \in [Runner -> 0 .. MaxSent]
    BY <1>2, <1>6 DEF TypeOK
  <2>2. state' \in [Runner -> {"new", "delay", "parked", "woken", "deliver",
                               "gone"}]
    BY DEF Fetch, TypeOK
  <2>3. clock' \in Nat
    BY <1>1 DEF Fetch
  <2> QED  BY <1>4, <2>1, <2>2, <2>3 DEF Fetch, TypeOK
<1>9. EventsAhead'
  <2>1. Ahead(queue, clock) /\ clock \in Nat
    BY <1>1 DEF EventsAhead, Ahead, TypeOK
  <2>2. \A j \in 1 .. Len(queue) : j <= n <=> queue[j] <= queue[1]
    BY <1>1, <1>2 DEF Due
  <2>3. Ahead(queue', queue[1])
    BY <1>1, <1>2, <2>1, <2>2, RestAhead
  <2>4. DOMAIN queue' = 1 .. Len(queue')
    BY <1>4, LenProperties
  <2> QED  BY <2>3, <2>4 DEF EventsAhead, Ahead, Fetch
<1>10. BatchInv'
  BY <1>2 DEF BatchInv, Fetch, TypeOK
<1> QED  BY <1>7, <1>8, <1>9, <1>10

LEMMA DeliverInv ==
  ASSUME Inv, NEW r \in Runner, Deliver(r)
  PROVE  Inv'
<1> USE DEF Inv
<1>1. batch \in Sizes /\ batch' \in Sizes /\ batch[r] \in 0 .. MaxSent
  BY BoundAssumption DEF Deliver, TypeOK, Sizes
<1>2. batch' = [batch EXCEPT ![r] = 0] /\ batch'[r] = 0
  BY <1>1 DEF Deliver, Sizes
<1>3. batch = [batch' EXCEPT ![r] = batch[r]]
  BY <1>1, <1>2 DEF Sizes
<1>4. Cardinality(Batched(batch)) = Cardinality(Batched(batch')) + batch[r]
  <2>1. Cardinality(Batched([batch' EXCEPT ![r] = batch[r]]))
          = Cardinality(Batched(batch')) + batch[r]
    BY <1>1, <1>2, BatchCounts, Zenon
  <2> QED  BY <1>3, <2>1, Zenon
<1>5. Cardinality(Batched(batch')) \in Nat /\ Len(queue) \in Nat
  BY <1>1, BatchesAreFinite, LenProperties DEF TypeOK
<1>6. NothingLost'
  BY <1>1, <1>4, <1>5, BoundAssumption DEF NothingLost, InFlight, Deliver, TypeOK
<1>7. TypeOK'
  <2>1. delivered' \in 0 .. sent'
    <3>1. delivered' \in Nat /\ sent' \in Nat
      BY <1>1, BoundAssumption DEF Deliver, TypeOK
    <3>2. sent' = delivered' + Cardinality(Batched(batch')) + Len(queue)
      BY <1>6 DEF NothingLost, InFlight, Deliver
    <3> QED  BY <3>1, <3>2, <1>5
  <2>2. state' \in [Runner -> {"new", "delay", "parked", "woken", "deliver",
                               "gone"}]
    BY DEF Deliver, TypeOK
  <2>3. pc' \in [Caller -> {"idle", "sleeping", "waiting", "released"}]
    BY DEF Deliver, TypeOK
  <2> QED  BY <1>1, <2>1, <2>2, <2>3 DEF Deliver, TypeOK, Sizes
<1>8. EventsAhead'
  BY DEF EventsAhead, Deliver
<1>9. BatchInv'
  BY <1>2 DEF BatchInv, Deliver, TypeOK
<1> QED  BY <1>6, <1>7, <1>8, <1>9

\* Steps that touch neither events nor batches.
LEMMA OtherStepInv ==
  ASSUME Inv,
         UNCHANGED <<clock, queue, sent, delivered, batch>>,
         TypeOK',
         \A r \in Runner : state'[r] # "deliver" => state[r] # "deliver"
  PROVE  Inv'
BY DEF Inv, EventsAhead, NothingLost, InFlight, BatchInv

LEMMA NextInv == Inv /\ [Next]_vars => Inv'
<1> SUFFICES ASSUME Inv, [Next]_vars PROVE Inv'  OBVIOUS
<1> USE DEF Inv
<1>1. CASE UNCHANGED vars
  <2>1. TypeOK'
    BY <1>1 DEF vars, TypeOK
  <2> QED  BY <1>1, <2>1, OtherStepInv DEF vars
<1>2. ASSUME NEW r \in Runner, Park(r) PROVE Inv'
  <2>1. TypeOK'
    <3>1. waker' \in 0 .. MaxStarts
      BY <1>2, BoundAssumption DEF Park, TypeOK, Runner
    <3>2. state' \in [Runner -> {"new", "delay", "parked", "woken", "deliver",
                                 "gone"}]
      BY <1>2 DEF Park, TypeOK
    <3> QED  BY <1>2, <3>1, <3>2 DEF Park, TypeOK
  <2> QED  BY <1>2, <2>1, OtherStepInv DEF Park, Pollable, TypeOK
<1>3. ASSUME NEW r \in Runner, Exit(r) PROVE Inv'
  <2>1. TypeOK'
    BY <1>3 DEF Exit, TypeOK
  <2> QED  BY <1>3, <2>1, OtherStepInv DEF Exit, TypeOK
<1>4. ASSUME NEW r \in Runner, Start(r) PROVE Inv'
  <2>1. TypeOK'
    BY <1>4, BoundAssumption DEF Start, TypeOK, Runner
  <2> QED  BY <1>4, <2>1, OtherStepInv DEF Start, TypeOK
<1>5. ASSUME NEW c \in Caller, CallerStep(c) \/ Quiesce(c) \/ QuiesceAndStop(c)
      PROVE  Inv'
  <2>1. TypeOK'
    <3>1. pc' \in [Caller -> {"idle", "sleeping", "waiting", "released"}]
      BY <1>5
      DEF CallerStep, CheckQuiescence, Return, Quiesce, QuiesceAndStop, TypeOK
    <3>2. runner' \in 0 .. MaxStarts
      BY <1>5, BoundAssumption
      DEF CallerStep, CheckQuiescence, Return, Quiesce, QuiesceAndStop, TypeOK
    <3>3. holder' \in Caller \cup {None}
      BY <1>5
      DEF CallerStep, CheckQuiescence, Return, Quiesce, QuiesceAndStop, TypeOK
    <3>4. UNCHANGED <<clock, queue, woke, sent, delivered, waker, state, batch>>
      BY <1>5
      DEF CallerStep, CheckQuiescence, Return, Quiesce, QuiesceAndStop
    <3> QED  BY <3>1, <3>2, <3>3, <3>4 DEF TypeOK
  <2>2. UNCHANGED <<clock, queue, sent, delivered, batch, state>>
    BY <1>5 DEF CallerStep, CheckQuiescence, Return, Quiesce, QuiesceAndStop
  <2> QED  BY <2>1, <2>2, OtherStepInv
<1> QED
  BY <1>1, <1>2, <1>3, <1>4, <1>5, AddEventInv, FetchInv, DeliverInv
  DEF Next, RunnerStep

LEMMA SpecInv == Spec => []Inv
<1> QED  BY InitInv, NextInv, PTL DEF Spec

-----------------------------------------------------------------------------
(***************************************************************************)
(* The state of the simulator is well typed: in particular it never counts *)
(* more events as delivered than were sent (SimulatorInternal).            *)
(***************************************************************************)
THEOREM SimulatorTypeOK == Spec => []TypeOK
<1>1. Inv => TypeOK  BY DEF Inv
<1> QED  BY <1>1, SpecInv, PTL

(***************************************************************************)
(* Whatever is added while other events are delivered, the queue is in the *)
(* order of arrival and nothing in it is late (add_event,                  *)
(* advance_and_fetch).                                                     *)
(***************************************************************************)
THEOREM SimulatorEventsAhead == Spec => []EventsAhead
<1>1. Inv => EventsAhead  BY DEF Inv
<1> QED  BY <1>1, SpecInv, PTL

(***************************************************************************)
(* No event is lost or counted twice, however many runners were started    *)
(* and cancelled in the middle of a batch (run_func, quiesce_and_stop).    *)
(***************************************************************************)
THEOREM SimulatorNothingLost == Spec => []NothingLost
<1>1. Inv => NothingLost  BY DEF Inv
<1> QED  BY <1>1, SpecInv, PTL

(***************************************************************************)
(* No caller is released while an event waits or is being delivered, by    *)
(* any runner (quiesce, check_quiescence).                                 *)
(***************************************************************************)
THEOREM SimulatorQuiescenceIsComplete == Spec => QuiescenceIsComplete
<1>1. ASSUME Inv, Inv', [Next]_vars, NEW c \in Caller,
             pc[c] # "released", pc'[c] = "released"
      PROVE  queue' = << >> /\ \A r \in Runner : batch'[r] = 0
  <2>1. sent' = delivered'
    <3>1. CASE CheckQuiescence(c)
      BY <3>1, <1>1 DEF CheckQuiescence, FullyDelivered, Inv, TypeOK
    <3>2. ASSUME NEW r \in Runner, Deliver(r) PROVE sent' = delivered'
      BY <3>2, <1>1 DEF Deliver
    <3>3. CASE \E d \in Caller \ {c} : CheckQuiescence(d)
      BY <3>3, <1>1 DEF CheckQuiescence, Inv, TypeOK
    <3>4. CASE \E d \in Caller : Return(d) \/ Quiesce(d) \/ QuiesceAndStop(d)
      BY <3>4, <1>1 DEF Return, Quiesce, QuiesceAndStop, Inv, TypeOK
    <3>5. CASE UNCHANGED pc
      BY <3>5, <1>1
    <3>6. UNCHANGED vars => UNCHANGED pc
      BY DEF vars
    <3>7. \A distance \in 0 .. MaxDistance : AddEvent(distance) => UNCHANGED pc
      BY DEF AddEvent
    <3>8. \A r \in Runner : Fetch(r) \/ Park(r) \/ Exit(r) \/ Start(r) => UNCHANGED pc
      BY DEF Fetch, Park, Exit, Start
    <3> QED
      BY <1>1, <3>1, <3>2, <3>3, <3>4, <3>5, <3>6, <3>7, <3>8
      DEF Next, RunnerStep, CallerStep
  <2>2. /\ queue' \in Seq(Nat) /\ batch' \in Sizes /\ delivered' \in Nat
        /\ delivered' = delivered' + Cardinality(Batched(batch')) + Len(queue')
    BY <1>1, <2>1 DEF Inv, TypeOK, NothingLost, InFlight, Sizes
  <2> QED  BY <2>2, NothingWaits
<1>2. Inv /\ Inv' /\ [Next]_vars
        => [\A c \in Caller :
              pc[c] # "released" /\ pc'[c] = "released"
                => queue' = << >> /\ \A r \in Runner : batch'[r] = 0]_vars
  BY <1>1
<1> QED  BY <1>2, SpecInv, PTL DEF Spec, QuiescenceIsComplete

(***************************************************************************)
(* Time never goes back, though events are added to the past of others     *)
(* that are still in the queue (advance_and_fetch).                        *)
(***************************************************************************)
TimeAdvances == [][clock <= clock']_vars

THEOREM SimulatorTimeAdvances == Spec => TimeAdvances
<1>1. ASSUME Inv, Next PROVE clock <= clock'
  <2>1. ASSUME NEW r \in Runner, Fetch(r) PROVE clock <= clock'
    <3>1. 1 \in DOMAIN queue /\ queue[1] \in Nat
      BY <1>1, <2>1, LenProperties, EmptySeq DEF Inv, TypeOK, Fetch
    <3>2. clock < queue[1]
      BY <1>1, <3>1 DEF Inv, EventsAhead
    <3> QED  BY <1>1, <2>1, <3>1, <3>2 DEF Fetch, Inv, TypeOK
  <2>2. clock \in Nat
    BY <1>1 DEF Inv, TypeOK
  <2>3. CASE UNCHANGED clock
    BY <2>2, <2>3
  <2> QED
    BY <1>1, <2>1, <2>3
    DEF Next, RunnerStep, CallerStep, AddEvent, Park, Deliver, Exit, Start,
        CheckQuiescence, Return, Quiesce, QuiesceAndStop
<1>2. Inv /\ [Next]_vars => [clock <= clock']_vars
  BY <1>1
<1> QED  BY <1>2, SpecInv, PTL DEF Spec, TimeAdvances
=============================================================================
