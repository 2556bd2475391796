--------------------------- MODULE RootSeedProofs ---------------------------
(***************************************************************************)
(* Proofs about slabs that join and leave a network (module RootSeed), for *)
(* any slabs, threads and transports, and any systems to join.             *)
(***************************************************************************)
EXTENDS RootSeed, SequenceTheorems, FiniteSetTheorems, TLAPS

-----------------------------------------------------------------------------
(***************************************************************************)
(* Sequences and numbers.                                                  *)
(***************************************************************************)
\* The first element was taken.
LEMMA RangeOfTail ==
  ASSUME NEW S, NEW q \in Seq(S), q # << >>
  PROVE  /\ Head(q) \in S /\ Tail(q) \in Seq(S)
         /\ Range(q) = {Head(q)} \cup Range(Tail(q))
<1> DEFINE first == <<Head(q)>>
           rest == Tail(q)
<1>1. first \in Seq(S) /\ Range(first) = {Head(q)} /\ q = first \o rest
  BY HeadTailProperties DEF Range
<1>2. Head(q) \in S /\ rest \in Seq(S)
  BY HeadTailProperties
<1> HIDE DEF first, rest
<1>3. Range(first \o rest) = Range(first) \cup Range(rest)
  BY <1>1, <1>2, RangeConcatenation
<1> QED  BY <1>1, <1>2, <1>3 DEF rest

\* An element that was not there yet was added in front.
LEMMA RangeOfCons ==
  ASSUME NEW S, NEW q \in Seq(S), IsInjective(q), NEW s \in S \ Range(q)
  PROVE  /\ <<s>> \o q \in Seq(S)
         /\ Range(<<s>> \o q) = Range(q) \cup {s}
         /\ IsInjective(<<s>> \o q)
<1> DEFINE one == <<s>>
           new == one \o q
<1>1. one \in Seq(S) /\ Len(one) = 1 /\ one[1] = s /\ Range(one) = {s}
  BY DEF Range
<1> HIDE DEF one
<1>2. /\ new \in Seq(S) /\ Len(new) = Len(one) + Len(q)
      /\ \A i \in 1 .. Len(one) + Len(q) :
           new[i] = IF i <= Len(one) THEN one[i] ELSE q[i - Len(one)]
  BY <1>1, ConcatProperties
<1>3. DOMAIN new = 1 .. Len(q) + 1 /\ DOMAIN q = 1 .. Len(q) /\ Len(q) \in Nat
  BY <1>1, <1>2, LenProperties
<1> HIDE DEF new
<1>4. \A i \in 1 .. Len(q) + 1 :
        IF i = 1 THEN new[i] = s ELSE i - 1 \in 1 .. Len(q) /\ new[i] = q[i - 1]
  BY <1>1, <1>2, <1>3
<1>5. \A i \in 1 .. Len(q) : q[i] # s
  BY <1>3, Zenon DEF Range
<1>6. IsInjective(new)
  BY <1>3, <1>4, <1>5 DEF IsInjective
<1>7. Range(new) = Range(one) \cup Range(q)
  BY <1>1, RangeConcatenation DEF new
<1> QED  BY <1>1, <1>2, <1>6, <1>7 DEF new, one

\* A set of numbers that is not empty has a least one.
LEMMA Least ==
  ASSUME NEW S \in SUBSET Nat, S # {}
  PROVE  Min(S) \in S /\ \A i \in S : Min(S) <= i
<1>1. PICK i \in S : \A j \in S : ~ (<<j, i>> \in OpToRel(<, Nat))
  BY NatLessThanWellFounded, WFMin
<1>2. \A j \in S : i <= j
  <2> SUFFICES ASSUME NEW j \in S, j < i PROVE FALSE
    OBVIOUS
  <2>1. <<j, i>> \in OpToRel(<, Nat)
    BY DEF OpToRel
  <2> QED  BY <1>1, <2>1
<1> QED  BY <1>2 DEF Min

-----------------------------------------------------------------------------
(***************************************************************************)
(* The list of slabs.                                                      *)
(***************************************************************************)
\* The list after a slab was taken out of it.
LEMMA Delisted ==
  ASSUME NEW q \in Seq(Slab), IsInjective(q), NEW i \in DOMAIN q
  PROVE  /\ RemoveAt(q, i) \in Seq(Slab)
         /\ Range(RemoveAt(q, i)) = Range(q) \ {q[i]}
         /\ IsInjective(RemoveAt(q, i))
<1> DEFINE n    == Len(q)
           low  == SubSeq(q, 1, i - 1)
           high == SubSeq(q, i + 1, n)
           new  == low \o high
<1>1. n \in Nat /\ DOMAIN q = 1 .. n /\ i \in 1 .. n
  BY LenProperties
<1>2. low \in Seq(Slab) /\ Len(low) = i - 1 /\ \A j \in 1 .. i - 1 : low[j] = q[j]
  <2>1. \A j \in 1 .. i - 1 : q[j] \in Slab
    BY <1>1
  <2> QED  BY <1>1, <2>1, SubSeqProperties
<1>3. /\ high \in Seq(Slab) /\ Len(high) = n - i
      /\ \A j \in 1 .. n - i : high[j] = q[i + j]
  <2>1. \A j \in i + 1 .. n : q[j] \in Slab
    BY <1>1
  <2> QED  BY <1>1, <2>1, SubSeqProperties
<1> HIDE DEF low, high
<1>4. /\ new \in Seq(Slab)
      /\ Len(new) = Len(low) + Len(high)
      /\ \A j \in 1 .. Len(low) + Len(high) :
           new[j] = IF j <= Len(low) THEN low[j] ELSE high[j - Len(low)]
  BY <1>2, <1>3, ConcatProperties, Zenon
<1> DEFINE place(j) == IF j < i THEN j ELSE j + 1
<1>5. DOMAIN new = 1 .. n - 1
  <2>1. Len(low) + Len(high) = n - 1
    BY <1>1, <1>2, <1>3
  <2> QED  BY <1>4, <2>1, LenProperties
<1>6. ASSUME NEW j \in 1 .. n - 1
      PROVE  place(j) \in (1 .. n) \ {i} /\ new[j] = q[place(j)]
  <2>1. j \in 1 .. Len(low) + Len(high)
    BY <1>1, <1>2, <1>3
  <2>2. new[j] = IF j <= i - 1 THEN low[j] ELSE high[j - (i - 1)]
    BY <1>2, <1>4, <2>1
  <2>3. CASE j < i
    <3>1. j \in 1 .. i - 1 /\ j <= i - 1
      BY <1>1, <2>3
    <3> QED  BY <1>1, <1>2, <2>2, <2>3, <3>1
  <2>4. CASE ~ (j < i)
    <3>1. /\ j - (i - 1) \in 1 .. n - i /\ ~ (j <= i - 1)
          /\ i + (j - (i - 1)) = j + 1
          /\ j + 1 \in (1 .. n) \ {i}
      BY <1>1, <2>4
    <3>2. high[j - (i - 1)] = q[j + 1]
      BY <1>3, <3>1
    <3> QED  BY <2>2, <2>4, <3>1, <3>2
  <2> QED  BY <2>3, <2>4
<1> HIDE DEF new
<1>7. ASSUME NEW k \in (1 .. n) \ {i} PROVE \E j \in 1 .. n - 1 : place(j) = k
  <2>1. CASE k < i
    <3>1. k \in 1 .. n - 1
      BY <1>1, <2>1
    <3> QED  BY <2>1, <3>1
  <2>2. CASE k > i
    <3>1. k - 1 \in 1 .. n - 1 /\ ~ (k - 1 < i) /\ (k - 1) + 1 = k
      BY <1>1, <2>2
    <3>2. place(k - 1) = k
      BY <3>1
    <3> QED  BY <3>1, <3>2
  <2>3. k < i \/ k > i
    BY <1>1
  <2> QED  BY <2>1, <2>2, <2>3
<1>8. \A j, k \in 1 .. n - 1 : place(j) = place(k) => j = k
  BY <1>1
<1> HIDE DEF place, n
<1>9. Range(new) = {q[k] : k \in (1 .. n) \ {i}}
  BY <1>5, <1>6, <1>7 DEF Range
<1>10. Range(q) \ {q[i]} = {q[k] : k \in (1 .. n) \ {i}}
  BY <1>1 DEF Range, IsInjective
<1>11. IsInjective(new)
  BY <1>1, <1>5, <1>6, <1>8 DEF IsInjective
<1>12. RemoveAt(q, i) = new
  BY DEF RemoveAt, new, low, high, n
<1> QED  BY <1>4, <1>9, <1>10, <1>11, <1>12

\* Every place of a set of places is its k-th for some k.
LEMMA Ranked ==
  ASSUME NEW S \in SUBSET Nat, IsFiniteSet(S)
  PROVE  /\ Cardinality(S) \in Nat
         /\ \A k \in 1 .. Cardinality(S) : Nth(S, k) \in S
         /\ \A i \in S : \E k \in 1 .. Cardinality(S) : Nth(S, k) = i
<1> DEFINE upto(i) == {j \in S : j <= i}
           n       == Cardinality(S)
           rank    == [i \in S |-> Cardinality(upto(i))]
<1>1. n \in Nat
  BY FS_CardinalityType
<1>2. ASSUME NEW i \in S
      PROVE  /\ i \in upto(i) /\ IsFiniteSet(upto(i))
             /\ Cardinality(upto(i)) \in 1 .. n
  <2>1. i \in upto(i) /\ upto(i) \in SUBSET S
    OBVIOUS
  <2>2. IsFiniteSet(upto(i)) /\ Cardinality(upto(i)) <= n
    BY <2>1, FS_Subset
  <2>3. Cardinality(upto(i)) \in Nat /\ Cardinality(upto(i)) # 0
    BY <2>1, <2>2, FS_CardinalityType, FS_EmptySet
  <2> QED  BY <1>1, <2>1, <2>2, <2>3
<1>3. ASSUME NEW i \in S, NEW j \in S, i < j
      PROVE  Cardinality(upto(i)) # Cardinality(upto(j))
  <2>1. upto(i) \in SUBSET upto(j) /\ j \in upto(j) /\ j \notin upto(i)
    <3>1. \A k \in S : k <= i => k <= j
      BY <1>3
    <3>2. j <= j /\ ~ (j <= i)
      BY <1>3
    <3> QED  BY <3>1, <3>2
  <2>2. IsFiniteSet(upto(j))
    BY <1>2
  <2>3. upto(i) # upto(j)
    BY <2>1
  <2> HIDE DEF upto
  <2>4. Cardinality(upto(j)) = Cardinality(upto(i)) => upto(j) = upto(i)
    BY <2>1, <2>2, FS_Subset, Zenon
  <2> QED  BY <2>3, <2>4
<1>4. \A i, j \in S : rank[i] = rank[j] => i = j
  <2> SUFFICES ASSUME NEW i \in S, NEW j \in S, rank[i] = rank[j], i # j
               PROVE  FALSE
    OBVIOUS
  <2>1. i < j \/ j < i
    OBVIOUS
  <2> QED  BY <1>3, <2>1
<1>5. rank \in [S -> 1 .. n]
  BY <1>2
<1> HIDE DEF n
<1>6. rank \in Injection(S, 1 .. n)
  BY <1>4, <1>5 DEF Injection, IsInjective
<1>7. IsFiniteSet(1 .. n) /\ Cardinality(1 .. n) = n
  BY <1>1, FS_Interval
<1> HIDE DEF rank
<1>8. rank \in Surjection(S, 1 .. n)
  BY <1>6, <1>7, FS_Injection DEF n
<1>9. ASSUME NEW k \in 1 .. n
      PROVE  Nth(S, k) \in S /\ rank[Nth(S, k)] = k
  <2>1. \E i \in S : Cardinality(upto(i)) = k
    BY <1>8 DEF Surjection, rank
  <2>2. Nth(S, k) \in S /\ Cardinality(upto(Nth(S, k))) = k
    BY <2>1 DEF Nth
  <2> QED  BY <2>2 DEF rank
<1>10. ASSUME NEW i \in S PROVE \E k \in 1 .. n : Nth(S, k) = i
  <2>1. rank[i] \in 1 .. n
    BY <1>5
  <2>2. Nth(S, rank[i]) = i
    BY <1>4, <1>9, <2>1
  <2> QED  BY <2>1, <2>2
<1> QED  BY <1>1, <1>9, <1>10 DEF n

\* What a slab that joins has to assert.
LEMMA LinksOf ==
  ASSUME slabs \in Seq(Slab), NEW s \in Slab
  PROVE  /\ Links(s) \in Seq(Slab \X Slab)
         /\ \A t \in Slab \ {s} :
              t \in Range(slabs) \cap running
                => <<s, t>> \in Range(Links(s)) /\ <<t, s>> \in Range(Links(s))
         /\ \A e \in Range(Links(s)) :
              e[1] \in Range(slabs) \cup {s} /\ e[2] \in Range(slabs) \cup {s}
<1> DEFINE n == Cardinality(Others(s))
           other(k) == slabs[Nth(Others(s), k)]
<1>1. DOMAIN slabs = 1 .. Len(slabs) /\ Len(slabs) \in Nat
  BY LenProperties
<1>2. Others(s) \in SUBSET (1 .. Len(slabs)) /\ Others(s) \in SUBSET Nat
  BY <1>1 DEF Others, LocalSlabs
<1>3. IsFiniteSet(Others(s))
  <2>1. IsFiniteSet(1 .. Len(slabs))
    BY <1>1, FS_Interval
  <2> QED  BY <1>2, <2>1, FS_Subset
<1>4. /\ n \in Nat
      /\ \A k \in 1 .. n : Nth(Others(s), k) \in Others(s)
      /\ \A i \in Others(s) : \E k \in 1 .. n : Nth(Others(s), k) = i
  BY <1>2, <1>3, Ranked
<1>5. \A k \in 1 .. n : other(k) \in Slab /\ other(k) \in Range(slabs)
  BY <1>1, <1>2, <1>4 DEF Range
<1>6. \A k \in 1 .. 2 * n : (k + 1) \div 2 \in 1 .. n
  BY <1>4
<1>7. Links(s) = [k \in 1 .. 2 * n |-> IF k % 2 = 1
                                       THEN <<other((k + 1) \div 2), s>>
                                       ELSE <<s, other((k + 1) \div 2)>>]
  BY DEF Links
<1>8. 2 * n \in Nat
  BY <1>4
<1>9. \A t \in (Slab \cap Range(slabs) \cap running) \ {s} :
        \E k \in 1 .. n : other(k) = t
  <2> SUFFICES ASSUME NEW t \in Slab \ {s}, t \in Range(slabs), t \in running
               PROVE  \E k \in 1 .. n : other(k) = t
    OBVIOUS
  <2>1. PICK i \in DOMAIN slabs : slabs[i] = t
    BY DEF Range
  <2>2. i \in Others(s)
    BY <2>1 DEF Others, LocalSlabs
  <2> QED  BY <1>4, <2>1, <2>2
<1> HIDE DEF n, other
<1>10. Links(s) \in Seq(Slab \X Slab)
  <2>1. \A k \in 1 .. 2 * n : Links(s)[k] \in Slab \X Slab
    BY <1>5, <1>6, <1>7
  <2>2. Links(s) \in [1 .. 2 * n -> Slab \X Slab]
    BY <1>7, <2>1
  <2> HIDE DEF Links
  <2> QED  BY <1>8, <2>2, SeqDef
<1>11. ASSUME NEW e \in Range(Links(s))
       PROVE  e[1] \in Range(slabs) \cup {s} /\ e[2] \in Range(slabs) \cup {s}
  <2>1. PICK k \in 1 .. 2 * n : e = Links(s)[k]
    BY <1>7 DEF Range
  <2> QED  BY <1>5, <1>6, <1>7, <2>1
<1>12. ASSUME NEW t \in Slab \ {s}, t \in Range(slabs), t \in running
       PROVE  <<s, t>> \in Range(Links(s)) /\ <<t, s>> \in Range(Links(s))
  <2>1. PICK k \in 1 .. n : other(k) = t
    BY <1>9, <1>12
  <2>2. /\ 2 * k - 1 \in 1 .. 2 * n /\ 2 * k \in 1 .. 2 * n
        /\ (2 * k - 1) % 2 = 1 /\ (2 * k) % 2 # 1
        /\ ((2 * k - 1) + 1) \div 2 = k /\ (2 * k + 1) \div 2 = k
    BY <1>4
  <2>3. Links(s)[2 * k - 1] = <<t, s>> /\ Links(s)[2 * k] = <<s, t>>
    BY <1>7, <2>1, <2>2
  <2>4. DOMAIN Links(s) = 1 .. 2 * n
    BY <1>7
  <2> QED  BY <2>2, <2>3, <2>4, Zenon DEF Range
<1> QED  BY <1>10, <1>11, <1>12

-----------------------------------------------------------------------------
(***************************************************************************)
(* Types, and what a thread that joins or leaves is doing.                 *)
(***************************************************************************)
\* Where a slab is tells whether it is listed, and whether it runs.
Membership ==
  \A s \in Slab : /\ s \in Range(slabs) <=> pc[s] \notin {"new", "delisted", "gone"}
                  /\ s \in running <=> pc[s] \notin {"stopped", "delisted", "gone"}

AtRef == {"presence", "wiring"}

\* A thread works on the first of its links, at a reference to its slab.
Working ==
  \A s \in Slab :
    /\ pc[s] \in AtRef \cup {"absent"} => todo[s] # << >>
    /\ pc[s] \in AtRef => peers[Owner(s)][at[s]].to = To(s)
    /\ pc[s] \notin AtRef \cup {"linking", "absent"} => todo[s] = << >>
    /\ \A e \in Range(todo[s]) : pc[e[1]] # "new" /\ pc[e[2]] # "new"

TypeInv == TypeOK /\ Membership /\ Working

Reference == [to : Slab, present : BOOLEAN, wired : BOOLEAN]

Phase == {"new", "listed", "linking", "absent", "presence", "wiring",
          "generate", "up", "stopped", "delisted", "gone"}

LEMMA InitType == Init => TypeInv
<1> SUFFICES ASSUME Init PROVE TypeInv  OBVIOUS
<1>1. Range(<< >>) = {} /\ IsInjective(<< >>)
  BY DEF Range, IsInjective
<1>2. << >> \in Seq(Slab) /\ << >> \in Seq(Reference) /\ << >> \in Seq(Slab \X Slab)
  OBVIOUS
<1>3. /\ slabs \in Seq(Slab) /\ IsInjective(slabs)
      /\ peers \in [Slab -> Seq(Reference)] /\ todo \in [Slab -> Seq(Slab \X Slab)]
  BY <1>1, <1>2 DEF Init
<1>4. /\ createNewSystem \in BOOLEAN /\ running \subseteq Slab
      /\ seed \in Seed /\ rx \in [Transport -> Seed] /\ certain \subseteq Slab
      /\ pc \in [Slab -> Phase]
      /\ root \in [Slab -> Root \cup {Nothing}]
      /\ at \in [Slab -> Nat]
  BY DEF Init, Seed, Phase
<1>5. \A s \in Slab : at[s] \in IF pc[s] \in {"presence", "wiring"}
                               THEN DOMAIN peers[Owner(s)] ELSE {0}
  BY DEF Init
<1>6. Membership
  BY <1>1 DEF Init, Membership
<1>7. Working
  BY <1>1 DEF Init, Working, AtRef
<1> QED  BY <1>3, <1>4, <1>5, <1>6, <1>7 DEF TypeInv, TypeOK, Reference, Phase

LEMMA LinksAreSlabs ==
  ASSUME TypeInv, NEW s \in Slab, NEW e \in Range(todo[s])
  PROVE  e[1] \in Slab /\ e[2] \in Slab
<1>1. todo[s] \in Seq(Slab \X Slab)
  BY DEF TypeInv, TypeOK
<1>2. PICK i \in DOMAIN todo[s] : e = todo[s][i]
  BY DEF Range
<1>3. e \in Slab \X Slab
  BY <1>1, <1>2
<1> QED  BY <1>3

\* The first link is one of them.
LEMMA FirstLink ==
  ASSUME TypeInv, NEW s \in Slab, todo[s] # << >>
  PROVE  /\ todo[s][1] \in Slab \X Slab /\ Owner(s) \in Slab /\ To(s) \in Slab
         /\ todo[s][1] = <<Owner(s), To(s)>>
         /\ Tail(todo[s]) \in Seq(Slab \X Slab)
         /\ Range(todo[s]) = {<<Owner(s), To(s)>>} \cup Range(Tail(todo[s]))
<1>1. todo[s] \in Seq(Slab \X Slab)
  BY DEF TypeInv, TypeOK
<1>2. /\ Head(todo[s]) \in Slab \X Slab /\ Tail(todo[s]) \in Seq(Slab \X Slab)
      /\ Range(todo[s]) = {Head(todo[s])} \cup Range(Tail(todo[s]))
  BY <1>1, RangeOfTail
<1>3. Head(todo[s]) = todo[s][1]
  BY <1>1
<1> QED  BY <1>2, <1>3 DEF Owner, To

\* The seed moves only to a slab that is listed and runs.
LEMMA RepresentativeRuns ==
  ASSUME TypeInv
  PROVE  /\ Representative = Nothing <=> Range(slabs) \cap running = {}
         /\ Representative # Nothing
              => Representative \in Range(slabs) \cap running
<1>1. DOMAIN slabs = 1 .. Len(slabs) /\ \A i \in DOMAIN slabs : slabs[i] \in Slab
  BY LenProperties DEF TypeInv, TypeOK
<1>2. LocalSlabs \in SUBSET Nat
  BY <1>1 DEF LocalSlabs
<1>3. CASE LocalSlabs = {}
  <2>1. Range(slabs) \cap running = {}
    BY <1>3 DEF LocalSlabs, Range
  <2> QED  BY <1>3, <2>1 DEF Representative
<1>4. CASE LocalSlabs # {}
  <2>1. Min(LocalSlabs) \in LocalSlabs
    BY <1>2, <1>4, Least
  <2>2. Representative = slabs[Min(LocalSlabs)]
    BY <1>4 DEF Representative
  <2>3. Representative \in Range(slabs) \cap running /\ Representative \in Slab
    BY <1>1, <2>1, <2>2 DEF LocalSlabs, Range
  <2>4. Nothing \notin Slab
    BY NetworkAssumption DEF Root
  <2> QED  BY <2>3, <2>4
<1> QED  BY <1>3, <1>4

\* Steps that concern only where slab s is, and seeds and roots.
Frame == UNCHANGED <<slabs, running, peers, todo, at>>

LEMMA FrameType ==
  ASSUME TypeInv, Frame, createNewSystem' = createNewSystem,
         seed' \in Seed, rx' \in [Transport -> Seed],
         root' \in [Slab -> Root \cup {Nothing}], certain' \subseteq Slab,
         pc' \in [Slab -> Phase],
         \A s \in Slab :
           \/ pc'[s] = pc[s]
           \/ /\ pc[s] = "linking" /\ todo[s] = << >> /\ pc'[s] \in {"generate", "up"}
           \/ /\ pc[s] = "generate" /\ pc'[s] = "up"
           \/ /\ pc[s] = "delisted" /\ pc'[s] = "gone"
  PROVE  TypeInv'
<1>1. \A s \in Slab : Owner(s)' = Owner(s) /\ To(s)' = To(s)
  BY DEF Frame, Owner, To
<1>2. \A s \in Slab : at'[s] \in IF pc'[s] \in {"presence", "wiring"}
                                THEN DOMAIN peers'[Owner(s)'] ELSE {0}
  BY <1>1 DEF Frame, TypeInv, TypeOK
<1>3. TypeOK'
  BY <1>2 DEF Frame, TypeInv, TypeOK, Phase
<1>4. Membership'
  BY DEF Frame, TypeInv, Membership
<1>5. Working'
  <2> SUFFICES ASSUME NEW s \in Slab
               PROVE  /\ pc'[s] \in AtRef \cup {"absent"} => todo'[s] # << >>
                      /\ pc'[s] \in AtRef => peers'[Owner(s)'][at'[s]].to = To(s)'
                      /\ pc'[s] \notin AtRef \cup {"linking", "absent"} => todo'[s] = << >>
                      /\ \A e \in Range(todo'[s]) : pc'[e[1]] # "new" /\ pc'[e[2]] # "new"
    BY DEF Working
  <2>1. todo' = todo /\ peers' = peers /\ at' = at
    BY DEF Frame
  <2>2. \A t \in Slab : pc[t] # "new" => pc'[t] # "new"
    OBVIOUS
  <2>3. \A e \in Range(todo'[s]) : pc'[e[1]] # "new" /\ pc'[e[2]] # "new"
    BY <2>1, <2>2, LinksAreSlabs DEF TypeInv, Working
  <2> QED  BY <1>1, <2>1, <2>3 DEF TypeInv, Working, AtRef
<1> QED  BY <1>3, <1>4, <1>5 DEF TypeInv

LEMMA SeedStepType ==
  ASSUME TypeInv, createNewSystem' = createNewSystem,
         \/ \E s \in Slab : CheckSeed(s) \/ GenerateSeed(s) \/ MoveSeed(s) \/ OpenRoot(s)
         \/ \E x \in Transport : ReceiveSeed(x) \/ ApplySeed(x)
         \/ UNCHANGED vars
  PROVE  TypeInv'
<1> USE DEF Frame
<1>0. /\ seed \in Seed /\ rx \in [Transport -> Seed]
      /\ root \in [Slab -> Root \cup {Nothing}] /\ certain \subseteq Slab
      /\ pc \in [Slab -> Phase]
  BY DEF TypeInv, TypeOK, Phase
<1>1. ASSUME NEW s \in Slab, CheckSeed(s) PROVE TypeInv'
  <2>1. pc' \in [Slab -> Phase]
    BY <1>0, <1>1 DEF CheckSeed, Phase
  <2> QED  BY <1>0, <1>1, <2>1, FrameType DEF CheckSeed
<1>2. ASSUME NEW s \in Slab, GenerateSeed(s) PROVE TypeInv'
  <2>1. pc' \in [Slab -> Phase]
    BY <1>0, <1>2 DEF GenerateSeed, Phase
  <2>2. seed' \in Seed
    BY <1>2 DEF GenerateSeed, Seed, Root
  <2> QED  BY <1>0, <1>2, <2>1, <2>2, FrameType DEF GenerateSeed
<1>3. ASSUME NEW s \in Slab, MoveSeed(s) PROVE TypeInv'
  <2>1. pc' \in [Slab -> Phase]
    BY <1>0, <1>3 DEF MoveSeed, Phase
  <2>2. seed' \in Seed
    <3>1. Representative # Nothing => Representative \in Slab
      BY RepresentativeRuns DEF TypeInv, TypeOK
    <3> QED  BY <1>0, <1>3, <3>1 DEF MoveSeed, Seed
  <2> QED  BY <1>0, <1>3, <2>1, <2>2, FrameType DEF MoveSeed
<1>4. ASSUME NEW s \in Slab, OpenRoot(s) PROVE TypeInv'
  <2>1. root' \in [Slab -> Root \cup {Nothing}]
    BY <1>0, <1>4 DEF OpenRoot, Seed
  <2>2. certain' \subseteq Slab
    BY <1>0, <1>4 DEF OpenRoot
  <2> QED  BY <1>0, <1>4, <2>1, <2>2, FrameType DEF OpenRoot
<1>5. ASSUME NEW x \in Transport, ReceiveSeed(x) PROVE TypeInv'
  <2>1. PICK r \in ForeignRoot, s \in Slab :
          rx' = [rx EXCEPT ![x] = [root |-> r, holder |-> s]]
    BY <1>5 DEF ReceiveSeed
  <2>2. [root |-> r, holder |-> s] \in Seed
    BY DEF Seed, Root
  <2>3. rx' \in [Transport -> Seed]
    BY <1>0, <2>1, <2>2
  <2> QED  BY <1>0, <1>5, <2>3, FrameType DEF ReceiveSeed
<1>6. ASSUME NEW x \in Transport, ApplySeed(x) PROVE TypeInv'
  <2>1. rx' \in [Transport -> Seed] /\ seed' \in Seed
    BY <1>0, <1>6 DEF ApplySeed, Seed
  <2> QED  BY <1>0, <1>6, <2>1, FrameType DEF ApplySeed
<1>7. ASSUME UNCHANGED vars PROVE TypeInv'
  BY <1>0, <1>7, FrameType DEF vars
<1> QED  BY <1>1, <1>2, <1>3, <1>4, <1>5, <1>6, <1>7

\* A slab that is listed or stopped while nothing is done for it.
LEMMA RegisterType ==
  ASSUME TypeInv, createNewSystem' = createNewSystem, NEW s \in Slab, Register(s)
  PROVE  TypeInv'
<1>1. s \notin Range(slabs)
  BY DEF Register, TypeInv, Membership
<1>2. /\ slabs' \in Seq(Slab) /\ IsInjective(slabs')
      /\ Range(slabs') = Range(slabs) \cup {s}
  BY <1>1, RangeOfCons DEF Register, TypeInv, TypeOK
<1>3. \A t \in Slab : pc'[t] = IF t = s THEN "listed" ELSE pc[t]
  BY DEF Register, TypeInv, TypeOK
<1>4. /\ UNCHANGED <<running, peers, seed, todo, at, rx, root, certain>>
      /\ \A t \in Slab : Owner(t)' = Owner(t) /\ To(t)' = To(t)
  BY DEF Register, Owner, To
<1>5. pc[s] = "new"
  BY DEF Register
<1>6. TypeOK'
  <2>1. pc' \in [Slab -> Phase]
    BY DEF Register, TypeInv, TypeOK, Phase
  <2>2. \A t \in Slab : at'[t] \in IF pc'[t] \in {"presence", "wiring"}
                                  THEN DOMAIN peers'[Owner(t)'] ELSE {0}
    BY <1>3, <1>4, <1>5 DEF TypeInv, TypeOK
  <2> QED  BY <1>2, <1>4, <2>1, <2>2 DEF TypeInv, TypeOK, Phase
<1>7. Membership'
  BY <1>2, <1>3, <1>4, <1>5 DEF TypeInv, Membership
<1>8. Working'
  <2>1. ASSUME NEW t \in Slab, NEW e \in Range(todo[t])
        PROVE  pc'[e[1]] # "new" /\ pc'[e[2]] # "new"
    <3>1. e[1] \in Slab /\ e[2] \in Slab
      BY <2>1, LinksAreSlabs
    <3> QED  BY <1>3, <2>1, <3>1 DEF TypeInv, Working
  <2> QED  BY <1>3, <1>4, <1>5, <2>1 DEF TypeInv, Working, AtRef
<1> QED  BY <1>6, <1>7, <1>8 DEF TypeInv

\* References are added at the end of a list, and stay references to the same
\* slab.
PeersGrow ==
  \A o \in Slab : /\ DOMAIN peers[o] \subseteq DOMAIN peers'[o]
                  /\ \A i \in DOMAIN peers[o] : peers'[o][i].to = peers[o][i].to

\* What slab s, which joins, does with its links.
LEMMA LinkStepType ==
  ASSUME TypeInv, NEW s \in Slab,
         UNCHANGED <<createNewSystem, slabs, running, seed, rx, root, certain>>,
         peers' \in [Slab -> Seq(Reference)], PeersGrow,
         pc' \in [Slab -> Phase], todo' \in [Slab -> Seq(Slab \X Slab)],
         at' \in [Slab -> Nat],
         \A t \in Slab \ {s} :
           pc'[t] = pc[t] /\ todo'[t] = todo[t] /\ at'[t] = at[t],
         pc[s] \in AtRef \cup {"listed", "linking", "absent"},
         pc'[s] \in AtRef \cup {"linking", "absent"},
         pc'[s] # "linking" => todo'[s] # << >>,
         at'[s] \in IF pc'[s] \in AtRef THEN DOMAIN peers'[Owner(s)'] ELSE {0},
         pc'[s] \in AtRef => peers'[Owner(s)'][at'[s]].to = To(s)',
         \A e \in Range(todo'[s]) :
           /\ e[1] \in Slab /\ e[2] \in Slab
           /\ pc[e[1]] # "new" /\ pc[e[2]] # "new"
  PROVE  TypeInv'
<1>1. \A t \in Slab \ {s} : Owner(t)' = Owner(t) /\ To(t)' = To(t)
  BY DEF Owner, To
<1>2. \A t \in Slab : pc[t] # "new" => pc'[t] # "new"
  BY DEF AtRef
<1>3. ASSUME NEW t \in Slab \ {s}, pc[t] \in AtRef
      PROVE  /\ Owner(t) \in Slab /\ at[t] \in DOMAIN peers[Owner(t)]
             /\ at[t] \in DOMAIN peers'[Owner(t)]
             /\ peers'[Owner(t)][at[t]].to = To(t)
  <2>1. todo[t] # << >>
    BY <1>3 DEF TypeInv, Working
  <2>2. Owner(t) \in Slab
    BY <2>1, FirstLink
  <2>3. at[t] \in DOMAIN peers[Owner(t)]
    BY <1>3 DEF TypeInv, TypeOK, AtRef
  <2>4. peers[Owner(t)][at[t]].to = To(t)
    BY <1>3 DEF TypeInv, Working
  <2> QED  BY <2>2, <2>3, <2>4 DEF PeersGrow
<1>4. TypeOK'
  <2>1. \A t \in Slab : at'[t] \in IF pc'[t] \in {"presence", "wiring"}
                                  THEN DOMAIN peers'[Owner(t)'] ELSE {0}
    <3> SUFFICES ASSUME NEW t \in Slab
                 PROVE  at'[t] \in IF pc'[t] \in AtRef
                                   THEN DOMAIN peers'[Owner(t)'] ELSE {0}
      BY DEF AtRef
    <3>1. CASE t # s /\ pc[t] \in AtRef
      BY <1>1, <1>3, <3>1
    <3>2. CASE t # s /\ pc[t] \notin AtRef
      <4>1. at[t] = 0
        BY <3>2 DEF TypeInv, TypeOK, AtRef
      <4> QED  BY <3>2, <4>1
    <3> QED  BY <3>1, <3>2
  <2> QED  BY <2>1 DEF TypeInv, TypeOK, Phase, Reference
<1>5. Membership'
  BY DEF TypeInv, Membership, AtRef
<1>6. Working'
  <2> SUFFICES ASSUME NEW t \in Slab
               PROVE  /\ pc'[t] \in AtRef \cup {"absent"} => todo'[t] # << >>
                      /\ pc'[t] \in AtRef => peers'[Owner(t)'][at'[t]].to = To(t)'
                      /\ pc'[t] \notin AtRef \cup {"linking", "absent"} => todo'[t] = << >>
                      /\ \A e \in Range(todo'[t]) : pc'[e[1]] # "new" /\ pc'[e[2]] # "new"
    BY DEF Working
  <2>1. CASE t = s
    <3>1. \A e \in Range(todo'[s]) : pc'[e[1]] # "new" /\ pc'[e[2]] # "new"
      BY <1>2
    <3> QED  BY <2>1, <3>1 DEF AtRef
  <2>2. CASE t # s
    <3>1. \A e \in Range(todo[t]) : e[1] \in Slab /\ e[2] \in Slab
      BY LinksAreSlabs
    <3>2. pc'[t] = pc[t] /\ todo'[t] = todo[t] /\ at'[t] = at[t]
      BY <2>2
    <3>3. \A e \in Range(todo'[t]) : pc'[e[1]] # "new" /\ pc'[e[2]] # "new"
      <4> SUFFICES ASSUME NEW e \in Range(todo[t])
                   PROVE  pc'[e[1]] # "new" /\ pc'[e[2]] # "new"
        BY <3>2
      <4>1. e[1] \in Slab /\ e[2] \in Slab
        BY <3>1
      <4>2. pc[e[1]] # "new" /\ pc[e[2]] # "new"
        BY DEF TypeInv, Working
      <4> QED  BY <1>2, <4>1, <4>2
    <3>4. pc'[t] \in AtRef => peers'[Owner(t)'][at'[t]].to = To(t)'
      <4> SUFFICES ASSUME pc[t] \in AtRef
                   PROVE  peers'[Owner(t)'][at'[t]].to = To(t)'
        BY <3>2
      <4>1. peers'[Owner(t)][at[t]].to = To(t)
        BY <1>3, <2>2
      <4>2. Owner(t)' = Owner(t) /\ To(t)' = To(t) /\ at'[t] = at[t]
        BY <1>1, <2>2, <3>2
      <4> QED  BY <4>1, <4>2
    <3>5. /\ pc[t] \in AtRef \cup {"absent"} => todo[t] # << >>
          /\ pc[t] \notin AtRef \cup {"linking", "absent"} => todo[t] = << >>
      BY DEF TypeInv, Working
    <3> QED  BY <3>2, <3>3, <3>4, <3>5
  <2> QED  BY <2>1, <2>2
<1> QED  BY <1>4, <1>5, <1>6 DEF TypeInv

LEMMA ReadListType ==
  ASSUME TypeInv, createNewSystem' = createNewSystem, NEW s \in Slab, ReadList(s)
  PROVE  TypeInv'
<1>1. slabs \in Seq(Slab)
  BY DEF TypeInv, TypeOK
<1>2. Links(s) \in Seq(Slab \X Slab)
  BY <1>1, LinksOf
<1>3. \A e \in Range(Links(s)) :
        e[1] \in Range(slabs) \cup {s} /\ e[2] \in Range(slabs) \cup {s}
  BY <1>1, LinksOf
<1>4. \A t \in Range(slabs) \cup {s} : t \in Slab /\ pc[t] # "new"
  <2>1. \A t \in Range(slabs) : t \in Slab
    BY <1>1 DEF Range
  <2> QED  BY <2>1 DEF ReadList, TypeInv, Membership
<1> HIDE DEF Links
<1>5. /\ pc' \in [Slab -> Phase] /\ todo' \in [Slab -> Seq(Slab \X Slab)]
      /\ pc'[s] = "linking" /\ todo'[s] = Links(s) /\ at'[s] = 0
      /\ \A t \in Slab \ {s} : pc'[t] = pc[t] /\ todo'[t] = todo[t] /\ at'[t] = at[t]
  BY <1>2 DEF ReadList, TypeInv, TypeOK, Phase
<1>6. \A e \in Range(todo'[s]) : /\ e[1] \in Slab /\ e[2] \in Slab
                                 /\ pc[e[1]] # "new" /\ pc[e[2]] # "new"
  BY <1>3, <1>4, <1>5
<1>7. PeersGrow
  BY DEF ReadList, PeersGrow
<1>8. UNCHANGED <<createNewSystem, slabs, running, peers, seed, at, rx, root, certain>>
  BY DEF ReadList
<1>9. pc[s] = "listed" /\ pc'[s] \notin AtRef
  BY <1>5 DEF ReadList, AtRef
<1>10. peers' \in [Slab -> Seq(Reference)] /\ at' \in [Slab -> Nat]
  BY <1>8 DEF TypeInv, TypeOK, Reference
<1> QED  BY <1>5, <1>6, <1>7, <1>8, <1>9, <1>10, LinkStepType

\* What is known of a slab that works on a link.
LEMMA WorkingOn ==
  ASSUME TypeInv, NEW s \in Slab, pc[s] \in AtRef \cup {"linking", "absent"},
         todo[s] # << >>
  PROVE  /\ Owner(s) \in Slab /\ To(s) \in Slab
         /\ Tail(todo[s]) \in Seq(Slab \X Slab)
         /\ \A e \in Range(todo[s]) : /\ e[1] \in Slab /\ e[2] \in Slab
                                      /\ pc[e[1]] # "new" /\ pc[e[2]] # "new"
         /\ Range(Tail(todo[s])) \subseteq Range(todo[s])
         /\ peers[Owner(s)] \in Seq(Reference)
         /\ DOMAIN peers[Owner(s)] = 1 .. Len(peers[Owner(s)])
         /\ Len(peers[Owner(s)]) \in Nat
<1>1. /\ Owner(s) \in Slab /\ To(s) \in Slab
      /\ Tail(todo[s]) \in Seq(Slab \X Slab)
      /\ Range(Tail(todo[s])) \subseteq Range(todo[s])
  BY FirstLink
<1>2. peers[Owner(s)] \in Seq(Reference)
  BY <1>1 DEF TypeInv, TypeOK, Reference
<1>3. \A e \in Range(todo[s]) : e[1] \in Slab /\ e[2] \in Slab
  BY LinksAreSlabs
<1>4. \A e \in Range(todo[s]) : pc[e[1]] # "new" /\ pc[e[2]] # "new"
  BY DEF TypeInv, Working
<1>5. DOMAIN peers[Owner(s)] = 1 .. Len(peers[Owner(s)]) /\ Len(peers[Owner(s)]) \in Nat
  BY <1>2, LenProperties
<1> QED  BY <1>1, <1>2, <1>3, <1>4, <1>5

LEMMA FindRefType ==
  ASSUME TypeInv, createNewSystem' = createNewSystem, NEW s \in Slab, FindRef(s)
  PROVE  TypeInv'
<1>1. pc[s] = "linking" /\ todo[s] # << >>
  BY DEF FindRef
<1>2. /\ Owner(s) \in Slab
      /\ DOMAIN peers[Owner(s)] = 1 .. Len(peers[Owner(s)])
      /\ Len(peers[Owner(s)]) \in Nat
      /\ \A e \in Range(todo[s]) : /\ e[1] \in Slab /\ e[2] \in Slab
                                   /\ pc[e[1]] # "new" /\ pc[e[2]] # "new"
  BY <1>1, WorkingOn
<1>3. UNCHANGED <<createNewSystem, slabs, running, peers, seed, todo, rx, root, certain>>
  BY DEF FindRef
<1>4. /\ peers' \in [Slab -> Seq(Reference)] /\ PeersGrow
      /\ todo' \in [Slab -> Seq(Slab \X Slab)]
      /\ pc \in [Slab -> Phase] /\ at \in [Slab -> Nat]
      /\ at[s] = 0
  BY <1>1, <1>3 DEF TypeInv, TypeOK, Reference, PeersGrow, Phase
<1>5. Owner(s)' = Owner(s) /\ To(s)' = To(s)
  BY <1>3 DEF Owner, To
<1> DEFINE places == Places(Owner(s), To(s))
<1>6. CASE places = {}
  <2>1. pc' = [pc EXCEPT ![s] = "absent"] /\ at' = at
    BY <1>6 DEF FindRef
  <2>2. pc' \in [Slab -> Phase]
    BY <1>4, <2>1 DEF Phase
  <2>3. /\ pc'[s] = "absent" /\ pc'[s] \notin AtRef /\ at'[s] = 0
        /\ \A t \in Slab \ {s} : pc'[t] = pc[t]
    BY <1>4, <2>1 DEF AtRef
  <2> QED  BY <1>1, <1>2, <1>3, <1>4, <2>1, <2>2, <2>3, LinkStepType
<1>7. CASE places # {}
  <2>1. pc' = [pc EXCEPT ![s] = "presence"] /\ at' = [at EXCEPT ![s] = Min(places)]
    BY <1>7 DEF FindRef
  <2>2. Min(places) \in places
    <3>1. places \in SUBSET Nat
      BY <1>2 DEF Places
    <3> HIDE DEF places
    <3> QED  BY <1>7, <3>1, Least
  <2>3. /\ Min(places) \in DOMAIN peers[Owner(s)] /\ Min(places) \in Nat
        /\ peers[Owner(s)][Min(places)].to = To(s)
    BY <1>2, <2>2 DEF Places
  <2> HIDE DEF places
  <2>4. pc' \in [Slab -> Phase] /\ at' \in [Slab -> Nat]
    BY <1>4, <2>1, <2>3 DEF Phase
  <2>5. /\ pc'[s] = "presence" /\ pc'[s] \in AtRef /\ at'[s] = Min(places)
        /\ \A t \in Slab \ {s} : pc'[t] = pc[t] /\ at'[t] = at[t]
    BY <1>4, <2>1 DEF AtRef
  <2>6. /\ at'[s] \in DOMAIN peers'[Owner(s)']
        /\ peers'[Owner(s)'][at'[s]].to = To(s)'
    BY <1>3, <1>5, <2>3, <2>5
  <2> QED  BY <1>1, <1>2, <1>3, <1>4, <2>4, <2>5, <2>6, LinkStepType
<1> QED  BY <1>6, <1>7

\* The list of the owner after a reference was added to it.
LEMMA Pushed ==
  ASSUME TypeInv, NEW s \in Slab, PushRef(s)
  PROVE  /\ todo[s] # << >> /\ Owner(s) \in Slab /\ To(s) \in Slab
         /\ DOMAIN peers[Owner(s)] = 1 .. Len(peers[Owner(s)])
         /\ Len(peers[Owner(s)]) \in Nat
         /\ peers' \in [Slab -> Seq(Reference)]
         /\ \A u \in Slab \ {Owner(s)} : peers'[u] = peers[u]
         /\ DOMAIN peers'[Owner(s)] = 1 .. Len(peers[Owner(s)]) + 1
         /\ peers'[Owner(s)][Len(peers[Owner(s)]) + 1] = Ref(To(s))
         /\ \A i \in DOMAIN peers[Owner(s)] : peers'[Owner(s)][i] = peers[Owner(s)][i]
         /\ at' = [at EXCEPT ![s] = Len(peers[Owner(s)]) + 1]
         /\ PeersGrow
<1>1. pc[s] = "absent" /\ todo[s] # << >>
  BY DEF PushRef, TypeInv, Working
<1> DEFINE o == Owner(s)
           n == Len(peers[o])
<1>2. /\ o \in Slab /\ To(s) \in Slab /\ peers[o] \in Seq(Reference)
      /\ DOMAIN peers[o] = 1 .. n /\ n \in Nat
  BY <1>1, WorkingOn
<1>3. Ref(To(s)) \in Reference
  BY <1>2 DEF Ref, Reference
<1> DEFINE new == Append(peers[o], Ref(To(s)))
<1>4. /\ new \in Seq(Reference) /\ DOMAIN new = 1 .. n + 1
      /\ new[n + 1] = Ref(To(s)) /\ \A i \in 1 .. n : new[i] = peers[o][i]
  <2>1. /\ new \in Seq(Reference) /\ Len(new) = n + 1
        /\ new[n + 1] = Ref(To(s)) /\ \A i \in 1 .. n : new[i] = peers[o][i]
    BY <1>2, <1>3, AppendProperties
  <2> QED  BY <2>1, LenProperties
<1>5. peers' = [peers EXCEPT ![o] = new] /\ at' = [at EXCEPT ![s] = n + 1]
  BY DEF PushRef
<1> HIDE DEF new, n, o
<1>6. /\ peers' \in [Slab -> Seq(Reference)] /\ peers'[o] = new
      /\ \A u \in Slab \ {o} : peers'[u] = peers[u]
  BY <1>2, <1>4, <1>5 DEF TypeInv, TypeOK, Reference
<1>7. PeersGrow
  <2>1. 1 .. n \subseteq 1 .. n + 1
    BY <1>2
  <2> QED  BY <1>2, <1>4, <1>6, <2>1 DEF PeersGrow
<1> QED  BY <1>1, <1>2, <1>4, <1>5, <1>6, <1>7 DEF o, n

LEMMA PushRefType ==
  ASSUME TypeInv, createNewSystem' = createNewSystem, NEW s \in Slab, PushRef(s)
  PROVE  TypeInv'
<1> DEFINE o == Owner(s)
           n == Len(peers[o])
<1>1. /\ todo[s] # << >> /\ o \in Slab /\ n \in Nat
      /\ peers' \in [Slab -> Seq(Reference)] /\ PeersGrow
      /\ DOMAIN peers'[o] = 1 .. n + 1 /\ peers'[o][n + 1] = Ref(To(s))
      /\ at' = [at EXCEPT ![s] = n + 1]
  BY Pushed
<1>2. pc[s] = "absent"
  BY DEF PushRef
<1>3. \A e \in Range(todo[s]) : /\ e[1] \in Slab /\ e[2] \in Slab
                                /\ pc[e[1]] # "new" /\ pc[e[2]] # "new"
  BY <1>1, <1>2, WorkingOn
<1>4. UNCHANGED <<createNewSystem, slabs, running, seed, todo, rx, root, certain>>
  BY DEF PushRef
<1>5. Owner(s)' = o /\ To(s)' = To(s)
  BY <1>4 DEF Owner, To
<1>6. Ref(To(s)).to = To(s)
  BY DEF Ref
<1> HIDE DEF n, o
<1>7. /\ pc' \in [Slab -> Phase] /\ at' \in [Slab -> Nat]
      /\ pc'[s] = "presence" /\ pc'[s] \in AtRef /\ at'[s] = n + 1
      /\ \A t \in Slab \ {s} : pc'[t] = pc[t] /\ at'[t] = at[t]
  <2>1. pc' = [pc EXCEPT ![s] = "presence"] /\ pc \in [Slab -> Phase]
        /\ at \in [Slab -> Nat]
    BY DEF PushRef, TypeInv, TypeOK, Phase
  <2>2. pc' \in [Slab -> Phase]
    BY <2>1 DEF Phase
  <2>3. n + 1 \in Nat
    BY <1>1
  <2> QED  BY <1>1, <2>1, <2>2, <2>3 DEF AtRef
<1>8. todo' \in [Slab -> Seq(Slab \X Slab)] /\ todo' = todo
  BY <1>4 DEF TypeInv, TypeOK
<1>9. at'[s] \in DOMAIN peers'[Owner(s)'] /\ peers'[Owner(s)'][at'[s]].to = To(s)'
  <2>1. n + 1 \in 1 .. n + 1
    BY <1>1
  <2> QED  BY <1>1, <1>5, <1>6, <1>7, <2>1
<1> QED  BY <1>1, <1>2, <1>3, <1>4, <1>7, <1>8, <1>9, LinkStepType

\* A link that is done with.
LEMMA LinkedType ==
  ASSUME TypeInv, NEW s \in Slab, pc[s] \in AtRef, Linked(s, "linking"),
         UNCHANGED <<createNewSystem, slabs, running, seed, rx, root, certain>>,
         peers' \in [Slab -> Seq(Reference)], PeersGrow
  PROVE  TypeInv'
<1>1. todo[s] # << >>
  BY DEF TypeInv, Working
<1>2. /\ Tail(todo[s]) \in Seq(Slab \X Slab)
      /\ Range(Tail(todo[s])) \subseteq Range(todo[s])
      /\ \A e \in Range(todo[s]) : /\ e[1] \in Slab /\ e[2] \in Slab
                                   /\ pc[e[1]] # "new" /\ pc[e[2]] # "new"
  BY <1>1, WorkingOn
<1> DEFINE rest == Tail(todo[s])
<1>3. /\ todo' = [todo EXCEPT ![s] = rest] /\ at' = [at EXCEPT ![s] = 0]
      /\ pc' = [pc EXCEPT ![s] = "linking"]
  BY DEF Linked
<1> HIDE DEF rest
<1>4. /\ pc' \in [Slab -> Phase] /\ todo' \in [Slab -> Seq(Slab \X Slab)]
      /\ at' \in [Slab -> Nat]
      /\ pc'[s] = "linking" /\ todo'[s] = rest /\ at'[s] = 0
      /\ \A t \in Slab \ {s} :
           pc'[t] = pc[t] /\ todo'[t] = todo[t] /\ at'[t] = at[t]
  <2>1. rest \in Seq(Slab \X Slab)
    BY <1>2 DEF rest
  <2> QED  BY <1>3, <2>1 DEF TypeInv, TypeOK, Phase
<1>5. pc'[s] \notin AtRef
  BY <1>4 DEF AtRef
<1>6. \A e \in Range(todo'[s]) : /\ e[1] \in Slab /\ e[2] \in Slab
                                 /\ pc[e[1]] # "new" /\ pc[e[2]] # "new"
  BY <1>2, <1>4 DEF rest
<1> QED  BY <1>4, <1>5, <1>6, LinkStepType

\* A field of a reference that is set.
LEMMA SetField ==
  ASSUME TypeInv, NEW o \in Slab, NEW i \in DOMAIN peers[o],
         \/ peers' = [peers EXCEPT ![o][i].present = TRUE]
         \/ peers' = [peers EXCEPT ![o][i].wired = TRUE]
  PROVE  /\ peers' \in [Slab -> Seq(Reference)]
         /\ PeersGrow
         /\ \A u \in Slab : DOMAIN peers'[u] = DOMAIN peers[u]
         /\ \A u \in Slab : \A j \in DOMAIN peers[u] :
              /\ peers'[u][j].to = peers[u][j].to
              /\ u # o \/ j # i => peers'[u][j] = peers[u][j]
<1>1. peers \in [Slab -> Seq(Reference)] /\ peers[o] \in Seq(Reference)
  BY DEF TypeInv, TypeOK, Reference
<1> DEFINE n == Len(peers[o])
<1>2. /\ DOMAIN peers[o] = 1 .. n /\ n \in Nat
      /\ \A j \in 1 .. n : peers[o][j] \in Reference
  BY <1>1, LenProperties
<1>3. PICK r \in Reference :
        /\ peers' = [peers EXCEPT ![o] = [peers[o] EXCEPT ![i] = r]]
        /\ r.to = peers[o][i].to
  <2>1. peers[o][i] \in Reference
    BY <1>2
  <2>2. /\ [peers[o][i] EXCEPT !.present = TRUE] \in Reference
        /\ [peers[o][i] EXCEPT !.wired = TRUE] \in Reference
        /\ [peers[o][i] EXCEPT !.present = TRUE].to = peers[o][i].to
        /\ [peers[o][i] EXCEPT !.wired = TRUE].to = peers[o][i].to
    BY <2>1 DEF Reference
  <2>3. CASE peers' = [peers EXCEPT ![o][i].present = TRUE]
    BY <2>2, <2>3
  <2>4. CASE peers' = [peers EXCEPT ![o][i].wired = TRUE]
    BY <2>2, <2>4
  <2> QED  BY <2>3, <2>4
<1> DEFINE new == [peers[o] EXCEPT ![i] = r]
<1> HIDE DEF n
<1>4. /\ new \in [1 .. n -> Reference] /\ DOMAIN new = 1 .. n /\ new[i] = r
      /\ \A j \in 1 .. n : j # i => new[j] = peers[o][j]
  <2>1. peers[o] \in [1 .. n -> Reference]
    BY <1>1, LenProperties DEF n
  <2> QED  BY <1>2, <2>1
<1>5. peers' = [peers EXCEPT ![o] = new]
  BY <1>3
<1> HIDE DEF new
<1>6. new \in Seq(Reference)
  BY <1>2, <1>4, SeqDef
<1>7. /\ peers' \in [Slab -> Seq(Reference)] /\ peers'[o] = new
      /\ \A u \in Slab \ {o} : peers'[u] = peers[u]
  BY <1>1, <1>5, <1>6
<1>8. \A u \in Slab : DOMAIN peers'[u] = DOMAIN peers[u]
  BY <1>2, <1>4, <1>7
<1>9. ASSUME NEW u \in Slab, NEW j \in DOMAIN peers[u]
      PROVE  /\ peers'[u][j].to = peers[u][j].to
             /\ u # o \/ j # i => peers'[u][j] = peers[u][j]
  BY <1>2, <1>3, <1>4, <1>7
<1>10. PeersGrow
  BY <1>8, <1>9 DEF PeersGrow
<1> QED  BY <1>7, <1>8, <1>9, <1>10

\* The reference a slab works on.
LEMMA AtIts ==
  ASSUME TypeInv, NEW s \in Slab, pc[s] \in AtRef
  PROVE  /\ todo[s] # << >> /\ Owner(s) \in Slab /\ To(s) \in Slab
         /\ at[s] \in DOMAIN peers[Owner(s)]
         /\ peers[Owner(s)][at[s]].to = To(s)
<1>1. todo[s] # << >>
  BY DEF TypeInv, Working
<1>2. Owner(s) \in Slab /\ To(s) \in Slab
  BY <1>1, FirstLink
<1>3. at[s] \in DOMAIN peers[Owner(s)]
  BY DEF TypeInv, TypeOK, AtRef
<1>4. peers[Owner(s)][at[s]].to = To(s)
  BY DEF TypeInv, Working
<1> QED  BY <1>1, <1>2, <1>3, <1>4

LEMMA ApplyPresenceType ==
  ASSUME TypeInv, createNewSystem' = createNewSystem, NEW s \in Slab,
         ApplyPresence(s)
  PROVE  TypeInv'
<1>1. pc[s] \in AtRef /\ pc[s] = "presence"
  BY DEF ApplyPresence, AtRef
<1>2. /\ todo[s] # << >> /\ Owner(s) \in Slab /\ at[s] \in DOMAIN peers[Owner(s)]
      /\ peers[Owner(s)][at[s]].to = To(s)
  BY <1>1, AtIts
<1>3. UNCHANGED <<createNewSystem, slabs, running, seed, rx, root, certain>>
  BY DEF ApplyPresence
<1>4. CASE /\ peers' = [peers EXCEPT ![Owner(s)][at[s]].present = TRUE]
           /\ pc' = [pc EXCEPT ![s] = "wiring"]
           /\ UNCHANGED <<todo, at>>
  <2> DEFINE o == Owner(s)
             i == at[s]
  <2>1. peers' = [peers EXCEPT ![o][i].present = TRUE] /\ o \in Slab
        /\ i \in DOMAIN peers[o] /\ peers[o][i].to = To(s)
    BY <1>2, <1>4
  <2>2. Owner(s)' = o /\ To(s)' = To(s) /\ at'[s] = i
    BY <1>4 DEF Owner, To
  <2> HIDE DEF o, i
  <2>3. /\ peers' \in [Slab -> Seq(Reference)] /\ PeersGrow
        /\ i \in DOMAIN peers'[o] /\ peers'[o][i].to = To(s)
    BY <2>1, SetField
  <2>4. /\ pc' \in [Slab -> Phase] /\ at' \in [Slab -> Nat]
        /\ todo' \in [Slab -> Seq(Slab \X Slab)]
        /\ pc'[s] = "wiring" /\ pc'[s] \in AtRef
        /\ \A t \in Slab \ {s} :
             pc'[t] = pc[t] /\ todo'[t] = todo[t] /\ at'[t] = at[t]
    BY <1>4 DEF TypeInv, TypeOK, Phase, AtRef
  <2>5. todo'[s] # << >> /\ todo'[s] = todo[s]
    BY <1>2, <1>4
  <2>6. \A e \in Range(todo'[s]) : /\ e[1] \in Slab /\ e[2] \in Slab
                                   /\ pc[e[1]] # "new" /\ pc[e[2]] # "new"
    BY <1>1, <1>2, <2>5, WorkingOn
  <2> QED  BY <1>1, <1>3, <2>2, <2>3, <2>4, <2>5, <2>6, LinkStepType
<1>5. CASE Linked(s, "linking") /\ UNCHANGED peers
  <2>1. peers' \in [Slab -> Seq(Reference)] /\ PeersGrow
    BY <1>5 DEF TypeInv, TypeOK, Reference, PeersGrow
  <2> QED  BY <1>1, <1>3, <1>5, <2>1, LinkedType
<1> QED  BY <1>4, <1>5 DEF ApplyPresence

LEMMA WireType ==
  ASSUME TypeInv, createNewSystem' = createNewSystem, NEW s \in Slab, Wire(s)
  PROVE  TypeInv'
<1>1. pc[s] \in AtRef
  BY DEF Wire, AtRef
<1>2. Owner(s) \in Slab /\ at[s] \in DOMAIN peers[Owner(s)]
  BY <1>1, AtIts
<1>3. peers' \in [Slab -> Seq(Reference)] /\ PeersGrow
  BY <1>2, SetField DEF Wire
<1> QED  BY <1>1, <1>3, LinkedType DEF Wire

LEMMA LeaveType ==
  ASSUME TypeInv, createNewSystem' = createNewSystem, NEW s \in Slab,
         Stop(s) \/ Delist(s)
  PROVE  TypeInv'
<1>1. /\ UNCHANGED <<peers, seed, todo, at, rx>>
      /\ root' \in [Slab -> Root \cup {Nothing}] /\ certain' \subseteq Slab
  BY DEF Stop, Delist, TypeInv, TypeOK
<1>2. /\ pc[s] \notin AtRef \cup {"new", "linking", "absent"}
      /\ pc'[s] \in {"stopped", "delisted"}
      /\ pc' \in [Slab -> Phase]
      /\ \A t \in Slab \ {s} : pc'[t] = pc[t]
  BY DEF Stop, Delist, TypeInv, TypeOK, Phase, AtRef
<1>3. \A t \in Slab : Owner(t)' = Owner(t) /\ To(t)' = To(t)
  BY <1>1 DEF Owner, To
<1>4. /\ slabs' \in Seq(Slab) /\ IsInjective(slabs') /\ running' \subseteq Slab
      /\ Membership'
  <2>1. CASE Stop(s)
    <3>1. slabs' = slabs /\ running' = running \ {s} /\ pc[s] = "up" /\ pc'[s] = "stopped"
      BY <1>2, <2>1 DEF Stop, TypeInv, TypeOK
    <3> QED  BY <1>2, <3>1 DEF TypeInv, TypeOK, Membership
  <2>2. CASE Delist(s)
    <3>1. PICK i \in DOMAIN slabs : slabs[i] = s /\ slabs' = RemoveAt(slabs, i)
      BY <2>2 DEF Delist
    <3>2. /\ slabs' \in Seq(Slab) /\ IsInjective(slabs')
          /\ Range(slabs') = Range(slabs) \ {s}
      <4>1. slabs \in Seq(Slab) /\ IsInjective(slabs)
        BY DEF TypeInv, TypeOK
      <4>2. /\ RemoveAt(slabs, i) \in Seq(Slab)
            /\ Range(RemoveAt(slabs, i)) = Range(slabs) \ {slabs[i]}
            /\ IsInjective(RemoveAt(slabs, i))
        BY <4>1, Delisted, Zenon
      <4> QED  BY <3>1, <4>2
    <3>3. /\ running' = running /\ pc[s] = "stopped" /\ pc'[s] = "delisted"
      BY <1>2, <2>2 DEF Delist, TypeInv, TypeOK
    <3> QED  BY <1>2, <3>2, <3>3 DEF TypeInv, TypeOK, Membership
  <2> QED  BY <2>1, <2>2
<1>5. TypeOK'
  <2>1. \A t \in Slab : at'[t] \in IF pc'[t] \in {"presence", "wiring"}
                                  THEN DOMAIN peers'[Owner(t)'] ELSE {0}
    BY <1>1, <1>2, <1>3 DEF TypeInv, TypeOK, AtRef
  <2> QED  BY <1>1, <1>2, <1>4, <2>1 DEF TypeInv, TypeOK, Phase
<1>6. Working'
  <2> SUFFICES ASSUME NEW t \in Slab
               PROVE  /\ pc'[t] \in AtRef \cup {"absent"} => todo'[t] # << >>
                      /\ pc'[t] \in AtRef => peers'[Owner(t)'][at'[t]].to = To(t)'
                      /\ pc'[t] \notin AtRef \cup {"linking", "absent"} => todo'[t] = << >>
                      /\ \A e \in Range(todo'[t]) : pc'[e[1]] # "new" /\ pc'[e[2]] # "new"
    BY DEF Working
  <2>1. \A e \in Range(todo'[t]) : pc'[e[1]] # "new" /\ pc'[e[2]] # "new"
    BY <1>1, <1>2, LinksAreSlabs DEF TypeInv, Working
  <2> QED  BY <1>1, <1>2, <1>3, <2>1 DEF TypeInv, Working, AtRef
<1> QED  BY <1>4, <1>5, <1>6 DEF TypeInv

LEMMA NextType == TypeInv /\ [Next]_vars => TypeInv'
<1> SUFFICES ASSUME TypeInv, [Next]_vars PROVE TypeInv'  OBVIOUS
<1>1. createNewSystem' = createNewSystem
  BY DEF Next, vars
<1>2. ASSUME NEW s \in Slab, Join(s) PROVE TypeInv'
  BY <1>1, <1>2, RegisterType, ReadListType, FindRefType, PushRefType,
     ApplyPresenceType, WireType, SeedStepType DEF Join
<1>3. ASSUME NEW s \in Slab, Leave(s) PROVE TypeInv'
  BY <1>1, <1>3, LeaveType, SeedStepType DEF Leave
<1>4. ASSUME NEW s \in Slab, OpenRoot(s) PROVE TypeInv'
  BY <1>1, <1>4, SeedStepType
<1>5. ASSUME NEW x \in Transport, ReceiveSeed(x) \/ ApplySeed(x) PROVE TypeInv'
  BY <1>1, <1>5, SeedStepType
<1>6. CASE UNCHANGED vars
  BY <1>1, <1>6, SeedStepType
<1> QED  BY <1>2, <1>3, <1>4, <1>5, <1>6 DEF Next

LEMMA TypeInvHolds == Spec => []TypeInv
  BY InitType, NextType, PTL DEF Spec

(***************************************************************************)
(* However slabs join and leave, the list of the network names every slab  *)
(* at most once (deregister_local_slab takes out one place), and a thread  *)
(* that asserts a reference under several locks finds it where it was.     *)
(***************************************************************************)
THEOREM RootSeedTypeOK == Spec => []TypeOK
<1>1. TypeInv => TypeOK
  BY DEF TypeInv
<1> QED  BY <1>1, TypeInvHolds, PTL

-----------------------------------------------------------------------------
(***************************************************************************)
(* The seed.                                                               *)
(***************************************************************************)
\* What no step of a slab that asserts references changes.
Settling == UNCHANGED <<createNewSystem, seed, rx, root, certain>>

\* The steps with references, and what of them the seed can notice.
LinkSteps(s) ==
  \/ Register(s) \/ ReadList(s) \/ FindRef(s) \/ PushRef(s)
  \/ ApplyPresence(s) \/ Wire(s)

LEMMA LinkStepsKeepSeed ==
  ASSUME TypeInv, createNewSystem' = createNewSystem, NEW s \in Slab, LinkSteps(s)
  PROVE  /\ Settling /\ pc \in [Slab -> Phase]
         /\ pc'[s] \notin {"up", "generate", "new", "gone"}
         /\ \A t \in Slab \ {s} : pc'[t] = pc[t]
<1>1. pc \in [Slab -> Phase]
  BY DEF TypeInv, TypeOK, Phase
<1>2. CASE Register(s)
  BY <1>1, <1>2 DEF Register, Settling
<1>3. CASE ReadList(s)
  BY <1>1, <1>3 DEF ReadList, Settling
<1>4. CASE FindRef(s)
  BY <1>1, <1>4 DEF FindRef, Settling
<1>5. CASE PushRef(s)
  BY <1>1, <1>5 DEF PushRef, Settling
<1>6. CASE ApplyPresence(s)
  BY <1>1, <1>6 DEF ApplyPresence, Linked, Settling
<1>7. CASE Wire(s)
  BY <1>1, <1>7 DEF Wire, Linked, Settling
<1> QED  BY <1>1, <1>2, <1>3, <1>4, <1>5, <1>6, <1>7 DEF LinkSteps

\* A slab that is there when the seed loses its holder can take it.
LEMMA SomebodyTakesIt ==
  ASSUME TypeInv, NEW s \in Slab, MoveSeed(s)
  PROVE  /\ \A t \in Slab : pc'[t] = IF t = s THEN "gone" ELSE pc[t]
         /\ Up' = Up
         /\ seed = Nothing => seed' = Nothing
         /\ seed # Nothing /\ Up # {} =>
              /\ seed' # Nothing /\ seed'.root = seed.root
              /\ pc[seed.holder] \notin {"new", "gone"}
                   => pc'[seed'.holder] \notin {"new", "gone"}
         /\ seed # Nothing /\ seed' # Nothing =>
              /\ seed'.root = seed.root
              /\ pc[seed.holder] \notin {"new", "gone"}
                   => pc'[seed'.holder] \notin {"new", "gone"}
<1>1. pc[s] = "delisted" /\ \A t \in Slab : pc'[t] = IF t = s THEN "gone" ELSE pc[t]
  BY DEF MoveSeed, TypeInv, TypeOK
<1>2. Up' = Up
  BY <1>1 DEF Up
<1>3. seed \in Seed /\ Nothing \notin [root : Root, holder : Slab]
  BY NetworkAssumption DEF TypeInv, TypeOK
<1>4. CASE seed = Nothing \/ seed.holder # s
  <2>1. seed' = seed
    BY <1>4 DEF MoveSeed
  <2>2. seed # Nothing => seed.holder \in Slab \ {s}
    BY <1>3, <1>4 DEF Seed
  <2> QED  BY <1>1, <1>2, <2>1, <2>2
<1>5. CASE seed # Nothing /\ seed.holder = s
  <2>1. Up # {} => Representative # Nothing
    <3>1. Up \subseteq Range(slabs) \cap running
      BY DEF Up, TypeInv, Membership
    <3> QED  BY <3>1, RepresentativeRuns
  <2>2. CASE Representative = Nothing
    BY <1>1, <1>2, <1>5, <2>1, <2>2 DEF MoveSeed
  <2>3. CASE Representative # Nothing
    <3>1. Representative \in Range(slabs) \cap running /\ Representative \in Slab
      BY <2>3, RepresentativeRuns DEF TypeInv, TypeOK
    <3>2. pc[Representative] \notin {"new", "gone", "delisted"}
      BY <3>1 DEF TypeInv, Membership
    <3>3. seed' = [seed EXCEPT !.holder = Representative]
      BY <1>5, <2>3 DEF MoveSeed
    <3>4. seed \in [root : Root, holder : Slab]
      BY <1>3, <1>5 DEF Seed
    <3> HIDE DEF Representative
    <3>5. /\ seed' \in [root : Root, holder : Slab] /\ seed'.root = seed.root
          /\ seed'.holder = Representative
      BY <3>1, <3>3, <3>4
    <3>6. seed' # Nothing
      BY <1>3, <3>5
    <3> QED  BY <1>1, <1>2, <1>5, <3>1, <3>2, <3>5, <3>6
  <2> QED  BY <2>2, <2>3
<1> QED  BY <1>4, <1>5

(***************************************************************************)
(* While a context that took the root with no seed in hand is there, there *)
(* is a seed with that root, and so nobody takes another one in hand.      *)
(***************************************************************************)
CertainInv ==
  /\ certain \subseteq Up
  /\ \A s \in certain : seed # Nothing /\ seed.root = root[s]
  /\ certain # {} => NoneInHand

\* The three ways a slab gets to where it is next, and the seed.
LEMMA Steps ==
  ASSUME [Next]_vars
  PROVE  /\ createNewSystem' = createNewSystem
         /\ \/ \E s \in Slab : LinkSteps(s)
            \/ \E s \in Slab : CheckSeed(s)
            \/ \E s \in Slab : GenerateSeed(s)
            \/ \E s \in Slab : Stop(s) \/ Delist(s)
            \/ \E s \in Slab : MoveSeed(s)
            \/ \E s \in Slab : OpenRoot(s)
            \/ \E x \in Transport : ReceiveSeed(x)
            \/ \E x \in Transport : ApplySeed(x)
            \/ UNCHANGED vars
<1>1. CASE UNCHANGED vars
  BY <1>1 DEF vars
<1>2. CASE Next
  BY <1>2 DEF Next, Join, Leave, LinkSteps
<1> QED  BY <1>1, <1>2

LEMMA CertainStep == TypeInv /\ CertainInv /\ [Next]_vars => CertainInv'
<1> SUFFICES ASSUME TypeInv, CertainInv, [Next]_vars PROVE CertainInv'  OBVIOUS
<1>0. /\ createNewSystem' = createNewSystem
      /\ pc \in [Slab -> Phase]
      /\ root \in [Slab -> Root \cup {Nothing}] /\ certain \subseteq Slab
  BY Steps DEF TypeInv, TypeOK, Phase
<1>1. ASSUME NEW s \in Slab, LinkSteps(s) PROVE CertainInv'
  <2>1. /\ Settling
        /\ pc'[s] \notin {"up", "generate", "new", "gone"}
        /\ \A t \in Slab \ {s} : pc'[t] = pc[t]
    BY <1>0, <1>1, LinkStepsKeepSeed
  <2>2. s \notin certain
    BY <1>1 DEF CertainInv, Up, LinkSteps, Register, ReadList, FindRef, PushRef,
       ApplyPresence, Wire
  <2> QED  BY <2>1, <2>2 DEF CertainInv, Settling, Up, NoneInHand
<1>2. ASSUME NEW s \in Slab, CheckSeed(s) PROVE CertainInv'
  <2>1. /\ \A t \in Slab \ {s} : pc'[t] = pc[t]
        /\ seed # Nothing => pc'[s] = "up"
        /\ pc[s] # "up"
        /\ UNCHANGED <<seed, rx, root, certain>>
    BY <1>0, <1>2 DEF CheckSeed
  <2> QED  BY <2>1 DEF CertainInv, Up, NoneInHand
<1>3. ASSUME NEW s \in Slab, GenerateSeed(s) PROVE CertainInv'
  <2>1. certain = {} /\ certain' = certain
    BY <1>3 DEF GenerateSeed, CertainInv, NoneInHand
  <2> QED  BY <2>1 DEF CertainInv
<1>4. ASSUME NEW s \in Slab, Stop(s) PROVE CertainInv'
  <2>1. /\ pc'[s] = "stopped" /\ \A t \in Slab \ {s} : pc'[t] = pc[t]
        /\ \A t \in Slab \ {s} : root'[t] = root[t]
        /\ certain' = certain \ {s} /\ UNCHANGED <<seed, rx>>
    BY <1>0, <1>4 DEF Stop
  <2> QED  BY <1>0, <2>1 DEF CertainInv, Up, NoneInHand
<1>5. ASSUME NEW s \in Slab, Delist(s) PROVE CertainInv'
  <2>1. /\ pc[s] = "stopped" /\ pc'[s] = "delisted"
        /\ \A t \in Slab \ {s} : pc'[t] = pc[t]
        /\ UNCHANGED <<seed, rx, root, certain>>
    BY <1>0, <1>5 DEF Delist
  <2> QED  BY <2>1 DEF CertainInv, Up, NoneInHand
<1>6. ASSUME NEW s \in Slab, MoveSeed(s) PROVE CertainInv'
  <2>1. UNCHANGED <<rx, root, certain>>
    BY <1>6 DEF MoveSeed
  <2>2. /\ \A t \in Slab : pc'[t] = IF t = s THEN "gone" ELSE pc[t]
        /\ Up' = Up
        /\ seed # Nothing /\ Up # {} => seed' # Nothing /\ seed'.root = seed.root
    BY <1>6, SomebodyTakesIt
  <2> QED  BY <2>1, <2>2 DEF CertainInv, NoneInHand
<1>7. ASSUME NEW s \in Slab, OpenRoot(s) PROVE CertainInv'
  <2>1. /\ UNCHANGED <<seed, rx, pc>> /\ seed # Nothing /\ pc[s] = "up"
        /\ root[s] = Nothing /\ root'[s] = seed.root
        /\ \A t \in Slab \ {s} : root'[t] = root[t]
        /\ certain' \subseteq certain \cup {s}
        /\ s \in certain' => s \in certain \/ NoneInHand
    BY <1>0, <1>7 DEF OpenRoot
  <2>2. Up' = Up /\ NoneInHand' = NoneInHand /\ s \in Up
    BY <2>1 DEF Up, NoneInHand
  <2>3. certain' \subseteq Up'
    BY <2>1, <2>2 DEF CertainInv
  <2>4. \A t \in certain' : seed' # Nothing /\ seed'.root = root'[t]
    BY <1>0, <2>1 DEF CertainInv
  <2>5. certain' # {} => NoneInHand
    BY <2>1 DEF CertainInv
  <2> QED  BY <2>2, <2>3, <2>4, <2>5 DEF CertainInv
<1>8. ASSUME NEW x \in Transport, ReceiveSeed(x) PROVE CertainInv'
  <2>1. certain = {} /\ certain' = certain
    BY <1>8 DEF ReceiveSeed, CertainInv
  <2> QED  BY <2>1 DEF CertainInv
<1>9. ASSUME NEW x \in Transport, ApplySeed(x) PROVE CertainInv'
  <2>1. certain = {} /\ certain' = certain
    BY <1>9 DEF ApplySeed, CertainInv, NoneInHand
  <2> QED  BY <2>1 DEF CertainInv
<1>10. ASSUME UNCHANGED vars PROVE CertainInv'
  BY <1>10 DEF vars, CertainInv, Up, NoneInHand
<1> QED  BY <1>1, <1>2, <1>3, <1>4, <1>5, <1>6, <1>7, <1>8, <1>9, <1>10, Steps

(***************************************************************************)
(* A context that took the root while no seed was between look and store   *)
(* keeps the root of the network, however many transports receive seeds of *)
(* however many systems, and whichever slabs are created and dropped: a    *)
(* seed that is there keeps everybody from taking another in hand, and it  *)
(* is handed over as long as a slab is there to take it                    *)
(* (apply_root_index_seed, conditionally_generate_root_index_seed,         *)
(* deregister_local_slab).                                                 *)
(***************************************************************************)
THEOREM RootSeedCertainRootsStay == Spec => []CertainRootsStay
<1>1. Init => CertainInv
  BY DEF Init, CertainInv
<1>2. CertainInv => CertainRootsStay
  BY DEF CertainInv, CertainRootsStay
<1> QED  BY <1>1, <1>2, CertainStep, TypeInvHolds, PTL DEF Spec

(***************************************************************************)
(* A seed that was generated here is held by a slab that has not yet tried *)
(* to hand it over; what is received has another root.                     *)
(***************************************************************************)
HolderInv ==
  /\ \A x \in Transport : rx[x] # Nothing => rx[x].root \in ForeignRoot
  /\ seed # Nothing /\ seed.root \in Slab => pc[seed.holder] \notin {"new", "gone"}

LEMMA HolderStep == TypeInv /\ HolderInv /\ [Next]_vars => HolderInv'
<1> SUFFICES ASSUME TypeInv, HolderInv, [Next]_vars PROVE HolderInv'  OBVIOUS
<1>0. /\ createNewSystem' = createNewSystem
      /\ pc \in [Slab -> Phase] /\ seed \in Seed /\ rx \in [Transport -> Seed]
      /\ Slab \cap ForeignRoot = {}
      /\ seed # Nothing => seed.holder \in Slab
  BY Steps, NetworkAssumption DEF TypeInv, TypeOK, Phase, Seed
<1>1. ASSUME NEW s \in Slab, LinkSteps(s) PROVE HolderInv'
  <2>1. /\ Settling
        /\ pc'[s] \notin {"up", "generate", "new", "gone"}
        /\ \A t \in Slab \ {s} : pc'[t] = pc[t]
    BY <1>0, <1>1, LinkStepsKeepSeed
  <2> QED  BY <1>0, <2>1 DEF HolderInv, Settling
<1>2. ASSUME NEW s \in Slab, CheckSeed(s) \/ Stop(s) \/ Delist(s) PROVE HolderInv'
  <2>1. /\ UNCHANGED <<seed, rx>> /\ pc'[s] \notin {"new", "gone"}
        /\ \A t \in Slab \ {s} : pc'[t] = pc[t]
    BY <1>0, <1>2 DEF CheckSeed, Stop, Delist
  <2> QED  BY <1>0, <2>1 DEF HolderInv
<1>3. ASSUME NEW s \in Slab, GenerateSeed(s) PROVE HolderInv'
  <2>1. /\ rx' = rx /\ pc'[s] = "up" /\ seed'.holder = s
    BY <1>0, <1>3 DEF GenerateSeed
  <2> QED  BY <2>1 DEF HolderInv
<1>4. ASSUME NEW s \in Slab, MoveSeed(s) PROVE HolderInv'
  <2>1. rx' = rx
    BY <1>4 DEF MoveSeed
  <2>2. /\ seed = Nothing => seed' = Nothing
        /\ seed # Nothing /\ seed' # Nothing =>
              /\ seed'.root = seed.root
              /\ pc[seed.holder] \notin {"new", "gone"}
                   => pc'[seed'.holder] \notin {"new", "gone"}
    BY <1>4, SomebodyTakesIt
  <2> QED  BY <2>1, <2>2 DEF HolderInv
<1>5. ASSUME NEW x \in Transport, ReceiveSeed(x) PROVE HolderInv'
  <2>1. UNCHANGED <<seed, pc>>
    BY <1>5 DEF ReceiveSeed
  <2>2. PICK r \in ForeignRoot, s \in Slab :
          rx' = [rx EXCEPT ![x] = [root |-> r, holder |-> s]]
    BY <1>5 DEF ReceiveSeed
  <2>3. rx'[x].root \in ForeignRoot /\ \A y \in Transport \ {x} : rx'[y] = rx[y]
    BY <1>0, <2>2
  <2> QED  BY <2>1, <2>3 DEF HolderInv
<1>6. ASSUME NEW x \in Transport, ApplySeed(x) PROVE HolderInv'
  <2>1. /\ seed' = rx[x] /\ rx'[x] = Nothing
        /\ \A y \in Transport \ {x} : rx'[y] = rx[y]
    BY <1>0, <1>6 DEF ApplySeed
  <2>2. rx[x] # Nothing /\ rx[x].root \in ForeignRoot
    BY <1>6 DEF ApplySeed, HolderInv
  <2> QED  BY <1>0, <2>1, <2>2 DEF HolderInv
<1>7. ASSUME (\E s \in Slab : OpenRoot(s)) \/ UNCHANGED vars PROVE HolderInv'
  BY <1>7 DEF OpenRoot, vars, HolderInv
<1> QED  BY <1>1, <1>2, <1>3, <1>4, <1>5, <1>6, <1>7, Steps

(***************************************************************************)
(* A seed that was generated here never stays with a slab that left:       *)
(* deregister_local_slab hands it to a slab that is listed and runs, and   *)
(* if that one is leaving too, it has yet to hand it over itself.          *)
(***************************************************************************)
THEOREM RootSeedHolderIsUp == Spec => []OwnSeedHolderIsUp
<1>1. Init => HolderInv
  BY DEF Init, HolderInv
<1>2. TypeInv /\ HolderInv => OwnSeedHolderIsUp
  <2> SUFFICES ASSUME TypeInv, HolderInv, Settled, seed # Nothing, seed.root \in Slab
               PROVE  seed.holder \in Up
    BY DEF OwnSeedHolderIsUp
  <2>1. seed.holder \in Slab
    BY DEF TypeInv, TypeOK, Seed
  <2> QED  BY <2>1 DEF HolderInv, Settled, Up
<1> QED  BY <1>1, <1>2, HolderStep, TypeInvHolds, PTL DEF Spec

\* A new system that has a slab has a seed.
SeededInv == createNewSystem /\ Up # {} => seed # Nothing

LEMMA SeededStep == TypeInv /\ SeededInv /\ [Next]_vars => SeededInv'
<1> SUFFICES ASSUME TypeInv, SeededInv, [Next]_vars, createNewSystem, Up' # {}
             PROVE  seed' # Nothing
  BY Steps DEF SeededInv
<1>0. /\ pc \in [Slab -> Phase] /\ Nothing \notin [root : Root, holder : Slab]
  BY NetworkAssumption DEF TypeInv, TypeOK, Phase
<1>1. ASSUME UNCHANGED seed, Up' \subseteq Up PROVE seed' # Nothing
  BY <1>1 DEF SeededInv
<1>2. ASSUME NEW s \in Slab, LinkSteps(s) PROVE seed' # Nothing
  <2>1. /\ Settling /\ pc'[s] # "up"
        /\ \A t \in Slab \ {s} : pc'[t] = pc[t]
    BY <1>2, Steps, LinkStepsKeepSeed
  <2> QED  BY <1>1, <2>1 DEF Settling, Up
<1>3. ASSUME NEW s \in Slab, CheckSeed(s) PROVE seed' # Nothing
  <2>1. CASE seed = Nothing
    <3>1. seed' = seed /\ pc'[s] = "generate" /\ \A t \in Slab \ {s} : pc'[t] = pc[t]
      BY <1>0, <1>3, <2>1 DEF CheckSeed
    <3> QED  BY <1>1, <3>1 DEF Up
  <2>2. CASE seed # Nothing
    BY <1>3, <2>2 DEF CheckSeed
  <2> QED  BY <2>1, <2>2
<1>4. ASSUME NEW s \in Slab, GenerateSeed(s) PROVE seed' # Nothing
  <2>1. seed' = [root |-> s, holder |-> s]
    BY <1>4 DEF GenerateSeed
  <2>2. seed' \in [root : Root, holder : Slab]
    BY <2>1 DEF Root
  <2> QED  BY <1>0, <2>2
<1>5. ASSUME NEW s \in Slab, Stop(s) \/ Delist(s) PROVE seed' # Nothing
  <2>1. seed' = seed /\ pc'[s] # "up" /\ \A t \in Slab \ {s} : pc'[t] = pc[t]
    BY <1>0, <1>5 DEF Stop, Delist
  <2> QED  BY <1>1, <2>1 DEF Up
<1>6. ASSUME NEW s \in Slab, MoveSeed(s) PROVE seed' # Nothing
  BY <1>6, SomebodyTakesIt DEF SeededInv
<1>7. ASSUME NEW x \in Transport, ApplySeed(x) PROVE seed' # Nothing
  BY <1>7 DEF ApplySeed
<1>8. ASSUME \/ \E s \in Slab : OpenRoot(s)
             \/ \E x \in Transport : ReceiveSeed(x)
             \/ UNCHANGED vars
      PROVE  seed' # Nothing
  <2>1. seed' = seed /\ pc' = pc
    BY <1>8 DEF OpenRoot, ReceiveSeed, vars
  <2> QED  BY <1>1, <2>1 DEF Up
<1> QED  BY <1>2, <1>3, <1>4, <1>5, <1>6, <1>7, <1>8, Steps

(***************************************************************************)
(* A new system never loses its root while it has a slab: a slab that      *)
(* joins generates a seed if there is none, and one that leaves drops it   *)
(* only if no other slab is listed and runs                                *)
(* (conditionally_generate_root_index_seed, deregister_local_slab).        *)
(***************************************************************************)
THEOREM RootSeedSystemHasSeed == Spec => []SystemHasSeed
<1>1. Init => SeededInv
  BY DEF Init, SeededInv, Up
<1>2. SeededInv => SystemHasSeed
  BY DEF SeededInv, SystemHasSeed
<1> QED  BY <1>1, <1>2, SeededStep, TypeInvHolds, PTL DEF Spec

-----------------------------------------------------------------------------
(***************************************************************************)
(* Slabs that join at once are wired to one another.                       *)
(***************************************************************************)
\* A slab that works on the reference owner has at a place.
WorksAt(u, owner, place) == pc[u] \in AtRef /\ Owner(u) = owner /\ at[u] = place

(***************************************************************************)
(* A reference whose presence is known leads to its slab, or is just being *)
(* wired: who finds the presence known need not wait for that.             *)
(***************************************************************************)
PresentInv ==
  \A o \in Slab : \A i \in DOMAIN peers[o] :
    peers[o][i].present
      => \/ peers[o][i].wired
         \/ \E u \in Slab : WorksAt(u, o, i) /\ pc[u] = "wiring"

\* A reference to a slab that runs leads to it, or somebody works on it.
PlacesInv ==
  \A o \in Slab : \A i \in DOMAIN peers[o] :
    peers[o][i].to \in running
      => \/ peers[o][i].wired
         \/ \E u \in Slab : WorksAt(u, o, i)

\* Of two slabs that read the list, one has read of the other.
HasRead == {s \in running : pc[s] \notin {"new", "listed"}}

LinkedInv ==
  \A s, t \in HasRead :
    s # t => \/ Places(s, t) # {}
             \/ <<s, t>> \in Range(todo[s]) \cup Range(todo[t])

\* A step after which everyone who works on a reference still does.
LEMMA PlacesKept ==
  ASSUME TypeInv, PresentInv, PlacesInv, peers' = peers, running' \subseteq running,
         \A u \in Slab : pc[u] \in AtRef
           => pc'[u] = pc[u] /\ todo'[u] = todo[u] /\ at'[u] = at[u]
  PROVE  PresentInv' /\ PlacesInv'
<1>1. ASSUME NEW u \in Slab, NEW o \in Slab, NEW i, WorksAt(u, o, i)
      PROVE  WorksAt(u, o, i)' /\ pc'[u] = pc[u]
  BY <1>1 DEF WorksAt, Owner
<1> HIDE DEF WorksAt
<1>2. PresentInv'
  BY <1>1 DEF PresentInv
<1>3. PlacesInv'
  BY <1>1 DEF PlacesInv
<1> QED  BY <1>2, <1>3

LEMMA PushedKeeps ==
  ASSUME TypeInv, PresentInv, PlacesInv, NEW s \in Slab, PushRef(s)
  PROVE  PresentInv' /\ PlacesInv'
<1>1. PICK o \in Slab, n \in Nat :
        /\ o = Owner(s) /\ DOMAIN peers[o] = 1 .. n
        /\ \A u \in Slab \ {o} : peers'[u] = peers[u]
        /\ DOMAIN peers'[o] = 1 .. n + 1 /\ peers'[o][n + 1] = Ref(To(s))
        /\ \A i \in DOMAIN peers[o] : peers'[o][i] = peers[o][i]
        /\ at' = [at EXCEPT ![s] = n + 1]
  <2> DEFINE p == Owner(s)
             m == Len(peers[p])
  <2>1. /\ p = Owner(s) /\ p \in Slab /\ m \in Nat /\ DOMAIN peers[p] = 1 .. m
        /\ \A u \in Slab \ {p} : peers'[u] = peers[u]
        /\ DOMAIN peers'[p] = 1 .. m + 1 /\ peers'[p][m + 1] = Ref(To(s))
        /\ \A i \in DOMAIN peers[p] : peers'[p][i] = peers[p][i]
        /\ at' = [at EXCEPT ![s] = m + 1]
    BY Pushed
  <2> HIDE DEF p, m
  <2> QED  BY <2>1, Zenon
<1>2. running' = running /\ todo' = todo /\ pc[s] = "absent" /\ pc'[s] = "presence"
      /\ at'[s] = n + 1
      /\ \A u \in Slab \ {s} : pc'[u] = pc[u] /\ at'[u] = at[u]
  <2>1. at \in [Slab -> Nat] /\ pc \in [Slab -> Phase]
    BY DEF TypeInv, TypeOK, Phase
  <2> QED  BY <1>1, <2>1 DEF PushRef
<1>3. WorksAt(s, o, n + 1)'
  BY <1>1, <1>2 DEF WorksAt, AtRef, Owner
<1>4. ASSUME NEW u \in Slab, NEW p \in Slab, NEW i, WorksAt(u, p, i)
      PROVE  WorksAt(u, p, i)' /\ pc'[u] = pc[u]
  BY <1>2, <1>4 DEF WorksAt, Owner, AtRef
<1>5. ~ Ref(To(s)).present
  BY DEF Ref
<1> HIDE DEF WorksAt
<1>6. ASSUME NEW p \in Slab, NEW i \in DOMAIN peers'[p]
      PROVE  \/ i \in DOMAIN peers[p] /\ peers'[p][i] = peers[p][i]
             \/ p = o /\ i = n + 1 /\ peers'[p][i] = Ref(To(s))
  BY <1>1
<1>7. PresentInv'
  <2> SUFFICES ASSUME NEW p \in Slab, NEW i \in DOMAIN peers'[p], peers'[p][i].present
               PROVE  \/ peers'[p][i].wired
                      \/ \E u \in Slab : WorksAt(u, p, i)' /\ pc'[u] = "wiring"
    BY DEF PresentInv
  <2>1. i \in DOMAIN peers[p] /\ peers'[p][i] = peers[p][i]
    BY <1>5, <1>6
  <2> QED  BY <1>4, <2>1 DEF PresentInv
<1>8. PlacesInv'
  <2> SUFFICES ASSUME NEW p \in Slab, NEW i \in DOMAIN peers'[p],
                      peers'[p][i].to \in running
               PROVE  \/ peers'[p][i].wired
                      \/ \E u \in Slab : WorksAt(u, p, i)'
    BY <1>2 DEF PlacesInv
  <2>1. CASE i \in DOMAIN peers[p] /\ peers'[p][i] = peers[p][i]
    BY <1>4, <2>1 DEF PlacesInv
  <2>2. CASE p = o /\ i = n + 1
    BY <1>3, <2>2
  <2> QED  BY <1>6, <2>1, <2>2
<1> QED  BY <1>7, <1>8

\* A slab that sets a field of the reference it works on.
LEMMA SetKeeps ==
  ASSUME TypeInv, PresentInv, PlacesInv, NEW s \in Slab, ApplyPresence(s) \/ Wire(s)
  PROVE  PresentInv' /\ PlacesInv'
<1>1. PICK o \in Slab, i \in Nat :
        /\ i \in DOMAIN peers[o] /\ o = Owner(s) /\ i = at[s]
        /\ peers[o][i].to = To(s)
  <2>1. pc[s] \in AtRef /\ at[s] \in Nat
    BY DEF ApplyPresence, Wire, AtRef, TypeInv, TypeOK
  <2> QED  BY <2>1, AtIts
<1>2. /\ running' = running
      /\ \A u \in Slab \ {s} : pc'[u] = pc[u] /\ todo'[u] = todo[u] /\ at'[u] = at[u]
  BY DEF ApplyPresence, Wire, Linked, TypeInv, TypeOK
<1>3. ASSUME NEW u \in Slab \ {s}, NEW p \in Slab, NEW j, WorksAt(u, p, j)
      PROVE  WorksAt(u, p, j)' /\ pc'[u] = pc[u]
  BY <1>2, <1>3 DEF WorksAt, Owner
<1>4. ASSUME NEW p \in Slab, NEW j, WorksAt(s, p, j) PROVE p = o /\ j = i
  BY <1>1, <1>4 DEF WorksAt
<1>5. ASSUME \/ peers' = [peers EXCEPT ![o][i].present = TRUE]
             \/ peers' = [peers EXCEPT ![o][i].wired = TRUE]
      PROVE  /\ \A u \in Slab : DOMAIN peers'[u] = DOMAIN peers[u]
             /\ \A u \in Slab : \A j \in DOMAIN peers[u] :
                  /\ peers'[u][j].to = peers[u][j].to
                  /\ u # o \/ j # i => peers'[u][j] = peers[u][j]
  BY <1>1, <1>5, SetField
\* At every other place all is as it was.
<1>6. ASSUME \A u \in Slab : DOMAIN peers'[u] = DOMAIN peers[u],
             \A u \in Slab : \A j \in DOMAIN peers[u] :
                  /\ peers'[u][j].to = peers[u][j].to
                  /\ u # o \/ j # i => peers'[u][j] = peers[u][j],
             peers'[o][i].present
               => \/ peers'[o][i].wired
                  \/ \E u \in Slab : WorksAt(u, o, i)' /\ pc'[u] = "wiring",
             To(s) \in running
               => \/ peers'[o][i].wired
                  \/ \E u \in Slab : WorksAt(u, o, i)'
      PROVE  PresentInv' /\ PlacesInv'
  <2> HIDE DEF WorksAt
  <2>1. ASSUME NEW p \in Slab, NEW j \in DOMAIN peers[p], p # o \/ j # i
        PROVE  /\ peers'[p][j].present
                    => \/ peers'[p][j].wired
                       \/ \E u \in Slab : WorksAt(u, p, j)' /\ pc'[u] = "wiring"
               /\ peers'[p][j].to \in running
                    => \/ peers'[p][j].wired
                       \/ \E u \in Slab : WorksAt(u, p, j)'
    <3>1. peers'[p][j] = peers[p][j]
      BY <1>6, <2>1
    <3>2. \A u \in Slab : WorksAt(u, p, j) => WorksAt(u, p, j)' /\ pc'[u] = pc[u]
      BY <1>3, <1>4, <2>1
    <3> QED  BY <3>1, <3>2 DEF PresentInv, PlacesInv
  <2>2. PresentInv'
    BY <1>6, <2>1 DEF PresentInv
  <2>3. PlacesInv'
    BY <1>1, <1>2, <1>6, <2>1 DEF PlacesInv
  <2> QED  BY <2>2, <2>3
<1>7. CASE Wire(s)
  <2>1. peers' = [peers EXCEPT ![o][i].wired = TRUE]
    BY <1>1, <1>7 DEF Wire
  <2>2. peers'[o][i].wired
    <3>1. peers \in [Slab -> Seq(Reference)] /\ peers[o] \in Seq(Reference)
      BY DEF TypeInv, TypeOK, Reference
    <3>2. peers[o][i] \in Reference
      BY <1>1, <3>1
    <3>3. [peers[o][i] EXCEPT !.wired = TRUE].wired
      BY <3>2 DEF Reference
    <3>4. peers'[o][i] = [peers[o][i] EXCEPT !.wired = TRUE]
      BY <1>1, <2>1, <3>1
    <3> QED  BY <3>3, <3>4
  <2> QED  BY <1>5, <1>6, <2>1, <2>2
<1>8. CASE ApplyPresence(s) /\ pc'[s] = "wiring"
  <2>1. /\ peers' = [peers EXCEPT ![o][i].present = TRUE]
        /\ UNCHANGED <<todo, at>>
    BY <1>1, <1>8 DEF ApplyPresence, Linked, TypeInv, TypeOK
  <2>2. WorksAt(s, o, i)'
    BY <1>1, <1>8, <2>1 DEF WorksAt, AtRef, Owner
  <2> HIDE DEF WorksAt
  <2> QED  BY <1>5, <1>6, <1>8, <2>1, <2>2
<1>9. CASE ApplyPresence(s) /\ pc'[s] # "wiring"
  <2>1. /\ peers' = peers /\ pc[s] = "presence"
        /\ ~ /\ To(s) \in running
             /\ \E k \in DOMAIN slabs : slabs[k] = To(s)
             /\ ~peers[o][i].present
    BY <1>1, <1>9 DEF ApplyPresence, TypeInv, TypeOK
  <2>2. To(s) \in running => \E k \in DOMAIN slabs : slabs[k] = To(s)
    <3>1. todo[s] # << >>
      BY <2>1 DEF TypeInv, Working, AtRef
    <3>2. To(s) \in Slab /\ <<Owner(s), To(s)>> \in Range(todo[s])
      BY <3>1, FirstLink
    <3>3. pc[To(s)] # "new"
      BY <3>2 DEF TypeInv, Working
    <3>4. To(s) \in running => To(s) \in Range(slabs)
      BY <3>2, <3>3 DEF TypeInv, Membership
    <3> QED  BY <3>4 DEF Range
  <2>3. peers[o][i].present
          => \/ peers[o][i].wired
             \/ \E u \in Slab : WorksAt(u, o, i)' /\ pc'[u] = "wiring"
    <3> HIDE DEF WorksAt
    <3> SUFFICES ASSUME peers[o][i].present, ~peers[o][i].wired
                 PROVE  \E u \in Slab : WorksAt(u, o, i)' /\ pc'[u] = "wiring"
      OBVIOUS
    <3>1. PICK u \in Slab : WorksAt(u, o, i) /\ pc[u] = "wiring"
      BY <1>1 DEF PresentInv
    <3>2. u # s
      BY <2>1, <3>1
    <3> QED  BY <1>3, <3>1, <3>2
  <2> HIDE DEF WorksAt
  <2>4. To(s) \in running
          => \/ peers[o][i].wired
             \/ \E u \in Slab : WorksAt(u, o, i)'
    BY <2>1, <2>2, <2>3
  <2> QED  BY <1>6, <2>1, <2>3, <2>4
<1> QED  BY <1>7, <1>8, <1>9

LEMMA WiringStep ==
  TypeInv /\ PresentInv /\ PlacesInv /\ [Next]_vars => PresentInv' /\ PlacesInv'
<1> SUFFICES ASSUME TypeInv, PresentInv, PlacesInv, [Next]_vars
             PROVE  PresentInv' /\ PlacesInv'
  OBVIOUS
<1>1. pc \in [Slab -> Phase] /\ at \in [Slab -> Nat]
      /\ todo \in [Slab -> Seq(Slab \X Slab)]
  BY DEF TypeInv, TypeOK, Phase
<1>2. ASSUME NEW s \in Slab, Register(s) \/ ReadList(s) \/ FindRef(s)
      PROVE  PresentInv' /\ PlacesInv'
  <2>1. /\ peers' = peers /\ running' = running /\ pc[s] \notin AtRef
        /\ \A u \in Slab \ {s} :
             pc'[u] = pc[u] /\ todo'[u] = todo[u] /\ at'[u] = at[u]
    BY <1>1, <1>2 DEF Register, ReadList, FindRef, AtRef
  <2> QED  BY <2>1, PlacesKept
<1>3. ASSUME NEW s \in Slab, PushRef(s) PROVE PresentInv' /\ PlacesInv'
  BY <1>3, PushedKeeps
<1>4. ASSUME NEW s \in Slab, ApplyPresence(s) \/ Wire(s)
      PROVE  PresentInv' /\ PlacesInv'
  BY <1>4, SetKeeps
<1>5. ASSUME NEW s \in Slab,
             \/ CheckSeed(s) \/ GenerateSeed(s) \/ Stop(s) \/ Delist(s)
             \/ MoveSeed(s)
      PROVE  PresentInv' /\ PlacesInv'
  <2>1. /\ peers' = peers /\ running' \subseteq running /\ pc[s] \notin AtRef
        /\ todo' = todo /\ at' = at
        /\ \A u \in Slab \ {s} : pc'[u] = pc[u]
    BY <1>1, <1>5 DEF CheckSeed, GenerateSeed, Stop, Delist, MoveSeed, AtRef
  <2> QED  BY <2>1, PlacesKept
<1>6. ASSUME \/ \E s \in Slab : OpenRoot(s)
             \/ \E x \in Transport : ReceiveSeed(x) \/ ApplySeed(x)
             \/ UNCHANGED vars
      PROVE  PresentInv' /\ PlacesInv'
  <2>1. UNCHANGED <<peers, running, todo, at, pc>>
    BY <1>6 DEF OpenRoot, ReceiveSeed, ApplySeed, vars
  <2> QED  BY <2>1, PlacesKept
<1> QED  BY <1>2, <1>3, <1>4, <1>5, <1>6, Steps DEF LinkSteps

\* A list of references loses none.
LEMMA NextGrows == TypeInv /\ [Next]_vars => PeersGrow
<1> SUFFICES ASSUME TypeInv, [Next]_vars PROVE PeersGrow  OBVIOUS
<1>1. CASE peers' = peers
  BY <1>1 DEF PeersGrow
<1>2. ASSUME NEW s \in Slab, PushRef(s) PROVE PeersGrow
  BY <1>2, Pushed
<1>3. ASSUME NEW s \in Slab, ApplyPresence(s) \/ Wire(s) PROVE PeersGrow
  <2>1. pc[s] \in AtRef
    BY <1>3 DEF ApplyPresence, Wire, AtRef
  <2>2. Owner(s) \in Slab /\ at[s] \in DOMAIN peers[Owner(s)]
    BY <2>1, AtIts
  <2>3. \/ peers' = peers
        \/ peers' = [peers EXCEPT ![Owner(s)][at[s]].present = TRUE]
        \/ peers' = [peers EXCEPT ![Owner(s)][at[s]].wired = TRUE]
    BY <1>3 DEF ApplyPresence, Wire
  <2> QED  BY <1>1, <2>2, <2>3, SetField
<1>4. \/ peers' = peers
      \/ \E s \in Slab : PushRef(s)
      \/ \E s \in Slab : ApplyPresence(s) \/ Wire(s)
  BY Steps DEF LinkSteps, Register, ReadList, FindRef, CheckSeed, GenerateSeed,
     Stop, Delist, MoveSeed, OpenRoot, ReceiveSeed, ApplySeed, vars
<1> QED  BY <1>1, <1>2, <1>3, <1>4

\* Two slabs stay linked while neither is done with a link.
LEMMA LinksKept ==
  ASSUME TypeInv, LinkedInv, PeersGrow, HasRead' \subseteq HasRead,
         \A s \in HasRead : \A e \in Range(todo[s]) \ Range(todo'[s]) :
           e = <<Owner(s), To(s)>> /\ Places(Owner(s), To(s)) # {}
  PROVE  LinkedInv'
<1>1. HasRead \subseteq Slab
  BY DEF HasRead, TypeInv, TypeOK
<1> SUFFICES ASSUME NEW s \in HasRead, NEW t \in HasRead, s # t,
                    Places(s, t)' = {}
             PROVE  <<s, t>> \in Range(todo'[s]) \cup Range(todo'[t])
  BY DEF LinkedInv
<1>2. Places(s, t) = {}
  <2>1. DOMAIN peers[s] \subseteq DOMAIN peers'[s]
        /\ \A i \in DOMAIN peers[s] : peers'[s][i].to = peers[s][i].to
    BY <1>1 DEF PeersGrow
  <2> QED  BY <2>1 DEF Places
<1>3. <<s, t>> \in Range(todo[s]) \cup Range(todo[t])
  BY <1>2 DEF LinkedInv
<1>4. ASSUME NEW u \in HasRead, <<s, t>> \in Range(todo[u])
      PROVE  <<s, t>> \in Range(todo'[u])
  <2> SUFFICES ASSUME <<s, t>> \notin Range(todo'[u]) PROVE FALSE
    OBVIOUS
  <2>1. <<s, t>> = <<Owner(u), To(u)>> /\ Places(Owner(u), To(u)) # {}
    BY <1>4
  <2>2. s = Owner(u) /\ t = To(u)
    BY <2>1
  <2> QED  BY <1>2, <2>1, <2>2
<1> QED  BY <1>3, <1>4

LEMMA ReadListLinks ==
  ASSUME TypeInv, LinkedInv, NEW s \in Slab, ReadList(s)
  PROVE  LinkedInv'
<1>1. /\ pc[s] = "listed" /\ UNCHANGED <<slabs, running, peers>>
      /\ todo'[s] = Links(s)
      /\ \A t \in Slab \ {s} : pc'[t] = pc[t] /\ todo'[t] = todo[t]
  BY DEF ReadList, TypeInv, TypeOK
<1>2. HasRead \subseteq Slab \ {s} /\ HasRead' \subseteq HasRead \cup {s}
  BY <1>1 DEF HasRead, TypeInv, TypeOK
<1>3. \A t, u \in Slab : Places(t, u)' = Places(t, u)
  BY <1>1 DEF Places
<1>4. ASSUME NEW t \in HasRead
      PROVE  <<s, t>> \in Range(todo'[s]) /\ <<t, s>> \in Range(todo'[s])
  <2>1. t \in Slab \ {s} /\ t \in Range(slabs) \cap running
    BY <1>2, <1>4 DEF HasRead, TypeInv, Membership
  <2>2. slabs \in Seq(Slab)
    BY DEF TypeInv, TypeOK
  <2> HIDE DEF Links
  <2> QED  BY <1>1, <2>1, <2>2, LinksOf
<1> SUFFICES ASSUME NEW t \in HasRead \cup {s}, NEW u \in HasRead \cup {s}, t # u
             PROVE  \/ Places(t, u)' # {}
                    \/ <<t, u>> \in Range(todo'[t]) \cup Range(todo'[u])
  BY <1>2 DEF LinkedInv
<1>5. CASE t = s \/ u = s
  BY <1>4, <1>5
<1>6. CASE t # s /\ u # s
  <2>1. t \in HasRead /\ u \in HasRead
    BY <1>6
  <2>2. Places(t, u)' = Places(t, u) /\ todo'[t] = todo[t] /\ todo'[u] = todo[u]
    BY <1>1, <1>2, <1>3, <2>1
  <2> QED  BY <1>6, <2>1, <2>2 DEF LinkedInv
<1> QED  BY <1>5, <1>6

LEMMA LinkedStep == TypeInv /\ LinkedInv /\ [Next]_vars => LinkedInv'
<1> SUFFICES ASSUME TypeInv, LinkedInv, [Next]_vars PROVE LinkedInv'  OBVIOUS
<1>1. pc \in [Slab -> Phase] /\ PeersGrow /\ HasRead \subseteq Slab
  BY NextGrows DEF TypeInv, TypeOK, Phase, HasRead
<1>2. ASSUME todo' = todo, HasRead' \subseteq HasRead PROVE LinkedInv'
  BY <1>1, <1>2, LinksKept
<1>3. ASSUME NEW s \in Slab, Register(s) \/ FindRef(s) \/ PushRef(s) PROVE LinkedInv'
  <2>1. todo' = todo /\ running' = running
    BY <1>3 DEF Register, FindRef, PushRef
  <2>2. /\ \A t \in Slab \ {s} : pc'[t] = pc[t]
        /\ pc'[s] = "listed" \/ pc[s] \notin {"new", "listed"}
    BY <1>1, <1>3 DEF Register, FindRef, PushRef
  <2> QED  BY <1>2, <2>1, <2>2 DEF HasRead, TypeInv, TypeOK
<1>4. ASSUME NEW s \in Slab, ReadList(s) PROVE LinkedInv'
  BY <1>4, ReadListLinks
<1>5. ASSUME NEW s \in Slab, ApplyPresence(s) \/ Wire(s) PROVE LinkedInv'
  <2>1. pc[s] \in AtRef /\ running' = running /\ \A t \in Slab \ {s} : pc'[t] = pc[t]
    BY <1>1, <1>5 DEF ApplyPresence, Wire, Linked, AtRef
  <2>2. HasRead' \subseteq HasRead
    BY <2>1 DEF HasRead, AtRef, TypeInv, TypeOK
  <2>3. /\ todo[s] # << >> /\ Owner(s) \in Slab /\ at[s] \in DOMAIN peers[Owner(s)]
        /\ peers[Owner(s)][at[s]].to = To(s)
    BY <2>1, AtIts
  <2>4. Places(Owner(s), To(s)) # {}
    BY <2>3 DEF Places
  <2>5. CASE todo' = todo
    BY <1>2, <2>2, <2>5
  <2>6. CASE todo' = [todo EXCEPT ![s] = Tail(@)]
    <3>1. Range(todo[s]) = {<<Owner(s), To(s)>>} \cup Range(Tail(todo[s]))
      BY <2>3, FirstLink
    <3>2. todo'[s] = Tail(todo[s]) /\ \A t \in Slab \ {s} : todo'[t] = todo[t]
      BY <2>6 DEF TypeInv, TypeOK
    <3>3. ASSUME NEW t \in HasRead, NEW e \in Range(todo[t]) \ Range(todo'[t])
          PROVE  e = <<Owner(t), To(t)>> /\ Places(Owner(t), To(t)) # {}
      <4>1. t = s
        BY <1>1, <3>2, <3>3
      <4> QED  BY <2>4, <3>1, <3>2, <3>3, <4>1
    <3> QED  BY <1>1, <2>2, <3>3, LinksKept
  <2> QED  BY <1>5, <2>5, <2>6 DEF ApplyPresence, Wire, Linked
<1>6. ASSUME NEW s \in Slab,
             \/ CheckSeed(s) \/ GenerateSeed(s) \/ Stop(s) \/ Delist(s)
             \/ MoveSeed(s)
      PROVE  LinkedInv'
  <2>1. /\ todo' = todo /\ running' \subseteq running
        /\ pc[s] \notin {"new", "listed"}
        /\ \A t \in Slab \ {s} : pc'[t] = pc[t]
    BY <1>1, <1>6 DEF CheckSeed, GenerateSeed, Stop, Delist, MoveSeed
  <2> QED  BY <1>2, <2>1 DEF HasRead, TypeInv, TypeOK
<1>7. ASSUME \/ \E s \in Slab : OpenRoot(s)
             \/ \E x \in Transport : ReceiveSeed(x) \/ ApplySeed(x)
             \/ UNCHANGED vars
      PROVE  LinkedInv'
  <2>1. UNCHANGED <<running, todo, pc>>
    BY <1>7 DEF OpenRoot, ReceiveSeed, ApplySeed, vars
  <2> QED  BY <1>2, <2>1 DEF HasRead
<1> QED  BY <1>3, <1>4, <1>5, <1>6, <1>7, Steps DEF LinkSteps

(***************************************************************************)
(* However slabs join and leave at once, any two that are there have       *)
(* references to one another, and the first one, which a slab uses, leads  *)
(* to the other slab.  A slab is listed before it reads the list           *)
(* (register_local_slab), so of two slabs the one that reads last asserts  *)
(* both references; one that finds a presence known relies on the thread   *)
(* that set it to wire the reference (assert_slabref).                     *)
(***************************************************************************)
THEOREM RootSeedEveryoneIsWired == Spec => []EveryoneIsWired
<1> DEFINE Inv == TypeInv /\ PresentInv /\ PlacesInv /\ LinkedInv
<1>1. Init => Inv
  <2> SUFFICES ASSUME Init PROVE PresentInv /\ PlacesInv /\ LinkedInv
    BY InitType
  <2>1. \A o \in Slab : DOMAIN peers[o] = {}
    BY DEF Init
  <2>2. HasRead = {}
    BY DEF Init, HasRead
  <2> QED  BY <2>1, <2>2 DEF PresentInv, PlacesInv, LinkedInv
<1>2. Inv /\ [Next]_vars => Inv'
  BY NextType, WiringStep, LinkedStep
<1>3. Inv => EveryoneIsWired
  <2> SUFFICES ASSUME Inv, Settled, NEW s \in Up, NEW t \in Up, s # t
               PROVE  \E i \in Places(s, t) :
                        /\ peers[s][i].wired
                        /\ \A j \in Places(s, t) : i <= j
    BY DEF EveryoneIsWired
  <2>1. s \in Slab /\ t \in Slab /\ pc[s] = "up" /\ pc[t] = "up"
    BY DEF Up
  <2>2. s \in HasRead /\ t \in HasRead /\ t \in running
    BY <2>1 DEF HasRead, TypeInv, Membership
  <2>3. todo[s] = << >> /\ todo[t] = << >> /\ Range(<< >>) = {}
    BY <2>1 DEF TypeInv, Working, AtRef, Range
  <2>4. Places(s, t) # {}
    BY <2>2, <2>3 DEF LinkedInv
  <2>5. peers[s] \in Seq(Reference)
    BY <2>1 DEF TypeInv, TypeOK, Reference
  <2>6. Places(s, t) \in SUBSET Nat
    <3>1. DOMAIN peers[s] = 1 .. Len(peers[s]) /\ Len(peers[s]) \in Nat
      BY <2>5, LenProperties
    <3> QED  BY <3>1 DEF Places
  <2>7. PICK i \in Places(s, t) : \A j \in Places(s, t) : i <= j
    BY <2>4, <2>6, Least
  <2>8. i \in DOMAIN peers[s] /\ peers[s][i].to \in running
    BY <2>2, <2>7 DEF Places
  <2>9. ASSUME NEW u \in Slab PROVE ~ WorksAt(u, s, i)
    BY DEF WorksAt, AtRef, Settled
  <2>10. peers[s][i].wired
    <3> HIDE DEF WorksAt
    <3> QED  BY <2>1, <2>8, <2>9 DEF PlacesInv
  <2> QED  BY <2>7, <2>10
<1> HIDE DEF Inv
<1> QED  BY <1>1, <1>2, <1>3, PTL DEF Spec

=============================================================================
