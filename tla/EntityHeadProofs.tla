-------------------------- MODULE EntityHeadProofs --------------------------
(***************************************************************************)
(* Proofs about the heads of one entity (modules EntityHead and Head), for *)
(* any number of holders, keys and memos.                                  *)
(*                                                                         *)
(* The first part is about a graph of memos and its ancestry, the second   *)
(* about the functions of Head that apply memos, the third about the       *)
(* holders, the last about the streams of a head.                          *)
(***************************************************************************)
EXTENDS EntityHead, SequencesExt, SequenceTheorems, FiniteSetTheorems, TLAPS

-----------------------------------------------------------------------------
(***************************************************************************)
(* Sequences and numbers.                                                  *)
(***************************************************************************)
\* An element was appended.
LEMMA RangeOfAppend ==
  ASSUME NEW S, NEW q \in Seq(S), NEW m \in S
  PROVE  /\ Append(q, m) \in Seq(S)
         /\ Range(Append(q, m)) = Range(q) \cup {m}
<1> DEFINE one == <<m>>
<1>1. one \in Seq(S) /\ Range(one) = {m} /\ Append(q, m) = q \o one
  BY AppendIsConcat DEF Range
<1> HIDE DEF one
<1> QED  BY <1>1, AppendProperties, RangeConcatenation

\* An element that was not there yet was appended.
LEMMA InjectiveAppend ==
  ASSUME NEW S, NEW q \in Seq(S), IsInjective(q), NEW m \in S, m \notin Range(q)
  PROVE  IsInjective(Append(q, m))
<1>1. /\ Append(q, m) \in Seq(S) /\ Len(Append(q, m)) = Len(q) + 1
      /\ \A i \in 1 .. Len(q) : Append(q, m)[i] = q[i]
      /\ Append(q, m)[Len(q) + 1] = m
  BY AppendProperties
<1>2. /\ Len(q) \in Nat /\ DOMAIN q = 1 .. Len(q)
      /\ DOMAIN Append(q, m) = 1 .. Len(q) + 1
  BY <1>1, LenProperties
<1>3. \A i \in 1 .. Len(q) : q[i] # m
  BY <1>2 DEF Range
<1> QED  BY <1>1, <1>2, <1>3 DEF IsInjective

\* Nothing is in the empty sequence, and only in that.
LEMMA RangeOfEmpty ==
  ASSUME NEW S, NEW q \in Seq(S)
  PROVE  Range(q) = {} <=> q = << >>
<1>1. Len(q) # 0 => q[1] \in Range(q)
  BY RangeEquality, LenProperties
<1> QED  BY <1>1, EmptySeq, RangeEquality

\* An element that was not there yet was added in front.
LEMMA RangeOfCons ==
  ASSUME NEW S, NEW q \in Seq(S), IsInjective(q), NEW s \in S \ Range(q)
  PROVE  /\ <<s>> \o q \in Seq(S)
         /\ Range(<<s>> \o q) = Range(q) \cup {s}
         /\ IsInjective(<<s>> \o q)
<1> DEFINE one == <<s>>
           new == one \o q
<1>1. one \in Seq(S) /\ Len(one) = 1 /\ one[1] = s /\ Range(one) = {s}
  BY DEF Range
<1> HIDE DEF one
<1>2. /\ new \in Seq(S) /\ Len(new) = Len(one) + Len(q)
      /\ \A i \in 1 .. Len(one) + Len(q) :
           new[i] = IF i <= Len(one) THEN one[i] ELSE q[i - Len(one)]
  BY <1>1, ConcatProperties
<1>3. DOMAIN new = 1 .. Len(q) + 1 /\ DOMAIN q = 1 .. Len(q) /\ Len(q) \in Nat
  BY <1>1, <1>2, LenProperties
<1> HIDE DEF new
<1>4. \A i \in 1 .. Len(q) + 1 :
        IF i = 1 THEN new[i] = s ELSE i - 1 \in 1 .. Len(q) /\ new[i] = q[i - 1]
  BY <1>1, <1>2, <1>3
<1>5. \A i \in 1 .. Len(q) : q[i] # s
  BY <1>3, Zenon DEF Range
<1>6. IsInjective(new)
  BY <1>3, <1>4, <1>5 DEF IsInjective
<1>7. Range(new) = Range(one) \cup Range(q)
  BY <1>1, RangeConcatenation DEF new
<1> QED  BY <1>1, <1>2, <1>6, <1>7 DEF new, one

\* A sequence without repetition is as long as the set of its elements.
LEMMA InjectiveLen ==
  ASSUME NEW S, NEW q \in Seq(S), IsInjective(q)
  PROVE  Cardinality(Range(q)) = Len(q)
<1>1. Len(q) \in Nat /\ DOMAIN q = 1 .. Len(q)
  BY LenProperties
<1>2. q \in Bijection(1 .. Len(q), Range(q))
  <2>1. q \in [1 .. Len(q) -> Range(q)]
    BY <1>1 DEF Range
  <2>2. \A i, j \in 1 .. Len(q) : q[i] = q[j] => i = j
    BY <1>1 DEF IsInjective
  <2>3. \A s \in Range(q) : \E i \in 1 .. Len(q) : q[i] = s
    BY <1>1 DEF Range
  <2> QED  BY <2>1, <2>2, <2>3 DEF Bijection, Injection, Surjection
<1> QED  BY <1>1, <1>2, FS_CountingElements DEF ExistsBijection

\* A set of numbers that is not empty has a least one.
LEMMA Least ==
  ASSUME NEW S \in SUBSET Nat, S # {}
  PROVE  Min(S) \in S /\ \A i \in S : Min(S) <= i
<1>1. PICK i \in S : \A j \in S : ~ (<<j, i>> \in OpToRel(<, Nat))
  BY NatLessThanWellFounded, WFMin
<1>2. \A j \in S : i <= j
  <2> SUFFICES ASSUME NEW j \in S, j < i PROVE FALSE
    OBVIOUS
  <2>1. <<j, i>> \in OpToRel(<, Nat)
    BY DEF OpToRel
  <2> QED  BY <1>1, <2>1
<1> QED  BY <1>2 DEF Min

-----------------------------------------------------------------------------
(***************************************************************************)
(* Ancestry.                                                               *)
(***************************************************************************)
ParentsIn(g, m) == {g[m].parents[i] : i \in DOMAIN g[m].parents}

\* The memos of g are numbered, and descend from those with smaller numbers.
Graph(g) ==
  \E n \in Nat : /\ DOMAIN g = 1 .. n
                 /\ \A m \in 1 .. n : ParentsIn(g, m) \subseteq 1 .. m - 1

\* What Ancestors of module Head satisfies.
IsAncestry(g, A) ==
  A = [m \in DOMAIN g |->
         ParentsIn(g, m) \cup UNION {A[p] : p \in ParentsIn(g, m)}]

\* g2 has the memos of g, as they are.
GrowsTo(g, g2) ==
  /\ DOMAIN g \subseteq DOMAIN g2
  /\ \A m \in DOMAIN g : g2[m].parents = g[m].parents

\* The memos of a graph have the same ancestors in a graph that is larger.
LEMMA AncestryExtends ==
  ASSUME NEW g, NEW A, NEW g2, NEW B,
         Graph(g), IsAncestry(g, A), IsAncestry(g2, B),
         GrowsTo(g, g2)
  PROVE  \A m \in DOMAIN g : A[m] = B[m]
<1> DEFINE Differ == {m \in DOMAIN g : A[m] # B[m]}
<1> SUFFICES ASSUME Differ # {} PROVE FALSE
  OBVIOUS
<1>1. PICK n \in Nat : /\ DOMAIN g = 1 .. n
                       /\ \A m \in 1 .. n : ParentsIn(g, m) \subseteq 1 .. m - 1
  BY DEF Graph
<1>2. Differ \in SUBSET Nat
  BY <1>1
<1>3. PICK m \in Differ : \A k \in Differ : m <= k
  BY <1>2, Least
<1>4. m \in 1 .. n /\ m \in DOMAIN g /\ m \in DOMAIN g2
  BY <1>1 DEF GrowsTo
<1>5. ParentsIn(g, m) \subseteq 1 .. m - 1
  BY <1>1, <1>4
<1>6. ASSUME NEW p \in ParentsIn(g, m) PROVE A[p] = B[p]
  <2>1. p \in 1 .. m - 1 /\ p \in 1 .. n
    BY <1>1, <1>4, <1>5
  <2>2. ~ (m <= p)
    BY <1>4, <2>1
  <2> QED  BY <1>1, <1>3, <2>1, <2>2
<1>7. ParentsIn(g2, m) = ParentsIn(g, m)
  BY <1>4 DEF ParentsIn, GrowsTo
<1>8. A[m] = ParentsIn(g, m) \cup UNION {A[p] : p \in ParentsIn(g, m)}
  BY <1>4 DEF IsAncestry
<1>9. B[m] = ParentsIn(g2, m) \cup UNION {B[p] : p \in ParentsIn(g2, m)}
  BY <1>4 DEF IsAncestry
<1>10. {A[p] : p \in ParentsIn(g, m)} = {B[p] : p \in ParentsIn(g2, m)}
  BY <1>6, <1>7
<1>11. A[m] = B[m]
  BY <1>7, <1>8, <1>9, <1>10
<1> QED  BY <1>11

\* Every graph has an ancestry.
LEMMA AncestryExists ==
  ASSUME NEW g, Graph(g)
  PROVE  \E A : IsAncestry(g, A)
<1>1. PICK n \in Nat : /\ DOMAIN g = 1 .. n
                       /\ \A m \in 1 .. n : ParentsIn(g, m) \subseteq 1 .. m - 1
  BY DEF Graph
<1> DEFINE UpTo(k, A) == A = [m \in 1 .. k |->
                                ParentsIn(g, m) \cup UNION {A[p] : p \in ParentsIn(g, m)}]
           Without == {k \in 0 .. n : ~ \E A : UpTo(k, A)}
<1>2. CASE Without = {}
  <2>1. \E A : UpTo(n, A)
    <3>1. n \in 0 .. n
      OBVIOUS
    <3> HIDE DEF UpTo
    <3> QED  BY <1>2, <3>1
  <2> QED  BY <1>1, <2>1 DEF IsAncestry
<1>3. CASE Without # {}
  <2>1. PICK k \in Without : \A j \in Without : k <= j
    <3>1. Without \in SUBSET Nat
      BY <1>1
    <3> HIDE DEF Without
    <3> QED  BY <1>3, <3>1, Least
  <2>2. k # 0
    <3>1. UpTo(0, [m \in {} |-> {}])
      OBVIOUS
    <3> QED  BY <3>1, <2>1
  <2>3. k - 1 \in 0 .. n /\ ~ (k <= k - 1) /\ k \in 1 .. n /\ k \in Nat
    BY <1>1, <2>1, <2>2
  <2>4. PICK A : UpTo(k - 1, A)
    BY <2>1, <2>3
  <2> DEFINE last == ParentsIn(g, k) \cup UNION {A[p] : p \in ParentsIn(g, k)}
             B == [m \in 1 .. k |-> IF m = k THEN last ELSE A[m]]
  <2>5. ASSUME NEW m \in 1 .. k PROVE \A p \in ParentsIn(g, m) : B[p] = A[p]
    <3>1. ParentsIn(g, m) \subseteq 1 .. m - 1
      BY <1>1, <2>3
    <3>2. \A p \in 1 .. m - 1 : p \in 1 .. k /\ p # k
      BY <2>3
    <3> QED  BY <3>1, <3>2
  <2>6. ASSUME NEW m \in 1 .. k
        PROVE  B[m] = ParentsIn(g, m) \cup UNION {B[p] : p \in ParentsIn(g, m)}
    <3>1. {B[p] : p \in ParentsIn(g, m)} = {A[p] : p \in ParentsIn(g, m)}
      BY <2>5
    <3>2. CASE m = k
      BY <3>1, <3>2
    <3>3. CASE m # k
      <4>1. m \in 1 .. k - 1
        BY <2>3, <3>3
      <4>2. A[m] = ParentsIn(g, m) \cup UNION {A[p] : p \in ParentsIn(g, m)}
        BY <2>4, <4>1
      <4>3. B[m] = A[m]
        BY <3>3
      <4> QED  BY <3>1, <4>2, <4>3
    <3> QED  BY <3>2, <3>3
  <2>7. UpTo(k, B)
    <3>1. B = [m \in 1 .. k |-> B[m]]
      OBVIOUS
    <3> HIDE DEF B
    <3> QED  BY <2>6, <3>1
  <2> QED  BY <2>1, <2>7
<1> QED  BY <1>2, <1>3

\* A memo descends from memos with smaller numbers, and from their ancestors.
Dag(n, A) ==
  /\ n \in Nat
  /\ \A m \in 1 .. n : A[m] \subseteq 1 .. m - 1
  /\ \A m \in 1 .. n : \A o \in A[m] : A[o] \subseteq A[m]

LEMMA AncestryIsDag ==
  ASSUME NEW g, NEW n \in Nat, DOMAIN g = 1 .. n, Graph(g),
         NEW A, IsAncestry(g, A)
  PROVE  Dag(n, A)
<1>1. ASSUME NEW m \in 1 .. n
      PROVE  /\ ParentsIn(g, m) \subseteq 1 .. m - 1
             /\ A[m] = ParentsIn(g, m) \cup UNION {A[p] : p \in ParentsIn(g, m)}
  <2>1. PICK l \in Nat : /\ DOMAIN g = 1 .. l
                         /\ \A k \in 1 .. l : ParentsIn(g, k) \subseteq 1 .. k - 1
    BY DEF Graph
  <2> QED  BY <2>1 DEF IsAncestry
<1> DEFINE Good(m) == /\ A[m] \subseteq 1 .. m - 1
                      /\ \A o \in A[m] : A[o] \subseteq A[m]
           Bad == {m \in 1 .. n : ~Good(m)}
<1>2. CASE Bad = {}
  BY <1>2 DEF Dag
<1>3. CASE Bad # {}
  <2>1. PICK m \in Bad : \A k \in Bad : m <= k
    <3>1. Bad \in SUBSET Nat
      OBVIOUS
    <3> HIDE DEF Bad
    <3> QED  BY <1>3, <3>1, Least
  <2>2. m \in 1 .. n /\ m \in Nat
    OBVIOUS
  <2>3. ASSUME NEW p \in ParentsIn(g, m)
        PROVE  p \in 1 .. m - 1 /\ p \in 1 .. n /\ Good(p)
    <3>1. p \in 1 .. m - 1
      BY <1>1, <2>2
    <3>2. p \in 1 .. n /\ ~ (m <= p)
      BY <2>2, <3>1
    <3> QED  BY <2>1, <3>1, <3>2
  <2>4. A[m] \subseteq 1 .. m - 1
    <3> SUFFICES ASSUME NEW o \in A[m] PROVE o \in 1 .. m - 1
      OBVIOUS
    <3>1. CASE o \in ParentsIn(g, m)
      BY <2>3, <3>1
    <3>2. CASE \E p \in ParentsIn(g, m) : o \in A[p]
      <4>1. PICK p \in ParentsIn(g, m) : o \in A[p]
        BY <3>2
      <4>2. p \in 1 .. m - 1 /\ o \in 1 .. p - 1
        BY <2>3, <4>1
      <4> QED  BY <2>2, <4>2
    <3> QED  BY <1>1, <2>2, <3>1, <3>2
  <2>5. ASSUME NEW o \in A[m] PROVE A[o] \subseteq A[m]
    <3>1. CASE o \in ParentsIn(g, m)
      BY <1>1, <2>2, <3>1
    <3>2. CASE \E p \in ParentsIn(g, m) : o \in A[p]
      <4>1. PICK p \in ParentsIn(g, m) : o \in A[p]
        BY <3>2
      <4>2. A[o] \subseteq A[p]
        BY <2>3, <4>1
      <4>3. A[p] \subseteq A[m]
        BY <1>1, <2>2, <4>1
      <4> QED  BY <4>2, <4>3
    <3> QED  BY <1>1, <2>2, <3>1, <3>2
  <2> QED  BY <2>1, <2>4, <2>5
<1> QED  BY <1>2, <1>3

\* Memos with their ancestors, and sets that have theirs.
Down(A, X) == X \cup UNION {A[m] : m \in X}

Closed(A, S) == \A m \in S : A[m] \subseteq S

\* The memos of S that no memo of S descends from.
Youngest(A, S) == {m \in S : \A k \in S : m \notin A[k]}

LEMMA DownIsClosed ==
  ASSUME NEW n, NEW A, Dag(n, A), NEW X \in SUBSET (1 .. n)
  PROVE  /\ Down(A, X) \in SUBSET (1 .. n) /\ X \subseteq Down(A, X)
         /\ Closed(A, Down(A, X))
         /\ \A S : Closed(A, S) /\ X \subseteq S => Down(A, X) \subseteq S
<1>1. ASSUME NEW m \in X PROVE A[m] \subseteq 1 .. n
  <2>1. m \in 1 .. n /\ A[m] \subseteq 1 .. m - 1 /\ n \in Nat
    BY DEF Dag
  <2>2. 1 .. m - 1 \subseteq 1 .. n
    BY <2>1
  <2> QED  BY <2>1, <2>2
<1>2. Down(A, X) \in SUBSET (1 .. n)
  BY <1>1 DEF Down
<1>3. Closed(A, Down(A, X))
  <2> SUFFICES ASSUME NEW m \in Down(A, X) PROVE A[m] \subseteq Down(A, X)
    BY DEF Closed
  <2>1. CASE m \in X
    BY <2>1 DEF Down
  <2>2. CASE \E k \in X : m \in A[k]
    <3>1. PICK k \in X : m \in A[k]
      BY <2>2
    <3>2. A[m] \subseteq A[k]
      BY <3>1 DEF Dag
    <3> QED  BY <3>1, <3>2 DEF Down
  <2> QED  BY <2>1, <2>2 DEF Down
<1> QED  BY <1>2, <1>3 DEF Down, Closed

\* A closed set is its youngest memos with their ancestors.
LEMMA YoungestCover ==
  ASSUME NEW n, NEW A, Dag(n, A), NEW S \in SUBSET (1 .. n), Closed(A, S)
  PROVE  Down(A, Youngest(A, S)) = S
<1>1. Down(A, Youngest(A, S)) \subseteq S
  BY DEF Down, Youngest, Closed
<1>2. ASSUME NEW m \in S PROVE m \in Down(A, Youngest(A, S))
  <2> DEFINE Above == {k \in S : k = m \/ m \in A[k]}
             Depth == {n - k : k \in Above}
  <2>1. n \in Nat /\ m \in Above /\ Above \subseteq 1 .. n
    BY DEF Dag
  <2>2. Depth \in SUBSET Nat /\ Depth # {}
    BY <2>1
  <2>3. PICK d \in Depth : \A e \in Depth : d <= e
    BY <2>2, Least
  <2>4. PICK k \in Above : d = n - k
    OBVIOUS
  <2>5. k \in Youngest(A, S)
    <3> SUFFICES ASSUME NEW j \in S, k \in A[j] PROVE FALSE
      BY DEF Youngest
    <3>1. j \in 1 .. n /\ A[j] \subseteq 1 .. j - 1 /\ A[k] \subseteq A[j]
      BY DEF Dag
    <3>2. j \in Above /\ k < j
      BY <2>1, <2>4, <3>1
    <3>3. n - j \in Depth /\ ~ (n - k <= n - j)
      BY <2>1, <3>1, <3>2
    <3> QED  BY <2>3, <2>4, <3>3
  <2> QED  BY <2>4, <2>5 DEF Down
<1> QED  BY <1>1, <1>2

\* What becomes of the youngest memos when a memo is told of.
LEMMA YoungestWith ==
  ASSUME NEW n, NEW A, Dag(n, A), NEW S \in SUBSET (1 .. n), Closed(A, S),
         NEW new \in 1 .. n
  PROVE  LET X == Youngest(A, S)
             T == S \cup Down(A, {new})
             fresh == \A k \in X : k # new /\ new \notin A[k]
         IN  /\ T \in SUBSET (1 .. n) /\ Closed(A, T)
             /\ fresh <=> new \notin S
             /\ Youngest(A, T) = IF fresh THEN (X \ A[new]) \cup {new} ELSE X
             /\ ~fresh => X \cap A[new] = {}
             /\ ~fresh => T = S
<1> DEFINE X == Youngest(A, S)
           T == S \cup Down(A, {new})
           fresh == \A k \in X : k # new /\ new \notin A[k]
<1>1. Down(A, {new}) = {new} \cup A[new]
  BY DEF Down
<1>2. /\ Down(A, {new}) \in SUBSET (1 .. n) /\ Closed(A, Down(A, {new}))
  BY DownIsClosed
<1>3. T \in SUBSET (1 .. n) /\ Closed(A, T)
  BY <1>2 DEF Closed
<1>4. fresh <=> new \notin S
  <2>1. S = Down(A, X)
    BY YoungestCover
  <2> QED  BY <2>1 DEF Down
<1>5. new \notin A[new] /\ \A k \in A[new] : A[k] \subseteq A[new]
  <2>1. A[new] \subseteq 1 .. new - 1 /\ new \in Nat
    BY DEF Dag
  <2> QED  BY <2>1 DEF Dag
<1>6. CASE new \in S
  <2>1. T = S
    BY <1>1, <1>6 DEF Closed
  <2>2. X \cap A[new] = {}
    BY <1>6 DEF Youngest
  <2> QED  BY <1>3, <1>4, <1>6, <2>1, <2>2
<1>7. CASE new \notin S
  <2>1. \A k \in S : new \notin A[k] /\ k # new
    BY <1>7 DEF Closed
  <2>2. new \in Youngest(A, T)
    BY <1>1, <1>5, <2>1 DEF Youngest
  <2>3. ASSUME NEW k \in X \ A[new] PROVE k \in Youngest(A, T)
    <3>1. k \in S /\ \A j \in S : k \notin A[j]
      BY DEF Youngest
    <3>2. \A j \in A[new] : k \notin A[j]
      BY <1>5
    <3> QED  BY <1>1, <3>1, <3>2 DEF Youngest
  <2>4. ASSUME NEW k \in Youngest(A, T) PROVE k \in (X \ A[new]) \cup {new}
    BY <1>1 DEF Youngest
  <2>5. Youngest(A, T) = (X \ A[new]) \cup {new}
    BY <2>2, <2>3, <2>4
  <2> QED  BY <1>3, <1>4, <1>7, <2>5
<1> QED  BY <1>6, <1>7

-----------------------------------------------------------------------------
(***************************************************************************)
(* mut_apply_memoref.                                                      *)
(***************************************************************************)
NothingVisited == [head |-> << >>, replaced |-> FALSE, halt |-> "no"]

\* f is what the loop has made of hd after each of its first k turns.
IsScan(hd, new, f, k) ==
  f = [i \in 0 .. k |->
         IF i = 0 THEN NothingVisited
         ELSE H!VisitExisting(new, hd[Len(hd) + 1 - i], f[i - 1])]

\* The loop has a result, and mut_apply_memoref answers with it.
LEMMA ScanExists ==
  ASSUME NEW hd, NEW new, Len(hd) \in Nat
  PROVE  \E f : IsScan(hd, new, f, Len(hd))
<1> DEFINE n == Len(hd)
           Without == {k \in 0 .. n : ~ \E f : IsScan(hd, new, f, k)}
<1>1. CASE Without = {}
  BY <1>1
<1>2. CASE Without # {}
  <2>1. PICK k \in Without : \A j \in Without : k <= j
    <3>1. Without \in SUBSET Nat
      OBVIOUS
    <3> HIDE DEF Without
    <3> QED  BY <1>2, <3>1, Least
  <2>2. k # 0
    <3>1. IsScan(hd, new, [i \in 0 .. 0 |-> NothingVisited], 0)
      BY DEF IsScan
    <3> QED  BY <3>1, <2>1
  <2>3. k - 1 \in 0 .. n /\ ~ (k <= k - 1) /\ k \in Nat
    BY <2>1, <2>2
  <2>4. PICK f : IsScan(hd, new, f, k - 1)
    BY <2>1, <2>3
  <2> DEFINE last == H!VisitExisting(new, hd[Len(hd) + 1 - k], f[k - 1])
             g == [i \in 0 .. k |-> IF i = k THEN last ELSE f[i]]
  <2>5. ASSUME NEW i \in 0 .. k
        PROVE  g[i] = IF i = 0 THEN NothingVisited
                      ELSE H!VisitExisting(new, hd[Len(hd) + 1 - i], g[i - 1])
    <3>1. CASE i = k
      <4>1. g[k - 1] = f[k - 1]
        BY <2>2, <2>3
      <4> QED  BY <2>2, <3>1, <4>1
    <3>2. CASE i # k
      <4>1. i \in 0 .. k - 1 /\ (i # 0 => i - 1 \in 0 .. k /\ i - 1 # k)
        BY <2>3, <3>2
      <4>2. f[i] = IF i = 0 THEN NothingVisited
                   ELSE H!VisitExisting(new, hd[Len(hd) + 1 - i], f[i - 1])
        BY <2>4, <4>1 DEF IsScan
      <4>3. g[i] = f[i] /\ (i # 0 => g[i - 1] = f[i - 1])
        BY <3>2, <4>1
      <4> QED  BY <4>2, <4>3
    <3> QED  BY <3>1, <3>2
  <2>6. IsScan(hd, new, g, k)
    <3>1. g = [i \in 0 .. k |-> g[i]]
      OBVIOUS
    <3> HIDE DEF g
    <3> QED  BY <2>5, <3>1 DEF IsScan
  <2> QED  BY <2>1, <2>6
<1> QED  BY <1>1, <1>2

LEMMA ScanIsApplied ==
  ASSUME NEW hd, NEW new, Len(hd) \in Nat
  PROVE  \E f : /\ IsScan(hd, new, f, Len(hd))
                /\ LET end == f[Len(hd)]
                       concurrent == ~end.replaced /\ end.halt = "no"
                   IN  H!MutApplyMemoref(hd, new)
                       = [head    |-> IF concurrent THEN Append(hd, new) ELSE end.head,
                          applied |-> \/ concurrent
                                      \/ end.replaced /\ end.halt # "present"]
<1> DEFINE f == CHOOSE scan : scan = [i \in 0 .. Len(hd) |->
             IF i = 0 THEN [head |-> << >>, replaced |-> FALSE, halt |-> "no"]
             ELSE H!VisitExisting(new, hd[Len(hd) + 1 - i], scan[i - 1])]
<1>1. IsScan(hd, new, f, Len(hd))
  <2>1. \E scan : scan = [i \in 0 .. Len(hd) |->
             IF i = 0 THEN [head |-> << >>, replaced |-> FALSE, halt |-> "no"]
             ELSE H!VisitExisting(new, hd[Len(hd) + 1 - i], scan[i - 1])]
    <3>1. PICK g : IsScan(hd, new, g, Len(hd))
      BY ScanExists
    <3> QED  BY <3>1, Zenon DEF IsScan, NothingVisited
  <2>2. f = [i \in 0 .. Len(hd) |->
             IF i = 0 THEN [head |-> << >>, replaced |-> FALSE, halt |-> "no"]
             ELSE H!VisitExisting(new, hd[Len(hd) + 1 - i], f[i - 1])]
    BY <2>1, Zenon
  <2> HIDE DEF f
  <2> QED  BY <2>2, Zenon DEF IsScan, NothingVisited
<1>3. LET end == f[Len(hd)]
          concurrent == ~end.replaced /\ end.halt = "no"
      IN  H!MutApplyMemoref(hd, new)
          = [head    |-> IF concurrent THEN Append(hd, new) ELSE end.head,
             applied |-> \/ concurrent
                         \/ end.replaced /\ end.halt # "present"]
  BY DEF H!MutApplyMemoref
<1> HIDE DEF f
<1> QED  BY <1>1, <1>3

\* What the loop has made of the memos V it has visited.
Scanned(n, A, new, V, st) ==
  /\ st \in [head : Seq(1 .. n), replaced : BOOLEAN,
             halt : {"no", "present", "descended"}]
  /\ IsInjective(st.head)
  /\ Range(st.head) = (V \ A[new]) \cup (IF V \cap A[new] = {} THEN {} ELSE {new})
  /\ st.replaced <=> V \cap A[new] # {}
  /\ st.halt = "no" <=> \A k \in V : k # new /\ new \notin A[k]

\* One turn of the loop visits one memo more.
LEMMA ScanTurn ==
  ASSUME NEW n \in Nat, NEW A, A = H!Ancestors, NEW new \in 1 .. n,
         NEW V \in SUBSET (1 .. n), NEW e \in (1 .. n) \ V,
         NEW st, Scanned(n, A, new, V, st), new \notin A[new],
         (\E k \in V \cup {e} : k = new \/ new \in A[k])
           => (V \cup {e}) \cap A[new] = {}
  PROVE  Scanned(n, A, new, V \cup {e}, H!VisitExisting(new, e, st))
<1> DEFINE next == H!VisitExisting(new, e, st)
           hd == st.head
           W == V \cup {e}
<1>1. /\ hd \in Seq(1 .. n) /\ IsInjective(hd)
      /\ st = [head |-> hd, replaced |-> st.replaced, halt |-> st.halt]
      /\ Range(hd) = (V \ A[new]) \cup (IF V \cap A[new] = {} THEN {} ELSE {new})
      /\ st.replaced \in BOOLEAN
      /\ st.halt \in {"no", "present", "descended"}
      /\ st.replaced <=> V \cap A[new] # {}
      /\ st.halt = "no" <=> \A k \in V : k # new /\ new \notin A[k]
  BY DEF Scanned
<1> HIDE DEF hd
\* The memo that is visited stays.
<1>2. ASSUME e \notin A[new], e # new \/ V \cap A[new] = {}
      PROVE  /\ <<e>> \o hd \in Seq(1 .. n) /\ IsInjective(<<e>> \o hd)
             /\ Range(<<e>> \o hd)
                = (W \ A[new]) \cup (IF W \cap A[new] = {} THEN {} ELSE {new})
             /\ W \cap A[new] = V \cap A[new]
  <2>1. e \in (1 .. n) \ Range(hd)
    BY <1>1, <1>2
  <2>2. hd \in Seq(1 .. n) /\ IsInjective(hd)
    BY <1>1
  <2>3. /\ <<e>> \o hd \in Seq(1 .. n)
        /\ Range(<<e>> \o hd) = Range(hd) \cup {e}
        /\ IsInjective(<<e>> \o hd)
    BY <2>1, <2>2, RangeOfCons, Zenon
  <2>4. W \cap A[new] = V \cap A[new]
    BY <1>2
  <2> QED  BY <1>1, <1>2, <2>3, <2>4
\* Then what was scanned is as it should be, if the reason to stop is.
<1> DEFINE stays(h) == [head |-> <<e>> \o hd, replaced |-> st.replaced, halt |-> h]
<1>3. ASSUME e \notin A[new], e # new \/ V \cap A[new] = {},
             NEW h \in {"no", "present", "descended"},
             h = "no" <=> \A k \in W : k # new /\ new \notin A[k]
      PROVE  Scanned(n, A, new, W, stays(h))
  <2>1. /\ stays(h) \in [head : Seq(1 .. n), replaced : BOOLEAN,
                         halt : {"no", "present", "descended"}]
        /\ stays(h).head = <<e>> \o hd /\ stays(h).replaced = st.replaced
        /\ stays(h).halt = h
    BY <1>1, <1>2, <1>3
  <2>2. st.replaced <=> W \cap A[new] # {}
    BY <1>1, <1>2, <1>3
  <2> HIDE DEF stays, W
  <2> QED  BY <1>2, <1>3, <2>1, <2>2 DEF Scanned
<1>4. CASE st.halt # "no"
  <2>1. next = stays(st.halt)
    BY <1>1, <1>4 DEF H!VisitExisting, H!HaltAt, hd
  <2>2. W \cap A[new] = {} /\ e \notin A[new]
    BY <1>1, <1>4
  <2>3. ~ \A k \in W : k # new /\ new \notin A[k]
    BY <1>1, <1>4
  <2> HIDE DEF stays
  <2> QED  BY <1>1, <1>4, <1>3, <2>1, <2>2, <2>3
<1>5. CASE st.halt = "no" /\ e = new
  <2>1. next = stays("present")
    BY <1>1, <1>5 DEF H!VisitExisting, H!HaltAt, hd
  <2>2. W \cap A[new] = {} /\ e \notin A[new]
    BY <1>5
  <2>3. ~ \A k \in W : k # new /\ new \notin A[k]
    BY <1>5
  <2> HIDE DEF stays
  <2> QED  BY <1>3, <2>1, <2>2, <2>3
<1>6. CASE st.halt = "no" /\ e # new /\ new \in A[e]
  <2>1. next = stays("descended")
    BY <1>1, <1>6 DEF H!VisitExisting, H!HaltAt, H!Descends, hd
  <2>2. W \cap A[new] = {} /\ e \notin A[new]
    BY <1>6
  <2>3. ~ \A k \in W : k # new /\ new \notin A[k]
    BY <1>6
  <2> HIDE DEF stays
  <2> QED  BY <1>6, <1>3, <2>1, <2>2, <2>3
<1>7. CASE st.halt = "no" /\ e # new /\ new \notin A[e] /\ e \notin A[new]
  <2>1. next = stays("no")
    BY <1>1, <1>7 DEF H!VisitExisting, H!HaltAt, H!Descends, hd
  <2>2. \A k \in W : k # new /\ new \notin A[k]
    BY <1>1, <1>7
  <2> HIDE DEF stays
  <2> QED  BY <1>7, <1>3, <2>1, <2>2
<1>8. CASE st.halt = "no" /\ e # new /\ new \notin A[e] /\ e \in A[new]
  <2>1. \A k \in W : k # new /\ new \notin A[k]
    BY <1>1, <1>8
  <2>2. CASE st.replaced
    <3>1. next = [head |-> hd, replaced |-> st.replaced, halt |-> st.halt]
      BY <1>1, <1>8, <2>2 DEF H!VisitExisting, H!HaltAt, H!Descends, hd
    <3>2. V \cap A[new] # {} /\ W \cap A[new] # {} /\ W \ A[new] = V \ A[new]
      BY <1>1, <1>8, <2>2
    <3> QED  BY <1>1, <1>8, <2>1, <2>2, <3>1, <3>2 DEF Scanned, hd
  <2>3. CASE ~st.replaced
    <3>1. next = [head |-> <<new>> \o hd, replaced |-> TRUE, halt |-> st.halt]
      BY <1>1, <1>8, <2>3 DEF H!VisitExisting, H!HaltAt, H!Descends, hd
    <3>2. V \cap A[new] = {} /\ Range(hd) = V /\ new \in (1 .. n) \ Range(hd)
      BY <1>1, <1>8, <2>3
    <3>3. hd \in Seq(1 .. n) /\ IsInjective(hd)
      BY <1>1
    <3>4. new \in (1 .. n) \ Range(hd)
      BY <3>2
    <3>5. /\ <<new>> \o hd \in Seq(1 .. n)
          /\ Range(<<new>> \o hd) = Range(hd) \cup {new}
          /\ IsInjective(<<new>> \o hd)
      BY <3>3, <3>4, RangeOfCons, Zenon
    <3>6. W \cap A[new] # {} /\ W \ A[new] = V
      BY <1>8, <3>2
    <3> QED  BY <1>1, <1>8, <2>1, <3>1, <3>2, <3>5, <3>6 DEF Scanned
  <2> QED  BY <2>2, <2>3
<1> QED  BY <1>1, <1>4, <1>5, <1>6, <1>7, <1>8

\* hd holds the youngest of the memos S, each once.
IsHead(n, A, S, hd) ==
  /\ S \in SUBSET (1 .. n) /\ Closed(A, S)
  /\ hd \in Seq(1 .. n) /\ IsInjective(hd)
  /\ Range(hd) = Youngest(A, S)

\* The whole loop: hd is visited from its last memo to its first.
LEMMA ScanEnd ==
  ASSUME NEW n \in Nat, NEW A, A = H!Ancestors, NEW new \in 1 .. n,
         NEW hd \in Seq(1 .. n), IsInjective(hd), new \notin A[new],
         (\E k \in Range(hd) : k = new \/ new \in A[k])
           => Range(hd) \cap A[new] = {},
         NEW f, IsScan(hd, new, f, Len(hd))
  PROVE  Scanned(n, A, new, Range(hd), f[Len(hd)])
<1> DEFINE l == Len(hd)
           Visited(i) == {hd[j] : j \in l + 1 - i .. l}
           Bad == {i \in 0 .. l : ~Scanned(n, A, new, Visited(i), f[i])}
<1>1. l \in Nat /\ DOMAIN hd = 1 .. l /\ \A j \in 1 .. l : hd[j] \in 1 .. n
  BY LenProperties
<1>2. Visited(l) = Range(hd)
  <2>1. l + 1 - l .. l = 1 .. l
    BY <1>1
  <2> QED  BY <1>1, <2>1 DEF Range
<1> HIDE DEF l
<1>3. /\ f[0] = NothingVisited
      /\ \A i \in 1 .. l : f[i] = H!VisitExisting(new, hd[l + 1 - i], f[i - 1])
  <2>1. \A i \in 0 .. l : f[i] = IF i = 0 THEN NothingVisited
                                ELSE H!VisitExisting(new, hd[l + 1 - i], f[i - 1])
    BY Zenon DEF IsScan, l
  <2>2. 0 \in 0 .. l /\ \A i \in 1 .. l : i \in 0 .. l /\ i # 0
    BY <1>1
  <2> QED  BY <2>1, <2>2
<1>4. CASE Bad = {}
  <2>1. l \in 0 .. l
    BY <1>1
  <2>2. Scanned(n, A, new, Visited(l), f[l])
    BY <1>4, <2>1
  <2> QED  BY <1>2, <2>2 DEF l
<1>5. CASE Bad # {}
  <2>1. PICK i \in Bad : \A j \in Bad : i <= j
    <3>1. Bad \in SUBSET Nat
      OBVIOUS
    <3> HIDE DEF Bad
    <3> QED  BY <1>5, <3>1, Least
  <2>2. CASE i = 0
    <3>1. Visited(0) = {}
      BY <1>1
    <3>2. << >> \in Seq(1 .. n) /\ IsInjective(<< >>) /\ Range(<< >>) = {}
      BY DEF IsInjective, Range
    <3>3. Scanned(n, A, new, {}, NothingVisited)
      BY <3>2 DEF Scanned, NothingVisited
    <3> QED  BY <1>3, <2>1, <2>2, <3>1, <3>3
  <2>3. CASE i # 0
    <3>1. i \in 1 .. l /\ i - 1 \in 0 .. l /\ ~ (i <= i - 1)
      BY <1>1, <2>1, <2>3
    <3> DEFINE V == Visited(i - 1)
               e == hd[l + 1 - i]
    <3>2. Scanned(n, A, new, V, f[i - 1])
      BY <2>1, <3>1
    <3>3. l + 1 - i \in 1 .. l
      BY <1>1, <3>1
    <3>4. V \in SUBSET (1 .. n) /\ V \subseteq Range(hd)
      <4>1. \A j \in l + 1 - (i - 1) .. l : j \in 1 .. l
        BY <1>1, <3>1
      <4> QED  BY <1>1, <4>1 DEF Range
    <3>5. e \in (1 .. n) \ V
      <4>1. \A j \in l + 1 - (i - 1) .. l : j \in 1 .. l /\ j # l + 1 - i
        BY <1>1, <3>1
      <4>2. \A j \in l + 1 - (i - 1) .. l : hd[j] # e
        BY <1>1, <3>3, <4>1 DEF IsInjective
      <4> QED  BY <1>1, <3>3, <4>2
    <3>6. Visited(i) = V \cup {e}
      <4>1. l + 1 - i .. l = (l + 1 - (i - 1) .. l) \cup {l + 1 - i}
        BY <1>1, <3>1
      <4> QED  BY <4>1
    <3>7. V \cup {e} \subseteq Range(hd)
      BY <1>1, <3>3, <3>4 DEF Range
    <3>8. (\E k \in V \cup {e} : k = new \/ new \in A[k])
            => (V \cup {e}) \cap A[new] = {}
      BY <3>7
    <3>9. f[i] = H!VisitExisting(new, e, f[i - 1])
      BY <1>3, <3>1
    <3> HIDE DEF V, e
    <3>10. Scanned(n, A, new, V \cup {e}, H!VisitExisting(new, e, f[i - 1]))
      BY <3>2, <3>4, <3>5, <3>8, ScanTurn, Zenon
    <3> QED  BY <2>1, <3>6, <3>9, <3>10 DEF V, e
  <2> QED  BY <2>2, <2>3
<1> QED  BY <1>4, <1>5

\* The head of what was told stays the head of what was told, and the answer
\* says whether the memo is news.
LEMMA MutApplyMemorefTold ==
  ASSUME NEW n, NEW A, A = H!Ancestors, Dag(n, A),
         NEW S, NEW hd, IsHead(n, A, S, hd), NEW new \in 1 .. n
  PROVE  LET r == H!MutApplyMemoref(hd, new)
             T == S \cup Down(A, {new})
         IN  /\ IsHead(n, A, T, r.head)
             /\ r.applied \in BOOLEAN /\ (r.applied <=> new \notin S)
             /\ new \in S => T = S
<1> DEFINE r == H!MutApplyMemoref(hd, new)
           T == S \cup Down(A, {new})
           X == Range(hd)
           fresh == \A k \in X : k # new /\ new \notin A[k]
<1>1. /\ n \in Nat /\ new \notin A[new]
  <2>1. n \in Nat /\ A[new] \subseteq 1 .. new - 1 /\ new \in Nat
    BY DEF Dag
  <2> QED  BY <2>1
<1>2. /\ hd \in Seq(1 .. n) /\ IsInjective(hd) /\ Len(hd) \in Nat
      /\ S \in SUBSET (1 .. n) /\ Closed(A, S) /\ X = Youngest(A, S)
  BY LenProperties DEF IsHead
<1>3. /\ T \in SUBSET (1 .. n) /\ Closed(A, T)
      /\ fresh <=> new \notin S
      /\ Youngest(A, T) = IF fresh THEN (X \ A[new]) \cup {new} ELSE X
      /\ ~fresh => X \cap A[new] = {}
      /\ ~fresh => T = S
  <2> DEFINE Y == Youngest(A, S)
             D == S \cup Down(A, {new})
             news == \A k \in Y : k # new /\ new \notin A[k]
  <2>1. S \in SUBSET (1 .. n) /\ Closed(A, S) /\ X = Y /\ new \in 1 .. n
    BY <1>2
  <2>2. /\ D \in SUBSET (1 .. n) /\ Closed(A, D)
        /\ news <=> new \notin S
        /\ Youngest(A, D) = IF news THEN (Y \ A[new]) \cup {new} ELSE Y
        /\ ~news => Y \cap A[new] = {}
        /\ ~news => D = S
    <3>1. Dag(n, A) /\ S \in SUBSET (1 .. n) /\ Closed(A, S) /\ new \in 1 .. n
      BY <2>1
    <3> HIDE DEF X
    <3> QED  BY ONLY <3>1, YoungestWith
  <2> HIDE DEF Y, X
  <2> QED  BY <2>1, <2>2
<1>4. PICK f : /\ IsScan(hd, new, f, Len(hd))
               /\ LET end == f[Len(hd)]
                      concurrent == ~end.replaced /\ end.halt = "no"
                  IN  r = [head    |-> IF concurrent THEN Append(hd, new) ELSE end.head,
                           applied |-> \/ concurrent
                                       \/ end.replaced /\ end.halt # "present"]
  BY <1>2, ScanIsApplied
<1> DEFINE end == f[Len(hd)]
<1>5. Scanned(n, A, new, X, end)
  <2>1. (\E k \in X : k = new \/ new \in A[k]) => X \cap A[new] = {}
    BY <1>3
  <2> QED  BY <1>1, <1>2, <1>4, <2>1, ScanEnd
<1>6. r = [head    |-> IF ~end.replaced /\ end.halt = "no" THEN Append(hd, new) ELSE end.head,
           applied |-> \/ ~end.replaced /\ end.halt = "no"
                       \/ end.replaced /\ end.halt # "present"]
  BY <1>4
<1> HIDE DEF end, r, X, T
<1>7. CASE ~fresh
  <2>1. end.halt # "no" /\ ~end.replaced
    BY <1>3, <1>5, <1>7 DEF Scanned
  <2>2. r.head = end.head /\ r.applied = FALSE
    BY <1>6, <2>1
  <2>3. Range(end.head) = X
    BY <1>3, <1>5, <1>7 DEF Scanned
  <2> QED  BY <1>2, <1>3, <1>5, <1>7, <2>2, <2>3 DEF IsHead, Scanned, r, T, X
<1>8. CASE fresh /\ X \cap A[new] # {}
  <2>1. end.halt = "no" /\ end.replaced
    BY <1>5, <1>8 DEF Scanned
  <2>2. r.head = end.head /\ r.applied = TRUE
    BY <1>6, <2>1
  <2>3. Range(end.head) = (X \ A[new]) \cup {new}
    BY <1>5, <1>8 DEF Scanned
  <2> QED  BY <1>3, <1>5, <1>8, <2>2, <2>3 DEF IsHead, Scanned, r, T, X
<1>9. CASE fresh /\ X \cap A[new] = {}
  <2>1. end.halt = "no" /\ ~end.replaced
    BY <1>5, <1>9 DEF Scanned
  <2>2. r.head = Append(hd, new) /\ r.applied = TRUE
    BY <1>6, <2>1
  <2>3. Append(hd, new) \in Seq(1 .. n) /\ Range(Append(hd, new)) = X \cup {new}
    <3> DEFINE Numbers == 1 .. n
    <3>1. hd \in Seq(Numbers) /\ new \in Numbers
      BY <1>2
    <3> HIDE DEF Numbers
    <3>2. /\ Append(hd, new) \in Seq(Numbers)
          /\ Range(Append(hd, new)) = Range(hd) \cup {new}
      BY <3>1, RangeOfAppend
    <3> QED  BY <3>2 DEF X, Numbers
  <2>4. IsInjective(Append(hd, new))
    <3>1. new \notin Range(hd)
      BY <1>9 DEF X
    <3> QED  BY <1>2, <3>1, InjectiveAppend
  <2>5. X \cup {new} = (X \ A[new]) \cup {new}
    BY <1>9
  <2> QED  BY <1>3, <1>9, <2>2, <2>3, <2>4, <2>5 DEF IsHead, r, T, X
<1> QED  BY <1>7, <1>8, <1>9 DEF r, T

-----------------------------------------------------------------------------
(***************************************************************************)
(* mut_apply.                                                              *)
(***************************************************************************)
Unmerged(hd) == [head |-> hd, applied |-> FALSE]

\* f is what hd has become after each of the first k memos of other.
IsMerge(hd, other, f, k) ==
  f = [i \in 0 .. k |-> IF i = 0 THEN Unmerged(hd)
                        ELSE H!ApplyNext(f[i - 1], other[i])]

LEMMA MergeExists ==
  ASSUME NEW hd, NEW other, Len(other) \in Nat
  PROVE  \E f : IsMerge(hd, other, f, Len(other))
<1> DEFINE n == Len(other)
           Without == {k \in 0 .. n : ~ \E f : IsMerge(hd, other, f, k)}
<1>1. CASE Without = {}
  BY <1>1
<1>2. CASE Without # {}
  <2>1. PICK k \in Without : \A j \in Without : k <= j
    <3>1. Without \in SUBSET Nat
      OBVIOUS
    <3> HIDE DEF Without
    <3> QED  BY <1>2, <3>1, Least
  <2>2. k # 0
    <3>1. IsMerge(hd, other, [i \in 0 .. 0 |-> Unmerged(hd)], 0)
      BY DEF IsMerge
    <3> QED  BY <3>1, <2>1
  <2>3. k - 1 \in 0 .. n /\ ~ (k <= k - 1) /\ k \in Nat
    BY <2>1, <2>2
  <2>4. PICK f : IsMerge(hd, other, f, k - 1)
    BY <2>1, <2>3
  <2> DEFINE last == H!ApplyNext(f[k - 1], other[k])
             g == [i \in 0 .. k |-> IF i = k THEN last ELSE f[i]]
  <2>5. ASSUME NEW i \in 0 .. k
        PROVE  g[i] = IF i = 0 THEN Unmerged(hd)
                      ELSE H!ApplyNext(g[i - 1], other[i])
    <3>1. CASE i = k
      <4>1. g[k - 1] = f[k - 1]
        BY <2>2, <2>3
      <4> QED  BY <2>2, <3>1, <4>1
    <3>2. CASE i # k
      <4>1. i \in 0 .. k - 1 /\ (i # 0 => i - 1 \in 0 .. k /\ i - 1 # k)
        BY <2>3, <3>2
      <4>2. f[i] = IF i = 0 THEN Unmerged(hd)
                   ELSE H!ApplyNext(f[i - 1], other[i])
        BY <2>4, <4>1 DEF IsMerge
      <4>3. g[i] = f[i] /\ (i # 0 => g[i - 1] = f[i - 1])
        BY <3>2, <4>1
      <4> QED  BY <4>2, <4>3
    <3> QED  BY <3>1, <3>2
  <2>6. IsMerge(hd, other, g, k)
    <3>1. g = [i \in 0 .. k |-> g[i]]
      OBVIOUS
    <3> HIDE DEF g
    <3> QED  BY <2>5, <3>1 DEF IsMerge
  <2> QED  BY <2>1, <2>6
<1> QED  BY <1>1, <1>2

LEMMA MergeIsApplied ==
  ASSUME NEW hd, NEW other, Len(other) \in Nat
  PROVE  \E f : /\ IsMerge(hd, other, f, Len(other))
                /\ H!MutApply(hd, other) = f[Len(other)]
<1> DEFINE f == CHOOSE merged : merged = [i \in 0 .. Len(other) |->
             IF i = 0 THEN [head |-> hd, applied |-> FALSE]
             ELSE H!ApplyNext(merged[i - 1], other[i])]
<1>1. IsMerge(hd, other, f, Len(other))
  <2>1. \E merged : merged = [i \in 0 .. Len(other) |->
             IF i = 0 THEN [head |-> hd, applied |-> FALSE]
             ELSE H!ApplyNext(merged[i - 1], other[i])]
    <3>1. PICK g : IsMerge(hd, other, g, Len(other))
      BY MergeExists
    <3> QED  BY <3>1, Zenon DEF IsMerge, Unmerged
  <2>2. f = [i \in 0 .. Len(other) |->
             IF i = 0 THEN [head |-> hd, applied |-> FALSE]
             ELSE H!ApplyNext(f[i - 1], other[i])]
    BY <2>1, Zenon
  <2> HIDE DEF f
  <2> QED  BY <2>2, Zenon DEF IsMerge, Unmerged
<1>2. H!MutApply(hd, other) = f[Len(other)]
  BY DEF H!MutApply
<1> HIDE DEF f
<1> QED  BY <1>1, <1>2

\* A head that is merged brings all that it accounts for, and the answer says
\* whether any of it is news.
LEMMA MutApplyTold ==
  ASSUME NEW n, NEW A, A = H!Ancestors, Dag(n, A),
         NEW S, NEW hd, IsHead(n, A, S, hd),
         NEW other \in Seq(1 .. n)
  PROVE  LET r == H!MutApply(hd, other)
             T == S \cup Down(A, Range(other))
         IN  /\ IsHead(n, A, T, r.head)
             /\ r.applied \in BOOLEAN /\ (r.applied <=> T # S)
<1> DEFINE l == Len(other)
           First(i) == {other[j] : j \in 1 .. i}
           Told(i) == S \cup Down(A, First(i))
           Good(i, st) == /\ IsHead(n, A, Told(i), st.head)
                          /\ st.applied \in BOOLEAN
                          /\ st.applied <=> Told(i) # S
<1>1. l \in Nat /\ DOMAIN other = 1 .. l /\ \A j \in 1 .. l : other[j] \in 1 .. n
  BY LenProperties
<1>2. First(l) = Range(other)
  BY <1>1 DEF Range
<1>3. PICK f : /\ IsMerge(hd, other, f, l)
               /\ H!MutApply(hd, other) = f[l]
  BY <1>1, MergeIsApplied
<1> HIDE DEF l
<1>4. /\ f[0] = Unmerged(hd)
      /\ \A i \in 1 .. l : f[i] = H!ApplyNext(f[i - 1], other[i])
  <2>1. \A i \in 0 .. l : f[i] = IF i = 0 THEN Unmerged(hd)
                                ELSE H!ApplyNext(f[i - 1], other[i])
    BY <1>3, Zenon DEF IsMerge
  <2>2. 0 \in 0 .. l /\ \A i \in 1 .. l : i \in 0 .. l /\ i # 0
    BY <1>1
  <2> QED  BY <2>1, <2>2
<1>5. Good(0, f[0])
  <2>1. First(0) = {}
    BY <1>1
  <2>2. Told(0) = S
    BY <2>1 DEF Down
  <2>3. f[0].head = hd /\ f[0].applied = FALSE
    BY <1>4 DEF Unmerged
  <2> HIDE DEF Told
  <2> QED  BY <2>2, <2>3
<1>6. ASSUME NEW i \in 1 .. l, Good(i - 1, f[i - 1])
      PROVE  Good(i, f[i])
  <2> DEFINE before == Told(i - 1)
             r == H!MutApplyMemoref(f[i - 1].head, other[i])
  <2>1. other[i] \in 1 .. n
    BY <1>1
  <2>2. IsHead(n, A, before, f[i - 1].head)
    BY <1>6
  <2>3. /\ IsHead(n, A, before \cup Down(A, {other[i]}), r.head)
        /\ r.applied \in BOOLEAN /\ (r.applied <=> other[i] \notin before)
        /\ other[i] \in before => before \cup Down(A, {other[i]}) = before
    <3> DEFINE old == f[i - 1].head
               new == other[i]
    <3>1. new \in 1 .. n /\ IsHead(n, A, before, old)
      BY <2>1, <2>2
    <3> HIDE DEF before, old, new
    <3>2. LET s == H!MutApplyMemoref(old, new)
              T == before \cup Down(A, {new})
          IN  /\ IsHead(n, A, T, s.head)
              /\ s.applied \in BOOLEAN /\ (s.applied <=> new \notin before)
              /\ new \in before => T = before
      BY <3>1, MutApplyMemorefTold
    <3> QED  BY <3>2 DEF old, new
  <2>4. Told(i) = before \cup Down(A, {other[i]})
    <3>1. 1 .. i = (1 .. i - 1) \cup {i}
      BY <1>1
    <3>2. First(i) = First(i - 1) \cup {other[i]}
      BY <3>1
    <3> HIDE DEF First
    <3>3. Down(A, First(i)) = Down(A, First(i - 1)) \cup Down(A, {other[i]})
      BY <3>2 DEF Down
    <3> QED  BY <3>3
  <2>5. f[i] = [head |-> r.head, applied |-> f[i - 1].applied \/ r.applied]
    BY <1>4 DEF H!ApplyNext
  <2>6. other[i] \in Down(A, {other[i]}) /\ S \subseteq before
    BY DEF Down
  <2>7. f[i - 1].applied \in BOOLEAN /\ (f[i - 1].applied <=> before # S)
    BY <1>6
  <2> HIDE DEF Told, before, r
  <2>8. f[i].head = r.head /\ f[i].applied = (f[i - 1].applied \/ r.applied)
    BY <2>5
  <2>9. Told(i) # S <=> f[i - 1].applied \/ r.applied
    BY <2>3, <2>4, <2>6, <2>7
  <2> QED  BY <2>3, <2>4, <2>7, <2>8, <2>9
<1> HIDE DEF Good
<1>7. Good(l, f[l])
  <2> DEFINE Bad == {i \in 0 .. l : ~Good(i, f[i])}
  <2>1. CASE Bad = {}
    BY <1>1, <2>1
  <2>2. CASE Bad # {}
    <3>1. PICK i \in Bad : \A j \in Bad : i <= j
      <4>1. Bad \in SUBSET Nat
        OBVIOUS
      <4> HIDE DEF Bad
      <4> QED  BY <2>2, <4>1, Least
    <3>2. i # 0
      BY <1>5, <3>1
    <3>3. i \in 1 .. l /\ i - 1 \in 0 .. l /\ ~ (i <= i - 1)
      BY <1>1, <3>1, <3>2
    <3> QED  BY <1>6, <3>1, <3>3
  <2> QED  BY <2>1, <2>2
<1> QED  BY <1>2, <1>3, <1>7 DEF Good

-----------------------------------------------------------------------------
(***************************************************************************)
(* The holders.                                                            *)
(***************************************************************************)

\* Every memo has parents that were issued before.
MemosInv ==
  /\ memos \in Seq(MemoRecord)
  /\ Len(memos) \in 1 .. MaxMemos
  /\ \A m \in 1 .. Len(memos) : ParentsIn(memos, m) \subseteq 1 .. m - 1

\* Every head holds the youngest of the memos its holder was told of.
HeadsInv ==
  /\ DOMAIN head = Holder /\ DOMAIN seen = Holder
  /\ head = [h \in Holder |-> head[h]]
  /\ seen = [h \in Holder |-> seen[h]]
  /\ \A h \in Holder : IsHead(Len(memos), H!Ancestors, seen[h], head[h])

IInv == MemosInv /\ HeadsInv

\* What Ancestors is, in every state.
AncestorsInv ==
  /\ DOMAIN memos = 1 .. Len(memos) /\ Len(memos) \in Nat
  /\ Graph(memos)
  /\ IsAncestry(memos, H!Ancestors)
  /\ Dag(Len(memos), H!Ancestors)

LEMMA MemosHaveAncestors == MemosInv => AncestorsInv
<1> SUFFICES ASSUME MemosInv PROVE AncestorsInv
  OBVIOUS
<1>1. DOMAIN memos = 1 .. Len(memos) /\ Len(memos) \in Nat
  BY LenProperties DEF MemosInv
<1>2. Graph(memos)
  BY <1>1 DEF MemosInv, Graph
<1>3. IsAncestry(memos, H!Ancestors)
  <2>1. \A m : H!Parents(m) = ParentsIn(memos, m)
    BY DEF H!Parents, H!ToSet, ParentsIn
  <2>2. H!Ancestors = CHOOSE A : IsAncestry(memos, A)
    BY <2>1 DEF H!Ancestors, IsAncestry
  <2> QED  BY <1>2, <2>2, AncestryExists
<1>4. Dag(Len(memos), H!Ancestors)
  BY <1>1, <1>2, <1>3, AncestryIsDag
<1> QED  BY <1>1, <1>2, <1>3, <1>4 DEF AncestorsInv

\* A head stays the head when others issue memos.
LEMMA HeadKept ==
  ASSUME NEW n, NEW A, Dag(n, A), NEW B, NEW n2 \in Nat, n <= n2,
         \A m \in 1 .. n : A[m] = B[m],
         NEW S, NEW hd, IsHead(n, A, S, hd)
  PROVE  IsHead(n2, B, S, hd)
<1>1. n \in Nat /\ 1 .. n \subseteq 1 .. n2
  BY DEF Dag
<1>2. \A m \in S : A[m] = B[m]
  BY DEF IsHead
<1>3. Closed(B, S) /\ Youngest(B, S) = Youngest(A, S)
  BY <1>2 DEF IsHead, Closed, Youngest
<1>4. hd \in Seq(1 .. n2)
  <2>1. hd \in Seq(1 .. n)
    BY DEF IsHead
  <2> QED  BY <1>1, <2>1, SeqDef
<1> QED  BY <1>1, <1>3, <1>4 DEF IsHead

\* Whoever edits holds the new memo alone.
LEMMA HeadIssued ==
  ASSUME NEW n, NEW A, Dag(n, A), NEW B,
         \A m \in 1 .. n : A[m] = B[m],
         NEW S, NEW hd, IsHead(n, A, S, hd),
         B[n + 1] = Down(A, Range(hd))
  PROVE  IsHead(n + 1, B, S \cup {n + 1}, <<n + 1>>)
<1>1. n \in Nat /\ S \in SUBSET (1 .. n) /\ Closed(A, S) /\ Range(hd) = Youngest(A, S)
  BY DEF Dag, IsHead
<1>2. B[n + 1] = S
  BY <1>1, YoungestCover
<1>3. \A m \in S : A[m] = B[m] /\ B[m] \subseteq S /\ m # n + 1
  BY <1>1 DEF Closed
<1>4. n + 1 \notin S
  BY <1>1
<1>5. Closed(B, S \cup {n + 1})
  BY <1>2, <1>3 DEF Closed
<1>6. Youngest(B, S \cup {n + 1}) = {n + 1}
  BY <1>2, <1>3, <1>4 DEF Youngest
<1>7. S \cup {n + 1} \in SUBSET (1 .. n + 1)
  BY <1>1
<1>8. <<n + 1>> \in Seq(1 .. n + 1) /\ IsInjective(<<n + 1>>)
      /\ Range(<<n + 1>>) = {n + 1}
  BY <1>1 DEF IsInjective, Range
<1> QED  BY <1>5, <1>6, <1>7, <1>8 DEF IsHead

LEMMA InitIInv == Init => IInv
<1> SUFFICES ASSUME Init PROVE IInv
  OBVIOUS
<1>1. PICK creator \in Holder, values \in SUBSET Key :
        /\ memos = <<NewMemo(H!NullHead, TRUE, values)>>
        /\ head = [h \in Holder |-> IF h = creator THEN <<1>> ELSE H!NullHead]
        /\ seen = [h \in Holder |-> IF h = creator THEN {1} ELSE {}]
  BY DEF Init
<1> DEFINE first == NewMemo(H!NullHead, TRUE, values)
<1>2. first \in MemoRecord /\ first.parents = << >>
  BY DEF MemoRecord, NewMemo, H!NullHead
<1> HIDE DEF first
<1>3. memos = <<first>>
  BY <1>1 DEF first
<1>4. memos \in Seq(MemoRecord) /\ Len(memos) = 1 /\ memos[1] = first
  BY <1>2, <1>3
<1>5. MemosInv
  <2>1. 1 \in 1 .. MaxMemos
    BY BoundAssumption
  <2>2. ParentsIn(memos, 1) = {}
    BY <1>2, <1>4 DEF ParentsIn
  <2>3. \A m \in 1 .. 1 : m = 1
    OBVIOUS
  <2> QED  BY <1>4, <2>1, <2>2, <2>3 DEF MemosInv
<1>6. Dag(1, H!Ancestors)
  BY <1>4, <1>5, MemosHaveAncestors DEF AncestorsInv
<1>7. IsHead(1, H!Ancestors, {}, << >>)
  BY DEF IsHead, Closed, Youngest, IsInjective, Range
<1>8. IsHead(1, H!Ancestors, {1}, <<1>>)
  <2>1. H!Ancestors[1] = {}
    <3>1. H!Ancestors[1] \subseteq 1 .. 1 - 1
      BY <1>6 DEF Dag
    <3> QED  BY <3>1
  <2>2. <<1>> \in Seq(1 .. 1) /\ IsInjective(<<1>>) /\ Range(<<1>>) = {1}
    BY DEF IsInjective, Range
  <2> QED  BY <2>1, <2>2 DEF IsHead, Closed, Youngest
<1>9. HeadsInv
  <2>1. ASSUME NEW h \in Holder PROVE IsHead(1, H!Ancestors, seen[h], head[h])
    BY <1>1, <1>7, <1>8 DEF H!NullHead
  <2> QED  BY <1>1, <1>4, <2>1 DEF HeadsInv
<1> QED  BY <1>5, <1>9 DEF IInv

\* Nobody issues a memo: the other holders' heads stand as they are.
LEMMA ToldIInv ==
  ASSUME IInv, memos' = memos, NEW h \in Holder, NEW hd, NEW S,
         head' = [head EXCEPT ![h] = hd], seen' = [seen EXCEPT ![h] = S],
         IsHead(Len(memos), H!Ancestors, S, hd)
  PROVE  IInv'
<1>1. MemosInv'
  BY DEF IInv, MemosInv
<1>2. H!Ancestors' = H!Ancestors /\ Len(memos)' = Len(memos)
  BY DEF H!Ancestors, H!Parents
<1>3. /\ DOMAIN head' = Holder /\ DOMAIN seen' = Holder
      /\ head' = [g \in Holder |-> head'[g]]
      /\ seen' = [g \in Holder |-> seen'[g]]
  BY DEF IInv, HeadsInv
<1>4. ASSUME NEW g \in Holder
      PROVE  IsHead(Len(memos), H!Ancestors, seen'[g], head'[g])
  BY DEF IInv, HeadsInv
<1>5. HeadsInv'
  BY <1>2, <1>3, <1>4 DEF HeadsInv
<1> QED  BY <1>1, <1>5 DEF IInv

LEMMA ApplyMemoIInv ==
  ASSUME IInv, NEW h \in Holder, NEW m \in DOMAIN memos, ApplyMemo(h, m)
  PROVE  IInv'
<1> DEFINE n == Len(memos)
           A == H!Ancestors
           S == seen[h] \cup Down(A, {m})
           r == H!MutApplyMemoref(head[h], m)
<1>1. AncestorsInv
  BY MemosHaveAncestors DEF IInv
<1>2. Dag(n, A) /\ m \in 1 .. n /\ IsHead(n, A, seen[h], head[h])
  BY <1>1 DEF AncestorsInv, IInv, HeadsInv
<1>3. IsHead(n, A, S, r.head)
  BY <1>2, MutApplyMemorefTold
<1>4. H!History(<<m>>) = Down(A, {m})
  BY DEF H!History, H!ToSet, Down
<1>5. /\ memos' = memos
      /\ head' = [head EXCEPT ![h] = r.head]
      /\ seen' = [seen EXCEPT ![h] = S]
  BY <1>4 DEF ApplyMemo, IInv, HeadsInv
<1> HIDE DEF S, r
<1> QED  BY <1>3, <1>5, ToldIInv

LEMMA ApplyHeadIInv ==
  ASSUME IInv, NEW h \in Holder, NEW other \in Holder, ApplyHead(h, other)
  PROVE  IInv'
<1> DEFINE n == Len(memos)
           A == H!Ancestors
           S == seen[h] \cup Down(A, Range(head[other]))
           r == H!MutApply(head[h], head[other])
<1>1. AncestorsInv
  BY MemosHaveAncestors DEF IInv
<1>2. /\ Dag(n, A) /\ IsHead(n, A, seen[h], head[h])
      /\ IsHead(n, A, seen[other], head[other])
  BY <1>1 DEF AncestorsInv, IInv, HeadsInv
<1>3. IsHead(n, A, S, r.head)
  <2>1. head[other] \in Seq(1 .. n)
    BY <1>2 DEF IsHead
  <2> QED  BY <1>2, <2>1, MutApplyTold
<1>4. Down(A, Range(head[other])) = seen[other]
  BY <1>2, YoungestCover DEF IsHead
<1>5. /\ memos' = memos
      /\ head' = [head EXCEPT ![h] = r.head]
      /\ seen' = [seen EXCEPT ![h] = S]
  BY <1>4 DEF ApplyHead, IInv, HeadsInv
<1> HIDE DEF S, r
<1> QED  BY <1>3, <1>5, ToldIInv

LEMMA EditIInv ==
  ASSUME IInv, NEW h \in Holder, NEW values \in SUBSET Key, Edit(h, values)
  PROVE  IInv'
<1> DEFINE new == NewMemo(head[h], FALSE, values)
<1>1. AncestorsInv
  BY MemosHaveAncestors DEF IInv
<1>2. PICK n : n = Len(memos)
  OBVIOUS
<1>3. PICK A : A = H!Ancestors
  OBVIOUS
<1>4. PICK B : B = H!Ancestors'
  OBVIOUS
<1>5. PICK hd : hd = head[h]
  OBVIOUS
<1>6. /\ n \in Nat /\ n + 1 \in 1 .. MaxMemos /\ DOMAIN memos = 1 .. n
      /\ Dag(n, A) /\ IsHead(n, A, seen[h], hd)
      /\ hd \in Seq(1 .. n) /\ memos \in Seq(MemoRecord)
  BY <1>1, <1>2, <1>3, <1>5, BoundAssumption
     DEF AncestorsInv, IInv, HeadsInv, MemosInv, IsHead, Edit
<1>7. new \in MemoRecord /\ new.parents = hd
  <2>1. hd \in Seq(MemoId)
    <3>1. 1 .. n \subseteq MemoId
      BY <1>6, BoundAssumption DEF MemoId
    <3> QED  BY <1>6, <3>1, SeqDef
  <2> QED  BY <1>5, <2>1 DEF MemoRecord, NewMemo
<1>8. memos' = Append(memos, new)
  BY DEF Edit
<1> HIDE DEF new
<1>9. /\ memos' \in Seq(MemoRecord) /\ Len(memos') = n + 1
      /\ DOMAIN memos' = 1 .. n + 1
      /\ \A m \in 1 .. n : memos'[m] = memos[m]
      /\ memos'[n + 1] = new
  <2>1. /\ memos' \in Seq(MemoRecord) /\ Len(memos') = n + 1
        /\ \A m \in 1 .. n : memos'[m] = memos[m]
        /\ memos'[n + 1] = new
    BY <1>2, <1>6, <1>7, <1>8, AppendProperties
  <2> QED  BY <2>1, LenProperties
<1>10. /\ \A m \in 1 .. n : ParentsIn(memos', m) = ParentsIn(memos, m)
       /\ ParentsIn(memos', n + 1) = Range(hd)
  BY <1>7, <1>9 DEF ParentsIn, Range
<1>11. Range(hd) \subseteq 1 .. n
  <2>1. \A i \in DOMAIN hd : hd[i] \in 1 .. n
    BY <1>6, LenProperties
  <2> QED  BY <2>1 DEF Range
<1>12. MemosInv'
  <2>1. ASSUME NEW m \in 1 .. n + 1
        PROVE  ParentsIn(memos', m) \subseteq 1 .. m - 1
    <3>1. CASE m = n + 1
      BY <1>6, <1>10, <1>11, <3>1
    <3>2. CASE m # n + 1
      <4>1. m \in 1 .. n
        BY <1>6, <3>2
      <4>2. ParentsIn(memos, m) \subseteq 1 .. m - 1
        BY <1>2, <4>1 DEF IInv, MemosInv
      <4> QED  BY <1>10, <4>1, <4>2
    <3> QED  BY <3>1, <3>2
  <2> QED  BY <1>6, <1>9, <2>1 DEF MemosInv
<1>13. AncestorsInv'
  <2>1. MemosInv' => AncestorsInv'
    BY MemosHaveAncestors, PTL
  <2> QED  BY <1>12, <2>1
<1>14. \A m \in 1 .. n : A[m] = B[m]
  <2>1. PICK g : g = memos
    OBVIOUS
  <2>2. PICK g2 : g2 = memos'
    OBVIOUS
  <2>3. /\ Graph(g) /\ IsAncestry(g, A) /\ IsAncestry(g2, B)
        /\ DOMAIN g = 1 .. n /\ DOMAIN g2 = 1 .. n + 1
    BY <1>1, <1>3, <1>4, <1>6, <1>9, <1>13, <2>1, <2>2 DEF AncestorsInv
  <2>4. DOMAIN g \subseteq DOMAIN g2
    BY <1>6, <2>3
  <2>5. \A m \in DOMAIN g : g2[m].parents = g[m].parents
    BY <1>9, <2>1, <2>2, <2>3
  <2>6. \A m \in DOMAIN g : A[m] = B[m]
    <3>1. Graph(g) /\ IsAncestry(g, A) /\ IsAncestry(g2, B) /\ GrowsTo(g, g2)
      BY <2>3, <2>4, <2>5 DEF GrowsTo
    <3> QED  BY <3>1, AncestryExtends
  <2> QED  BY <2>3, <2>6
<1>15. B[n + 1] = Down(B, Range(hd))
  <2>1. IsAncestry(memos', B) /\ n + 1 \in DOMAIN memos'
    BY <1>4, <1>6, <1>9, <1>13 DEF AncestorsInv
  <2>2. B[n + 1] = ParentsIn(memos', n + 1)
                     \cup UNION {B[p] : p \in ParentsIn(memos', n + 1)}
    BY <2>1 DEF IsAncestry
  <2> QED  BY <1>10, <2>2 DEF Down
<1>16. B[n + 1] = Down(A, Range(hd))
  <2>1. \A m \in Range(hd) : A[m] = B[m]
    BY <1>11, <1>14
  <2> QED  BY <1>15, <2>1 DEF Down
<1>17. IsHead(n + 1, B, seen[h] \cup {n + 1}, <<n + 1>>)
  BY <1>6, <1>14, <1>16, HeadIssued
<1>18. ASSUME NEW g \in Holder PROVE IsHead(n + 1, B, seen[g], head[g])
  <2>1. IsHead(n, A, seen[g], head[g])
    BY <1>2, <1>3 DEF IInv, HeadsInv
  <2>2. n + 1 \in Nat /\ n <= n + 1
    BY <1>6
  <2> QED  BY <1>6, <1>14, <2>1, <2>2, HeadKept
<1>19. /\ DOMAIN head' = Holder /\ DOMAIN seen' = Holder
       /\ head' = [g \in Holder |-> head'[g]]
       /\ seen' = [g \in Holder |-> seen'[g]]
  BY DEF IInv, HeadsInv, Edit
<1>20. ASSUME NEW g \in Holder PROVE IsHead(n + 1, B, seen'[g], head'[g])
  BY <1>2, <1>17, <1>18 DEF IInv, HeadsInv, Edit
<1>21. HeadsInv'
  BY <1>4, <1>9, <1>19, <1>20 DEF HeadsInv
<1> QED  BY <1>12, <1>21 DEF IInv

LEMMA NextIInv == IInv /\ [Next]_vars => IInv'
<1> SUFFICES ASSUME IInv, [Next]_vars PROVE IInv'
  OBVIOUS
<1>1. CASE UNCHANGED vars
  <2>1. H!Ancestors' = H!Ancestors
    BY <1>1 DEF vars, H!Ancestors, H!Parents
  <2> QED  BY <1>1, <2>1 DEF vars, IInv, MemosInv, HeadsInv
<1>2. ASSUME NEW h \in Holder, NEW values \in {{}} \cup {{k} : k \in Key},
             Edit(h, values)
      PROVE  IInv'
  <2>1. values \in SUBSET Key
    OBVIOUS
  <2> QED  BY <1>2, <2>1, EditIInv
<1>3. ASSUME NEW h \in Holder, NEW m \in DOMAIN memos, ApplyMemo(h, m)
      PROVE  IInv'
  BY <1>3, ApplyMemoIInv
<1>4. ASSUME NEW h \in Holder, NEW other \in Holder, ApplyHead(h, other)
      PROVE  IInv'
  BY <1>4, ApplyHeadIInv
<1> QED  BY <1>1, <1>2, <1>3, <1>4 DEF Next

THEOREM EntityHeadIInv == Spec => []IInv
BY InitIInv, NextIInv, PTL DEF Spec

-----------------------------------------------------------------------------
(***************************************************************************)
(* What the invariant says of the holders.                                 *)
(***************************************************************************)

\* A head accounts for exactly what its holder was told of.
HistoryInv ==
  \A h \in Holder : H!History(head[h]) = seen[h]

LEMMA HistoryIsSeen == IInv => HistoryInv
<1> SUFFICES ASSUME IInv, NEW h \in Holder
             PROVE  H!History(head[h]) = seen[h]
  BY DEF HistoryInv
<1> DEFINE A == H!Ancestors
           hd == head[h]
<1>1. Dag(Len(memos), A) /\ IsHead(Len(memos), A, seen[h], hd)
  BY MemosHaveAncestors DEF AncestorsInv, IInv, HeadsInv
<1>2. H!History(hd) = Down(A, Range(hd))
  BY DEF H!History, H!ToSet, Down, Range
<1>3. Down(A, Range(hd)) = seen[h]
  BY <1>1, YoungestCover DEF IsHead
<1> QED  BY <1>2, <1>3

(***************************************************************************)
(* The memos, the heads and what the holders were told are what they are   *)
(* declared to be: heads point at issued memos only (Head::set_value and   *)
(* mut_apply_memoref, head/mod.rs).                                        *)
(***************************************************************************)
THEOREM EntityHeadTypeOK == Spec => []TypeOK
<1>1. IInv => TypeOK
  <2> SUFFICES ASSUME IInv PROVE TypeOK
    OBVIOUS
  <2>1. /\ memos \in Seq(MemoRecord) /\ DOMAIN memos = 1 .. Len(memos)
        /\ Len(memos) \in 1 .. MaxMemos
    BY MemosHaveAncestors DEF IInv, MemosInv, AncestorsInv
  <2>2. 1 .. Len(memos) \subseteq MemoId
    BY <2>1, BoundAssumption DEF MemoId
  <2>3. \A h \in Holder : /\ head[h] \in Seq(1 .. Len(memos))
                          /\ seen[h] \in SUBSET (1 .. Len(memos))
    BY DEF IInv, HeadsInv, IsHead
  <2>4. head \in [Holder -> Seq(DOMAIN memos)]
    BY <2>1, <2>3 DEF IInv, HeadsInv
  <2>5. seen \in [Holder -> SUBSET MemoId]
    BY <2>2, <2>3 DEF IInv, HeadsInv
  <2> QED  BY <2>1, <2>4, <2>5 DEF TypeOK
<1> QED  BY <1>1, EntityHeadIInv, PTL

(***************************************************************************)
(* Whatever the order and the repetitions in which a holder is told of     *)
(* memos, its head is exactly the frontier of what it was told, each memo  *)
(* once (Head::mut_apply_memoref).                                         *)
(***************************************************************************)
THEOREM EntityHeadIsFrontier == Spec => []HeadIsFrontier
<1>1. IInv => HeadIsFrontier
  <2> SUFFICES ASSUME IInv, NEW h \in Holder
               PROVE  /\ H!ToSet(head[h]) = Frontier(seen[h])
                      /\ Cardinality(H!ToSet(head[h])) = Len(head[h])
    BY DEF HeadIsFrontier
  <2> DEFINE n == Len(memos)
             hd == head[h]
             S == seen[h]
  <2>1. IsHead(n, H!Ancestors, S, hd)
    BY DEF IInv, HeadsInv
  <2>2. H!ToSet(hd) = Range(hd)
    BY DEF H!ToSet, Range
  <2>3. Frontier(S) = Youngest(H!Ancestors, S)
    BY DEF Frontier, Youngest, H!Descends
  <2>4. Cardinality(Range(hd)) = Len(hd)
    <3>1. hd \in Seq(1 .. n) /\ IsInjective(hd)
      BY <2>1 DEF IsHead
    <3> HIDE DEF hd, n
    <3> QED  BY <3>1, InjectiveLen
  <2> QED  BY <2>1, <2>2, <2>3, <2>4 DEF IsHead
<1> QED  BY <1>1, EntityHeadIInv, PTL

(***************************************************************************)
(* mut_apply answers true exactly when the memos of the receiving head     *)
(* change, for any two heads held: Stash::apply_head relies on it.         *)
(***************************************************************************)
THEOREM EntityHeadAppliedMeansChanged == Spec => []AppliedMeansChanged
<1>1. IInv => AppliedMeansChanged
  <2> SUFFICES ASSUME IInv, NEW h \in Holder, NEW other \in Holder
               PROVE  LET result == H!MutApply(head[h], head[other])
                      IN  result.applied
                            <=> H!ToSet(result.head) # H!ToSet(head[h])
    BY DEF AppliedMeansChanged
  <2> DEFINE n == Len(memos)
             A == H!Ancestors
             S == seen[h]
             T == S \cup Down(A, Range(head[other]))
             r == H!MutApply(head[h], head[other])
  <2>1. /\ Dag(n, A) /\ IsHead(n, A, S, head[h])
        /\ head[other] \in Seq(1 .. n)
    BY MemosHaveAncestors DEF AncestorsInv, IInv, HeadsInv, IsHead
  <2>2. /\ IsHead(n, A, T, r.head)
        /\ r.applied \in BOOLEAN /\ (r.applied <=> T # S)
    BY <2>1, MutApplyTold
  <2>3. T = Down(A, Range(r.head)) /\ S = Down(A, Range(head[h]))
    BY <2>1, <2>2, YoungestCover DEF IsHead
  <2>4. Range(r.head) = Youngest(A, T) /\ Range(head[h]) = Youngest(A, S)
    BY <2>1, <2>2 DEF IsHead
  <2>5. T # S <=> Range(r.head) # Range(head[h])
    BY <2>3, <2>4
  <2>6. H!ToSet(r.head) = Range(r.head) /\ H!ToSet(head[h]) = Range(head[h])
    BY DEF H!ToSet, Range
  <2> HIDE DEF r, T
  <2> QED  BY <2>2, <2>5, <2>6 DEF r
<1> QED  BY <1>1, EntityHeadIInv, PTL

(***************************************************************************)
(* What descends_or_contains says is contained is in the history of the    *)
(* head that stays, so the stash loses nothing by throwing it away.        *)
(***************************************************************************)
THEOREM EntityHeadContainmentIsSound == Spec => []ContainmentIsSound
<1>1. IInv => ContainmentIsSound
  <2> SUFFICES ASSUME IInv, NEW h \in Holder, NEW other \in Holder,
                      H!DescendsOrContains(head[h], head[other])
               PROVE  H!History(head[other]) \subseteq H!History(head[h])
    BY DEF ContainmentIsSound
  <2> DEFINE n == Len(memos)
             A == H!Ancestors
  <2>1. /\ Dag(n, A) /\ IsHead(n, A, seen[h], head[h])
        /\ IsHead(n, A, seen[other], head[other])
    BY MemosHaveAncestors DEF AncestorsInv, IInv, HeadsInv
  <2>2. /\ H!History(head[h]) = seen[h]
        /\ H!History(head[other]) = seen[other]
    BY HistoryIsSeen DEF HistoryInv
  <2>3. /\ seen[h] = Down(A, Range(head[h]))
        /\ seen[other] = Down(A, Range(head[other]))
    BY <2>1, YoungestCover DEF IsHead
  <2>4. Range(head[other]) \subseteq seen[h]
    <3> SUFFICES ASSUME NEW o \in Range(head[other]) PROVE o \in seen[h]
      OBVIOUS
    <3>1. /\ head[h] \in Seq(1 .. n) /\ head[h] # << >>
          /\ \A m \in Range(head[h]) : m = o \/ o \in A[m]
      BY <2>1 DEF H!DescendsOrContains, H!ToSet, H!Descends, H!NullHead, Range, IsHead
    <3>2. PICK m \in Range(head[h]) : TRUE
      <4>1. Range(head[h]) # {}
        BY <3>1, RangeOfEmpty
      <4> QED  BY <4>1
    <3> QED  BY <2>3, <3>1, <3>2 DEF Down
  <2>5. Down(A, Range(head[other])) \subseteq seen[h]
    BY <2>1, <2>4 DEF IsHead, Closed, Down
  <2> QED  BY <2>2, <2>3, <2>5
<1> QED  BY <1>1, EntityHeadIInv, PTL

(***************************************************************************)
(* No step takes anything out of the history of a head: neither an edit    *)
(* nor a merge forgets.                                                    *)
(***************************************************************************)
THEOREM EntityHeadNeverForgets == Spec => NeverForgets
<1>1. IInv /\ IInv' /\ [Next]_vars
        => [\A h \in Holder : H!History(head[h]) \subseteq H!History(head[h])']_vars
  <2> SUFFICES ASSUME IInv, IInv', Next, NEW h \in Holder
               PROVE  H!History(head[h]) \subseteq H!History(head[h])'
    OBVIOUS
  <2>1. H!History(head[h]) = seen[h]
    BY HistoryIsSeen DEF HistoryInv
  <2>2. H!History(head[h])' = seen'[h]
    <3>1. IInv' => HistoryInv'
      BY HistoryIsSeen, PTL
    <3> QED  BY <3>1 DEF HistoryInv
  <2>3. seen[h] \subseteq seen'[h]
    <3>1. DOMAIN seen = Holder
      BY DEF IInv, HeadsInv
    <3>2. ASSUME NEW g \in Holder, NEW values, Edit(g, values) PROVE seen[h] \subseteq seen'[h]
      BY <3>1, <3>2 DEF Edit
    <3>3. ASSUME NEW g \in Holder, NEW m, ApplyMemo(g, m) PROVE seen[h] \subseteq seen'[h]
      BY <3>1, <3>3 DEF ApplyMemo
    <3>4. ASSUME NEW g \in Holder, NEW other, ApplyHead(g, other) PROVE seen[h] \subseteq seen'[h]
      BY <3>1, <3>4 DEF ApplyHead
    <3> QED  BY <3>2, <3>3, <3>4 DEF Next
  <2> QED  BY <2>1, <2>2, <2>3
<1> QED  BY <1>1, EntityHeadIInv, PTL DEF Spec, NeverForgets

-----------------------------------------------------------------------------
(***************************************************************************)
(* The causal stream and get_value.                                        *)
(***************************************************************************)

\* f is the first k sequences of seqs put together, the second on at least.
IsFlat(seqs, f, k) ==
  f = [i \in 1 .. k |-> IF i = 1 THEN seqs[i] ELSE f[i - 1] \o seqs[i]]

LEMMA FlatExists ==
  ASSUME NEW seqs, NEW n \in Nat
  PROVE  \E f : IsFlat(seqs, f, n)
<1> DEFINE Without == {k \in 0 .. n : ~ \E f : IsFlat(seqs, f, k)}
<1>1. CASE Without = {}
  BY <1>1
<1>2. CASE Without # {}
  <2>1. PICK k \in Without : \A j \in Without : k <= j
    <3>1. Without \in SUBSET Nat
      OBVIOUS
    <3> HIDE DEF Without
    <3> QED  BY <1>2, <3>1, Least
  <2>2. k # 0
    <3>1. IsFlat(seqs, [i \in 1 .. 0 |-> {}], 0)
      BY DEF IsFlat
    <3> QED  BY <3>1, <2>1
  <2>3. k - 1 \in 0 .. n /\ ~ (k <= k - 1) /\ k \in 1 .. n
    BY <2>1, <2>2
  <2>4. PICK f : IsFlat(seqs, f, k - 1)
    BY <2>1, <2>3
  <2> DEFINE last == IF k = 1 THEN seqs[k] ELSE f[k - 1] \o seqs[k]
             g == [i \in 1 .. k |-> IF i = k THEN last ELSE f[i]]
  <2>5. ASSUME NEW i \in 1 .. k
        PROVE  g[i] = IF i = 1 THEN seqs[i] ELSE g[i - 1] \o seqs[i]
    <3>1. CASE i = k
      <4>1. i # 1 => g[i - 1] = f[i - 1]
        BY <2>3, <3>1
      <4> QED  BY <3>1, <4>1
    <3>2. CASE i # k
      <4>1. i \in 1 .. k - 1 /\ (i # 1 => i - 1 \in 1 .. k /\ i - 1 # k)
        BY <2>3, <3>2
      <4>2. f[i] = IF i = 1 THEN seqs[i] ELSE f[i - 1] \o seqs[i]
        BY <2>4, <4>1 DEF IsFlat
      <4>3. g[i] = f[i] /\ (i # 1 => g[i - 1] = f[i - 1])
        BY <3>2, <4>1
      <4> QED  BY <4>2, <4>3
    <3> QED  BY <3>1, <3>2
  <2>6. IsFlat(seqs, g, k)
    <3>1. g = [i \in 1 .. k |-> g[i]]
      OBVIOUS
    <3> HIDE DEF g
    <3> QED  BY <2>5, <3>1 DEF IsFlat
  <2> HIDE DEF g
  <2> QED  BY <2>1, <2>6
<1> QED  BY <1>1, <1>2

\* Sequences of elements of S, put together, are one.
LEMMA Flattened ==
  ASSUME NEW S, NEW seqs, Len(seqs) \in Nat,
         Len(seqs) = 0 => seqs = << >>,
         \A i \in 1 .. Len(seqs) : seqs[i] \in Seq(S)
  PROVE  H!FlattenSeq(seqs) \in Seq(S)
<1>1. CASE Len(seqs) = 0
  BY <1>1 DEF H!FlattenSeq
<1>2. CASE Len(seqs) # 0
  <2> DEFINE f == CHOOSE flatten : flatten = [i \in 1 .. Len(seqs) |->
                    IF i = 1 THEN seqs[i] ELSE flatten[i - 1] \o seqs[i]]
  <2>1. PICK g : IsFlat(seqs, g, Len(seqs))
    BY FlatExists
  <2>2. \E flatten : flatten = [i \in 1 .. Len(seqs) |->
                    IF i = 1 THEN seqs[i] ELSE flatten[i - 1] \o seqs[i]]
    BY <2>1, Zenon DEF IsFlat
  <2>3. f = [i \in 1 .. Len(seqs) |->
               IF i = 1 THEN seqs[i] ELSE f[i - 1] \o seqs[i]]
    BY <2>2, Zenon
  <2>4. H!FlattenSeq(seqs) = f[Len(seqs)]
    BY <1>2 DEF H!FlattenSeq
  <2> HIDE DEF f
  <2> DEFINE Bad == {i \in 1 .. Len(seqs) : f[i] \notin Seq(S)}
  <2>5. Bad = {}
    <3> SUFFICES ASSUME Bad # {} PROVE FALSE
      OBVIOUS
    <3>1. PICK i \in Bad : \A j \in Bad : i <= j
      <4>1. Bad \in SUBSET Nat
        OBVIOUS
      <4> HIDE DEF Bad
      <4> QED  BY <4>1, Least
    <3>2. i \in 1 .. Len(seqs) /\ f[i] = IF i = 1 THEN seqs[i] ELSE f[i - 1] \o seqs[i]
      BY <2>3
    <3>3. i # 1
      BY <3>1, <3>2
    <3>4. i - 1 \in 1 .. Len(seqs) /\ ~ (i <= i - 1)
      BY <3>2, <3>3
    <3>5. f[i - 1] \in Seq(S) /\ seqs[i] \in Seq(S)
      BY <3>1, <3>2, <3>4
    <3>6. f[i - 1] \o seqs[i] \in Seq(S)
      BY <3>5, ConcatProperties
    <3> QED  BY <3>1, <3>2, <3>3, <3>6
  <2>6. Len(seqs) \in 1 .. Len(seqs)
    BY <1>2
  <2> QED  BY <2>4, <2>5, <2>6
<1> QED  BY <1>1, <1>2

\* The parents of all memos of a generation.
NextGeneration(gen) ==
  H!FlattenSeq([i \in DOMAIN gen |-> memos[gen[i]].parents])

LEMMA NextGenerationOlder ==
  ASSUME MemosInv, NEW k \in 0 .. Len(memos), NEW gen \in Seq(1 .. k)
  PROVE  NextGeneration(gen) \in Seq(1 .. k - 1)
<1> DEFINE seqs == [i \in DOMAIN gen |-> memos[gen[i]].parents]
<1>1. /\ Len(memos) \in Nat /\ k \in Nat
      /\ Len(gen) \in Nat /\ DOMAIN gen = 1 .. Len(gen)
      /\ \A i \in 1 .. Len(gen) : gen[i] \in 1 .. k
  BY LenProperties DEF MemosInv
<1>2. Len(seqs) = Len(gen)
  <2>1. seqs = [i \in 1 .. Len(gen) |-> memos[gen[i]].parents]
    BY <1>1
  <2> HIDE DEF seqs
  <2> QED  BY <1>1, <2>1
<1>3. Len(seqs) = 0 => seqs = << >>
  <2> SUFFICES ASSUME Len(gen) = 0 PROVE seqs = << >>
    BY <1>2
  <2>1. DOMAIN gen = {}
    BY <1>1
  <2> QED  BY <2>1
<1>4. ASSUME NEW i \in 1 .. Len(seqs) PROVE seqs[i] \in Seq(1 .. k - 1)
  <2> DEFINE m == gen[i]
             ps == memos[m].parents
  <2>1. seqs[i] = ps /\ m \in 1 .. k /\ m \in 1 .. Len(memos)
    BY <1>1, <1>2
  <2>2. memos[m] \in MemoRecord
    BY <2>1, LenProperties DEF MemosInv
  <2>3. ps \in Seq(MemoId)
    BY <2>2 DEF MemoRecord
  <2>4. \A j \in DOMAIN ps : ps[j] \in 1 .. m - 1
    BY <2>1 DEF MemosInv, ParentsIn
  <2>5. 1 .. m - 1 \subseteq 1 .. k - 1
    BY <1>1, <2>1
  <2> HIDE DEF ps
  <2>6. PICK n \in Nat : ps \in [1 .. n -> MemoId]
    BY <2>3, SeqDef
  <2>7. ps \in [1 .. n -> 1 .. k - 1]
    BY <2>4, <2>5, <2>6
  <2>8. ps \in Seq(1 .. k - 1)
    BY <2>6, <2>7, SeqDef
  <2> QED  BY <2>1, <2>8
<1> HIDE DEF seqs
<1>5. Len(seqs) \in Nat
  BY <1>1, <1>2
<1>6. H!FlattenSeq(seqs) \in Seq(1 .. k - 1)
  BY <1>3, <1>4, <1>5, Flattened
<1> QED  BY <1>6 DEF seqs, NextGeneration

\* f streams the generations of memos up to k.
IsStream(f, k) ==
  f = [gen \in Seq(1 .. k) |->
         IF gen = << >> THEN << >> ELSE gen \o f[NextGeneration(gen)]]

LEMMA StreamExists ==
  ASSUME MemosInv
  PROVE  \E f : IsStream(f, Len(memos))
<1> DEFINE n == Len(memos)
           Without == {k \in 0 .. n : ~ \E f : IsStream(f, k)}
<1>1. n \in Nat
  BY DEF MemosInv
<1>2. CASE Without = {}
  <2>1. n \in 0 .. n
    BY <1>1
  <2> QED  BY <1>2, <2>1
<1>3. CASE Without # {}
  <2>1. PICK k \in Without : \A j \in Without : k <= j
    <3>1. Without \in SUBSET Nat
      OBVIOUS
    <3> HIDE DEF Without
    <3> QED  BY <1>3, <3>1, Least
  <2>2. k # 0
    <3>1. \A gen \in Seq(1 .. 0) : gen = << >>
      <4> SUFFICES ASSUME NEW gen \in Seq(1 .. 0) PROVE gen = << >>
        OBVIOUS
      <4>1. DOMAIN gen = 1 .. Len(gen) /\ Len(gen) \in Nat
            /\ \A i \in 1 .. Len(gen) : gen[i] \in 1 .. 0
        BY LenProperties
      <4>2. Len(gen) = 0
        <5> SUFFICES ASSUME Len(gen) # 0 PROVE FALSE
          OBVIOUS
        <5>1. 1 \in 1 .. Len(gen)
          BY <4>1
        <5>2. gen[1] \in 1 .. 0
          BY <4>1, <5>1
        <5> QED  BY <5>2
      <4> QED  BY <4>2, EmptySeq
    <3> DEFINE f == [gen \in Seq(1 .. 0) |-> << >>]
    <3>2. f = [gen \in Seq(1 .. 0) |->
                 IF gen = << >> THEN << >> ELSE gen \o f[NextGeneration(gen)]]
      BY <3>1
    <3>3. IsStream(f, 0)
      BY <3>2 DEF IsStream
    <3> QED  BY <3>3, <2>1
  <2>3. k - 1 \in 0 .. n /\ ~ (k <= k - 1) /\ k \in 1 .. n /\ k - 1 <= k
    BY <1>1, <2>1, <2>2
  <2>4. PICK f : IsStream(f, k - 1)
    BY <2>1, <2>3
  <2> DEFINE g == [gen \in Seq(1 .. k) |->
                     IF gen = << >> THEN << >> ELSE gen \o f[NextGeneration(gen)]]
  <2>5. ASSUME NEW gen \in Seq(1 .. k) PROVE f[NextGeneration(gen)] = g[NextGeneration(gen)]
    <3> DEFINE next == NextGeneration(gen)
    <3>1. next \in Seq(1 .. k - 1)
      BY <2>3, NextGenerationOlder
    <3> HIDE DEF next
    <3>2. next \in Seq(1 .. k)
      <4>1. 1 .. k - 1 \subseteq 1 .. k
        BY <2>3
      <4> QED  BY <3>1, <4>1, SeqDef
    <3>3. f[next] = IF next = << >> THEN << >> ELSE next \o f[NextGeneration(next)]
      BY <2>4, <3>1 DEF IsStream
    <3>4. g[next] = IF next = << >> THEN << >> ELSE next \o f[NextGeneration(next)]
      BY <3>2
    <3> QED  BY <3>3, <3>4 DEF next
  <2>6. IsStream(g, k)
    <3>1. \A gen \in Seq(1 .. k) :
            g[gen] = IF gen = << >> THEN << >> ELSE gen \o g[NextGeneration(gen)]
      BY <2>5
    <3>2. g = [gen \in Seq(1 .. k) |-> g[gen]]
      OBVIOUS
    <3> HIDE DEF g
    <3> QED  BY <3>1, <3>2 DEF IsStream
  <2> QED  BY <2>1, <2>6
<1> QED  BY <1>2, <1>3

\* The stream of a head begins with the head.
LEMMA StreamBegins ==
  ASSUME MemosInv, NEW hd \in Seq(1 .. Len(memos)), hd # << >>
  PROVE  \E rest \in Seq(1 .. Len(memos)) : H!CausalMemoStream[hd] = hd \o rest
<1> DEFINE n == Len(memos)
           f == H!CausalMemoStream
<1>1. n \in Nat /\ DOMAIN memos = 1 .. n
  BY LenProperties DEF MemosInv
<1>2. IsStream(f, n)
  <2>1. f = CHOOSE g : IsStream(g, n)
    BY <1>1 DEF H!CausalMemoStream, IsStream, NextGeneration
  <2> QED  BY <2>1, StreamExists
<1> HIDE DEF f
<1>3. \A gen \in Seq(1 .. n) :
        f[gen] = IF gen = << >> THEN << >> ELSE gen \o f[NextGeneration(gen)]
  BY <1>2 DEF IsStream
<1> DEFINE Bad == {k \in 0 .. n : \E gen \in Seq(1 .. k) : f[gen] \notin Seq(1 .. n)}
<1>4. Bad = {}
  <2> SUFFICES ASSUME Bad # {} PROVE FALSE
    OBVIOUS
  <2>1. PICK k \in Bad : \A j \in Bad : k <= j
    <3>1. Bad \in SUBSET Nat
      OBVIOUS
    <3> HIDE DEF Bad
    <3> QED  BY <3>1, Least
  <2>2. PICK gen \in Seq(1 .. k) : f[gen] \notin Seq(1 .. n)
    BY <2>1
  <2>3. k \in 0 .. n /\ gen \in Seq(1 .. n)
    <3>1. 1 .. k \subseteq 1 .. n
      BY <1>1, <2>1
    <3> QED  BY <2>1, <3>1, SeqDef
  <2>4. gen # << >>
    BY <1>3, <2>2, <2>3
  <2>5. NextGeneration(gen) \in Seq(1 .. k - 1)
    BY <2>3, NextGenerationOlder
  <2>6. k # 0
    <3> SUFFICES ASSUME k = 0 PROVE FALSE
      OBVIOUS
    <3>1. Len(gen) \in Nat /\ Len(gen) # 0 /\ \A i \in 1 .. Len(gen) : gen[i] \in 1 .. k
      BY <2>4, LenProperties, EmptySeq
    <3>2. 1 \in 1 .. Len(gen)
      BY <3>1
    <3>3. gen[1] \in 1 .. 0
      BY <3>1, <3>2
    <3> QED  BY <3>3
  <2>7. k - 1 \in 0 .. n /\ ~ (k <= k - 1)
    BY <1>1, <2>3, <2>6
  <2>8. f[NextGeneration(gen)] \in Seq(1 .. n)
    BY <2>1, <2>5, <2>7
  <2>9. gen \o f[NextGeneration(gen)] \in Seq(1 .. n)
    BY <2>3, <2>8, ConcatProperties
  <2> QED  BY <1>3, <2>2, <2>3, <2>4, <2>9
<1>5. NextGeneration(hd) \in Seq(1 .. n - 1) /\ n \in 0 .. n
  <2>1. n \in 0 .. n
    BY <1>1
  <2> QED  BY <2>1, NextGenerationOlder
<1>6. n # 0 /\ n - 1 \in 0 .. n
  BY <1>1 DEF MemosInv
<1>7. f[NextGeneration(hd)] \in Seq(1 .. n)
  BY <1>4, <1>5, <1>6
<1> QED  BY <1>3, <1>7 DEF f

\* Only the memo that made the entity is whole, and only it has no parents.
RootedInv ==
  \A m \in 1 .. Len(memos) :
    /\ memos[m].full => m = 1
    /\ m # 1 => memos[m].parents # << >>

LEMMA InitRooted == Init => RootedInv
<1> SUFFICES ASSUME Init PROVE RootedInv
  OBVIOUS
<1>1. PICK memo : memos = <<memo>>
  BY DEF Init
<1>2. Len(memos) = 1
  BY <1>1
<1> QED  BY <1>2 DEF RootedInv

LEMMA NextRooted == IInv /\ RootedInv /\ [Next]_vars => RootedInv'
<1> SUFFICES ASSUME IInv, RootedInv, [Next]_vars PROVE RootedInv'
  OBVIOUS
<1>1. CASE memos' = memos
  BY <1>1 DEF RootedInv
<1>2. ASSUME NEW h \in Holder, NEW values \in {{}} \cup {{k} : k \in Key},
             Edit(h, values)
      PROVE  RootedInv'
  <2> DEFINE n == Len(memos)
             new == NewMemo(head[h], FALSE, values)
  <2>1. /\ memos' = Append(memos, new) /\ new.full = FALSE
        /\ new.parents # << >>
    BY <1>2 DEF Edit, NewMemo, H!NullHead
  <2>2. memos \in Seq(MemoRecord) /\ n \in Nat
    BY LenProperties DEF IInv, MemosInv
  <2> HIDE DEF new
  <2>3. /\ Len(memos') = n + 1
        /\ \A m \in 1 .. n : memos'[m] = memos[m]
        /\ memos'[n + 1] = new
    BY <2>1, <2>2
  <2>4. \A m \in 1 .. n + 1 : m \in 1 .. n \/ m = n + 1
    BY <2>2
  <2> QED  BY <2>1, <2>3, <2>4 DEF RootedInv
<1> QED  BY <1>1, <1>2 DEF Next, ApplyMemo, ApplyHead, vars

\* Every other memo descends from the one that made the entity.
LEMMA RootIsAncestor ==
  ASSUME MemosInv, RootedInv, NEW m \in 1 .. Len(memos), m # 1
  PROVE  1 \in H!Ancestors[m]
<1> DEFINE n == Len(memos)
           A == H!Ancestors
           Bad == {k \in 1 .. n : k # 1 /\ 1 \notin A[k]}
<1>1. /\ n \in Nat /\ DOMAIN memos = 1 .. n /\ IsAncestry(memos, A)
  BY MemosHaveAncestors DEF AncestorsInv
<1> HIDE DEF A, n
<1>2. Bad = {}
  <2> SUFFICES ASSUME Bad # {} PROVE FALSE
    OBVIOUS
  <2>1. PICK k \in Bad : \A j \in Bad : k <= j
    <3>1. Bad \in SUBSET Nat
      OBVIOUS
    <3> HIDE DEF Bad
    <3> QED  BY <3>1, Least
  <2>2. k \in 1 .. n /\ k # 1
    OBVIOUS
  <2>3. memos[k].parents \in Seq(MemoId) /\ memos[k].parents # << >>
    <3>1. memos[k] \in MemoRecord
      BY <2>2, LenProperties DEF MemosInv, n
    <3> QED  BY <2>2, <3>1 DEF MemoRecord, RootedInv, n
  <2>4. PICK p \in ParentsIn(memos, k) : TRUE
    <3>1. 1 \in DOMAIN memos[k].parents
      BY <2>3, LenProperties, EmptySeq
    <3> QED  BY <3>1 DEF ParentsIn
  <2>5. A[k] = ParentsIn(memos, k) \cup UNION {A[q] : q \in ParentsIn(memos, k)}
    BY <1>1, <2>2 DEF IsAncestry
  <2>6. p \in 1 .. k - 1
    BY <2>2, <2>4 DEF MemosInv, n
  <2>7. p \in 1 .. n /\ ~ (k <= p)
    BY <1>1, <2>2, <2>6
  <2>8. p = 1 \/ 1 \in A[p]
    BY <2>1, <2>7
  <2> QED  BY <2>4, <2>5, <2>8
<1> QED  BY <1>2 DEF A, n

(***************************************************************************)
(* get_value answers with a memo of the head itself whenever one of them   *)
(* assigns the key: nothing older is looked at, and no whole memo ends the *)
(* search before (Head::get_value).                                        *)
(***************************************************************************)
THEOREM EntityHeadValueWins == Spec => []HeadValueWins
<1>1. IInv /\ RootedInv => HeadValueWins
  <2> SUFFICES ASSUME IInv, RootedInv, NEW h \in Holder, NEW k \in Key,
                      NEW m \in H!ToSet(head[h]), k \in memos[m].values
               PROVE  H!GetValue(head[h], k) \in H!ToSet(head[h])
    BY DEF HeadValueWins
  <2> DEFINE n == Len(memos)
             A == H!Ancestors
             hd == head[h]
             stream == H!CausalMemoStream[hd]
             I == {i \in 1 .. Len(stream) : \/ k \in memos[stream[i]].values
                                            \/ memos[stream[i]].full}
             hit == IF I # {} THEN Min(I) ELSE 0
  <2>1. H!GetValue(hd, k) = IF hit # 0 /\ k \in memos[stream[hit]].values
                            THEN stream[hit] ELSE 0
    BY DEF H!GetValue, H!SelectInSeq, H!Min, Min
  <2>2. /\ IsHead(n, A, seen[h], hd) /\ n \in Nat
    BY DEF IInv, HeadsInv, MemosInv
  <2>3. H!ToSet(hd) = Range(hd)
    BY DEF H!ToSet, Range
  <2>4. /\ hd \in Seq(1 .. n) /\ Range(hd) = Youngest(A, seen[h])
        /\ Len(hd) \in Nat /\ DOMAIN hd = 1 .. Len(hd)
        /\ \A i \in 1 .. Len(hd) : hd[i] \in 1 .. n
    BY <2>2, LenProperties DEF IsHead
  <2> HIDE DEF hd
  <2>5. PICK p \in 1 .. Len(hd) : hd[p] = m
    BY <2>3, <2>4 DEF Range, hd
  <2>6. PICK rest \in Seq(1 .. n) : stream = hd \o rest
    <3>1. hd # << >>
      BY <2>4, <2>5
    <3> QED  BY <2>4, <3>1, StreamBegins DEF IInv
  <2> HIDE DEF stream
  <2>7. \A i \in 1 .. Len(hd) : i \in 1 .. Len(stream) /\ stream[i] = hd[i]
    <3>1. Len(rest) \in Nat
      BY LenProperties
    <3>2. /\ Len(hd \o rest) = Len(hd) + Len(rest)
          /\ \A i \in 1 .. Len(hd) + Len(rest) :
               (hd \o rest)[i] = IF i <= Len(hd) THEN hd[i] ELSE rest[i - Len(hd)]
      BY <2>4, ConcatProperties
    <3>3. \A i \in 1 .. Len(hd) : i \in 1 .. Len(hd) + Len(rest) /\ i <= Len(hd)
      BY <2>4, <3>1
    <3> QED  BY <2>6, <3>2, <3>3
  <2>8. p \in I
    BY <2>5, <2>7
  <2>9. hit \in I /\ hit <= p
    <3> DEFINE Places == 1 .. Len(stream)
    <3>1. Places \subseteq Nat
      <4>1. Len(stream) \in Nat
        BY <2>4, <2>6, ConcatProperties, LenProperties
      <4> QED  BY <4>1
    <3>2. I \subseteq Places
      OBVIOUS
    <3>3. I \in SUBSET Nat /\ I # {}
      <4> HIDE DEF I, Places
      <4> QED  BY <2>8, <3>1, <3>2
    <3> HIDE DEF I
    <3> QED  BY <2>8, <3>3, Least
  <2> HIDE DEF hit
  <2>10. hit \in 1 .. Len(hd) /\ stream[hit] = hd[hit] /\ hd[hit] \in Range(hd)
    <3>1. hit \in Nat /\ hit >= 1
      BY <2>9
    <3>2. hit \in 1 .. Len(hd)
      BY <2>4, <2>9, <3>1
    <3> QED  BY <2>4, <2>7, <3>2 DEF Range
  <2>11. k \in memos[hd[hit]].values
    <3> SUFFICES ASSUME k \notin memos[hd[hit]].values PROVE FALSE
      OBVIOUS
    <3>1. memos[hd[hit]].full
      BY <2>9, <2>10
    <3>2. hd[hit] = 1
      BY <2>4, <2>10, <3>1 DEF RootedInv
    <3>3. m # 1 /\ m \in 1 .. n
      BY <2>4, <2>5, <3>2
    <3>4. 1 \in A[m]
      BY <3>3, RootIsAncestor DEF IInv
    <3>5. 1 \in Youngest(A, seen[h]) /\ m \in Youngest(A, seen[h])
      BY <2>3, <2>4, <2>10, <3>2 DEF hd
    <3> QED  BY <3>4, <3>5 DEF Youngest
  <2>12. hit # 0
    BY <2>10
  <2> QED  BY <2>1, <2>3, <2>10, <2>11, <2>12 DEF hd
<1>2. Spec => []RootedInv
  BY InitRooted, NextRooted, EntityHeadIInv, PTL DEF Spec
<1> QED  BY <1>1, <1>2, EntityHeadIInv, PTL

-----------------------------------------------------------------------------
(***************************************************************************)
(* Sums.                                                                   *)
(***************************************************************************)

\* s[j] is the sum of the first j of x[1], ..., x[n].
IsSum(x, n, s) ==
  /\ s \in [0 .. n -> Nat]
  /\ s[0] = 0
  /\ \A j \in 1 .. n : x[j] \in Nat /\ s[j] = s[j - 1] + x[j]

Total(x, n, t) == \E s : IsSum(x, n, s) /\ s[n] = t

LEMMA TotalExists ==
  ASSUME NEW n \in Nat, NEW x, \A j \in 1 .. n : x[j] \in Nat
  PROVE  \E t \in Nat : Total(x, n, t)
<1> DEFINE Without == {k \in 0 .. n : ~ \E s : IsSum(x, k, s)}
<1>1. CASE Without = {}
  <2>1. n \in 0 .. n
    OBVIOUS
  <2>2. PICK s : IsSum(x, n, s)
    BY <1>1, <2>1
  <2>3. s[n] \in Nat
    BY <2>1, <2>2 DEF IsSum
  <2> QED  BY <2>2, <2>3 DEF Total
<1>2. CASE Without # {}
  <2>1. PICK k \in Without : \A j \in Without : k <= j
    <3>1. Without \in SUBSET Nat
      OBVIOUS
    <3> HIDE DEF Without
    <3> QED  BY <1>2, <3>1, Least
  <2>2. k # 0
    <3>1. IsSum(x, 0, [j \in 0 .. 0 |-> 0])
      BY DEF IsSum
    <3> QED  BY <2>1, <3>1
  <2>3. k \in 1 .. n /\ k - 1 \in 0 .. n /\ ~ (k <= k - 1)
    BY <2>1, <2>2
  <2>4. PICK s : IsSum(x, k - 1, s)
    BY <2>1, <2>3
  <2> DEFINE z == [j \in 0 .. k |-> IF j = k THEN s[k - 1] + x[k] ELSE s[j]]
  <2>5. s[k - 1] \in Nat /\ x[k] \in Nat /\ \A j \in 0 .. k - 1 : s[j] \in Nat
    BY <2>3, <2>4 DEF IsSum
  <2>6. z \in [0 .. k -> Nat] /\ z[0] = 0
    BY <2>3, <2>4, <2>5 DEF IsSum
  <2>7. ASSUME NEW j \in 1 .. k PROVE z[j] = z[j - 1] + x[j]
    <3>1. CASE j = k
      BY <2>3, <3>1
    <3>2. CASE j # k
      <4>1. j \in 1 .. k - 1 /\ j - 1 \in 0 .. k - 1 /\ j - 1 # k
        BY <2>3, <3>2
      <4> QED  BY <2>3, <2>4, <3>2, <4>1 DEF IsSum
    <3> QED  BY <3>1, <3>2
  <2>8. \A j \in 1 .. k : x[j] \in Nat
    BY <2>3
  <2> HIDE DEF z
  <2>9. IsSum(x, k, z)
    BY <2>6, <2>7, <2>8 DEF IsSum
  <2> QED  BY <2>1, <2>9
<1> QED  BY <1>1, <1>2

\* The sum of two sequences one after the other.
LEMMA TotalOfBoth ==
  ASSUME NEW n \in Nat, NEW m \in Nat, NEW x, NEW y, NEW z, NEW t, NEW u,
         Total(x, n, t), Total(y, m, u),
         \A j \in 1 .. n : z[j] = x[j],
         \A j \in 1 .. m : z[n + j] = y[j]
  PROVE  Total(z, n + m, t + u)
<1>1. PICK r : IsSum(x, n, r) /\ r[n] = t
  BY DEF Total
<1>2. PICK s : IsSum(y, m, s) /\ s[m] = u
  BY DEF Total
<1> DEFINE w == [j \in 0 .. n + m |-> IF j <= n THEN r[j] ELSE t + s[j - n]]
<1>3. t \in Nat /\ \A j \in 0 .. n : r[j] \in Nat
  BY <1>1 DEF IsSum
<1>4. \A j \in 0 .. m : s[j] \in Nat
  BY <1>2 DEF IsSum
<1>5. w \in [0 .. n + m -> Nat] /\ w[0] = 0
  <2>1. ASSUME NEW j \in 0 .. n + m PROVE w[j] \in Nat
    <3>1. CASE j <= n
      BY <1>3, <3>1
    <3>2. CASE ~(j <= n)
      <4>1. j - n \in 0 .. m
        BY <3>2
      <4>2. s[j - n] \in Nat
        BY <1>4, <4>1
      <4> QED  BY <1>3, <3>2, <4>2
    <3> QED  BY <3>1, <3>2
  <2> QED  BY <1>1, <2>1 DEF IsSum
<1>6. ASSUME NEW j \in 1 .. n + m PROVE z[j] \in Nat /\ w[j] = w[j - 1] + z[j]
  <2>1. CASE j <= n
    <3>1. j \in 1 .. n /\ j - 1 <= n /\ j - 1 \in 0 .. n + m
      BY <2>1
    <3>2. w[j] = r[j] /\ w[j - 1] = r[j - 1] /\ z[j] = x[j]
      BY <2>1, <3>1
    <3>3. x[j] \in Nat /\ r[j] = r[j - 1] + x[j]
      BY <1>1, <3>1 DEF IsSum
    <3> HIDE DEF w
    <3> QED  BY <3>2, <3>3
  <2>2. CASE j = n + 1
    <3>1. 1 \in 1 .. m /\ j - 1 = n /\ n \in 0 .. n + m /\ ~(j <= n) /\ j - n = 1
      BY <2>2
    <3>2. y[1] \in Nat /\ s[1] = s[0] + y[1] /\ s[0] = 0
      BY <1>2, <3>1 DEF IsSum
    <3>3. z[j] = y[1]
      BY <2>2, <3>1
    <3>4. w[j] = t + s[1] /\ w[j - 1] = t
      BY <1>1, <2>2, <3>1
    <3> QED  BY <1>3, <3>2, <3>3, <3>4
  <2>3. CASE j > n + 1
    <3> DEFINE i == j - n
    <3>1. i \in 1 .. m /\ i - 1 \in 0 .. m /\ ~(j <= n) /\ ~(j - 1 <= n)
          /\ (j - 1) - n = i - 1 /\ j - 1 \in 0 .. n + m /\ j = n + i
      BY <2>3
    <3>2. y[i] \in Nat /\ s[i] = s[i - 1] + y[i] /\ s[i - 1] \in Nat
      BY <1>2, <1>4, <3>1 DEF IsSum
    <3>3. z[j] = y[i]
      BY <3>1
    <3>4. w[j] = t + s[i] /\ w[j - 1] = t + s[i - 1]
      BY <3>1
    <3> HIDE DEF i, w
    <3> QED  BY <1>3, <3>2, <3>3, <3>4
  <2> QED  BY <2>1, <2>2, <2>3
<1>7. w[n + m] = t + u
  <2>1. CASE m = 0
    BY <1>1, <1>2, <1>3, <2>1 DEF IsSum
  <2>2. CASE m # 0
    <3>1. ~(n + m <= n) /\ (n + m) - n = m /\ n + m \in 0 .. n + m
      BY <2>2
    <3> QED  BY <1>2, <3>1
  <2> QED  BY <2>1, <2>2
<1> HIDE DEF w
<1> QED  BY <1>5, <1>6, <1>7 DEF IsSum, Total

\* The sum when one number becomes another.
LEMMA TotalWith ==
  ASSUME NEW n \in Nat, NEW x, NEW y, NEW t, NEW i \in 1 .. n,
         Total(x, n, t), y[i] \in Nat,
         \A j \in 1 .. n : j # i => y[j] = x[j]
  PROVE  t - x[i] \in Nat /\ Total(y, n, (t - x[i]) + y[i])
<1>1. PICK s : IsSum(x, n, s) /\ s[n] = t
  BY DEF Total
<1>2. /\ \A j \in 0 .. n : s[j] \in Nat
      /\ \A j \in 1 .. n : x[j] \in Nat /\ s[j] = s[j - 1] + x[j]
  BY <1>1 DEF IsSum
<1> DEFINE a == x[i]
           b == y[i]
<1>3. a \in Nat /\ b \in Nat
  BY <1>2
<1> DEFINE Low == {j \in i .. n : s[j] < a}
<1>4. Low = {}
  <2> SUFFICES ASSUME Low # {} PROVE FALSE
    OBVIOUS
  <2>1. PICK j \in Low : \A k \in Low : j <= k
    <3>1. Low \in SUBSET Nat
      OBVIOUS
    <3> HIDE DEF Low
    <3> QED  BY <3>1, Least
  <2>2. CASE j = i
    <3>1. s[i] = s[i - 1] + a /\ i - 1 \in 0 .. n
      BY <1>2
    <3>2. s[i - 1] \in Nat
      BY <1>2, <3>1
    <3> HIDE DEF a
    <3> QED  BY <1>3, <2>1, <2>2, <3>1, <3>2
  <2>3. CASE j # i
    <3>1. j - 1 \in i .. n /\ j \in 1 .. n /\ j - 1 \in 0 .. n /\ ~ (j <= j - 1)
      BY <2>1, <2>3
    <3>2. s[j] = s[j - 1] + x[j] /\ x[j] \in Nat /\ s[j - 1] \in Nat
      BY <1>2, <3>1
    <3>3. ~(s[j - 1] < a)
      BY <2>1, <3>1
    <3> HIDE DEF a
    <3> QED  BY <1>3, <2>1, <3>2, <3>3
  <2> QED  BY <2>2, <2>3
<1>5. \A j \in i .. n : s[j] - a \in Nat
  <2> SUFFICES ASSUME NEW j \in i .. n PROVE s[j] - a \in Nat
    OBVIOUS
  <2>1. ~ (s[j] < a) /\ j \in 0 .. n
    BY <1>4
  <2>2. s[j] \in Nat
    BY <1>2, <2>1
  <2> HIDE DEF a
  <2> QED  BY <1>3, <2>1, <2>2
<1> DEFINE w == [j \in 0 .. n |-> IF j < i THEN s[j] ELSE (s[j] - a) + b]
<1>6. w \in [0 .. n -> Nat] /\ w[0] = 0
  <2>1. ASSUME NEW j \in 0 .. n PROVE w[j] \in Nat
    <3>1. CASE j < i
      BY <1>2, <3>1
    <3>2. CASE ~(j < i)
      <4>1. j \in i .. n
        BY <3>2
      <4>2. s[j] - a \in Nat
        BY <1>5, <4>1
      <4> HIDE DEF a, b
      <4> QED  BY <1>3, <3>2, <4>2
    <3> QED  BY <3>1, <3>2
  <2>2. s[0] = 0
    BY <1>1 DEF IsSum
  <2> QED  BY <2>1, <2>2
<1>7. ASSUME NEW j \in 1 .. n PROVE y[j] \in Nat /\ w[j] = w[j - 1] + y[j]
  <2>1. /\ s[j] = s[j - 1] + x[j] /\ x[j] \in Nat /\ j - 1 \in 0 .. n
    BY <1>2
  <2>2. s[j - 1] \in Nat
    BY <1>2, <2>1
  <2>3. CASE j < i
    BY <2>1, <2>3
  <2>4. CASE j = i
    <3>1. w[j] = (s[j] - a) + b /\ w[j - 1] = s[j - 1] /\ x[j] = a /\ y[j] = b
      BY <2>1, <2>4
    <3> HIDE DEF w, a, b
    <3> QED  BY <1>3, <2>1, <2>2, <3>1
  <2>5. CASE j > i
    <3>1. w[j] = (s[j] - a) + b /\ w[j - 1] = (s[j - 1] - a) + b /\ x[j] = y[j]
      BY <2>1, <2>5
    <3> HIDE DEF w, a, b
    <3> QED  BY <1>3, <2>1, <2>2, <3>1
  <2> QED  BY <2>3, <2>4, <2>5
<1>8. w[n] = (t - a) + b /\ t - a \in Nat
  BY <1>1, <1>5
<1> HIDE DEF w
<1> QED  BY <1>6, <1>7, <1>8 DEF IsSum, Total

\* The sum without the first number.
LEMMA TotalOfRest ==
  ASSUME NEW n \in Nat, n # 0, NEW x, NEW y, NEW t,
         Total(x, n, t),
         \A j \in 1 .. n - 1 : y[j] = x[j + 1]
  PROVE  t - x[1] \in Nat /\ Total(y, n - 1, t - x[1])
<1>1. PICK s : IsSum(x, n, s) /\ s[n] = t
  BY DEF Total
<1>2. /\ \A j \in 0 .. n : s[j] \in Nat
      /\ \A j \in 1 .. n : x[j] \in Nat /\ s[j] = s[j - 1] + x[j]
      /\ s[0] = 0 /\ 1 \in 1 .. n
  BY <1>1 DEF IsSum
<1> DEFINE a == x[1]
<1>3. a \in Nat /\ s[1] = a
  BY <1>2
<1> DEFINE z == [j \in 1 .. n |-> IF j = 1 THEN 0 ELSE x[j]]
<1>4. t - a \in Nat /\ Total(z, n, (t - a) + z[1])
  BY <1>2, TotalWith
<1>5. PICK r : IsSum(z, n, r) /\ r[n] = t - a
  <2>1. z[1] = 0
    BY <1>2
  <2>2. (t - a) + z[1] = t - a
    BY <1>4, <2>1
  <2> HIDE DEF a, z
  <2> QED  BY <1>4, <2>2 DEF Total
<1> DEFINE w == [j \in 0 .. n - 1 |-> r[j + 1]]
<1>6. /\ \A j \in 0 .. n : r[j] \in Nat
      /\ \A j \in 1 .. n : z[j] \in Nat /\ r[j] = r[j - 1] + z[j]
      /\ r[0] = 0 /\ r[1] = 0
  <2>1. /\ \A j \in 0 .. n : r[j] \in Nat
        /\ \A j \in 1 .. n : z[j] \in Nat /\ r[j] = r[j - 1] + z[j]
        /\ r[0] = 0
    BY <1>5 DEF IsSum
  <2> QED  BY <1>2, <2>1
<1>7. w \in [0 .. n - 1 -> Nat] /\ w[0] = 0 /\ w[n - 1] = t - a
  BY <1>5, <1>6
<1>8. ASSUME NEW j \in 1 .. n - 1 PROVE y[j] \in Nat /\ w[j] = w[j - 1] + y[j]
  <2>1. j + 1 \in 1 .. n /\ j - 1 \in 0 .. n - 1 /\ j \in 0 .. n - 1 /\ j + 1 # 1
        /\ (j + 1) - 1 = j /\ (j - 1) + 1 = j
    OBVIOUS
  <2>2. r[j + 1] = r[j] + z[j + 1] /\ z[j + 1] = x[j + 1] /\ z[j + 1] \in Nat
    BY <1>6, <2>1
  <2> QED  BY <2>1, <2>2
<1> HIDE DEF w
<1> QED  BY <1>4, <1>7, <1>8 DEF IsSum, Total

-----------------------------------------------------------------------------
(***************************************************************************)
(* CausalMemoStream::poll_next, in every order memos can be loaded in.     *)
(***************************************************************************)

LEMMA ParentsAreOlder ==
  ASSUME MemosInv, NEW m \in 1 .. Len(memos)
  PROVE  /\ memos[m].parents \in Seq(1 .. m - 1)
         /\ memos[m].parents \in Seq(1 .. Len(memos))
<1> DEFINE ps == memos[m].parents
<1>1. Len(memos) \in Nat
  BY DEF MemosInv
<1>2. ps \in Seq(MemoId)
  <2>1. memos[m] \in MemoRecord
    BY LenProperties DEF MemosInv
  <2> QED  BY <2>1 DEF MemoRecord
<1>3. \A j \in DOMAIN ps : ps[j] \in 1 .. m - 1
  BY DEF MemosInv, ParentsIn
<1> HIDE DEF ps
<1>4. PICK n \in Nat : ps \in [1 .. n -> MemoId]
  BY <1>2, SeqDef
<1>5. ps \in [1 .. n -> 1 .. m - 1]
  BY <1>3, <1>4
<1>6. ps \in Seq(1 .. m - 1)
  BY <1>4, <1>5, SeqDef
<1>7. 1 .. m - 1 \subseteq 1 .. Len(memos)
  BY <1>1
<1>8. ps \in Seq(1 .. Len(memos))
  BY <1>6, <1>7, SeqDef
<1> QED  BY <1>6, <1>8 DEF ps

\* What is left to do for the places of q that are not loaded, and for those
\* that are.
Left(v, q, l) == [j \in DOMAIN q |-> IF j \in l THEN 1 ELSE v[q[j]]]

\* The turns that a memo costs: its own two, and those of its parents.
IsCost(v, k) ==
  /\ v \in [1 .. k -> Nat]
  /\ \A m \in 1 .. k :
       \E t \in Nat : /\ v[m] = t + 2
                      /\ Total(Left(v, memos[m].parents, {}), Len(memos[m].parents), t)

LEMMA CostExists ==
  ASSUME MemosInv
  PROVE  \E v : IsCost(v, Len(memos))
<1> DEFINE n == Len(memos)
           Without == {k \in 0 .. n : ~ \E v : IsCost(v, k)}
<1>1. n \in Nat
  BY DEF MemosInv
<1>2. CASE Without = {}
  <2>1. n \in 0 .. n
    BY <1>1
  <2> QED  BY <1>2, <2>1
<1>3. CASE Without # {}
  <2>1. PICK k \in Without : \A j \in Without : k <= j
    <3>1. Without \in SUBSET Nat
      OBVIOUS
    <3> HIDE DEF Without
    <3> QED  BY <1>3, <3>1, Least
  <2>2. k # 0
    <3>1. IsCost([m \in {} |-> 0], 0)
      <4>1. 1 .. 0 = {}
        OBVIOUS
      <4> QED  BY <4>1 DEF IsCost
    <3> QED  BY <2>1, <3>1
  <2>3. k \in 1 .. n /\ k - 1 \in 0 .. n /\ ~ (k <= k - 1) /\ k \in Nat
    BY <1>1, <2>1, <2>2
  <2>4. PICK v : IsCost(v, k - 1)
    BY <2>1, <2>3
  <2> DEFINE ps == memos[k].parents
             left == Left(v, ps, {})
  <2>5. ps \in Seq(1 .. k - 1)
    BY <2>3, ParentsAreOlder
  <2>6. Len(ps) \in Nat /\ DOMAIN ps = 1 .. Len(ps) /\ \A j \in 1 .. Len(ps) : ps[j] \in 1 .. k - 1
    <3> HIDE DEF ps
    <3> QED  BY <2>5, LenProperties
  <2>7. \A j \in 1 .. Len(ps) : left[j] \in Nat
    <3> HIDE DEF ps
    <3> QED  BY <2>4, <2>6 DEF Left, IsCost
  <2>8. PICK t \in Nat : Total(left, Len(ps), t)
    <3> HIDE DEF ps, left
    <3> QED  BY <2>6, <2>7, TotalExists
  <2> DEFINE w == [m \in 1 .. k |-> IF m = k THEN t + 2 ELSE v[m]]
  <2>9. w \in [1 .. k -> Nat] /\ w[k] = t + 2 /\ \A m \in 1 .. k - 1 : w[m] = v[m]
    BY <2>3, <2>4 DEF IsCost
  <2> HIDE DEF w
  <2>10. ASSUME NEW m \in 1 .. k
         PROVE  Left(w, memos[m].parents, {}) = Left(v, memos[m].parents, {})
    <3> DEFINE qs == memos[m].parents
    <3>1. m \in 1 .. n
      BY <2>3
    <3>2. qs \in Seq(1 .. m - 1)
      BY <3>1, ParentsAreOlder
    <3> HIDE DEF qs
    <3>3. \A j \in DOMAIN qs : qs[j] \in 1 .. k - 1
      BY <2>3, <3>2, LenProperties
    <3> QED  BY <2>9, <3>3 DEF Left, qs
  <2>11. ASSUME NEW m \in 1 .. k
         PROVE  \E u \in Nat : /\ w[m] = u + 2
                               /\ Total(Left(w, memos[m].parents, {}), Len(memos[m].parents), u)
    <3>1. CASE m = k
      BY <2>8, <2>9, <2>10, <3>1
    <3>2. CASE m # k
      <4>1. m \in 1 .. k - 1
        BY <2>3, <3>2
      <4>2. PICK u \in Nat : /\ v[m] = u + 2
                             /\ Total(Left(v, memos[m].parents, {}), Len(memos[m].parents), u)
        BY <2>4, <4>1 DEF IsCost
      <4>3. w[m] = u + 2
        BY <2>9, <4>1, <4>2
      <4> QED  BY <2>10, <4>2, <4>3
    <3> QED  BY <3>1, <3>2
  <2>12. IsCost(w, k)
    BY <2>9, <2>11 DEF IsCost
  <2> QED  BY <2>1, <2>12
<1> QED  BY <1>2, <1>3

\* The front of a queue is popped when it is loaded.
LEMMA PopTakesOne ==
  ASSUME NEW n \in Nat, NEW v, v \in [1 .. n -> Nat],
         NEW q \in Seq(1 .. n), q # << >>, NEW l \in SUBSET (Nat \ {0}), 1 \in l,
         NEW t, Total(Left(v, q, l), Len(q), t)
  PROVE  /\ t - 1 \in Nat
         /\ Total(Left(v, Tail(q), {i - 1 : i \in l \ {1}}), Len(Tail(q)), t - 1)
<1> DEFINE r == Tail(q)
           k == {i - 1 : i \in l \ {1}}
           x == Left(v, q, l)
           y == Left(v, r, k)
<1>1. /\ r \in Seq(1 .. n) /\ Len(r) = Len(q) - 1
      /\ \A i \in 1 .. Len(r) : r[i] = q[i + 1]
  BY HeadTailProperties
<1>2. /\ Len(q) \in Nat /\ Len(q) # 0 /\ DOMAIN q = 1 .. Len(q)
  BY LenProperties, EmptySeq
<1>3. DOMAIN r = 1 .. Len(r) /\ Len(r) \in Nat
  <2> HIDE DEF r
  <2> QED  BY <1>1, LenProperties
<1>4. \A j \in 1 .. Len(r) : y[j] = x[j + 1]
  <2> HIDE DEF r
  <2> SUFFICES ASSUME NEW j \in 1 .. Len(r) PROVE y[j] = x[j + 1]
    OBVIOUS
  <2>1. j \in k <=> j + 1 \in l
    <3>1. ASSUME j \in k PROVE j + 1 \in l
      <4>1. PICK i \in l \ {1} : j = i - 1
        BY <3>1
      <4>2. j + 1 = i
        BY <1>3, <4>1
      <4> QED  BY <4>2
    <3>2. ASSUME j + 1 \in l PROVE j \in k
      <4>1. j + 1 # 1 /\ (j + 1) - 1 = j
        BY <1>3
      <4> QED  BY <3>2, <4>1
    <3> QED  BY <3>1, <3>2
  <2>2. j + 1 \in DOMAIN q /\ j \in DOMAIN r
    BY <1>1, <1>2, <1>3
  <2> HIDE DEF k
  <2> QED  BY <1>1, <2>1, <2>2 DEF Left
<1>5. x[1] = 1
  BY <1>2 DEF Left
<1> HIDE DEF x, y, r
<1>6. t - x[1] \in Nat /\ Total(y, Len(q) - 1, t - x[1])
  BY <1>1, <1>2, <1>4, TotalOfRest DEF x
<1> QED  BY <1>1, <1>5, <1>6 DEF r, y

\* A place of the queue is polled when its memo is loaded.
LEMMA PollTakesOne ==
  ASSUME MemosInv, NEW v, IsCost(v, Len(memos)),
         NEW q \in Seq(1 .. Len(memos)), NEW l \in SUBSET DOMAIN q,
         NEW i \in DOMAIN q \ l,
         NEW t, Total(Left(v, q, l), Len(q), t)
  PROVE  /\ t - 1 \in Nat
         /\ H!Poll(q, i) \in Seq(1 .. Len(memos))
         /\ Total(Left(v, H!Poll(q, i), l \cup {i}), Len(H!Poll(q, i)), t - 1)
<1> DEFINE n == Len(memos)
           m == q[i]
           ps == memos[m].parents
           r == q \o ps
           x == Left(v, q, l)
           y == Left(v, q, l \cup {i})
           z == Left(v, ps, {})
           w == Left(v, r, l \cup {i})
<1>1. n \in Nat /\ Len(q) \in Nat /\ DOMAIN q = 1 .. Len(q) /\ m \in 1 .. n
      /\ \A j \in 1 .. Len(q) : q[j] \in 1 .. n
  BY LenProperties DEF MemosInv
<1>2. ps \in Seq(1 .. n)
  BY <1>1, ParentsAreOlder
<1>3. PICK u \in Nat : v[m] = u + 2 /\ Total(z, Len(ps), u)
  BY <1>1 DEF IsCost
<1> HIDE DEF ps
<1>4. Len(ps) \in Nat /\ DOMAIN ps = 1 .. Len(ps)
  BY <1>2, LenProperties
<1>5. /\ r \in Seq(1 .. n) /\ Len(r) = Len(q) + Len(ps)
      /\ \A j \in 1 .. Len(q) + Len(ps) : r[j] = IF j <= Len(q) THEN q[j] ELSE ps[j - Len(q)]
  BY <1>2, ConcatProperties
<1>6. t - x[i] \in Nat /\ Total(y, Len(q), (t - x[i]) + y[i])
  <2>1. y[i] \in Nat
    BY DEF Left
  <2>2. \A j \in 1 .. Len(q) : j # i => y[j] = x[j]
    BY <1>1 DEF Left
  <2> HIDE DEF y
  <2> QED  BY <1>1, <2>1, <2>2, TotalWith
<1>7. x[i] = u + 2 /\ y[i] = 1
  BY <1>3 DEF Left
<1>8. \A j \in 1 .. Len(q) : w[j] = y[j]
  <2> HIDE DEF r
  <2>1. DOMAIN r = 1 .. Len(q) + Len(ps)
    BY <1>5, LenProperties
  <2> QED  BY <1>1, <1>4, <1>5, <2>1 DEF Left
<1>9. \A j \in 1 .. Len(ps) : w[Len(q) + j] = z[j]
  <2> HIDE DEF r
  <2> SUFFICES ASSUME NEW j \in 1 .. Len(ps) PROVE w[Len(q) + j] = z[j]
    OBVIOUS
  <2>1. DOMAIN r = 1 .. Len(q) + Len(ps)
    BY <1>5, LenProperties
  <2>2. Len(q) + j \in DOMAIN r /\ ~(Len(q) + j <= Len(q)) /\ (Len(q) + j) - Len(q) = j
    BY <1>1, <1>4, <2>1
  <2>3. Len(q) + j \notin l \cup {i}
    BY <1>1, <2>2
  <2>4. r[Len(q) + j] = ps[j]
    BY <1>5, <2>1, <2>2
  <2> QED  BY <1>4, <2>2, <2>3, <2>4 DEF Left
<1> HIDE DEF w, x, y, z, r
<1>10. Total(w, Len(q) + Len(ps), ((t - x[i]) + y[i]) + u)
  <2> DEFINE a == (t - x[i]) + y[i]
             k == Len(q)
             p == Len(ps)
  <2>1. /\ k \in Nat /\ p \in Nat
        /\ Total(y, k, a) /\ Total(z, p, u)
        /\ \A j \in 1 .. k : w[j] = y[j]
        /\ \A j \in 1 .. p : w[k + j] = z[j]
    BY <1>1, <1>3, <1>4, <1>6, <1>8, <1>9
  <2> HIDE DEF a, k, p
  <2>2. Total(w, k + p, a + u)
    BY ONLY <2>1, TotalOfBoth
  <2> QED  BY <2>2 DEF a, k, p
<1>11. ((t - x[i]) + y[i]) + u = t - 1 /\ t - 1 \in Nat
  <2>1. \E k \in Nat : t - x[i] = k
    BY <1>6
  <2>2. t \in Nat
    BY DEF Total, IsSum, x
  <2> QED  BY <1>6, <1>7, <2>2
<1> QED  BY <1>5, <1>10, <1>11 DEF w, r, m, ps, H!Poll

\* A queue, and the places of it that are loaded.
Polling == Seq(DOMAIN memos) \X SUBSET (Nat \ {0})

\* The streams a queue yields, given those that f says the next ones yield.
Yields(f, at) ==
  LET queue  == at[1]
      loaded == at[2]
  IN  IF queue = << >> THEN {<< >>}
      ELSE IF 1 \in loaded
      THEN {<<queue[1]>> \o stream :
              stream \in f[<<Tail(queue), {i - 1 : i \in loaded \ {1}}>>]}
      ELSE UNION {f[<<H!Poll(queue, i), loaded \cup {i}>>] :
                    i \in DOMAIN queue \ loaded}

IsStreams(f) == f = [at \in Polling |-> Yields(f, at)]

\* What comes after a queue that is not empty.
LEMMA PollingGoesOn ==
  ASSUME MemosInv, NEW queue \in Seq(1 .. Len(memos)), NEW loaded \in SUBSET (Nat \ {0}),
         queue # << >>
  PROVE  /\ <<Tail(queue), {i - 1 : i \in loaded \ {1}}>> \in Polling
         /\ \A i \in DOMAIN queue \ loaded :
              <<H!Poll(queue, i), loaded \cup {i}>> \in Polling
<1> DEFINE n == Len(memos)
<1>1. n \in Nat /\ DOMAIN memos = 1 .. n
  BY LenProperties DEF MemosInv
<1>2. Tail(queue) \in Seq(1 .. n)
  BY HeadTailProperties
<1>3. {i - 1 : i \in loaded \ {1}} \in SUBSET (Nat \ {0})
  OBVIOUS
<1>4. ASSUME NEW i \in DOMAIN queue \ loaded
      PROVE  H!Poll(queue, i) \in Seq(1 .. n) /\ loaded \cup {i} \in SUBSET (Nat \ {0})
  <2>1. i \in 1 .. Len(queue) /\ queue[i] \in 1 .. n
    BY LenProperties
  <2>2. memos[queue[i]].parents \in Seq(1 .. n)
    BY <2>1, ParentsAreOlder
  <2>3. queue \o memos[queue[i]].parents \in Seq(1 .. n)
    BY <2>2, ConcatProperties
  <2>4. i \in Nat \ {0}
    BY <2>1, LenProperties
  <2> QED  BY <2>3, <2>4 DEF H!Poll
<1> QED  BY <1>1, <1>2, <1>3, <1>4 DEF Polling

\* The streams that every f agrees on which yields what it should, and maybe
\* more, are the ones of the definition.
LEMMA StreamsExist ==
  ASSUME MemosInv
  PROVE  \E f : IsStreams(f)
<1> DEFINE n == Len(memos)
           All == Seq(1 .. n)
           Enough == {f \in [Polling -> SUBSET All] :
                        \A at \in Polling : Yields(f, at) \subseteq f[at]}
           F == [at \in Polling |-> {s \in All : \A f \in Enough : s \in f[at]}]
<1>1. n \in Nat /\ DOMAIN memos = 1 .. n
  BY LenProperties DEF MemosInv
<1>2. F \in [Polling -> SUBSET All]
  OBVIOUS
<1>3. \A f \in Enough, at \in Polling : F[at] \subseteq f[at]
  OBVIOUS
\* Who yields more at one turn does at the next.
<1>4. ASSUME NEW f \in [Polling -> SUBSET All], NEW g \in [Polling -> SUBSET All],
             \A at \in Polling : f[at] \subseteq g[at],
             NEW at \in Polling
      PROVE  Yields(f, at) \subseteq Yields(g, at) /\ Yields(f, at) \subseteq All
  <2>1. PICK queue \in Seq(1 .. n), loaded \in SUBSET (Nat \ {0}) :
               at = <<queue, loaded>>
    BY <1>1 DEF Polling
  <2>2. at[1] = queue /\ at[2] = loaded
    BY <2>1
  <2>3. CASE queue = << >>
    BY <2>2, <2>3, EmptySeq DEF Yields
  <2>4. CASE queue # << >> /\ 1 \in loaded
    <3> DEFINE next == <<Tail(queue), {i - 1 : i \in loaded \ {1}}>>
               first == queue[1]
    <3>1. next \in Polling /\ first \in 1 .. n
      <4>1. 1 \in 1 .. Len(queue)
        BY <2>4, EmptySeq
      <4> QED  BY <2>4, <4>1, PollingGoesOn, LenProperties
    <3>2. Yields(f, at) = {<<first>> \o stream : stream \in f[next]}
      BY <2>2, <2>4 DEF Yields
    <3>3. Yields(g, at) = {<<first>> \o stream : stream \in g[next]}
      BY <2>2, <2>4 DEF Yields
    <3> HIDE DEF next, first
    <3>4. f[next] \subseteq g[next] /\ f[next] \subseteq All
      BY <1>4, <3>1
    <3>5. \A stream \in f[next] : <<first>> \o stream \in All
      <4>1. <<first>> \in Seq(1 .. n)
        BY <3>1
      <4> QED  BY <3>4, <4>1, ConcatProperties
    <3> QED  BY <3>2, <3>3, <3>4, <3>5
  <2>5. CASE queue # << >> /\ 1 \notin loaded
    <3> DEFINE next(i) == <<H!Poll(queue, i), loaded \cup {i}>>
    <3>1. \A i \in DOMAIN queue \ loaded : next(i) \in Polling
      BY <2>5, PollingGoesOn
    <3>2. Yields(f, at) = UNION {f[next(i)] : i \in DOMAIN queue \ loaded}
      BY <2>2, <2>5 DEF Yields
    <3>3. Yields(g, at) = UNION {g[next(i)] : i \in DOMAIN queue \ loaded}
      BY <2>2, <2>5 DEF Yields
    <3> HIDE DEF next
    <3>4. \A i \in DOMAIN queue \ loaded : f[next(i)] \subseteq g[next(i)] /\ f[next(i)] \subseteq All
      BY <1>4, <3>1
    <3> QED  BY <3>2, <3>3, <3>4
  <2> QED  BY <2>3, <2>4, <2>5
<1> HIDE DEF F
<1>5. ASSUME NEW at \in Polling PROVE Yields(F, at) \subseteq F[at]
  <2> SUFFICES ASSUME NEW s \in Yields(F, at) PROVE s \in F[at]
    OBVIOUS
  <2>1. s \in All
    BY <1>2, <1>4
  <2>2. ASSUME NEW f \in Enough PROVE s \in f[at]
    BY <1>2, <1>3, <1>4
  <2> QED  BY <2>1, <2>2 DEF F
<1>6. ASSUME NEW at \in Polling PROVE F[at] \subseteq Yields(F, at)
  <2> DEFINE G == [p \in Polling |-> Yields(F, p)]
  <2>1. G \in [Polling -> SUBSET All]
    BY <1>2, <1>4
  <2>2. \A p \in Polling : G[p] \subseteq F[p]
    BY <1>5
  <2> HIDE DEF G
  <2>3. \A p \in Polling : Yields(G, p) \subseteq Yields(F, p)
    BY <1>2, <1>4, <2>1, <2>2
  <2>4. \A p \in Polling : Yields(G, p) \subseteq G[p]
    BY <2>3 DEF G
  <2>5. F[at] \subseteq G[at]
    BY <1>3, <2>1, <2>4
  <2> QED  BY <2>5 DEF G
<1>7. F = [at \in Polling |-> Yields(F, at)]
  <2>1. F = [at \in Polling |-> F[at]]
    BY <1>2
  <2>2. \A at \in Polling : F[at] = Yields(F, at)
    BY <1>5, <1>6
  <2> QED  BY <2>1, <2>2
<1> QED  BY <1>7 DEF IsStreams

LEMMA StreamsYield ==
  ASSUME MemosInv
  PROVE  \A at \in Polling : H!Streams[at] = Yields(H!Streams, at)
<1>1. H!Streams = CHOOSE f : IsStreams(f)
  BY DEF H!Streams, IsStreams, Polling, Yields
<1>2. IsStreams(H!Streams)
  BY <1>1, StreamsExist
<1> DEFINE f == H!Streams
<1>3. f = [at \in Polling |-> Yields(f, at)]
  BY <1>2 DEF IsStreams
<1> HIDE DEF f
<1> QED  BY <1>3 DEF f

\* s is a stream of all the memos that queue, loaded up to some, leads to.
IsWhole(A, queue, loaded, s) ==
  LET n == Len(memos)
  IN  /\ s \in Seq(1 .. n) /\ Len(queue) <= Len(s)
      /\ \A j \in 1 .. Len(queue) : s[j] = queue[j]
      /\ Range(s) = Range(queue) \cup UNION {A[queue[i]] : i \in DOMAIN queue \ loaded}
      /\ \A j \in Len(queue) + 1 .. Len(s) :
           \E i \in 1 .. j - 1 : s[j] \in ParentsIn(memos, s[i])

\* What the front of the queue adds to a stream.
LEMMA WholeWithFront ==
  ASSUME MemosInv, NEW A,
         NEW queue \in Seq(1 .. Len(memos)), queue # << >>,
         NEW loaded \in SUBSET DOMAIN queue, 1 \in loaded,
         NEW s, IsWhole(A, Tail(queue), {i - 1 : i \in loaded \ {1}}, s)
  PROVE  IsWhole(A, queue, loaded, <<queue[1]>> \o s)
<1> DEFINE n == Len(memos)
           rest == Tail(queue)
           after == {i - 1 : i \in loaded \ {1}}
           front == <<queue[1]>>
           all == front \o s
<1>1. /\ rest \in Seq(1 .. n) /\ Len(rest) = Len(queue) - 1
      /\ \A i \in 1 .. Len(rest) : rest[i] = queue[i + 1]
  BY HeadTailProperties
<1>2. /\ Len(queue) \in Nat /\ Len(queue) # 0 /\ DOMAIN queue = 1 .. Len(queue)
      /\ queue[1] \in 1 .. n
  BY LenProperties, EmptySeq
<1>3. DOMAIN rest = 1 .. Len(rest) /\ Len(rest) \in Nat
  <2> HIDE DEF rest
  <2> QED  BY <1>1, LenProperties
<1>4. front \in Seq(1 .. n) /\ Len(front) = 1 /\ front[1] = queue[1]
  BY <1>2
<1>5. /\ s \in Seq(1 .. n) /\ Len(rest) <= Len(s)
      /\ \A j \in 1 .. Len(rest) : s[j] = rest[j]
      /\ Range(s) = Range(rest) \cup UNION {A[rest[i]] : i \in DOMAIN rest \ after}
      /\ \A j \in Len(rest) + 1 .. Len(s) :
           \E i \in 1 .. j - 1 : s[j] \in ParentsIn(memos, s[i])
  BY DEF IsWhole
<1>6. Len(s) \in Nat /\ DOMAIN s = 1 .. Len(s)
  BY <1>5, LenProperties
<1> HIDE DEF front, rest
<1>7. /\ all \in Seq(1 .. n) /\ Len(all) = 1 + Len(s)
      /\ \A j \in 1 .. 1 + Len(s) : all[j] = IF j <= 1 THEN front[j] ELSE s[j - 1]
  <2>1. /\ all \in Seq(1 .. n) /\ Len(all) = Len(front) + Len(s)
        /\ \A j \in 1 .. Len(front) + Len(s) :
             all[j] = IF j <= Len(front) THEN front[j] ELSE s[j - Len(front)]
    <3>1. front \in Seq(1 .. n) /\ s \in Seq(1 .. n)
      BY <1>4, <1>5
    <3> QED  BY <3>1, ConcatProperties
  <2> HIDE DEF all
  <2> QED  BY <1>4, <2>1
<1> HIDE DEF all
<1>8. /\ all[1] = queue[1]
      /\ \A j \in 1 .. Len(s) : all[j + 1] = s[j]
  <2>1. all[1] = front[1]
    BY <1>6, <1>7
  <2>2. ASSUME NEW j \in 1 .. Len(s) PROVE all[j + 1] = s[j]
    <3>1. j + 1 \in 1 .. 1 + Len(s) /\ ~(j + 1 <= 1) /\ (j + 1) - 1 = j
      BY <1>6
    <3> QED  BY <1>7, <3>1
  <2> QED  BY <1>4, <2>1, <2>2
<1>9. ASSUME NEW j \in 1 .. Len(queue) PROVE all[j] = queue[j]
  <2>1. CASE j = 1
    BY <1>8, <2>1
  <2>2. CASE j # 1
    <3>1. j - 1 \in 1 .. Len(rest) /\ j - 1 \in 1 .. Len(s) /\ (j - 1) + 1 = j
      BY <1>1, <1>2, <1>3, <1>5, <1>6, <2>2
    <3>2. all[(j - 1) + 1] = s[j - 1] /\ s[j - 1] = rest[j - 1] /\ rest[j - 1] = queue[(j - 1) + 1]
      BY <1>1, <1>5, <1>8, <3>1
    <3> QED  BY <3>1, <3>2
  <2> QED  BY <2>1, <2>2
<1>10. Range(all) = {queue[1]} \cup Range(s)
  <2>1. DOMAIN all = 1 .. 1 + Len(s)
    BY <1>7, LenProperties
  <2>2. ASSUME NEW j \in 1 .. 1 + Len(s) PROVE all[j] \in {queue[1]} \cup Range(s)
    <3>1. CASE j = 1
      BY <1>8, <3>1
    <3>2. CASE j # 1
      <4>1. j - 1 \in 1 .. Len(s) /\ (j - 1) + 1 = j
        BY <1>6, <3>2
      <4>2. all[(j - 1) + 1] = s[j - 1]
        BY <1>8, <4>1
      <4> QED  BY <1>6, <4>1, <4>2 DEF Range
    <3> QED  BY <3>1, <3>2
  <2>3. queue[1] \in Range(all)
    <3>1. 1 \in 1 .. 1 + Len(s)
      BY <1>6
    <3> QED  BY <1>8, <2>1, <3>1 DEF Range
  <2>4. ASSUME NEW j \in 1 .. Len(s) PROVE s[j] \in Range(all)
    <3>1. j + 1 \in 1 .. 1 + Len(s)
      BY <1>6
    <3> QED  BY <1>8, <2>1, <3>1 DEF Range
  <2> QED  BY <1>6, <2>1, <2>2, <2>3, <2>4 DEF Range
<1>11. Range(queue) = {queue[1]} \cup Range(rest)
  <2>1. queue[1] \in Range(queue)
    <3>1. 1 \in 1 .. Len(queue)
      BY <1>2
    <3> QED  BY <1>2, <3>1 DEF Range
  <2>2. ASSUME NEW j \in 1 .. Len(queue) PROVE queue[j] \in {queue[1]} \cup Range(rest)
    <3>1. CASE j = 1
      BY <3>1
    <3>2. CASE j # 1
      <4>1. j - 1 \in 1 .. Len(rest) /\ (j - 1) + 1 = j
        BY <1>1, <1>2, <3>2
      <4>2. rest[j - 1] = queue[(j - 1) + 1]
        BY <1>1, <4>1
      <4> QED  BY <1>3, <4>1, <4>2 DEF Range
    <3> QED  BY <3>1, <3>2
  <2>3. ASSUME NEW j \in 1 .. Len(rest) PROVE rest[j] \in Range(queue)
    <3>1. j + 1 \in 1 .. Len(queue)
      BY <1>1, <1>2
    <3> QED  BY <1>1, <1>2, <3>1 DEF Range
  <2> QED  BY <1>2, <1>3, <2>1, <2>2, <2>3 DEF Range
<1>12. {A[rest[i]] : i \in DOMAIN rest \ after} = {A[queue[i]] : i \in DOMAIN queue \ loaded}
  <2>1. ASSUME NEW j \in DOMAIN rest \ after
        PROVE  j + 1 \in DOMAIN queue \ loaded /\ rest[j] = queue[j + 1]
    <3>1. j \in 1 .. Len(rest) /\ j + 1 \in 1 .. Len(queue) /\ j + 1 # 1 /\ (j + 1) - 1 = j
      <4>1. j \in 1 .. Len(rest) /\ j \in Nat
        BY <1>3
      <4>2. Len(rest) = Len(queue) - 1 /\ Len(queue) \in Nat
        BY <1>1, <1>2
      <4> QED  BY ONLY <4>1, <4>2
    <3>2. j + 1 \notin loaded
      BY <3>1
    <3> QED  BY <1>1, <1>2, <3>1, <3>2
  <2>2. ASSUME NEW j \in DOMAIN queue \ loaded
        PROVE  j - 1 \in DOMAIN rest \ after /\ rest[j - 1] = queue[j]
    <3>1. j \in 1 .. Len(queue) /\ j # 1
      BY <1>2
    <3>2. j - 1 \in 1 .. Len(rest) /\ (j - 1) + 1 = j
      BY <1>1, <1>2, <3>1
    <3>3. j - 1 \notin after
      <4> SUFFICES ASSUME NEW i \in loaded, j - 1 = i - 1 PROVE FALSE
        OBVIOUS
      <4>1. i = j
        BY <1>2, <3>1
      <4> QED  BY <4>1
    <3>4. rest[j - 1] = queue[(j - 1) + 1]
      BY <1>1, <3>2
    <3> QED  BY <1>3, <3>2, <3>3, <3>4
  <2> HIDE DEF after
  <2> QED  BY <2>1, <2>2
<1>13. ASSUME NEW j \in Len(queue) + 1 .. Len(all)
       PROVE  \E i \in 1 .. j - 1 : all[j] \in ParentsIn(memos, all[i])
  <2>1. j - 1 \in Len(rest) + 1 .. Len(s) /\ j - 1 \in 1 .. Len(s) /\ (j - 1) + 1 = j
    BY <1>1, <1>2, <1>6, <1>7
  <2>2. PICK i \in 1 .. (j - 1) - 1 : s[j - 1] \in ParentsIn(memos, s[i])
    BY <1>5, <2>1
  <2>3. i \in 1 .. Len(s) /\ i + 1 \in 1 .. j - 1
    BY <1>6, <2>1, <2>2
  <2>4. all[(j - 1) + 1] = s[j - 1] /\ all[i + 1] = s[i]
    BY <1>8, <2>1, <2>3
  <2> QED  BY <2>1, <2>2, <2>3, <2>4
<1>14. Len(queue) <= Len(all)
  BY <1>1, <1>2, <1>5, <1>6, <1>7
<1>15. Range(all) = Range(queue) \cup UNION {A[queue[i]] : i \in DOMAIN queue \ loaded}
  BY <1>5, <1>10, <1>11, <1>12
<1>16. IsWhole(A, queue, loaded, all)
  BY <1>7, <1>9, <1>13, <1>14, <1>15 DEF IsWhole
<1> QED  BY <1>16 DEF all, front

\* A stream is whole whichever memo of its queue is the next to be loaded.
LEMMA WholeWithPoll ==
  ASSUME MemosInv, NEW A, A = H!Ancestors,
         NEW queue \in Seq(1 .. Len(memos)),
         NEW loaded \in SUBSET DOMAIN queue,
         NEW i \in DOMAIN queue \ loaded,
         NEW s, IsWhole(A, H!Poll(queue, i), loaded \cup {i}, s)
  PROVE  IsWhole(A, queue, loaded, s)
<1> DEFINE n == Len(memos)
           m == queue[i]
           ps == memos[m].parents
           r == queue \o ps
           done == loaded \cup {i}
<1>1. n \in Nat /\ Len(queue) \in Nat /\ DOMAIN queue = 1 .. Len(queue) /\ m \in 1 .. n
      /\ DOMAIN memos = 1 .. n
  BY LenProperties DEF MemosInv
<1>2. ps \in Seq(1 .. n)
  BY <1>1, ParentsAreOlder
<1>3. A[m] = ParentsIn(memos, m) \cup UNION {A[p] : p \in ParentsIn(memos, m)}
  BY <1>1, MemosHaveAncestors DEF AncestorsInv, IsAncestry
<1>4. ParentsIn(memos, m) = Range(ps)
  BY DEF ParentsIn, Range
<1> HIDE DEF ps
<1>5. Len(ps) \in Nat /\ DOMAIN ps = 1 .. Len(ps)
  BY <1>2, LenProperties
<1>6. /\ r \in Seq(1 .. n) /\ Len(r) = Len(queue) + Len(ps)
      /\ \A j \in 1 .. Len(queue) + Len(ps) :
           r[j] = IF j <= Len(queue) THEN queue[j] ELSE ps[j - Len(queue)]
  BY <1>2, ConcatProperties
<1>7. IsWhole(A, r, done, s)
  BY DEF H!Poll, ps
<1> HIDE DEF r
<1>8. DOMAIN r = 1 .. Len(queue) + Len(ps)
  BY <1>6, LenProperties
<1>9. /\ \A j \in 1 .. Len(queue) : r[j] = queue[j] /\ j \in DOMAIN r
      /\ \A j \in 1 .. Len(ps) : r[Len(queue) + j] = ps[j] /\ Len(queue) + j \in DOMAIN r
  <2>1. ASSUME NEW j \in 1 .. Len(queue) PROVE r[j] = queue[j] /\ j \in DOMAIN r
    BY <1>1, <1>5, <1>6, <1>8
  <2>2. ASSUME NEW j \in 1 .. Len(ps)
        PROVE  r[Len(queue) + j] = ps[j] /\ Len(queue) + j \in DOMAIN r
    <3>1. /\ Len(queue) + j \in 1 .. Len(queue) + Len(ps)
          /\ ~(Len(queue) + j <= Len(queue)) /\ (Len(queue) + j) - Len(queue) = j
      BY <1>1, <1>5
    <3> QED  BY <1>6, <1>8, <3>1
  <2> QED  BY <2>1, <2>2
<1>10. ASSUME NEW j \in DOMAIN r
       PROVE  \/ j \in DOMAIN queue
              \/ \E k \in 1 .. Len(ps) : j = Len(queue) + k
  <2>1. j \in 1 .. Len(queue) + Len(ps)
    BY <1>8
  <2>2. CASE j <= Len(queue)
    BY <1>1, <2>1, <2>2
  <2>3. CASE ~(j <= Len(queue))
    <3>1. j - Len(queue) \in 1 .. Len(ps) /\ j = Len(queue) + (j - Len(queue))
      BY <1>1, <1>5, <2>1, <2>3
    <3> QED  BY <3>1
  <2> QED  BY <2>2, <2>3
<1>11. Range(r) = Range(queue) \cup Range(ps)
  BY <1>1, <1>5, <1>9, <1>10 DEF Range
<1>12. ASSUME NEW k \in 1 .. Len(ps) PROVE Len(queue) + k \notin done
  BY <1>1
<1> DEFINE theirs == UNION {A[p] : p \in Range(ps)}
           others == UNION {A[queue[j]] : j \in DOMAIN queue \ done}
           mine   == UNION {A[queue[j]] : j \in DOMAIN queue \ loaded}
           next   == UNION {A[r[j]] : j \in DOMAIN r \ done}
<1>13. next = others \cup theirs
  <2>1. ASSUME NEW j \in DOMAIN r \ done
        PROVE  \/ j \in DOMAIN queue \ done /\ r[j] = queue[j]
               \/ r[j] \in Range(ps)
    <3>1. CASE j \in DOMAIN queue
      BY <1>1, <1>9, <3>1
    <3>2. CASE \E k \in 1 .. Len(ps) : j = Len(queue) + k
      BY <1>5, <1>9, <3>2 DEF Range
    <3> QED  BY <1>10, <3>1, <3>2
  <2>2. ASSUME NEW j \in DOMAIN queue \ done
        PROVE  j \in DOMAIN r \ done /\ r[j] = queue[j]
    BY <1>1, <1>9
  <2>3. ASSUME NEW p \in Range(ps)
        PROVE  \E j \in DOMAIN r \ done : r[j] = p
    <3>1. PICK k \in 1 .. Len(ps) : p = ps[k]
      BY <1>5 DEF Range
    <3> QED  BY <1>9, <1>12, <3>1
  <2> HIDE DEF done
  <2>4. ASSUME NEW o \in next PROVE o \in others \cup theirs
    <3>1. PICK j \in DOMAIN r \ done : o \in A[r[j]]
      OBVIOUS
    <3> QED  BY <2>1, <3>1
  <2>5. ASSUME NEW o \in others PROVE o \in next
    <3>1. PICK j \in DOMAIN queue \ done : o \in A[queue[j]]
      OBVIOUS
    <3> QED  BY <2>2, <3>1
  <2>6. ASSUME NEW o \in theirs PROVE o \in next
    <3>1. PICK p \in Range(ps) : o \in A[p]
      OBVIOUS
    <3> QED  BY <2>3, <3>1
  <2> HIDE DEF next, others, theirs
  <2> QED  BY <2>4, <2>5, <2>6
<1>14. mine = others \cup A[m]
  <2> DEFINE S == DOMAIN queue \ done
             T == DOMAIN queue \ loaded
  <2>1. T = S \cup {i}
    OBVIOUS
  <2> HIDE DEF S, T
  <2>2. mine = UNION {A[queue[j]] : j \in T} /\ others = UNION {A[queue[j]] : j \in S}
    BY DEF S, T
  <2> HIDE DEF mine, others
  <2> QED  BY <2>1, <2>2
<1>15. /\ s \in Seq(1 .. n) /\ Len(r) <= Len(s)
       /\ \A j \in 1 .. Len(r) : s[j] = r[j]
       /\ Range(s) = Range(r) \cup UNION {A[r[j]] : j \in DOMAIN r \ done}
       /\ \A j \in Len(r) + 1 .. Len(s) :
            \E k \in 1 .. j - 1 : s[j] \in ParentsIn(memos, s[k])
  BY <1>7 DEF IsWhole
<1>16. Len(s) \in Nat
  BY <1>15, LenProperties
<1>17. Range(s) = Range(queue) \cup UNION {A[queue[j]] : j \in DOMAIN queue \ loaded}
  <2>1. A[m] = Range(ps) \cup theirs
    BY <1>3, <1>4
  <2>2. Range(s) = Range(r) \cup next
    BY <1>15
  <2> HIDE DEF next, others, mine, theirs, m
  <2>3. Range(s) = Range(queue) \cup mine
    BY <1>11, <1>13, <1>14, <2>1, <2>2
  <2> QED  BY <2>3 DEF mine
<1>18. ASSUME NEW j \in Len(queue) + 1 .. Len(s)
       PROVE  \E k \in 1 .. j - 1 : s[j] \in ParentsIn(memos, s[k])
  <2>1. CASE j <= Len(r)
    <3>1. PICK k \in 1 .. Len(ps) : j = Len(queue) + k
      <4>1. j - Len(queue) \in 1 .. Len(ps) /\ j = Len(queue) + (j - Len(queue))
        BY <1>1, <1>5, <1>6, <1>16, <2>1
      <4> QED  BY <4>1
    <3>2. j \in 1 .. Len(r) /\ i \in 1 .. Len(r) /\ i \in 1 .. j - 1
      <4>1. i \in 1 .. Len(queue) /\ j \in Nat /\ Len(queue) < j
        BY <1>1, <1>16
      <4>2. Len(queue) <= Len(r) /\ Len(r) \in Nat
        BY <1>1, <1>5, <1>6
      <4> HIDE DEF m
      <4> QED  BY <1>1, <2>1, <4>1, <4>2
    <3>3. s[j] = ps[k] /\ s[i] = m
      BY <1>1, <1>9, <1>15, <3>1, <3>2
    <3>4. s[j] \in ParentsIn(memos, m)
      BY <1>4, <1>5, <3>3 DEF Range
    <3> QED  BY <3>2, <3>3, <3>4
  <2>2. CASE ~(j <= Len(r))
    <3>1. j \in Len(r) + 1 .. Len(s)
      BY <1>1, <1>5, <1>6, <1>16, <2>2
    <3> QED  BY <1>15, <3>1
  <2> QED  BY <2>1, <2>2
<1>19. /\ Len(queue) <= Len(s)
       /\ \A j \in 1 .. Len(queue) : s[j] = queue[j]
  <2>1. Len(queue) <= Len(r) /\ 1 .. Len(queue) \subseteq 1 .. Len(r)
    BY <1>1, <1>5, <1>6
  <2>2. Len(r) \in Nat
    BY <1>1, <1>5, <1>6
  <2>3. Len(queue) <= Len(s)
    BY <1>1, <1>15, <1>16, <2>1, <2>2
  <2>4. ASSUME NEW j \in 1 .. Len(queue) PROVE s[j] = queue[j]
    BY <1>9, <1>15, <2>1
  <2> QED  BY <2>3, <2>4
<1> QED  BY <1>15, <1>17, <1>18, <1>19 DEF IsWhole

\* Every turn takes one of what is left, and a stream is whole at the end.
LEMMA StreamsAreWhole ==
  ASSUME MemosInv
  PROVE  \A queue \in Seq(1 .. Len(memos)) : \A loaded \in SUBSET DOMAIN queue :
           \A s \in H!Streams[<<queue, loaded>>] :
             IsWhole(H!Ancestors, queue, loaded, s)
<1> DEFINE n == Len(memos)
           A == H!Ancestors
           f == H!Streams
<1>1. n \in Nat /\ DOMAIN memos = 1 .. n
  BY LenProperties DEF MemosInv
<1>2. PICK v : IsCost(v, n)
  BY CostExists
<1> DEFINE Whole(queue, loaded) ==
             \A s \in f[<<queue, loaded>>] : IsWhole(A, queue, loaded, s)
           Takes(queue, loaded, t) == Total(Left(v, queue, loaded), Len(queue), t)
           Bad == {t \in Nat : \E queue \in Seq(1 .. n) : \E loaded \in SUBSET DOMAIN queue :
                                 Takes(queue, loaded, t) /\ ~Whole(queue, loaded)}
<1>3. ASSUME NEW queue \in Seq(1 .. n), NEW loaded \in SUBSET DOMAIN queue
      PROVE  /\ <<queue, loaded>> \in Polling
             /\ f[<<queue, loaded>>] = Yields(f, <<queue, loaded>>)
             /\ loaded \in SUBSET (Nat \ {0})
  <2>1. loaded \in SUBSET (Nat \ {0})
    <3>1. DOMAIN queue = 1 .. Len(queue) /\ Len(queue) \in Nat
      BY LenProperties
    <3> QED  BY <3>1
  <2>2. <<queue, loaded>> \in Polling
    BY <1>1, <2>1 DEF Polling
  <2> QED  BY <2>1, <2>2, StreamsYield
<1> HIDE DEF f
<1>4. ASSUME NEW queue \in Seq(1 .. n), NEW loaded \in SUBSET DOMAIN queue,
             NEW t \in Nat, Takes(queue, loaded, t),
             \A q \in Seq(1 .. n) : \A l \in SUBSET DOMAIN q :
               t - 1 \in Nat /\ Takes(q, l, t - 1) => Whole(q, l)
      PROVE  Whole(queue, loaded)
  <2> SUFFICES ASSUME NEW s \in f[<<queue, loaded>>]
               PROVE  IsWhole(A, queue, loaded, s)
    OBVIOUS
  <2>1. s \in Yields(f, <<queue, loaded>>)
    BY <1>3
  <2>2. DOMAIN queue = 1 .. Len(queue) /\ Len(queue) \in Nat
    BY LenProperties
  <2>3. CASE queue = << >>
    <3>1. s = << >>
      BY <2>1, <2>3 DEF Yields
    <3>2. DOMAIN queue = {} /\ Len(queue) = 0 /\ Range(queue) = {} /\ << >> \in Seq(1 .. n)
      BY <2>2, <2>3, EmptySeq DEF Range
    <3> QED  BY <2>3, <3>1, <3>2 DEF IsWhole
  <2>4. CASE queue # << >> /\ 1 \in loaded
    <3> DEFINE rest == Tail(queue)
               after == {i - 1 : i \in loaded \ {1}}
    <3>1. PICK r \in f[<<rest, after>>] : s = <<queue[1]>> \o r
      BY <2>1, <2>4 DEF Yields
    <3>2. /\ t - 1 \in Nat /\ Takes(rest, after, t - 1)
      <4>1. v \in [1 .. n -> Nat] /\ loaded \in SUBSET (Nat \ {0})
        BY <1>2, <1>3 DEF IsCost
      <4> QED  BY <1>1, <1>4, <2>4, <4>1, PopTakesOne
    <3>3. rest \in Seq(1 .. n) /\ Len(rest) = Len(queue) - 1
      BY <2>4, HeadTailProperties
    <3>4. after \in SUBSET DOMAIN rest
      <4> HIDE DEF rest
      <4>1. DOMAIN rest = 1 .. Len(rest)
        BY <3>3, LenProperties
      <4>2. ASSUME NEW i \in loaded \ {1} PROVE i - 1 \in 1 .. Len(rest)
        <5>1. i \in 1 .. Len(queue) /\ i # 1
          BY <2>2
        <5> QED  BY <2>2, <3>3, <5>1
      <4> QED  BY <4>1, <4>2
    <3> HIDE DEF rest, after
    <3>5. IsWhole(A, rest, after, r)
      BY <1>4, <3>1, <3>2, <3>3, <3>4
    <3> QED  BY <2>4, <3>1, <3>5, WholeWithFront DEF rest, after
  <2>5. CASE queue # << >> /\ 1 \notin loaded
    <3>1. PICK i \in DOMAIN queue \ loaded : s \in f[<<H!Poll(queue, i), loaded \cup {i}>>]
      BY <2>1, <2>5 DEF Yields
    <3> DEFINE q == H!Poll(queue, i)
               done == loaded \cup {i}
    <3>2. t - 1 \in Nat /\ q \in Seq(1 .. n) /\ Takes(q, done, t - 1)
      BY <1>2, <1>4, PollTakesOne
    <3>3. done \in SUBSET DOMAIN q
      <4>1. queue[i] \in 1 .. n
        BY <2>2, LenProperties
      <4>2. memos[queue[i]].parents \in Seq(1 .. n)
        BY <4>1, ParentsAreOlder
      <4>3. Len(q) = Len(queue) + Len(memos[queue[i]].parents)
        BY <4>2, ConcatProperties DEF H!Poll
      <4>4. Len(memos[queue[i]].parents) \in Nat
        BY <4>2, LenProperties
      <4> HIDE DEF q
      <4>5. DOMAIN q = 1 .. Len(q)
        BY <3>2, LenProperties
      <4> QED  BY <2>2, <4>3, <4>4, <4>5
    <3> HIDE DEF q, done
    <3>4. IsWhole(A, q, done, s)
      BY <1>4, <3>1, <3>2, <3>3 DEF q, done
    <3> QED  BY <3>4, WholeWithPoll DEF q, done
  <2> QED  BY <2>3, <2>4, <2>5
<1>5. Bad = {}
  <2> SUFFICES ASSUME Bad # {} PROVE FALSE
    OBVIOUS
  <2>1. PICK t \in Bad : \A u \in Bad : t <= u
    <3>1. Bad \in SUBSET Nat
      OBVIOUS
    <3> HIDE DEF Bad
    <3> QED  BY <3>1, Least
  <2>2. PICK queue \in Seq(1 .. n) : \E loaded \in SUBSET DOMAIN queue :
               Takes(queue, loaded, t) /\ ~Whole(queue, loaded)
    BY <2>1
  <2>3. PICK loaded \in SUBSET DOMAIN queue : Takes(queue, loaded, t) /\ ~Whole(queue, loaded)
    BY <2>2
  <2> HIDE DEF Whole, Takes
  <2>4. t \in Nat /\ ~(t <= t - 1)
    OBVIOUS
  <2>5. \A q \in Seq(1 .. n) : \A l \in SUBSET DOMAIN q :
               t - 1 \in Nat /\ Takes(q, l, t - 1) => Whole(q, l)
    BY <2>1, <2>4
  <2> QED  BY <1>4, <2>3, <2>4, <2>5
<1>6. ASSUME NEW queue \in Seq(1 .. n), NEW loaded \in SUBSET DOMAIN queue
      PROVE  Whole(queue, loaded)
  <2> DEFINE x == Left(v, queue, loaded)
  <2>1. Len(queue) \in Nat /\ DOMAIN queue = 1 .. Len(queue)
        /\ \A j \in 1 .. Len(queue) : queue[j] \in 1 .. n
    BY LenProperties
  <2>2. \A j \in 1 .. Len(queue) : x[j] \in Nat
    BY <1>2, <2>1 DEF Left, IsCost
  <2> HIDE DEF x
  <2>3. PICK t \in Nat : Total(x, Len(queue), t)
    BY <2>1, <2>2, TotalExists
  <2> HIDE DEF Whole
  <2> QED  BY <1>5, <2>3 DEF x
<1> QED  BY <1>6 DEF f

(***************************************************************************)
(* Whatever order memos are loaded in, the stream of a head is the head's  *)
(* history, and every memo in it that is not of the head itself comes      *)
(* after a child of its own (CausalMemoStream::poll_next).                 *)
(***************************************************************************)
THEOREM EntityHeadStreamIsComplete == Spec => []StreamIsComplete
<1>1. IInv => StreamIsComplete
  <2> SUFFICES ASSUME IInv, NEW h \in Holder,
                      NEW stream \in H!Streams[<<head[h], {}>>]
               PROVE  /\ H!ToSet(stream) = H!History(head[h])
                      /\ \A i \in DOMAIN stream :
                           \/ stream[i] \in H!ToSet(head[h])
                           \/ \E j \in 1 .. i - 1 : stream[i] \in H!Parents(stream[j])
    BY DEF StreamIsComplete
  <2> DEFINE n == Len(memos)
             A == H!Ancestors
             hd == head[h]
  <2>1. hd \in Seq(1 .. n)
    BY DEF IInv, HeadsInv, IsHead
  <2>2. Len(hd) \in Nat /\ DOMAIN hd = 1 .. Len(hd)
    BY <2>1, LenProperties
  <2> HIDE DEF hd
  <2>3. IsWhole(A, hd, {}, stream)
    <3>1. {} \in SUBSET DOMAIN hd
      OBVIOUS
    <3> QED  BY <2>1, <3>1, StreamsAreWhole DEF IInv, hd
  <2>4. /\ stream \in Seq(1 .. n) /\ Len(hd) <= Len(stream)
        /\ \A j \in 1 .. Len(hd) : stream[j] = hd[j]
        /\ Range(stream) = Range(hd) \cup UNION {A[hd[i]] : i \in DOMAIN hd \ {}}
        /\ \A j \in Len(hd) + 1 .. Len(stream) :
             \E i \in 1 .. j - 1 : stream[j] \in ParentsIn(memos, stream[i])
    BY <2>3 DEF IsWhole
  <2>5. H!ToSet(stream) = Range(stream) /\ H!ToSet(hd) = Range(hd)
    BY DEF H!ToSet, Range
  <2>6. {A[hd[i]] : i \in DOMAIN hd \ {}} = {A[m] : m \in H!ToSet(hd)}
    BY DEF H!ToSet
  <2>7. H!ToSet(stream) = H!History(hd)
    <3>1. H!History(hd) = H!ToSet(hd) \cup UNION {A[m] : m \in H!ToSet(hd)}
      BY DEF H!History
    <3> QED  BY <2>4, <2>5, <2>6, <3>1
  <2>8. ASSUME NEW i \in DOMAIN stream
        PROVE  \/ stream[i] \in H!ToSet(hd)
               \/ \E j \in 1 .. i - 1 : stream[i] \in H!Parents(stream[j])
    <3>1. i \in 1 .. Len(stream) /\ Len(stream) \in Nat
      BY <2>4, LenProperties
    <3>2. CASE i \in 1 .. Len(hd)
      BY <2>2, <2>4, <3>2 DEF H!ToSet
    <3>3. CASE i \in Len(hd) + 1 .. Len(stream)
      BY <2>4, <3>3 DEF H!Parents, H!ToSet, ParentsIn
    <3> QED  BY <2>2, <3>1, <3>2, <3>3
  <2> QED  BY <2>7, <2>8 DEF hd
<1> QED  BY <1>1, EntityHeadIInv, PTL
=============================================================================
