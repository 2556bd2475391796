--------------------------- MODULE UdpJoinProofs ---------------------------
(***************************************************************************)
(* Proofs about slabs that join over UDP (module UdpJoin), for any number  *)
(* of networks and slabs, with packets lost, repeated and in any order.    *)
(*                                                                         *)
(* The handlers are functions from worlds to worlds; Worlds is the set of  *)
(* those in which every address leads where it should.  Each operator of   *)
(* the model is shown to stay in that set.  Loops over a list of slabs are *)
(* folds, so the first part is about folds over finite sets.               *)
(***************************************************************************)
EXTENDS UdpJoin, SequenceTheorems, FiniteSetTheorems, TLAPS

-----------------------------------------------------------------------------
(***************************************************************************)
(* Least numbers, and folds over the subsets of a finite set.              *)
(***************************************************************************)
\* A set of numbers that is not empty has a least one.
LEMMA Least ==
  ASSUME NEW S \in SUBSET Nat, S # {}
  PROVE  Min(S) \in S /\ \A i \in S : Min(S) <= i
<1>1. PICK i \in S : \A j \in S : ~ (<<j, i>> \in OpToRel(<, Nat))
  BY NatLessThanWellFounded, WFMin
<1>2. \A j \in S : i <= j
  <2> SUFFICES ASSUME NEW j \in S, j < i PROVE FALSE
    OBVIOUS
  <2>1. <<j, i>> \in OpToRel(<, Nat)
    BY DEF OpToRel
  <2> QED  BY <1>1, <2>1
<1> QED  BY <1>2 DEF Min

\* it, the value of a fold over every subset of S: base for the empty set;
\* otherwise an element is taken out, by pick, and folded, by op.
IsFold(S, base, pick, op, it) ==
  it = [s \in SUBSET S |->
          IF s = {} THEN base ELSE op[<<pick[s], it[s \ {pick[s]}]>>]]

\* There is a fold of every finite set, and it stays in W.
LEMMA FoldExists ==
  ASSUME NEW S, IsFiniteSet(S), NEW W, NEW base \in W,
         NEW pick, \A s \in SUBSET S : s # {} => pick[s] \in s,
         NEW op \in [S \X W -> W]
  PROVE  \E it \in [SUBSET S -> W] : IsFold(S, base, pick, op, it)
<1> DEFINE Small(n) == {s \in SUBSET S : Cardinality(s) <= n}
           Folded(n, it) ==
             /\ it \in [Small(n) -> W]
             /\ \A s \in Small(n) :
                  it[s] = IF s = {} THEN base
                          ELSE op[<<pick[s], it[s \ {pick[s]}]>>]
           Bad == {n \in Nat : ~ \E it : Folded(n, it)}
<1>1. \A s \in SUBSET S :
        /\ IsFiniteSet(s) /\ Cardinality(s) \in Nat
        /\ Cardinality(s) <= Cardinality(S)
        /\ Cardinality(s) = 0 <=> s = {}
        /\ s # {} => Cardinality(s \ {pick[s]}) = Cardinality(s) - 1
  BY FS_Subset, FS_CardinalityType, FS_EmptySet, FS_RemoveElement
<1>2. Bad = {}
  <2> SUFFICES ASSUME Bad # {} PROVE FALSE
    OBVIOUS
  <2>1. PICK n \in Bad : \A k \in Bad : n <= k
    <3>1. Bad \in SUBSET Nat
      OBVIOUS
    <3> HIDE DEF Bad
    <3> QED  BY <3>1, Least
  <2>2. n \in Nat /\ ~ \E it : Folded(n, it)
    OBVIOUS
  <2>3. CASE n = 0
    <3>1. Small(0) = {{}}
      <4>1. ASSUME NEW s \in Small(0) PROVE s = {}
        <5>1. Cardinality(s) \in Nat /\ Cardinality(s) <= 0
          BY <1>1
        <5>2. Cardinality(s) = 0
          BY <5>1
        <5> QED  BY <1>1, <5>2
      <4>2. {} \in Small(0)
        BY FS_EmptySet
      <4> QED  BY <4>1, <4>2
    <3>2. Folded(0, [s \in {{}} |-> base])
      BY <3>1
    <3> QED  BY <2>2, <2>3, <3>2
  <2>4. CASE n # 0
    <3>1. n - 1 \in Nat /\ ~ (n <= n - 1)
      BY <2>2, <2>4
    <3>2. PICK it : Folded(n - 1, it)
      <4>1. n - 1 \notin Bad
        <5> HIDE DEF Bad
        <5> QED  BY <2>1, <3>1
      <4> QED  BY <3>1, <4>1
    <3> DEFINE new == [s \in Small(n) |->
                        IF s = {} THEN base ELSE op[<<pick[s], it[s \ {pick[s]}]>>]]
    <3>3. \A s \in Small(n) : s # {} => s \ {pick[s]} \in Small(n - 1)
                                        /\ pick[s] \in S
      BY <1>1, <2>2, <2>4
    <3>4. new \in [Small(n) -> W]
      <4>1. ASSUME NEW s \in Small(n), s # {}
            PROVE  op[<<pick[s], it[s \ {pick[s]}]>>] \in W
        <5>1. it[s \ {pick[s]}] \in W
          BY <3>2, <3>3, <4>1
        <5> QED  BY <3>3, <4>1, <5>1
      <4> QED  BY <4>1
    <3>5. \A s \in Small(n - 1) : s \in Small(n) /\ new[s] = it[s]
      <4>1. ASSUME NEW s \in Small(n - 1) PROVE s \in Small(n)
        <5>1. Cardinality(s) \in Nat /\ Cardinality(s) <= n - 1
          BY <1>1
        <5> QED  BY <2>2, <5>1
      <4> QED  BY <3>2, <4>1
    <3>6. Folded(n, new)
      BY <3>3, <3>4, <3>5
    <3> QED  BY <2>2, <3>6
  <2> QED  BY <2>3, <2>4
<1>3. PICK it : Folded(Cardinality(S), it)
  <2>1. Cardinality(S) \in Nat
    BY FS_CardinalityType
  <2> QED  BY <1>2, <2>1
<1>4. Small(Cardinality(S)) = SUBSET S
  BY <1>1
<1>5. it \in [SUBSET S -> W] /\ IsFold(S, base, pick, op, it)
  BY <1>3, <1>4 DEF IsFold
<1> QED  BY <1>5

\* The greatest element of a set of numbers that has one.
LEMMA MaxIsElement ==
  ASSUME NEW n \in Nat, NEW s \in SUBSET (1 .. n), s # {}
  PROVE  Max(s) \in s
<1> DEFINE above == {k \in Nat : \A j \in s : j <= k}
<1>1. above \in SUBSET Nat /\ n \in above
  OBVIOUS
<1>2. PICK k \in above : \A j \in above : k <= j
  <2> HIDE DEF above
  <2> QED  BY <1>1, Least
<1>3. k \in s
  <2> SUFFICES ASSUME k \notin s PROVE FALSE
    OBVIOUS
  <2>1. k # 0 /\ k - 1 \in Nat
    <3>1. PICK j \in s : TRUE
      OBVIOUS
    <3>2. j \in 1 .. n /\ j <= k
      OBVIOUS
    <3> QED  BY <3>2
  <2>2. k - 1 \in above
    BY <2>1
  <2> QED  BY <1>2, <2>1, <2>2
<1> QED  BY <1>3 DEF Max

\* A function that keeps to the sets F with every element keeps to them.
LEMMA FoldKeeps ==
  ASSUME NEW S, IsFiniteSet(S), NEW F, NEW it, it[{}] \in F[{}],
         \A s \in SUBSET S :
           s # {} => \E x \in s : it[s \ {x}] \in F[s \ {x}] => it[s] \in F[s]
  PROVE  it[S] \in F[S]
<1> DEFINE Bad == {n \in Nat : \E s \in SUBSET S : Cardinality(s) = n /\ it[s] \notin F[s]}
<1>1. \A s \in SUBSET S :
        /\ Cardinality(s) \in Nat
        /\ \A x \in s : Cardinality(s \ {x}) = Cardinality(s) - 1
  BY FS_Subset, FS_CardinalityType, FS_RemoveElement
<1>2. Bad = {}
  <2> SUFFICES ASSUME Bad # {} PROVE FALSE
    OBVIOUS
  <2>1. PICK n \in Bad : \A k \in Bad : n <= k
    <3>1. Bad \in SUBSET Nat
      OBVIOUS
    <3> HIDE DEF Bad
    <3> QED  BY <3>1, Least
  <2>2. PICK s \in SUBSET S : Cardinality(s) = n /\ it[s] \notin F[s]
    OBVIOUS
  <2>3. s # {}
    BY <2>2
  <2>4. PICK x \in s : it[s \ {x}] \notin F[s \ {x}]
    BY <2>2, <2>3
  <2>5. n \in Nat /\ Cardinality(s \ {x}) = n - 1 /\ n - 1 \in Nat
    <3>1. s \ {x} \in SUBSET S
      OBVIOUS
    <3>2. Cardinality(s \ {x}) \in Nat
      BY <1>1, <3>1
    <3> QED  BY <1>1, <2>2, <3>2
  <2>6. n - 1 \in Bad
    BY <2>4, <2>5
  <2>7. ~ (n <= n - 1)
    BY <2>5
  <2> HIDE DEF Bad
  <2> QED  BY <2>1, <2>6, <2>7
<1> QED  BY <1>1, <1>2

\* In particular to one set.
LEMMA FoldStays ==
  ASSUME NEW S, IsFiniteSet(S), NEW W, NEW it, it[{}] \in W,
         \A s \in SUBSET S : s # {} => \E x \in s : it[s \ {x}] \in W => it[s] \in W
  PROVE  it[S] \in W
<1> DEFINE F == [s \in SUBSET S |-> W]
<1>1. \A s \in SUBSET S : F[s] = W
  OBVIOUS
<1>2. {} \in SUBSET S /\ S \in SUBSET S /\ \A s \in SUBSET S : \A x \in s : s \ {x} \in SUBSET S
  OBVIOUS
<1> HIDE DEF F
<1>3. /\ it[{}] \in F[{}]
      /\ \A s \in SUBSET S :
           s # {} => \E x \in s : it[s \ {x}] \in F[s \ {x}] => it[s] \in F[s]
  BY <1>1, <1>2
<1>4. it[S] \in F[S]
  BY <1>3, FoldKeeps
<1> QED  BY <1>1, <1>2, <1>4

-----------------------------------------------------------------------------
(***************************************************************************)
(* What a state is made of: addresses, packets and the world of slabs.     *)
(***************************************************************************)
\* The network of the slab with an id, and the slabs of a network.
Place(i) == NetOf[CHOOSE t \in Slab : IdOf[t] = i]

SlabsOf(n) == {s \in Slab : NetOf[s] = n}

\* A list as it travels: a peer comes with addresses it is at.
Listed(i) ==
  [status : Status, by : Slab, via : Seq({Local, Place(i)})] \cup {None}

List == {l \in [Id -> UNION {Listed(i) : i \in Id}] : \A i \in Id : l[i] \in Listed(i)}

\* What slab i puts in a packet.
Body(i) ==
  {Request}
  \cup {[kind |-> "memo", list |-> l] : l \in List}
  \cup {[kind |-> "peering", list |-> l] : l \in List}
  \cup {[kind |-> "presence", address |-> a, seed |-> l] :
          a \in {Local, Place(i)}, l \in List \cup {None}}

Packet ==
  {p \in [net : Net, local : BOOLEAN, to : Id \cup {0}, from : Id, src : Net,
          body : UNION {Body(i) : i \in Id}] :
     p.src = Place(p.from) /\ p.body \in Body(p.from)}

\* The packets on their way, a bag of them.
Wire == UNION {[P -> Nat \ {0}] : P \in SUBSET Packet}

\* Where the memo is for a slab, and what a reader does.
Ptr == {"unknown", "remote", "resident"}
Pc  == {"idle", "waiting", "found", "failed"}

\* What the handlers work on: every address a slab has of another one is an
\* address of that one (Home), and a network runs only slabs of its own.
Worlds ==
  {w \in [slabs : [Net -> Seq(Slab)],
          seed  : [Net -> Slab \cup {None}],
          refs  : [Slab -> [Id -> Seq(Net \cup {Local})]],
          ptr   : [Slab -> Ptr],
          peers : [Slab -> [Id -> Peer \cup {None}]],
          wire  : Wire,
          pc    : [Slab -> Pc]] :
     /\ \A n \in Net : w.slabs[n] \in Seq(SlabsOf(n))
     /\ \A s \in Slab, i \in Id : w.refs[s][i] \in Seq(Home(s, i))}

\* Where slabs are.
LEMMA Places ==
  /\ \A s \in Slab : IdOf[s] \in Id /\ Place(IdOf[s]) = NetOf[s] /\ NetOf[s] \in Net
  /\ \A i \in Id : Place(i) \in Net
  /\ \A s \in Slab, i \in Id :
       /\ Home(s, i) \subseteq {Local, Place(i)}
       /\ Home(s, i) \subseteq Net \cup {Local}
       /\ Place(i) \in Home(s, i)
       /\ Place(i) = NetOf[s] => Local \in Home(s, i)
<1>1. ASSUME NEW s \in Slab PROVE IdOf[s] \in Id /\ Place(IdOf[s]) = NetOf[s] /\ NetOf[s] \in Net
  <2>1. IdOf[CHOOSE t \in Slab : IdOf[t] = IdOf[s]] = IdOf[s]
        /\ (CHOOSE t \in Slab : IdOf[t] = IdOf[s]) \in Slab
    OBVIOUS
  <2>2. (CHOOSE t \in Slab : IdOf[t] = IdOf[s]) = s
    BY <2>1, IdAssumption
  <2> QED  BY <2>2, JoinAssumption DEF Id, Place
<1>2. ASSUME NEW i \in Id PROVE Place(i) \in Net
  <2>1. PICK s \in Slab : i = IdOf[s]
    BY DEF Id
  <2> QED  BY <1>1, <2>1
<1>3. ASSUME NEW s \in Slab, NEW i \in Id
      PROVE  Home(s, i) = IF Place(i) = NetOf[s] THEN {Local, Place(i)} ELSE {Place(i)}
  BY DEF Home, Place
<1> QED  BY <1>1, <1>2, <1>3

\* Sequences of a larger set.
LEMMA SeqOfMore ==
  ASSUME NEW S, NEW T, S \subseteq T, NEW q \in Seq(S)
  PROVE  q \in Seq(T)
BY SeqDef

\* Worlds with one thing changed.
LEMMA RefsChanged ==
  ASSUME NEW w \in Worlds, NEW s \in Slab, NEW i \in Id, NEW q \in Seq(Home(s, i))
  PROVE  [w EXCEPT !.refs[s][i] = q] \in Worlds
<1>1. q \in Seq(Net \cup {Local})
  BY Places, SeqOfMore
<1> QED  BY <1>1 DEF Worlds

LEMMA WireChanged ==
  ASSUME NEW w \in Worlds, NEW b \in Wire
  PROVE  [w EXCEPT !.wire = b] \in Worlds
BY DEF Worlds

LEMMA PcChanged ==
  ASSUME NEW w \in Worlds, NEW s \in Slab, NEW c \in Pc
  PROVE  [w EXCEPT !.pc[s] = c] \in Worlds
BY DEF Worlds

\* A packet put on the wire, and one taken from it.
LEMMA BagAdded ==
  ASSUME NEW b \in Wire, NEW p \in Packet
  PROVE  b (+) SetToBag({p}) \in Wire
<1>1. PICK P \in SUBSET Packet : b \in [P -> Nat \ {0}]
  BY DEF Wire
<1>2. b (+) SetToBag({p}) \in [P \cup {p} -> Nat \ {0}]
  BY <1>1 DEF SetToBag, (+)
<1> QED  BY <1>2 DEF Wire

LEMMA BagTaken ==
  ASSUME NEW b \in Wire, NEW p
  PROVE  b (-) SetToBag({p}) \in Wire
<1>1. PICK P \in SUBSET Packet : b \in [P -> Nat \ {0}]
  BY DEF Wire
<1> DEFINE Q == {q \in P : q = p => b[q] - 1 > 0}
<1>2. b (-) SetToBag({p}) \in [Q -> Nat \ {0}]
  BY <1>1 DEF SetToBag, (-)
<1> QED  BY <1>2 DEF Wire

-----------------------------------------------------------------------------
(***************************************************************************)
(* The operators that change a world: addresses.                           *)
(***************************************************************************)
\* A slab found in a network is one of it.
LEMMA SlabHere ==
  ASSUME NEW w \in Worlds, NEW n \in Net, NEW i, SlabWith(w, n, i) # None
  PROVE  /\ SlabWith(w, n, i) \in Slab
         /\ NetOf[SlabWith(w, n, i)] = n
         /\ IdOf[SlabWith(w, n, i)] = i
         /\ w.slabs[n] # << >>
<1>1. w.slabs[n] \in Seq(SlabsOf(n))
  BY DEF Worlds
<1> DEFINE here == {s \in ToSet(w.slabs[n]) : IdOf[s] = i}
<1>2. here \subseteq SlabsOf(n) /\ (w.slabs[n] = << >> => here = {})
  <2>1. \A k \in DOMAIN w.slabs[n] : w.slabs[n][k] \in SlabsOf(n)
    BY <1>1, LenProperties
  <2>2. w.slabs[n] = << >> => DOMAIN w.slabs[n] = {}
    OBVIOUS
  <2> QED  BY <2>1, <2>2 DEF ToSet
<1>3. SlabWith(w, n, i) \in here
  BY DEF SlabWith
<1> QED  BY <1>2, <1>3 DEF SlabsOf

\* An element more.
LEMMA AppendedIn ==
  ASSUME NEW S, NEW q \in Seq(S), NEW a \in S
  PROVE  Append(q, a) \in Seq(S) /\ ToSet(Append(q, a)) = ToSet(q) \cup {a}
<1> DEFINE one == <<a>>
<1>1. one \in Seq(S) /\ Range(one) = {a} /\ Append(q, a) = q \o one
  BY AppendIsConcat DEF Range
<1>2. Range(q) = ToSet(q) /\ Range(Append(q, a)) = ToSet(Append(q, a))
  BY DEF Range, ToSet
<1> HIDE DEF one
<1> QED  BY <1>1, <1>2, AppendProperties, RangeConcatenation

\* An element that is there.
LEMMA ContainedIn ==
  ASSUME NEW S, NEW q \in Seq(S), NEW a, Contains(q, a)
  PROVE  a \in ToSet(q)
BY LenProperties DEF Contains, ToSet

\* Slab s can use an address of slab i.
Usable(w, s, i, a) == a = Local => SlabWith(w, NetOf[s], i) # None

\* Slab s notes addresses of slab i: those it notes are where slab i is, it
\* forgets none, and it notes all that it can use.
LEMMA AddressesAdded ==
  ASSUME NEW w \in Worlds, NEW s \in Slab, NEW i \in Id,
         NEW list \in Seq(Home(s, i)),
         NEW addresses \in Seq({Local, Place(i)})
  PROVE  FoldLeft(LAMBDA l, a :
                    IF (a = Local => SlabWith(w, NetOf[s], i) # None) /\ ~Contains(l, a)
                    THEN Append(l, a) ELSE l,
                  list, addresses)
           \in {q \in Seq(Home(s, i)) :
                  /\ ToSet(list) \subseteq ToSet(q)
                  /\ \A a \in ToSet(addresses) : Usable(w, s, i, a) => a \in ToSet(q)}
<1> DEFINE W == Seq(Home(s, i))
           D == DOMAIN addresses
           Ok(a) == a = Local => SlabWith(w, NetOf[s], i) # None
           With(a, l) == IF Ok(a) /\ ~Contains(l, a) THEN Append(l, a) ELSE l
           pick == [d \in SUBSET D |-> Max(d)]
           op == [z \in D \X W |-> With(addresses[z[1]], z[2])]
           Eq(it) == it = [d \in SUBSET D |->
                             IF d = {} THEN list
                             ELSE LET x == Max(d)
                                  IN  With(addresses[x], it[d \ {x}])]
           fold == CHOOSE it : Eq(it)
           F == [d \in SUBSET D |->
                   {l \in W : /\ ToSet(list) \subseteq ToSet(l)
                              /\ \A k \in d : Ok(addresses[k]) => addresses[k] \in ToSet(l)}]
<1>1. FoldLeft(LAMBDA l, a :
                    IF (a = Local => SlabWith(w, NetOf[s], i) # None) /\ ~Contains(l, a)
                    THEN Append(l, a) ELSE l,
                  list, addresses) = fold[D]
  BY DEF FoldLeft, MapThenFoldSet
<1>2. D = 1 .. Len(addresses) /\ Len(addresses) \in Nat /\ IsFiniteSet(D)
      /\ \A x \in D : addresses[x] \in {Local, Place(i)}
  BY LenProperties, FS_Interval
<1>3. ASSUME NEW x \in D, NEW l \in W
      PROVE  /\ With(addresses[x], l) \in W
             /\ ToSet(l) \subseteq ToSet(With(addresses[x], l))
             /\ Ok(addresses[x]) => addresses[x] \in ToSet(With(addresses[x], l))
  <2>1. Ok(addresses[x]) => addresses[x] \in Home(s, i)
    BY <1>2, SlabHere, Places
  <2>3. CASE Ok(addresses[x]) /\ ~Contains(l, addresses[x])
    <3> HIDE DEF Ok
    <3> QED  BY <2>1, <2>3, AppendedIn
  <2>4. CASE ~Ok(addresses[x])
    <3> HIDE DEF Ok
    <3> QED  BY <2>4
  <2>5. CASE Contains(l, addresses[x])
    <3> HIDE DEF Ok
    <3> QED  BY <2>5, ContainedIn
  <2> QED  BY <2>3, <2>4, <2>5
<1> HIDE DEF With, W
<1>4. PICK it \in [SUBSET D -> W] : IsFold(D, list, pick, op, it)
  <2>1. \A d \in SUBSET D : d # {} => pick[d] \in d
    BY <1>2, MaxIsElement
  <2>2. op \in [D \X W -> W]
    BY <1>3
  <2>3. list \in W
    BY DEF W
  <2> HIDE DEF pick, op, D
  <2> QED  BY <1>2, <2>1, <2>2, <2>3, FoldExists
<1>5. \A d \in SUBSET D : d # {} => Max(d) \in d
  BY <1>2, MaxIsElement
<1>11. \A a \in ToSet(addresses) : \E k \in D : addresses[k] = a
  BY DEF ToSet
<1> HIDE DEF D, Ok
<1>6. Eq(it)
  BY <1>4, <1>5 DEF IsFold
<1>7. Eq(fold)
  BY <1>6
<1>8. fold[{}] \in F[{}]
  <2>1. fold[{}] = list
    BY <1>7
  <2> HIDE DEF fold
  <2> QED  BY <2>1 DEF W
<1>9. ASSUME NEW d \in SUBSET D, d # {}
      PROVE \E x \in d : fold[d \ {x}] \in F[d \ {x}] => fold[d] \in F[d]
  <2> DEFINE x == Max(d)
  <2>1. x \in d /\ x \in D
    BY <1>5, <1>9
  <2>2. fold[d] = With(addresses[x], fold[d \ {x}])
    BY <1>7, <1>9
  <2> HIDE DEF x, fold
  <2>3. ASSUME fold[d \ {x}] \in F[d \ {x}] PROVE fold[d] \in F[d]
    <3>1. /\ fold[d \ {x}] \in W /\ ToSet(list) \subseteq ToSet(fold[d \ {x}])
          /\ \A k \in d \ {x} :
               Ok(addresses[k]) => addresses[k] \in ToSet(fold[d \ {x}])
      BY <2>3
    <3>2. /\ fold[d] \in W /\ ToSet(fold[d \ {x}]) \subseteq ToSet(fold[d])
          /\ Ok(addresses[x]) => addresses[x] \in ToSet(fold[d])
      BY <1>3, <2>1, <2>2, <3>1
    <3>3. \A k \in d : Ok(addresses[k]) => addresses[k] \in ToSet(fold[d])
      BY <3>1, <3>2
    <3> QED  BY <3>1, <3>2, <3>3
  <2> QED  BY <2>1, <2>3
<1>10. fold[D] \in F[D]
  <2> HIDE DEF fold, F
  <2> QED  BY <1>2, <1>8, <1>9, FoldKeeps
<1>12. fold[D] \in {q \in W :
                     /\ ToSet(list) \subseteq ToSet(q)
                     /\ \A a \in ToSet(addresses) : Ok(a) => a \in ToSet(q)}
  <2> HIDE DEF fold
  <2> QED  BY <1>10, <1>11
<1> QED  BY <1>1, <1>12 DEF W, Ok, Usable

\* v is w in which slab s was told of slab i, if it is another one: no address
\* is forgotten, and those it was told are among them if it can use them.
Referred(w, v, s, i, addresses) ==
  IF i = IdOf[s] THEN v = w
  ELSE \E q \in Seq(Home(s, i)) :
         /\ v = [w EXCEPT !.refs[s][i] = q]
         /\ ToSet(w.refs[s][i]) \subseteq ToSet(q)
         /\ \A a \in ToSet(addresses) : Usable(w, s, i, a) => a \in ToSet(q)

\* What assert_slabref leaves.
LEMMA AssertSlabrefIs ==
  ASSUME NEW w \in Worlds, NEW s \in Slab, NEW i \in Id,
         NEW addresses \in Seq({Local, Place(i)})
  PROVE  Referred(w, AssertSlabref(w, s, i, addresses), s, i, addresses)
<1> DEFINE q == FoldLeft(LAMBDA l, a :
                    IF (a = Local => SlabWith(w, NetOf[s], i) # None) /\ ~Contains(l, a)
                    THEN Append(l, a) ELSE l,
                  w.refs[s][i], addresses)
<1>1. w.refs[s][i] \in Seq(Home(s, i))
  BY DEF Worlds
<1>2. AssertSlabref(w, s, i, addresses)
        = IF i = IdOf[s] THEN w ELSE [w EXCEPT !.refs[s][i] = q]
  BY DEF AssertSlabref
<1>3. q \in {r \in Seq(Home(s, i)) :
               /\ ToSet(w.refs[s][i]) \subseteq ToSet(r)
               /\ \A a \in ToSet(addresses) : Usable(w, s, i, a) => a \in ToSet(r)}
  BY <1>1, AddressesAdded
<1> HIDE DEF q
<1> QED  BY <1>2, <1>3 DEF Referred

\* It leaves a world.
LEMMA AssertSlabrefIn ==
  ASSUME NEW w \in Worlds, NEW s \in Slab, NEW i \in Id,
         NEW addresses \in Seq({Local, Place(i)})
  PROVE  AssertSlabref(w, s, i, addresses) \in Worlds
<1> DEFINE v == AssertSlabref(w, s, i, addresses)
<1>1. Referred(w, v, s, i, addresses)
  BY AssertSlabrefIs
<1> HIDE DEF v
<1>2. v \in Worlds
  BY <1>1, RefsChanged DEF Referred
<1> QED  BY <1>2 DEF v

-----------------------------------------------------------------------------
(***************************************************************************)
(* Packets are made and sent.                                              *)
(***************************************************************************)
\* What a slab knows of another one.
LEMMA PeersOf ==
  ASSUME NEW w \in Worlds, NEW s \in Slab, NEW i \in Id
  PROVE  /\ w.peers[s][i] \in Peer \cup {None}
         /\ w.peers[s][i] # None => /\ w.peers[s][i].by \in Slab
                                    /\ w.peers[s][i].status \in Status
         /\ w.refs[s][i] \in Seq(Home(s, i))
         /\ w.refs[s][i] \in Seq({Local, Place(i)})
<1>1. w.peers[s][i] \in Peer \cup {None} /\ w.refs[s][i] \in Seq(Home(s, i))
  BY DEF Worlds
<1>2. w.refs[s][i] \in Seq({Local, Place(i)})
  BY <1>1, Places, SeqOfMore
<1> QED  BY <1>1, <1>2 DEF Peer, Status

\* A message for slab i goes where slab i is.
LEMMA RouteIn ==
  ASSUME NEW w \in Worlds, NEW s \in Slab, NEW i \in Id, Route(w, s, i) # None
  PROVE  Route(w, s, i) \in Home(s, i)
<1>1. w.refs[s][i] \in Seq(Home(s, i)) /\ w.refs[s][i] # << >>
      /\ Route(w, s, i) = Last(w.refs[s][i])
  BY PeersOf DEF Route
<1>2. Len(w.refs[s][i]) \in 1 .. Len(w.refs[s][i])
  BY <1>1, LenProperties, EmptySeq
<1> QED  BY <1>1, <1>2, LenProperties DEF Last

\* v is w, or w with a packet more.
Sent(w, v, from, to, body) ==
  \/ v = w
  \/ \E p \in Packet : /\ p.from = from /\ p.to = to /\ p.body = body
                       /\ v = [w EXCEPT !.wire = @ (+) SetToBag({p})]

\* Send puts at most one packet on the wire, and from its sender.
LEMMA SendIs ==
  ASSUME NEW w \in Worlds, NEW s \in Slab, NEW by \in Slab, NEW i \in Id,
         NEW body \in Body(IdOf[s])
  PROVE  Sent(w, Send(w, s, by, i, body), IdOf[s], i, body)
<1> DEFINE a == Route(w, by, i)
           p == [net |-> IF a = Local THEN NetOf[s] ELSE a, local |-> a = Local,
                 to |-> i, from |-> IdOf[s], src |-> NetOf[s], body |-> body]
<1>1. CASE a = None
  BY <1>1 DEF Send, Sent
<1>2. CASE a # None
  <2>1. a # Local => a \in Net
    BY <1>2, RouteIn, Places
  <2>2. p \in Packet
    <3>1. body \in UNION {Body(j) : j \in Id} /\ IdOf[s] \in Id
      BY Places
    <3>2. (IF a = Local THEN NetOf[s] ELSE a) \in Net
      BY <2>1, Places
    <3> HIDE DEF a
    <3>3. p.src = Place(p.from) /\ p.body \in Body(p.from)
      BY Places
    <3>4. p \in [net : Net, local : BOOLEAN, to : Id \cup {0}, from : Id, src : Net,
                 body : UNION {Body(j) : j \in Id}]
      BY <3>1, <3>2, Places
    <3> HIDE DEF p
    <3> QED  BY <3>3, <3>4 DEF Packet
  <2>3. Send(w, s, by, i, body) = [w EXCEPT !.wire = @ (+) SetToBag({p})]
    BY <1>2 DEF Send
  <2>4. p.from = IdOf[s] /\ p.to = i /\ p.body = body
    OBVIOUS
  <2> HIDE DEF p
  <2> QED  BY <2>2, <2>3, <2>4 DEF Sent
<1> QED  BY <1>1, <1>2

\* It leaves a world.
LEMMA PacketAdded ==
  ASSUME NEW w \in Worlds, NEW p \in Packet
  PROVE  [w EXCEPT !.wire = @ (+) SetToBag({p})] \in Worlds
<1>1. w.wire \in Wire
  BY DEF Worlds
<1>2. w.wire (+) SetToBag({p}) \in Wire
  BY <1>1, BagAdded
<1> QED  BY <1>2, WireChanged

LEMMA SendIn ==
  ASSUME NEW w \in Worlds, NEW s \in Slab, NEW by \in Slab, NEW i \in Id,
         NEW body \in Body(IdOf[s])
  PROVE  Send(w, s, by, i, body) \in Worlds
<1> DEFINE v == Send(w, s, by, i, body)
<1>1. Sent(w, v, IdOf[s], i, body)
  BY SendIs
<1> HIDE DEF v
<1>2. v \in Worlds
  BY <1>1, PacketAdded DEF Sent
<1> QED  BY <1>2 DEF v

\* A peer list: a slab lists itself, each entry is of its slab.
LEMMA OwnEntry ==
  ASSUME NEW s \in Slab, NEW c \in Status
  PROVE  [status |-> c, by |-> s, via |-> <<NetOf[s]>>] \in Listed(IdOf[s])
<1>1. <<NetOf[s]>> \in Seq({Local, Place(IdOf[s])})
  BY Places
<1> QED  BY <1>1 DEF Listed

LEMMA ListIn ==
  ASSUME NEW l, l = [i \in Id |-> l[i]], \A i \in Id : l[i] \in Listed(i)
  PROVE  l \in List
BY DEF List

LEMMA EntryOf ==
  ASSUME NEW l \in List, NEW i \in Id, l[i] # None
  PROVE  /\ l[i] \in Listed(i) /\ l[i].status \in Status /\ l[i].by \in Slab
         /\ l[i].via \in Seq({Local, Place(i)})
BY DEF List, Listed

\* What slabs put in packets.
LEMMA PeerlistIn ==
  ASSUME NEW w \in Worlds, NEW s \in Slab, NEW dest
  PROVE  PeerlistFor(w, s, dest) \in List
<1> DEFINE l == PeerlistFor(w, s, dest)
<1>1. ASSUME NEW i \in Id PROVE l[i] \in Listed(i)
  <2>1. CASE i = IdOf[s]
    <3>1. l[i] = [status |-> StatusOf(w, s), by |-> s, via |-> <<NetOf[s]>>]
      BY <2>1 DEF PeerlistFor
    <3>2. StatusOf(w, s) \in Status
      BY DEF StatusOf, Status
    <3> QED  BY <2>1, <3>1, <3>2, OwnEntry
  <2>2. CASE i # IdOf[s] /\ (i = dest \/ w.peers[s][i] = None)
    BY <2>2 DEF PeerlistFor, Listed
  <2>3. CASE ~ (i = IdOf[s] \/ i = dest \/ w.peers[s][i] = None)
    <3>1. l[i] = [status |-> w.peers[s][i].status, by |-> w.peers[s][i].by,
                  via |-> w.refs[w.peers[s][i].by][i]]
      BY <2>3 DEF PeerlistFor
    <3>2. /\ w.peers[s][i].by \in Slab
          /\ w.peers[s][i].status \in Status
      BY <2>3, PeersOf
    <3>3. w.refs[w.peers[s][i].by][i] \in Seq({Local, Place(i)})
      BY <3>2, PeersOf
    <3> QED  BY <3>1, <3>2, <3>3 DEF Listed
  <2> QED  BY <2>1, <2>2, <2>3
<1>2. l = [i \in Id |-> l[i]]
  BY DEF PeerlistFor
<1> HIDE DEF l
<1>3. l \in List
  BY <1>1, <1>2, ListIn
<1> QED  BY <1>3 DEF l

LEMMA MemoIn ==
  ASSUME NEW w \in Worlds, NEW s \in Slab, NEW dest
  PROVE  Memo(w, s, dest) \in Body(IdOf[s])
BY PeerlistIn DEF Memo, Body

LEMMA PeeringIn ==
  ASSUME NEW l \in List, NEW i PROVE Peering(l) \in Body(i)
BY DEF Peering, Body

LEMMA PresenceIn ==
  ASSUME NEW w \in Worlds, NEW s \in Slab, NEW a \in {Local, NetOf[s]}, NEW dest
  PROVE  Presence(w, s, a, dest) \in Body(IdOf[s])
<1> DEFINE l == IF w.seed[NetOf[s]] = None THEN None ELSE PeerlistFor(w, s, dest)
<1>1. l \in List \cup {None}
  BY PeerlistIn
<1>2. a \in {Local, Place(IdOf[s])}
  BY Places
<1>3. Presence(w, s, a, dest) = [kind |-> "presence", address |-> a, seed |-> l]
  BY DEF Presence
<1> HIDE DEF l
<1> QED  BY <1>1, <1>2, <1>3 DEF Body

-----------------------------------------------------------------------------
(***************************************************************************)
(* What is done to many slabs, by folds: what a step of it keeps, it keeps.*)
(***************************************************************************)
\* There are finitely many ids.
LEMMA IdsAreFinite == \A S \in SUBSET Id : IsFiniteSet(S)
<1>1. IsFiniteSet(Id)
  <2>1. IdOf \in Surjection(Slab, Id)
    BY JoinAssumption DEF Surjection, Id
  <2> QED  BY <2>1, JoinAssumption, FS_Surjection
<1> QED  BY <1>1, FS_Subset

\* A handler that goes through the peers of a list.
LEMMA AssertPeersKeeps ==
  ASSUME NEW w \in Worlds, NEW s \in Slab, NEW list \in List,
         NEW F, \A d \in SUBSET Id : F[d] \subseteq Worlds,
         w \in F[{}],
         \A d \in SUBSET Id : \A i \in d : list[i] # None =>
           \A x \in F[d \ {i}] : AssertSlabref(x, s, i, list[i].via) \in F[d]
  PROVE  AssertPeers(w, s, list) \in F[{i \in Id : list[i] # None}]
<1> DEFINE D == {i \in Id : list[i] # None}
           With(i, x) == AssertSlabref(x, s, i, list[i].via)
           pick == [d \in SUBSET D |-> CHOOSE x \in d : TRUE]
           op == [z \in D \X Worlds |-> With(z[1], z[2])]
           Eq(it) == it = [d \in SUBSET D |->
                             IF d = {} THEN w
                             ELSE LET x == CHOOSE x \in d : TRUE
                                  IN  With(x, it[d \ {x}])]
           fold == CHOOSE it : Eq(it)
<1>1. AssertPeers(w, s, list) = fold[D]
  BY DEF AssertPeers, FoldSet, MapThenFoldSet
<1>2. IsFiniteSet(D) /\ D \subseteq Id
  BY IdsAreFinite
<1>3. ASSUME NEW i \in D, NEW x \in Worlds PROVE With(i, x) \in Worlds
  BY EntryOf, AssertSlabrefIn
<1>4. ASSUME NEW d \in SUBSET D, NEW i \in d, NEW x \in F[d \ {i}]
      PROVE  With(i, x) \in F[d]
  OBVIOUS
<1> HIDE DEF With, D
<1>5. PICK it \in [SUBSET D -> Worlds] : IsFold(D, w, pick, op, it)
  <2>1. \A d \in SUBSET D : d # {} => pick[d] \in d
    OBVIOUS
  <2>2. op \in [D \X Worlds -> Worlds]
    BY <1>3
  <2> HIDE DEF pick, op
  <2> QED  BY <1>2, <2>1, <2>2, FoldExists
<1>6. Eq(it)
  BY <1>5 DEF IsFold
<1>7. Eq(fold)
  BY ONLY <1>6
<1>8. fold[{}] \in F[{}]
  BY <1>7
<1>9. ASSUME NEW d \in SUBSET D, d # {}
      PROVE \E x \in d : fold[d \ {x}] \in F[d \ {x}] => fold[d] \in F[d]
  <2> DEFINE x == CHOOSE x \in d : TRUE
  <2>1. x \in d
    BY <1>9
  <2>2. fold[d] = With(x, fold[d \ {x}])
    BY <1>7, <1>9
  <2> HIDE DEF x, fold
  <2>3. ASSUME fold[d \ {x}] \in F[d \ {x}] PROVE fold[d] \in F[d]
    <3> DEFINE v == fold[d \ {x}]
    <3>1. v \in F[d \ {x}]
      BY <2>3
    <3>2. fold[d] = With(x, v)
      BY <2>2
    <3> HIDE DEF v
    <3>3. With(x, v) \in F[d]
      BY <1>4, <2>1, <3>1
    <3> QED  BY <3>2, <3>3
  <2> QED  BY <2>1, <2>3
<1> HIDE DEF fold
<1>10. fold[D] \in F[D]
  BY <1>2, <1>8, <1>9, FoldKeeps
<1> QED  BY <1>1, <1>10 DEF D

\* A memo goes to each slab of a set, and a request to each peer.
LEMMA EmitKeeps ==
  ASSUME NEW w, NEW s \in Slab, NEW W, w \in W,
         \A x \in W : \A i \in Id : Send(x, s, s, i, Memo(x, s, i)) \in W
  PROVE  Emit(w, s) \in W
<1> DEFINE D == {i \in Id : \/ w.peers[s][i] = None
                            \/ w.peers[s][i].status = "NonParticipating"}
           With(i, x) == Send(x, s, s, i, Memo(x, s, i))
           pick == [d \in SUBSET D |-> CHOOSE x \in d : TRUE]
           op == [z \in D \X W |-> With(z[1], z[2])]
           Eq(it) == it = [d \in SUBSET D |->
                             IF d = {} THEN w
                             ELSE LET x == CHOOSE x \in d : TRUE
                                  IN  With(x, it[d \ {x}])]
           fold == CHOOSE it : Eq(it)
<1>1. Emit(w, s) = fold[D]
  BY DEF Emit, FoldSet, MapThenFoldSet
<1>2. IsFiniteSet(D)
  BY IdsAreFinite
<1>3. ASSUME NEW i \in D, NEW x \in W PROVE With(i, x) \in W
  OBVIOUS
<1> HIDE DEF With, D
<1>4. PICK it \in [SUBSET D -> W] : IsFold(D, w, pick, op, it)
  <2>1. \A d \in SUBSET D : d # {} => pick[d] \in d
    OBVIOUS
  <2>2. op \in [D \X W -> W]
    BY <1>3
  <2> HIDE DEF pick, op
  <2> QED  BY <1>2, <2>1, <2>2, FoldExists
<1>5. Eq(it)
  BY <1>4 DEF IsFold
<1>6. Eq(fold)
  BY <1>5
<1>7. fold[{}] \in W
  BY <1>6
<1>8. ASSUME NEW d \in SUBSET D, d # {}
      PROVE \E x \in d : fold[d \ {x}] \in W => fold[d] \in W
  <2> DEFINE x == CHOOSE x \in d : TRUE
  <2>1. x \in d /\ x \in D
    BY <1>8
  <2>2. fold[d] = With(x, fold[d \ {x}])
    BY <1>6, <1>8
  <2> HIDE DEF x, fold
  <2> QED  BY <1>3, <2>1, <2>2
<1> HIDE DEF fold
<1> QED  BY <1>1, <1>2, <1>7, <1>8, FoldStays

LEMMA AskKeeps ==
  ASSUME NEW w \in Worlds, NEW s \in Slab, NEW F,
         [w EXCEPT !.pc[s] = "waiting"] \in F[{}],
         \A d \in SUBSET Id : \A i \in d : w.peers[s][i] # None =>
           \A x \in F[d \ {i}] : Send(x, s, w.peers[s][i].by, i, Request) \in F[d]
  PROVE  Ask(w, s) \in F[{i \in Id : w.peers[s][i] # None}]
<1> DEFINE D == {i \in Id : w.peers[s][i] # None}
           base == [w EXCEPT !.pc[s] = "waiting"]
           With(i, x) == Send(x, s, w.peers[s][i].by, i, Request)
           pick == [d \in SUBSET D |-> CHOOSE x \in d : TRUE]
           op == [z \in D \X Worlds |-> With(z[1], z[2])]
           Eq(it) == it = [d \in SUBSET D |->
                             IF d = {} THEN base
                             ELSE LET x == CHOOSE x \in d : TRUE
                                  IN  With(x, it[d \ {x}])]
           fold == CHOOSE it : Eq(it)
<1>1. Ask(w, s) = fold[D]
  BY DEF Ask, FoldSet, MapThenFoldSet
<1>2. IsFiniteSet(D) /\ D \subseteq Id
  BY IdsAreFinite
<1>3. ASSUME NEW i \in D, NEW x \in Worlds PROVE With(i, x) \in Worlds
  <2>1. Request \in Body(IdOf[s])
    BY DEF Body
  <2> QED  BY <2>1, PeersOf, SendIn
<1>4. ASSUME NEW d \in SUBSET D, NEW i \in d, NEW x \in F[d \ {i}]
      PROVE  With(i, x) \in F[d]
  OBVIOUS
<1>5. base \in Worlds
  BY PcChanged DEF Pc
<1> HIDE DEF With, D, base
<1>6. PICK it \in [SUBSET D -> Worlds] : IsFold(D, base, pick, op, it)
  <2>1. \A d \in SUBSET D : d # {} => pick[d] \in d
    OBVIOUS
  <2>2. op \in [D \X Worlds -> Worlds]
    BY <1>3
  <2> HIDE DEF pick, op
  <2> QED  BY <1>2, <1>5, <2>1, <2>2, FoldExists
<1>7. Eq(it)
  BY <1>6 DEF IsFold
<1>8. Eq(fold)
  BY ONLY <1>7
<1>9. fold[{}] \in F[{}]
  BY <1>8 DEF base
<1>10. ASSUME NEW d \in SUBSET D, d # {}
       PROVE \E x \in d : fold[d \ {x}] \in F[d \ {x}] => fold[d] \in F[d]
  <2> DEFINE x == CHOOSE x \in d : TRUE
  <2>1. x \in d
    BY <1>10
  <2>2. fold[d] = With(x, fold[d \ {x}])
    BY <1>8, <1>10
  <2> HIDE DEF x, fold
  <2>3. ASSUME fold[d \ {x}] \in F[d \ {x}] PROVE fold[d] \in F[d]
    <3> DEFINE v == fold[d \ {x}]
    <3>1. v \in F[d \ {x}]
      BY <2>3
    <3>2. fold[d] = With(x, v)
      BY <2>2
    <3> HIDE DEF v
    <3>3. With(x, v) \in F[d]
      BY <1>4, <2>1, <3>1
    <3> QED  BY <3>2, <3>3
  <2> QED  BY <2>1, <2>3
<1> HIDE DEF fold
<1>11. fold[D] \in F[D]
  BY <1>2, <1>9, <1>10, FoldKeeps
<1> QED  BY <1>1, <1>11 DEF D

LEMMA AskStays ==
  ASSUME NEW w \in Worlds, NEW s \in Slab, NEW W,
         [w EXCEPT !.pc[s] = "waiting"] \in W,
         \A x \in W : \A i \in Id : \A by \in Slab : Send(x, s, by, i, Request) \in W
  PROVE  Ask(w, s) \in W
<1> DEFINE F == [d \in SUBSET Id |-> W]
           base == [w EXCEPT !.pc[s] = "waiting"]
<1>1. \A d \in SUBSET Id : F[d] = W
  OBVIOUS
<1>2. {} \in SUBSET Id /\ {i \in Id : w.peers[s][i] # None} \in SUBSET Id
      /\ \A d \in SUBSET Id : \A i \in d : i \in Id /\ d \ {i} \in SUBSET Id
  OBVIOUS
<1> HIDE DEF F
<1>3. base \in F[{}]
  BY <1>1, <1>2
<1> HIDE DEF base
<1>4. \A d \in SUBSET Id : \A i \in d : w.peers[s][i] # None =>
        \A x \in F[d \ {i}] : Send(x, s, w.peers[s][i].by, i, Request) \in F[d]
  <2> SUFFICES ASSUME NEW d \in SUBSET Id, NEW i \in d, w.peers[s][i] # None,
                      NEW x \in F[d \ {i}]
               PROVE  Send(x, s, w.peers[s][i].by, i, Request) \in F[d]
    OBVIOUS
  <2>1. F[d] = W /\ F[d \ {i}] = W /\ i \in Id
    BY <1>1, <1>2
  <2>2. w.peers[s][i].by \in Slab
    BY <2>1, PeersOf
  <2> QED  BY <2>1, <2>2
<1>5. Ask(w, s) \in F[{i \in Id : w.peers[s][i] # None}]
  BY <1>3, <1>4, AskKeeps DEF base
<1> QED  BY <1>1, <1>2, <1>5

\* A slab introduced to those before it, and the slabs of a network greeting another.
Met(w, s, q) ==
  FoldLeft(LAMBDA v, t : AssertSlabref(AssertSlabref(v, t, IdOf[s], <<Local>>),
                                       s, IdOf[t], <<Local>>),
           w, q)

\* A slab that starts meets those before it.
LEMMA MeetIn ==
  ASSUME NEW v \in Worlds, NEW s \in Slab, NEW t \in Slab
  PROVE  AssertSlabref(AssertSlabref(v, t, IdOf[s], <<Local>>), s, IdOf[t], <<Local>>)
           \in Worlds
<1>1. \A i \in Id : <<Local>> \in Seq({Local, Place(i)})
  OBVIOUS
<1>2. IdOf[s] \in Id /\ IdOf[t] \in Id
  BY Places
<1>3. AssertSlabref(v, t, IdOf[s], <<Local>>) \in Worlds
  BY <1>1, <1>2, AssertSlabrefIn
<1> QED  BY <1>1, <1>2, <1>3, AssertSlabrefIn

\* What each meeting, or each hello, keeps, all of them keep: a set of worlds for
\* every set of slabs that were met.
LEMMA MeetKeeps ==
  ASSUME NEW w \in Worlds, NEW s \in Slab, NEW q \in Seq(Slab), NEW F, w \in F[{}],
         \A d \in SUBSET DOMAIN q : \A k \in d : \A v \in F[d \ {k}] :
           AssertSlabref(AssertSlabref(v, q[k], IdOf[s], <<Local>>), s, IdOf[q[k]], <<Local>>)
             \in F[d]
  PROVE  Met(w, s, q) \in F[DOMAIN q]
<1> DEFINE D == DOMAIN q
           With(k, v) == AssertSlabref(AssertSlabref(v, q[k], IdOf[s], <<Local>>),
                                       s, IdOf[q[k]], <<Local>>)
           pick == [d \in SUBSET D |-> Max(d)]
           op == [z \in D \X Worlds |-> With(z[1], z[2])]
           Eq(it) == it = [d \in SUBSET D |->
                             IF d = {} THEN w
                             ELSE LET k == Max(d)
                                  IN  With(k, it[d \ {k}])]
           fold == CHOOSE it : Eq(it)
<1>1. Met(w, s, q) = fold[D]
  BY DEF Met, FoldLeft, MapThenFoldSet
<1>2. D = 1 .. Len(q) /\ Len(q) \in Nat /\ IsFiniteSet(D)
      /\ \A k \in D : q[k] \in Slab
  BY LenProperties, FS_Interval
<1>3. ASSUME NEW k \in D, NEW v \in Worlds PROVE With(k, v) \in Worlds
  BY <1>2, MeetIn
<1>4. \A d \in SUBSET D : d # {} => Max(d) \in d
  BY <1>2, MaxIsElement
<1>5. ASSUME NEW d \in SUBSET D, NEW k \in d, NEW v \in F[d \ {k}]
      PROVE  With(k, v) \in F[d]
  OBVIOUS
<1> HIDE DEF With, D
<1>6. PICK it \in [SUBSET D -> Worlds] : IsFold(D, w, pick, op, it)
  <2>1. \A d \in SUBSET D : d # {} => pick[d] \in d
    BY <1>4
  <2>2. op \in [D \X Worlds -> Worlds]
    BY <1>3
  <2> HIDE DEF pick, op
  <2> QED  BY <1>2, <2>1, <2>2, FoldExists
<1>7. Eq(it)
  BY <1>4, <1>6 DEF IsFold
<1>8. Eq(fold)
  BY ONLY <1>7
<1>9. fold[{}] \in F[{}]
  BY <1>8
<1>10. ASSUME NEW d \in SUBSET D, d # {}
       PROVE \E k \in d : fold[d \ {k}] \in F[d \ {k}] => fold[d] \in F[d]
  <2> DEFINE k == Max(d)
  <2>1. k \in d
    BY <1>4, <1>10
  <2>2. fold[d] = With(k, fold[d \ {k}])
    BY <1>8, <1>10
  <2> HIDE DEF k, fold
  <2>3. ASSUME fold[d \ {k}] \in F[d \ {k}] PROVE fold[d] \in F[d]
    <3> DEFINE v == fold[d \ {k}]
    <3>1. v \in F[d \ {k}]
      BY <2>3
    <3>2. fold[d] = With(k, v)
      BY <2>2
    <3> HIDE DEF v
    <3>3. With(k, v) \in F[d]
      BY <1>5, <2>1, <3>1
    <3> QED  BY <3>2, <3>3
  <2> QED  BY <2>1, <2>3
<1> HIDE DEF fold
<1>11. fold[D] \in F[D]
  BY <1>2, <1>9, <1>10, FoldKeeps
<1> QED  BY <1>1, <1>11 DEF D

LEMMA MeetStays ==
  ASSUME NEW w \in Worlds, NEW s \in Slab, NEW q \in Seq(Slab), NEW W, w \in W,
         \A v \in W : \A t \in Slab :
           AssertSlabref(AssertSlabref(v, t, IdOf[s], <<Local>>), s, IdOf[t], <<Local>>) \in W
  PROVE  Met(w, s, q) \in W
<1> DEFINE D == DOMAIN q
           F == [d \in SUBSET D |-> W]
<1>1. \A d \in SUBSET D : F[d] = W
  OBVIOUS
<1>2. /\ {} \in SUBSET D /\ D \in SUBSET D
      /\ \A k \in D : q[k] \in Slab
      /\ \A d \in SUBSET D : \A k \in d : k \in D /\ d \ {k} \in SUBSET D
  BY LenProperties
<1> HIDE DEF F
<1>3. w \in F[{}]
  BY <1>1, <1>2
<1>4. \A d \in SUBSET D : \A k \in d : \A v \in F[d \ {k}] :
        AssertSlabref(AssertSlabref(v, q[k], IdOf[s], <<Local>>), s, IdOf[q[k]], <<Local>>)
          \in F[d]
  <2> SUFFICES ASSUME NEW d \in SUBSET D, NEW k \in d, NEW v \in F[d \ {k}]
               PROVE  AssertSlabref(AssertSlabref(v, q[k], IdOf[s], <<Local>>),
                                    s, IdOf[q[k]], <<Local>>) \in F[d]
    OBVIOUS
  <2>1. F[d] = W /\ F[d \ {k}] = W /\ q[k] \in Slab
    BY <1>1, <1>2
  <2> QED  BY <2>1
<1>5. Met(w, s, q) \in F[D]
  BY <1>3, <1>4, MeetKeeps
<1> QED  BY <1>1, <1>2, <1>5

\* A hello of slab s, which is in network n.
Hail(v, s, n, m) ==
  LET knowing == LocalizeSeed(v, s)
  IN  [knowing EXCEPT !.wire = @ (+) SetToBag(
         {[net |-> m, local |-> FALSE, to |-> 0, from |-> IdOf[s],
           src |-> n, body |-> Presence(knowing, s, n, 0)]})]

Greeted(w, n, m, q) ==
  FoldLeft(LAMBDA v, s :
             LET knowing == LocalizeSeed(v, s)
             IN  [knowing EXCEPT !.wire = @ (+) SetToBag(
                    {[net |-> m, local |-> FALSE, to |-> 0, from |-> IdOf[s],
                      src |-> n, body |-> Presence(knowing, s, n, 0)]})],
           w, q)

LEMMA GreetKeeps ==
  ASSUME NEW w, NEW n \in Net, NEW m \in Net, NEW q \in Seq(SlabsOf(n)), NEW W, w \in W,
         \A v \in W : \A s \in SlabsOf(n) : Hail(v, s, n, m) \in W
  PROVE  Greeted(w, n, m, q) \in W
<1> DEFINE D == DOMAIN q
           With(k, v) == LET knowing == LocalizeSeed(v, q[k])
                         IN  [knowing EXCEPT !.wire = @ (+) SetToBag(
                                {[net |-> m, local |-> FALSE, to |-> 0,
                                  from |-> IdOf[q[k]], src |-> n,
                                  body |-> Presence(knowing, q[k], n, 0)]})]
           pick == [d \in SUBSET D |-> Max(d)]
           op == [z \in D \X W |-> With(z[1], z[2])]
           Eq(it) == it = [d \in SUBSET D |->
                             IF d = {} THEN w
                             ELSE LET k == Max(d)
                                  IN  With(k, it[d \ {k}])]
           fold == CHOOSE it : Eq(it)
<1>1. Greeted(w, n, m, q) = fold[D]
  BY DEF Greeted, FoldLeft, MapThenFoldSet
<1>2. D = 1 .. Len(q) /\ Len(q) \in Nat /\ IsFiniteSet(D)
      /\ \A k \in D : q[k] \in SlabsOf(n)
  BY LenProperties, FS_Interval
<1>3. ASSUME NEW k \in D, NEW v \in W PROVE With(k, v) \in W
  <2>1. With(k, v) = Hail(v, q[k], n, m)
    BY DEF Hail
  <2> HIDE DEF With
  <2> QED  BY <1>2, <2>1
<1>4. \A d \in SUBSET D : d # {} => Max(d) \in d
  BY <1>2, MaxIsElement
<1> HIDE DEF With, D
<1>5. PICK it \in [SUBSET D -> W] : IsFold(D, w, pick, op, it)
  <2>1. \A d \in SUBSET D : d # {} => pick[d] \in d
    BY <1>4
  <2>2. op \in [D \X W -> W]
    BY <1>3
  <2> HIDE DEF pick, op
  <2> QED  BY <1>2, <2>1, <2>2, FoldExists
<1>6. Eq(it)
  BY <1>4, <1>5 DEF IsFold
<1>7. Eq(fold)
  BY <1>6
<1>8. fold[{}] \in W
  BY <1>7
<1>9. ASSUME NEW d \in SUBSET D, d # {}
      PROVE \E k \in d : fold[d \ {k}] \in W => fold[d] \in W
  <2> DEFINE k == Max(d)
  <2>1. k \in d /\ k \in D
    BY <1>4, <1>9
  <2>2. fold[d] = With(k, fold[d \ {k}])
    BY <1>7, <1>9
  <2> HIDE DEF k, fold
  <2> QED  BY <1>3, <2>1, <2>2
<1> HIDE DEF fold
<1>10. fold[D] \in W
  BY <1>2, <1>8, <1>9, FoldStays
<1> QED  BY <1>1, <1>10

-----------------------------------------------------------------------------
(***************************************************************************)
(* The handlers of packets.                                                *)
(***************************************************************************)
\* The handlers leave worlds. First those of slabs and memorefs.
LEMMA AssertPeersIn ==
  ASSUME NEW w \in Worlds, NEW s \in Slab, NEW list \in List
  PROVE  AssertPeers(w, s, list) \in Worlds
<1> DEFINE F == [d \in SUBSET Id |-> Worlds]
<1>1. \A d \in SUBSET Id : F[d] = Worlds
  OBVIOUS
<1>2. ASSUME NEW x \in Worlds, NEW i \in Id, list[i] # None
      PROVE  AssertSlabref(x, s, i, list[i].via) \in Worlds
  BY <1>2, EntryOf, AssertSlabrefIn
<1>3. {} \in SUBSET Id /\ {i \in Id : list[i] # None} \in SUBSET Id
      /\ \A d \in SUBSET Id : \A i \in d : i \in Id /\ d \ {i} \in SUBSET Id
  OBVIOUS
<1> HIDE DEF F
<1>4. \A d \in SUBSET Id : F[d] \subseteq Worlds
  BY <1>1
<1>5. w \in F[{}]
  BY <1>1, <1>3
<1>6. \A d \in SUBSET Id : \A i \in d : list[i] # None =>
        \A x \in F[d \ {i}] : AssertSlabref(x, s, i, list[i].via) \in F[d]
  BY <1>1, <1>2, <1>3
<1>7. AssertPeers(w, s, list) \in F[{i \in Id : list[i] # None}]
  BY <1>4, <1>5, <1>6, AssertPeersKeeps
<1> QED  BY <1>1, <1>3, <1>7

LEMMA EmitIn ==
  ASSUME NEW w \in Worlds, NEW s \in Slab
  PROVE  Emit(w, s) \in Worlds
<1>1. \A x \in Worlds : \A i \in Id : Send(x, s, s, i, Memo(x, s, i)) \in Worlds
  BY MemoIn, SendIn
<1> QED  BY <1>1, EmitKeeps

LEMMA AskIn ==
  ASSUME NEW w \in Worlds, NEW s \in Slab
  PROVE  Ask(w, s) \in Worlds
<1>1. \A x \in Worlds : \A i \in Id : \A by \in Slab : Send(x, s, by, i, Request) \in Worlds
  <2>1. Request \in Body(IdOf[s])
    BY DEF Body
  <2> QED  BY <2>1, SendIn
<1>2. [w EXCEPT !.pc[s] = "waiting"] \in Worlds
  BY PcChanged DEF Pc
<1> QED  BY <1>1, <1>2, AskStays

\* What a slab knows of another slab, and the seed of a network.
LEMMA PeersChanged ==
  ASSUME NEW w \in Worlds, NEW s \in Slab, NEW row \in [Id -> Peer \cup {None}],
         NEW c \in Ptr
  PROVE  /\ [w EXCEPT !.peers[s] = row, !.ptr[s] = c] \in Worlds
         /\ [w EXCEPT !.peers[s] = row] \in Worlds
         /\ [w EXCEPT !.ptr[s] = c] \in Worlds
<1>1. [w EXCEPT !.peers[s] = row] \in Worlds
  BY DEF Worlds
<1>2. ASSUME NEW v \in Worlds PROVE [v EXCEPT !.ptr[s] = c] \in Worlds
  BY DEF Worlds
<1>3. [w EXCEPT !.peers[s] = row, !.ptr[s] = c]
        = [[w EXCEPT !.peers[s] = row] EXCEPT !.ptr[s] = c]
  BY DEF Worlds
<1> QED  BY <1>1, <1>2, <1>3

LEMMA SeedChanged ==
  ASSUME NEW w \in Worlds, NEW n \in Net, NEW s \in Slab \cup {None}
  PROVE  [w EXCEPT !.seed[n] = s] \in Worlds
BY DEF Worlds

\* A memoref that is told, sent and made resident again.
LEMMA AssertMemorefIn ==
  ASSUME NEW w \in Worlds, NEW s \in Slab, NEW list \in List,
         NEW state \in {"remote", "resident"}
  PROVE  AssertMemoref(w, s, list, state) \in Worlds
<1> DEFINE known == w.peers[s]
           news  == {i \in Id : /\ list[i] # None
                                /\ i = IdOf[s] => w.ptr[s] = "unknown"}
           With(i) == [status |-> list[i].status,
                       by |-> IF known[i] = None THEN list[i].by ELSE known[i].by]
           row == [i \in Id |-> IF i \in news THEN With(i) ELSE known[i]]
           new == IF "resident" \in {w.ptr[s], state} THEN "resident" ELSE "remote"
<1>1. row \in [Id -> Peer \cup {None}]
  <2>1. ASSUME NEW i \in news PROVE With(i) \in Peer
    <3>1. list[i].status \in Status /\ list[i].by \in Slab
      BY EntryOf
    <3>2. known[i] # None => known[i].by \in Slab
      BY PeersOf
    <3> QED  BY <3>1, <3>2 DEF Peer, Status
  <2>2. ASSUME NEW i \in Id PROVE known[i] \in Peer \cup {None}
    BY PeersOf
  <2> HIDE DEF With, news, known
  <2> QED  BY <2>1, <2>2
<1>2. AssertMemoref(w, s, list, state) = [w EXCEPT !.peers[s] = row, !.ptr[s] = new]
  BY DEF AssertMemoref
<1>3. new \in Ptr
  BY DEF Ptr
<1> HIDE DEF row, new
<1>4. [w EXCEPT !.peers[s] = row, !.ptr[s] = new] \in Worlds
  BY <1>1, <1>3, PeersChanged
<1> QED  BY <1>2, <1>4

LEMMA ReconstituteIn ==
  ASSUME NEW w \in Worlds, NEW s \in Slab, NEW i \in Id, NEW list \in List
  PROVE  Reconstitute(w, s, i, list) \in Worlds
<1> DEFINE taken == Emit(AssertMemoref(w, s, list, "resident"), s)
           told  == [taken EXCEPT !.pc[s] = IF @ = "waiting" THEN "found" ELSE @]
<1>1. taken \in Worlds
  BY AssertMemorefIn, EmitIn
<1>2. told \in Worlds
  <2> HIDE DEF taken
  <2>1. (IF taken.pc[s] = "waiting" THEN "found" ELSE taken.pc[s]) \in Pc
    BY <1>1 DEF Worlds, Pc
  <2> QED  BY <1>1, <2>1, PcChanged
<1>3. Reconstitute(w, s, i, list)
        = Send(told, s, s, i, Peering(PeerlistFor(told, s, i)))
  BY DEF Reconstitute
<1> HIDE DEF told
<1> QED  BY <1>2, <1>3, PeerlistIn, PeeringIn, SendIn

\* The list that slab s is given by the slab of its network that holds the seed.
SeedList(w, holder, s) == [PeerlistFor(w, holder, IdOf[s]) EXCEPT ![IdOf[holder]].by = s]

LEMMA SeedListIs ==
  ASSUME NEW w \in Worlds, NEW holder \in Slab, NEW s \in Slab
  PROVE  /\ SeedList(w, holder, s) \in List
         /\ \A i \in Id \ {IdOf[holder]} :
              SeedList(w, holder, s)[i] = PeerlistFor(w, holder, IdOf[s])[i]
<1> DEFINE own == PeerlistFor(w, holder, IdOf[s])
           list == [own EXCEPT ![IdOf[holder]].by = s]
<1>1. own \in List /\ IdOf[holder] \in Id
  BY PeerlistIn, Places
<1>2. own[IdOf[holder]] = [status |-> StatusOf(w, holder), by |-> holder,
                           via |-> <<NetOf[holder]>>]
  BY <1>1 DEF PeerlistFor
<1>3. StatusOf(w, holder) \in Status
  BY DEF StatusOf, Status
<1>4. /\ list[IdOf[holder]] = [status |-> StatusOf(w, holder), by |-> s,
                               via |-> <<NetOf[holder]>>]
      /\ \A i \in Id \ {IdOf[holder]} : list[i] = own[i]
      /\ list = [i \in Id |-> list[i]]
  BY <1>1, <1>2 DEF List
<1>5. <<NetOf[holder]>> \in Seq({Local, Place(IdOf[holder])})
  BY Places
<1>6. SeedList(w, holder, s) = list
  BY DEF SeedList
<1> HIDE DEF list, own
<1>7. ASSUME NEW i \in Id PROVE list[i] \in Listed(i)
  <2>1. CASE i = IdOf[holder]
    <3>1. list[IdOf[holder]] = [status |-> StatusOf(w, holder), by |-> s,
                                via |-> <<NetOf[holder]>>]
      BY <1>4
    <3>2. list[IdOf[holder]] \in Listed(IdOf[holder])
      BY <1>3, <1>5, <3>1 DEF Listed
    <3> QED  BY <2>1, <3>2
  <2>2. CASE i # IdOf[holder]
    BY <1>1, <1>4, <2>2 DEF List
  <2> QED  BY <2>1, <2>2
<1>8. list \in List
  BY <1>4, <1>7, ListIn
<1> QED  BY <1>4, <1>6, <1>8 DEF own

\* A slab that takes the seed of its network for its own.
LEMMA LocalizeSeedIn ==
  ASSUME NEW w \in Worlds, NEW s \in Slab
  PROVE  LocalizeSeed(w, s) \in Worlds
<1> DEFINE holder == w.seed[NetOf[s]]
           list == SeedList(w, holder, s)
<1>1. CASE holder \in {None, s}
  BY <1>1 DEF LocalizeSeed
<1>2. CASE holder \notin {None, s}
  <2>1. holder \in Slab
    BY <1>2, Places DEF Worlds
  <2>2. LocalizeSeed(w, s) = IF w.ptr[holder] = "resident"
           THEN Reconstitute(w, s, IdOf[holder], list)
           ELSE AssertMemoref(w, s, list, "remote")
    BY <1>2 DEF LocalizeSeed, SeedList
  <2> HIDE DEF holder
  <2>3. list \in List /\ IdOf[holder] \in Id
    BY <2>1, SeedListIs, Places
  <2> HIDE DEF list
  <2> QED  BY <2>2, <2>3, ReconstituteIn, AssertMemorefIn
<1> QED  BY <1>1, <1>2

\* A slab that hears of the slab that has its seed.
LEMMA HeardIn ==
  ASSUME NEW p, NEW s \in Slab, NEW list \in List
  PROVE  Heard(p, s, list) \in List
<1> DEFINE l == Heard(p, s, list)
<1>1. ASSUME NEW i \in Id PROVE l[i] \in Listed(i)
  <2>1. CASE list[i] = None
    BY <2>1 DEF Heard, Listed
  <2>2. CASE list[i] # None
    <3>1. l[i] = [list[i] EXCEPT !.by = IF p.local /\ i # p.from THEN @ ELSE s]
      BY <2>2 DEF Heard
    <3>2. list[i] \in [status : Status, by : Slab, via : Seq({Local, Place(i)})]
      BY <2>2 DEF List, Listed
    <3> QED  BY <3>1, <3>2 DEF Listed
  <2> QED  BY <2>1, <2>2
<1>2. l = [i \in Id |-> l[i]]
  BY DEF Heard
<1> HIDE DEF l
<1>3. l \in List
  BY <1>1, <1>2, ListIn
<1> QED  BY <1>3 DEF l

\* Packets and what is in them.
LEMMA PacketParts ==
  ASSUME NEW p \in Packet
  PROVE  /\ p.from \in Id /\ p.src \in Net /\ p.net \in Net
         /\ p.src = Place(p.from)
         /\ p.body.kind \in {"request", "memo", "peering", "presence"}
         /\ p.body.kind \in {"memo", "peering"} => p.body.list \in List
         /\ p.body.kind = "presence" => /\ p.body.address \in {Local, Place(p.from)}
                                        /\ p.body.seed \in List \cup {None}
<1>1. /\ p.from \in Id /\ p.src \in Net /\ p.net \in Net
      /\ p.src = Place(p.from) /\ p.body \in Body(p.from)
  BY DEF Packet
<1> DEFINE b == p.body
<1>2. /\ b.kind \in {"request", "memo", "peering", "presence"}
      /\ b.kind \in {"memo", "peering"} => b.list \in List
      /\ b.kind = "presence" => /\ b.address \in {Local, Place(p.from)}
                                /\ b.seed \in List \cup {None}
  <2> HIDE DEF b
  <2>1. b \in Body(p.from)
    BY <1>1 DEF b
  <2>2. CASE b = Request
    BY <2>2 DEF Request
  <2>3. CASE \E l \in List : b = [kind |-> "memo", list |-> l]
    BY <2>3
  <2>4. CASE \E l \in List : b = [kind |-> "peering", list |-> l]
    BY <2>4
  <2>5. CASE \E a \in {Local, Place(p.from)}, l \in List \cup {None} :
               b = [kind |-> "presence", address |-> a, seed |-> l]
    BY <2>5
  <2> QED  BY <2>1, <2>2, <2>3, <2>4, <2>5 DEF Body
<1> QED  BY <1>1, <1>2

\* The slabs of a network are told who is there.
LEMMA IntroducedIn ==
  ASSUME NEW w \in Worlds, NEW s \in Slab, NEW p \in Packet, p.body.list \in List
  PROVE  Introduced(w, s, p) \in Worlds
<1> DEFINE l == [p.body.list EXCEPT ![p.from] = None]
<1>1. l \in List
  <2>1. l = [i \in Id |-> l[i]] /\ \A i \in Id : l[i] \in Listed(i)
    BY DEF List, Listed
  <2> HIDE DEF l
  <2> QED  BY <2>1, ListIn
<1> HIDE DEF l
<1>2. AssertPeers(w, s, l) \in Worlds /\ AssertPeers(w, s, p.body.list) \in Worlds
  BY <1>1, AssertPeersIn
<1> QED  BY <1>2 DEF Introduced, l

\* What is done with a seed, a presence, a request, and any packet.
LEMMA ApplySeedIn ==
  ASSUME NEW w \in Worlds, NEW s \in Slab, NEW p \in Packet, p.body.seed \in List
  PROVE  ApplySeed(w, s, p) \in Worlds
<1> DEFINE list  == p.body.seed
           heard == AssertMemoref(AssertPeers(w, s, list), s, Heard(p, s, list), "remote")
           hack  == [heard EXCEPT !.peers[s][p.from] =
                       [status |-> "Resident", by |-> IF @ = None THEN s ELSE @.by]]
<1>1. heard \in Worlds
  BY AssertPeersIn, HeardIn, AssertMemorefIn
<1>2. hack \in Worlds
  <2> HIDE DEF heard
  <2> DEFINE new == [status |-> "Resident",
                     by |-> IF heard.peers[s][p.from] = None THEN s
                            ELSE heard.peers[s][p.from].by]
  <2>1. p.from \in Id
    BY PacketParts
  <2>2. new \in Peer
    BY <1>1, <2>1, PeersOf DEF Peer, Status
  <2>3. hack = [heard EXCEPT !.peers[s][p.from] = new]
    BY <1>1, <2>1 DEF Worlds
  <2> HIDE DEF new
  <2> DEFINE row == [heard.peers[s] EXCEPT ![p.from] = new]
  <2>4. row \in [Id -> Peer \cup {None}]
    BY <1>1, <2>1, <2>2 DEF Worlds
  <2>5. hack = [heard EXCEPT !.peers[s] = row]
    BY <2>3
  <2> HIDE DEF row, hack
  <2>6. "remote" \in Ptr
    BY DEF Ptr
  <2> QED  BY <1>1, <2>4, <2>5, <2>6, PeersChanged
<1>3. ApplySeed(w, s, p) = [hack EXCEPT !.seed[NetOf[s]] = IF @ = None THEN s ELSE @]
  BY DEF ApplySeed
<1> HIDE DEF hack
<1> DEFINE new == IF hack.seed[NetOf[s]] = None THEN s ELSE hack.seed[NetOf[s]]
<1>4. NetOf[s] \in Net
  BY Places
<1>5. new \in Slab \cup {None}
  BY <1>2, <1>4 DEF Worlds
<1>6. ApplySeed(w, s, p) = [hack EXCEPT !.seed[NetOf[s]] = new]
  BY <1>3
<1> HIDE DEF new
<1> QED  BY <1>2, <1>4, <1>5, <1>6, SeedChanged

LEMMA AnswerPresenceIn ==
  ASSUME NEW w \in Worlds, NEW s \in Slab, NEW p \in Packet,
         p.body.kind = "presence"
  PROVE  AnswerPresence(w, s, p) \in Worlds
<1> DEFINE knowing == LocalizeSeed(AssertSlabref(w, s, p.from, <<p.body.address>>), s)
<1>1. p.from \in Id /\ p.body.address \in {Local, Place(p.from)}
  BY PacketParts
<1>2. <<p.body.address>> \in Seq({Local, Place(p.from)})
  BY <1>1
<1>3. knowing \in Worlds
  BY <1>1, <1>2, AssertSlabrefIn, LocalizeSeedIn
<1>4. AnswerPresence(w, s, p) = IF p.body.address = Local THEN w
      ELSE Send(knowing, s, s, p.from,
                Presence(knowing, s, ReturnAddress(w, s, p.from), p.from))
  BY DEF AnswerPresence
<1> HIDE DEF knowing
<1>5. ReturnAddress(w, s, p.from) \in {Local, NetOf[s]}
  BY DEF ReturnAddress
<1> QED  BY <1>1, <1>3, <1>4, <1>5, PresenceIn, SendIn

LEMMA AnswerRequestIn ==
  ASSUME NEW w \in Worlds, NEW s \in Slab, NEW p \in Packet
  PROVE  AnswerRequest(w, s, p) \in Worlds
<1> DEFINE l == [i \in Id |->
                 IF i = IdOf[s]
                 THEN [status |-> "NonParticipating", by |-> s, via |-> <<NetOf[s]>>]
                 ELSE None]
<1>1. l \in List
  <2>1. \A i \in Id : l[i] \in Listed(i)
    BY OwnEntry DEF Listed, Status
  <2> QED  BY <2>1, ListIn
<1>2. p.from \in Id
  BY PacketParts
<1>3. w.ptr[s] \in Ptr
  BY DEF Worlds
<1>4. AnswerRequest(w, s, p) \in
        {w, Send(w, s, s, p.from, Memo(w, s, p.from)),
         Send(w, s, s, p.from, Peering(l))}
  BY <1>3 DEF AnswerRequest, Ptr
<1> HIDE DEF l
<1>5. Send(w, s, s, p.from, Memo(w, s, p.from)) \in Worlds
  BY <1>2, MemoIn, SendIn
<1>6. Send(w, s, s, p.from, Peering(l)) \in Worlds
  BY <1>1, <1>2, PeeringIn, SendIn
<1> QED  BY <1>4, <1>5, <1>6

LEMMA HandledIn ==
  ASSUME NEW w \in Worlds, NEW s \in Slab, NEW p \in Packet
  PROVE  Handled(w, s, p) \in Worlds
<1> USE PacketParts
<1>1. CASE p.body.kind = "presence" /\ p.body.seed # None
  <2>1. Handled(w, s, p) = ApplySeed(w, s, p)
    BY <1>1 DEF Handled
  <2> QED  BY <1>1, <2>1, ApplySeedIn
<1>2. CASE p.body.kind = "presence" /\ p.body.seed = None
  <2>1. Handled(w, s, p) = AnswerPresence(w, s, p)
    BY <1>2 DEF Handled
  <2> QED  BY <1>2, <2>1, AnswerPresenceIn
<1>3. CASE p.body.kind = "request"
  <2>1. Handled(w, s, p) = AnswerRequest(w, s, p)
    BY <1>3 DEF Handled
  <2> QED  BY <1>3, <2>1, AnswerRequestIn
<1>4. CASE p.body.kind = "memo"
  <2> DEFINE v == IF p.local THEN w ELSE Introduced(w, s, p)
  <2>1. Handled(w, s, p) = Reconstitute(v, s, p.from, Heard(p, s, p.body.list))
    BY <1>4 DEF Handled
  <2>2. v \in Worlds
    BY <1>4, IntroducedIn
  <2> HIDE DEF v
  <2> QED  BY <1>4, <2>1, <2>2, HeardIn, ReconstituteIn
<1>5. CASE p.body.kind = "peering"
  <2>1. Handled(w, s, p) = AssertMemoref(Introduced(w, s, p), s,
                                         Heard(p, s, p.body.list), "remote")
    BY <1>5 DEF Handled
  <2> QED  BY <1>5, <2>1, IntroducedIn, HeardIn, AssertMemorefIn
<1> QED  BY <1>1, <1>2, <1>3, <1>4, <1>5

\* A slab that greets another network.
LEMMA HailPacket ==
  ASSUME NEW w \in Worlds, NEW n \in Net, NEW m \in Net, NEW s \in SlabsOf(n)
  PROVE  [net |-> m, local |-> FALSE, to |-> 0, from |-> IdOf[s],
          src |-> n, body |-> Presence(w, s, n, 0)] \in Packet
<1> DEFINE b == Presence(w, s, n, 0)
<1>1. s \in Slab /\ NetOf[s] = n /\ IdOf[s] \in Id /\ Place(IdOf[s]) = n
  BY Places DEF SlabsOf
<1>2. b \in Body(IdOf[s])
  BY <1>1, PresenceIn
<1> HIDE DEF b
<1>3. [net |-> m, local |-> FALSE, to |-> 0, from |-> IdOf[s], src |-> n, body |-> b]
        \in Packet
  BY <1>1, <1>2 DEF Packet
<1> QED  BY <1>3 DEF b

LEMMA HailIn ==
  ASSUME NEW w \in Worlds, NEW n \in Net, NEW m \in Net, NEW s \in SlabsOf(n)
  PROVE  Hail(w, s, n, m) \in Worlds
<1> DEFINE v == LocalizeSeed(w, s)
           p == [net |-> m, local |-> FALSE, to |-> 0, from |-> IdOf[s],
                 src |-> n, body |-> Presence(v, s, n, 0)]
<1>1. v \in Worlds
  BY LocalizeSeedIn DEF SlabsOf
<1>2. Hail(w, s, n, m) = [v EXCEPT !.wire = @ (+) SetToBag({p})]
  BY DEF Hail
<1> HIDE DEF v
<1>3. p \in Packet
  BY <1>1, HailPacket
<1> HIDE DEF p
<1> QED  BY <1>1, <1>2, <1>3, PacketAdded

-----------------------------------------------------------------------------
(***************************************************************************)
(* The steps, and the theorems.                                            *)
(***************************************************************************)
\* The inductive invariant.
IInv == World \in Worlds /\ tries \in [Slab -> 0 .. MaxTries]

\* The invariant holds at first.
LEMMA InitInv == Init => IInv
<1> SUFFICES ASSUME Init PROVE IInv
  OBVIOUS
<1>1. wire \in Wire
  <2>1. EmptyBag \in [{} -> Nat \ {0}]
    BY DEF EmptyBag, SetToBag
  <2> QED  BY <2>1 DEF Init, Wire
<1>2. \A S : << >> \in Seq(S)
  BY EmptySeq
<1>3. World \in Worlds
  BY <1>1, <1>2 DEF Init, World, Worlds, Ptr, Pc
<1> QED  BY <1>3, JoinAssumption DEF Init, IInv

\* A handler that leaves a world leaves one.
LEMMA BecomesWorld ==
  ASSUME NEW w \in Worlds, Becomes(w)
  PROVE  World' \in Worlds
<1>1. World' = w
  BY DEF Becomes, World, Worlds
<1> QED  BY <1>1

\* The steps. A packet arrives.
LEMMA ReceiveInv ==
  ASSUME IInv, NEW p \in BagToSet(wire), Receive(p)
  PROVE  IInv'
<1> DEFINE s == Destination(p)
           w == [World EXCEPT !.wire = @ (-) SetToBag({p})]
           v == IF p.local THEN w ELSE AssertSlabref(w, s, p.from, <<p.src>>)
<1>1. wire \in Wire /\ World \in Worlds /\ World.wire = wire
      /\ slabs = World.slabs /\ slabs[p.net] = World.slabs[p.net]
  BY DEF IInv, World, Worlds
<1>2. p \in Packet
  BY <1>1 DEF Wire, BagToSet
<1>3. w \in Worlds
  BY <1>1, BagTaken, WireChanged
<1>4. s \in Slab
  <2>1. p.net \in Net
    BY <1>2, PacketParts
  <2>2. s # None
    BY DEF Receive
  <2>3. CASE p.to = 0 /\ ~p.local
    <3>1. slabs[p.net] \in Seq(Slab) /\ slabs[p.net] # << >> /\ s = slabs[p.net][1]
      BY <1>1, <2>1, <2>2, <2>3 DEF Destination, Worlds
    <3>2. Head(slabs[p.net]) \in Slab
      BY <3>1, HeadTailProperties
    <3> QED  BY <3>1, <3>2
  <2>4. CASE ~ (p.to = 0 /\ ~p.local)
    <3>1. s = SlabWith(World, p.net, p.to)
      BY <2>4 DEF Destination
    <3> QED  BY <1>1, <2>1, <2>2, <3>1, SlabHere
  <2> QED  BY <2>3, <2>4
<1>5. Becomes(Handled(v, s, p)) /\ tries' = tries
  BY DEF Receive
<1> HIDE DEF s, w
<1>6. v \in Worlds
  <2>1. p.from \in Id /\ <<p.src>> \in Seq({Local, Place(p.from)})
    BY <1>2, PacketParts
  <2> QED  BY <1>3, <1>4, <2>1, AssertSlabrefIn
<1> HIDE DEF v
<1>7. Handled(v, s, p) \in Worlds
  BY <1>2, <1>4, <1>6, HandledIn
<1>8. World' \in Worlds
  BY <1>5, <1>7, BecomesWorld
<1> QED  BY <1>5, <1>8 DEF IInv

\* The wire changes and nothing else.
LEMMA WireStep ==
  ASSUME IInv, wire' \in Wire,
         UNCHANGED <<slabs, seed, refs, ptr, peers, pc, tries>>
  PROVE  IInv'
<1>1. World' = [World EXCEPT !.wire = wire']
  BY DEF World
<1>2. World' \in Worlds
  BY <1>1, WireChanged DEF IInv
<1> QED  BY <1>2 DEF IInv

\* All the meetings of a slab that starts.
LEMMA MetIn ==
  ASSUME NEW w \in Worlds, NEW s \in Slab, NEW q \in Seq(Slab)
  PROVE  FoldLeft(LAMBDA v, t : AssertSlabref(AssertSlabref(v, t, IdOf[s], <<Local>>),
                                              s, IdOf[t], <<Local>>),
                  w, q) \in Worlds
<1>1. \A v \in Worlds : \A t \in Slab :
        AssertSlabref(AssertSlabref(v, t, IdOf[s], <<Local>>), s, IdOf[t], <<Local>>)
          \in Worlds
  BY MeetIn
<1>2. Met(w, s, q) \in Worlds
  BY <1>1, MeetStays
<1> QED  BY <1>2 DEF Met

\* All the hellos of a network.
LEMMA GreetedIn ==
  ASSUME NEW w \in Worlds, NEW n \in Net, NEW m \in Net, NEW q \in Seq(SlabsOf(n))
  PROVE  FoldLeft(LAMBDA v, s :
                    LET knowing == LocalizeSeed(v, s)
                    IN  [knowing EXCEPT !.wire = @ (+) SetToBag(
                           {[net |-> m, local |-> FALSE, to |-> 0, from |-> IdOf[s],
                             src |-> n, body |-> Presence(knowing, s, n, 0)]})],
                  w, q) \in Worlds
<1>1. \A v \in Worlds : \A s \in SlabsOf(n) : Hail(v, s, n, m) \in Worlds
  BY HailIn
<1>2. Greeted(w, n, m, q) \in Worlds
  BY <1>1, GreetKeeps
<1> QED  BY <1>2 DEF Greeted

\* A slab starts.
LEMMA StartInv ==
  ASSUME IInv, NEW s \in Slab, Start(s)
  PROVE  IInv'
<1> DEFINE n == NetOf[s]
           q == slabs[n]
           base == [World EXCEPT !.slabs[n] = <<s>> \o @]
           met == FoldLeft(LAMBDA w, t : AssertSlabref(AssertSlabref(w, t, IdOf[s], <<Local>>),
                                                       s, IdOf[t], <<Local>>),
                           base, q)
           new == IF n = Creator /\ seed[n] = None
                  THEN [met EXCEPT !.seed[n] = s, !.ptr[s] = "resident"]
                  ELSE met
<1>1. n \in Net /\ q \in Seq(Slab) /\ q \in Seq(SlabsOf(n)) /\ World \in Worlds
      /\ World.slabs[n] = q /\ World.slabs \in [Net -> Seq(Slab)]
  BY Places DEF IInv, World, Worlds
<1>2. Becomes(new) /\ tries' = tries
  BY DEF Start
<1>3. base \in Worlds
  <2> DEFINE r == <<s>> \o q
  <2>1. <<s>> \in Seq(SlabsOf(n)) /\ <<s>> \in Seq(Slab)
    BY DEF SlabsOf
  <2>2. r \in Seq(SlabsOf(n)) /\ r \in Seq(Slab)
    BY <1>1, <2>1, ConcatProperties
  <2>3. base = [World EXCEPT !.slabs[n] = r]
    BY <1>1
  <2> HIDE DEF r, base, q, n
  <2> QED  BY <1>1, <2>2, <2>3 DEF Worlds
<1> HIDE DEF base
<1>4. met \in Worlds
  BY <1>1, <1>3, MetIn
<1> HIDE DEF met
<1>5. new \in Worlds
  <2>1. [met EXCEPT !.seed[n] = s] \in Worlds
    BY <1>1, <1>4, SeedChanged
  <2>2. [[met EXCEPT !.seed[n] = s] EXCEPT !.ptr[s] = "resident"] \in Worlds
    <3> DEFINE x == [met EXCEPT !.seed[n] = s]
    <3> HIDE DEF x
    <3>1. x \in Worlds
      BY <2>1 DEF x
    <3>2. [x EXCEPT !.ptr[s] = "resident"] \in Worlds
      BY <3>1 DEF Worlds, Ptr
    <3> QED  BY <3>2 DEF x
  <2> QED  BY <1>4, <2>2
<1> HIDE DEF new
<1>6. World' \in Worlds
  BY <1>2, <1>5, BecomesWorld
<1> QED  BY <1>2, <1>6 DEF IInv

\* A network greets another.
LEMMA SayHelloInv ==
  ASSUME IInv, NEW n \in Net, NEW m \in Net, SayHello(n, m)
  PROVE  IInv'
<1> DEFINE new == FoldLeft(LAMBDA v, s :
                    LET knowing == LocalizeSeed(v, s)
                    IN  [knowing EXCEPT !.wire = @ (+) SetToBag(
                           {[net |-> m, local |-> FALSE, to |-> 0, from |-> IdOf[s],
                             src |-> n, body |-> Presence(knowing, s, n, 0)]})],
                  World, slabs[n])
<1>1. Becomes(new) /\ tries' = tries
  BY DEF SayHello
<1>2. World \in Worlds /\ slabs[n] \in Seq(SlabsOf(n))
  BY DEF IInv, World, Worlds
<1>3. new \in Worlds
  BY <1>2, GreetedIn
<1> HIDE DEF new
<1>4. World' \in Worlds
  BY <1>1, <1>3, BecomesWorld
<1> QED  BY <1>1, <1>4 DEF IInv

\* A reader asks, or asks again.
LEMMA ReadInv ==
  ASSUME IInv, NEW s \in Slab, Read(s) \/ Timeout(s)
  PROVE  IInv'
<1>1. World \in Worlds /\ tries \in [Slab -> 0 .. MaxTries] /\ MaxTries \in Nat \ {0}
  BY JoinAssumption DEF IInv
<1>2. CASE Read(s)
  <2> DEFINE w == LocalizeSeed(World, s)
             new == IF w.ptr[s] = "resident" THEN [w EXCEPT !.pc[s] = "found"]
                    ELSE Ask(w, s)
  <2>1. Becomes(new) /\ tries' = [tries EXCEPT ![s] = 1]
    BY <1>2 DEF Read
  <2>2. w \in Worlds
    BY <1>1, LocalizeSeedIn
  <2> HIDE DEF w
  <2>3. new \in Worlds
    BY <2>2, AskIn, PcChanged DEF Pc
  <2> HIDE DEF new
  <2>4. World' \in Worlds
    BY <2>1, <2>3, BecomesWorld
  <2>5. tries' \in [Slab -> 0 .. MaxTries]
    BY <1>1, <2>1
  <2> QED  BY <2>4, <2>5 DEF IInv
<1>3. CASE Timeout(s)
  <2> DEFINE new == IF tries[s] < MaxTries THEN Ask(World, s)
                    ELSE [World EXCEPT !.pc[s] = "failed"]
  <2>1. Becomes(new)
        /\ tries' = [tries EXCEPT ![s] = IF @ < MaxTries THEN @ + 1 ELSE @]
    BY <1>3 DEF Timeout
  <2>2. new \in Worlds
    BY <1>1, AskIn, PcChanged DEF Pc
  <2> HIDE DEF new
  <2>3. World' \in Worlds
    BY <2>1, <2>2, BecomesWorld
  <2>4. tries' \in [Slab -> 0 .. MaxTries]
    BY <1>1, <2>1
  <2> QED  BY <2>3, <2>4 DEF IInv
<1> QED  BY <1>2, <1>3

\* Every step keeps the invariant.
LEMMA NextInv == IInv /\ [Next]_vars => IInv'
<1> SUFFICES ASSUME IInv, [Next]_vars PROVE IInv'
  OBVIOUS
<1>1. wire \in Wire
  BY DEF IInv, World, Worlds
<1>2. ASSUME NEW s \in Slab, Start(s) PROVE IInv'
  BY <1>2, StartInv
<1>3. ASSUME NEW n \in Net, NEW m \in Net, SayHello(n, m) PROVE IInv'
  BY <1>3, SayHelloInv
<1>4. ASSUME NEW n \in Net, NEW m \in Net, Arrive(m, n) PROVE IInv'
  <2>1. PICK p \in BagToSet(wire) : Receive(p) \/ Refuse(p)
    BY <1>4 DEF Arrive
  <2>2. CASE Receive(p)
    BY <2>2, ReceiveInv
  <2>3. CASE Refuse(p)
    <3>1. wire' \in Wire
      BY <1>1, <2>3, BagTaken DEF Refuse
    <3> QED  BY <2>3, <3>1, WireStep DEF Refuse
  <2> QED  BY <2>1, <2>2, <2>3
<1>5. CASE Lose
  <2>1. wire' \in Wire
    BY <1>1, <1>5, BagTaken DEF Lose
  <2> QED  BY <1>5, <2>1, WireStep DEF Lose
<1>6. CASE Repeat
  <2>1. PICK p \in BagToSet(wire) : wire' = wire (+) SetToBag({p})
    BY <1>6 DEF Repeat
  <2>2. p \in Packet
    BY <1>1 DEF Wire, BagToSet
  <2>3. wire' \in Wire
    BY <1>1, <2>1, <2>2, BagAdded
  <2> QED  BY <1>6, <2>3, WireStep DEF Repeat
<1>7. ASSUME NEW s \in Reader, Read(s) \/ Timeout(s) PROVE IInv'
  <2>1. s \in Slab
    BY JoinAssumption
  <2> QED  BY <1>7, <2>1, ReadInv
<1>8. CASE UNCHANGED vars
  BY <1>8 DEF vars, IInv, World
<1> QED  BY <1>2, <1>3, <1>4, <1>5, <1>6, <1>7, <1>8 DEF Next

\* The invariant holds.
LEMMA SpecInv == Spec => []IInv
<1> QED  BY InitInv, NextInv, PTL DEF Spec

\* Every variable has its type in every state: the packets on the wire too, and
\* each list in them names peers of this world.
THEOREM UdpJoinTypeOK == Spec => []TypeOK
<1>1. IInv => TypeOK
  <2> SUFFICES ASSUME IInv PROVE TypeOK
    OBVIOUS
  <2>1. World \in Worlds /\ tries \in [Slab -> 0 .. MaxTries]
    BY DEF IInv
  <2>2. wire \in Wire
    BY <2>1 DEF World, Worlds
  <2>3. PICK P \in SUBSET Packet : wire \in [P -> Nat \ {0}]
    BY <2>2 DEF Wire
  <2>4. IsABag(wire) /\ \A p \in BagToSet(wire) : p.from \in Id /\ p.to \in Id \cup {0}
    BY <2>3 DEF IsABag, BagToSet, Packet
  <2> QED  BY <2>1, <2>4 DEF TypeOK, World, Worlds, Ptr, Pc
<1> QED  BY <1>1, SpecInv, PTL

\* Where a slab sends to a peer is where that peer is (Slabref::send,
\* src/crates/unbase/src/slab/common_structs.rs): an address that a slab list carried
\* through any number of slabs, packets lost, doubled or out of order, is one of
\* the slab it was given for, and Local only ever within one network.
THEOREM UdpJoinRoutesLead == Spec => []RoutesLead
<1>1. IInv => RoutesLead
  BY RouteIn DEF IInv, RoutesLead
<1> QED  BY <1>1, SpecInv, PTL

-----------------------------------------------------------------------------
(***************************************************************************)
(* The root memo can be fetched: what slabs and packets say of it leads to *)
(* a slab that has it.                                                     *)
(***************************************************************************)
\* References of slab by lead to slab t, which is another one.
Reaches(w, by, t) == IdOf[by] # IdOf[t] /\ NetOf[t] \in ToSet(w.refs[by][IdOf[t]])

\* Slab x has the memo, or lists a slab that has it and that can be reached.
Witnessed(w, x) ==
  \E t \in Slab : /\ w.ptr[t] = "resident"
                  /\ \/ t = x
                     \/ /\ w.peers[x][IdOf[t]] # None
                        /\ Reaches(w, w.peers[x][IdOf[t]].by, t)

\* The list l of a packet from slab id from names a slab that has the memo, with
\* its address.
Named(w, from, l) ==
  \E t \in Slab : /\ w.ptr[t] = "resident"
                  /\ l[IdOf[t]] # None
                  /\ NetOf[t] \in ToSet(l[IdOf[t]].via)
                  /\ IdOf[t] = from \/ Reaches(w, l[IdOf[t]].by, t)

\* The slab that packet p is for needs no news of the memo.
Expected(w, p) ==
  \E x \in Slab : IdOf[x] = p.to /\ (p.local \/ p.to # 0) /\ Witnessed(w, x)

Leads(w, p, l) == Named(w, p.from, l) \/ Expected(w, p)

GoodMemo(w, p) == \E t \in Slab : IdOf[t] = p.from /\ w.ptr[t] = "resident"

GoodRequest(w, p) == /\ Place(p.from) # Creator
                     /\ \E x \in Slab : IdOf[x] = p.from /\ Witnessed(w, x)

GoodPresence(w, p) == IF p.body.seed = None THEN Place(p.from) # Creator
                      ELSE Leads(w, p, p.body.seed)

GoodPeering(w, p) == IF p.local THEN Expected(w, p) ELSE Leads(w, p, p.body.list)

\* What packets say of the memo can be relied on, by the slabs they are for.
Good(w, p) ==
  /\ p.body.kind = "memo" => GoodMemo(w, p)
  /\ p.body.kind = "request" => GoodRequest(w, p)
  /\ p.body.kind = "presence" => GoodPresence(w, p)
  /\ p.body.kind = "peering" => GoodPeering(w, p)

Sound ==
  {w \in Worlds :
     /\ \A x \in Slab : IF w.ptr[x] = "unknown" THEN \A i \in Id : w.peers[x][i] = None
                        ELSE Witnessed(w, x)
     /\ \A p \in BagToSet(w.wire) : Good(w, p)
     /\ \A n \in Net : w.seed[n] # None => /\ NetOf[w.seed[n]] = n
                                           /\ w.ptr[w.seed[n]] # "unknown"
     /\ w.seed[Creator] # None => w.ptr[w.seed[Creator]] = "resident"
     /\ \A s \in Slab : w.pc[s] = "waiting" => NetOf[s] # Creator /\ w.ptr[s] # "unknown"}

\* Worlds in which nobody has forgotten what is known in w.
Grown(w) ==
  {v \in Worlds :
     \A x \in Slab :
       /\ w.ptr[x] = "resident" => v.ptr[x] = "resident"
       /\ w.ptr[x] # "unknown" => v.ptr[x] # "unknown"
       /\ \A i \in Id :
            /\ w.peers[x][i] # None => /\ v.peers[x][i] # None
                                       /\ v.peers[x][i].by = w.peers[x][i].by
            /\ ToSet(w.refs[x][i]) \subseteq ToSet(v.refs[x][i])}

\* What a handler may leave of a world w that is sound.
After(w) == {v \in Sound \cap Grown(w) : v.seed = w.seed /\ v.slabs = w.slabs}

LEMMA GrownAgain ==
  ASSUME NEW w, NEW v \in Grown(w), NEW u \in Grown(v)
  PROVE  u \in Grown(w)
<1>1. ASSUME NEW x \in Slab, NEW i \in Id
      PROVE  /\ w.peers[x][i] # None => /\ u.peers[x][i] # None
                                        /\ u.peers[x][i].by = w.peers[x][i].by
             /\ ToSet(w.refs[x][i]) \subseteq ToSet(u.refs[x][i])
  <2>1. /\ w.peers[x][i] # None => /\ v.peers[x][i] # None
                                   /\ v.peers[x][i].by = w.peers[x][i].by
        /\ ToSet(w.refs[x][i]) \subseteq ToSet(v.refs[x][i])
    BY DEF Grown
  <2>2. /\ v.peers[x][i] # None => /\ u.peers[x][i] # None
                                   /\ u.peers[x][i].by = v.peers[x][i].by
        /\ ToSet(v.refs[x][i]) \subseteq ToSet(u.refs[x][i])
    BY DEF Grown
  <2> QED  BY <2>1, <2>2
<1>2. ASSUME NEW x \in Slab
      PROVE  /\ w.ptr[x] = "resident" => u.ptr[x] = "resident"
             /\ w.ptr[x] # "unknown" => u.ptr[x] # "unknown"
  BY DEF Grown
<1>3. u \in Worlds
  BY DEF Grown
<1> QED  BY <1>1, <1>2, <1>3 DEF Grown

LEMMA AfterAgain ==
  ASSUME NEW w, NEW v \in After(w), NEW u \in After(v)
  PROVE  u \in After(w)
BY GrownAgain DEF After

LEMMA AfterNothing ==
  ASSUME NEW w \in Sound
  PROVE  w \in After(w) /\ w \in Grown(w)
BY DEF After, Grown, Sound

LEMMA ReachesGrows ==
  ASSUME NEW w \in Worlds, NEW v \in Grown(w), NEW by \in Slab, NEW t \in Slab,
         Reaches(w, by, t)
  PROVE  Reaches(v, by, t)
BY Places DEF Reaches, Grown

LEMMA WitnessedGrows ==
  ASSUME NEW w \in Worlds, NEW v \in Grown(w), NEW x \in Slab, Witnessed(w, x)
  PROVE  Witnessed(v, x)
<1>1. PICK t \in Slab : /\ w.ptr[t] = "resident"
                        /\ \/ t = x
                           \/ /\ w.peers[x][IdOf[t]] # None
                              /\ Reaches(w, w.peers[x][IdOf[t]].by, t)
  BY DEF Witnessed
<1>2. v.ptr[t] = "resident" /\ IdOf[t] \in Id
  BY <1>1, Places DEF Grown
<1>3. CASE t = x
  BY <1>2, <1>3 DEF Witnessed
<1>4. CASE w.peers[x][IdOf[t]] # None /\ Reaches(w, w.peers[x][IdOf[t]].by, t)
  <2>1. w.peers[x][IdOf[t]].by \in Slab
    BY <1>2, <1>4, PeersOf
  <2>2. Reaches(v, w.peers[x][IdOf[t]].by, t)
    BY <1>4, <2>1, ReachesGrows
  <2>3. v.peers[x][IdOf[t]] # None /\ v.peers[x][IdOf[t]].by = w.peers[x][IdOf[t]].by
    BY <1>2, <1>4 DEF Grown
  <2> QED  BY <1>2, <2>2, <2>3 DEF Witnessed
<1> QED  BY <1>1, <1>3, <1>4

LEMMA NamedGrows ==
  ASSUME NEW w \in Worlds, NEW v \in Grown(w), NEW from, NEW l \in List,
         Named(w, from, l)
  PROVE  Named(v, from, l)
<1>1. PICK t \in Slab : /\ w.ptr[t] = "resident"
                        /\ l[IdOf[t]] # None
                        /\ NetOf[t] \in ToSet(l[IdOf[t]].via)
                        /\ IdOf[t] = from \/ Reaches(w, l[IdOf[t]].by, t)
  BY DEF Named
<1>2. v.ptr[t] = "resident" /\ IdOf[t] \in Id
  BY <1>1, Places DEF Grown
<1>3. l[IdOf[t]].by \in Slab
  BY <1>1, <1>2, EntryOf
<1>4. IdOf[t] = from \/ Reaches(v, l[IdOf[t]].by, t)
  BY <1>1, <1>3, ReachesGrows
<1> QED  BY <1>1, <1>2, <1>4 DEF Named

LEMMA LeadsGrows ==
  ASSUME NEW w \in Worlds, NEW v \in Grown(w), NEW p
  PROVE  /\ Expected(w, p) => Expected(v, p)
         /\ \A l \in List : Leads(w, p, l) => Leads(v, p, l)
<1>1. Expected(w, p) => Expected(v, p)
  BY WitnessedGrows DEF Expected
<1>2. ASSUME NEW l \in List, Leads(w, p, l) PROVE Leads(v, p, l)
  BY <1>1, <1>2, NamedGrows DEF Leads
<1> QED  BY <1>1, <1>2

LEMMA GoodGrows ==
  ASSUME NEW w \in Worlds, NEW v \in Grown(w), NEW p \in Packet, Good(w, p)
  PROVE  Good(v, p)
<1>1. p.body.kind = "memo" => GoodMemo(v, p)
  BY DEF Good, GoodMemo, Grown
<1>2. p.body.kind = "request" => GoodRequest(v, p)
  BY WitnessedGrows DEF Good, GoodRequest
<1>3. p.body.kind = "presence" => GoodPresence(v, p)
  BY LeadsGrows, PacketParts DEF Good, GoodPresence
<1>4. p.body.kind = "peering" => GoodPeering(v, p)
  BY LeadsGrows, PacketParts DEF Good, GoodPeering
<1> QED  BY <1>1, <1>2, <1>3, <1>4 DEF Good

LEMMA OnWire ==
  ASSUME NEW w \in Worlds, NEW p \in BagToSet(w.wire)
  PROVE  p \in Packet
BY DEF Worlds, Wire, BagToSet

\* What is known grows, and what is new is well founded.
LEMMA SoundGrows ==
  ASSUME NEW w \in Sound, NEW v \in Grown(w),
         \A x \in Slab : \/ v.ptr[x] = w.ptr[x] /\ v.peers[x] = w.peers[x]
                         \/ v.ptr[x] # "unknown" /\ Witnessed(v, x),
         \A p \in BagToSet(v.wire) : p \in BagToSet(w.wire) \/ Good(v, p),
         \A n \in Net : \/ v.seed[n] = w.seed[n]
                        \/ /\ NetOf[v.seed[n]] = n /\ v.ptr[v.seed[n]] # "unknown"
                           /\ n = Creator => v.ptr[v.seed[n]] = "resident",
         \A s \in Slab : v.pc[s] = "waiting" =>
                           w.pc[s] = "waiting"
                           \/ (NetOf[s] # Creator /\ v.ptr[s] # "unknown")
  PROVE  v \in Sound
<1>1. w \in Worlds /\ v \in Worlds
  BY DEF Sound, Grown
<1>2. ASSUME NEW x \in Slab
      PROVE  IF v.ptr[x] = "unknown" THEN \A i \in Id : v.peers[x][i] = None
             ELSE Witnessed(v, x)
  <2>1. CASE v.ptr[x] = w.ptr[x] /\ v.peers[x] = w.peers[x]
    <3>1. IF w.ptr[x] = "unknown" THEN \A i \in Id : w.peers[x][i] = None
          ELSE Witnessed(w, x)
      BY DEF Sound
    <3> QED  BY <1>1, <2>1, <3>1, WitnessedGrows
  <2>2. CASE v.ptr[x] # "unknown" /\ Witnessed(v, x)
    BY <2>2
  <2> QED  BY <2>1, <2>2
<1>3. ASSUME NEW p \in BagToSet(v.wire) PROVE Good(v, p)
  <2>1. CASE p \in BagToSet(w.wire)
    <3>1. Good(w, p) /\ p \in Packet
      BY <1>1, <2>1, OnWire DEF Sound
    <3> QED  BY <1>1, <3>1, GoodGrows
  <2> QED  BY <2>1
<1>4. ASSUME NEW n \in Net, v.seed[n] # None
      PROVE  /\ NetOf[v.seed[n]] = n /\ v.ptr[v.seed[n]] # "unknown"
             /\ n = Creator => v.ptr[v.seed[n]] = "resident"
  <2>1. CASE v.seed[n] = w.seed[n]
    <3>1. v.seed[n] \in Slab
      BY <1>1, <1>4 DEF Worlds
    <3>2. /\ NetOf[w.seed[n]] = n /\ w.ptr[w.seed[n]] # "unknown"
          /\ n = Creator => w.ptr[w.seed[n]] = "resident"
      BY <1>4, <2>1 DEF Sound
    <3> QED  BY <2>1, <3>1, <3>2 DEF Grown
  <2> QED  BY <2>1
<1>5. ASSUME NEW s \in Slab, v.pc[s] = "waiting"
      PROVE  NetOf[s] # Creator /\ v.ptr[s] # "unknown"
  BY <1>5 DEF Sound, Grown
<1>6. Creator \in Net
  BY JoinAssumption
<1> QED  BY <1>1, <1>2, <1>3, <1>4, <1>5, <1>6 DEF Sound

\* Who lists others has the memo or lists one that has it.
LEMMA KnownIsWitnessed ==
  ASSUME NEW w \in Sound, NEW x \in Slab
  PROVE  /\ w.ptr[x] # "unknown" => Witnessed(w, x)
         /\ Witnessed(w, x) => w.ptr[x] # "unknown"
<1>1. IF w.ptr[x] = "unknown" THEN \A i \in Id : w.peers[x][i] = None
      ELSE Witnessed(w, x)
  BY DEF Sound
<1> QED  BY <1>1, Places DEF Witnessed

-----------------------------------------------------------------------------
(***************************************************************************)
(* The operators of the model keep to that.                                *)
(***************************************************************************)
\* Worlds with one thing changed.
LEMMA RefsAfter ==
  ASSUME NEW w \in Sound, NEW s \in Slab, NEW i \in Id, NEW q \in Seq(Home(s, i)),
         ToSet(w.refs[s][i]) \subseteq ToSet(q)
  PROVE  [w EXCEPT !.refs[s][i] = q] \in After(w)
<1> DEFINE v == [w EXCEPT !.refs[s][i] = q]
<1>1. w \in Worlds
  BY DEF Sound
<1>2. v \in Worlds
  BY <1>1, RefsChanged
<1>3. /\ v.ptr = w.ptr /\ v.peers = w.peers /\ v.wire = w.wire
      /\ v.seed = w.seed /\ v.pc = w.pc /\ v.slabs = w.slabs
      /\ \A x \in Slab : \A j \in Id :
           v.refs[x][j] = IF x = s /\ j = i THEN q ELSE w.refs[x][j]
  BY <1>1 DEF Worlds
<1> HIDE DEF v
<1>4. v \in Grown(w)
  BY <1>2, <1>3 DEF Grown
<1>5. v \in Sound
  <2>1. \A x \in Slab : \/ v.ptr[x] = w.ptr[x] /\ v.peers[x] = w.peers[x]
                        \/ v.ptr[x] # "unknown" /\ Witnessed(v, x)
    BY <1>3
  <2>2. \A p \in BagToSet(v.wire) : p \in BagToSet(w.wire) \/ Good(v, p)
    BY <1>3
  <2>3. \A n \in Net : \/ v.seed[n] = w.seed[n]
                       \/ /\ NetOf[v.seed[n]] = n /\ v.ptr[v.seed[n]] # "unknown"
                          /\ n = Creator => v.ptr[v.seed[n]] = "resident"
    BY <1>3
  <2>4. \A x \in Slab : v.pc[x] = "waiting" =>
                         w.pc[x] = "waiting"
                         \/ (NetOf[x] # Creator /\ v.ptr[x] # "unknown")
    BY <1>3
  <2> QED  BY <1>4, <2>1, <2>2, <2>3, <2>4, SoundGrows
<1> QED  BY <1>3, <1>4, <1>5 DEF After, v

LEMMA WireAfter ==
  ASSUME NEW w \in Sound, NEW b \in Wire,
         \A p \in BagToSet(b) : p \in BagToSet(w.wire) \/ Good(w, p)
  PROVE  [w EXCEPT !.wire = b] \in After(w)
<1> DEFINE v == [w EXCEPT !.wire = b]
<1>1. w \in Worlds
  BY DEF Sound
<1>2. v \in Worlds
  BY <1>1, WireChanged
<1>3. /\ v.ptr = w.ptr /\ v.peers = w.peers /\ v.wire = b /\ v.refs = w.refs
      /\ v.seed = w.seed /\ v.pc = w.pc /\ v.slabs = w.slabs
  BY <1>1 DEF Worlds
<1> HIDE DEF v
<1>4. v \in Grown(w)
  BY <1>2, <1>3 DEF Grown
<1>5. \A p \in BagToSet(v.wire) : p \in BagToSet(w.wire) \/ Good(v, p)
  <2>1. ASSUME NEW p \in BagToSet(b), Good(w, p) PROVE Good(v, p)
    <3>1. p \in Packet
      BY DEF Wire, BagToSet
    <3> QED  BY <1>1, <1>4, <2>1, <3>1, GoodGrows
  <2> QED  BY <1>3, <2>1
<1>6. v \in Sound
  <2>1. \A x \in Slab : \/ v.ptr[x] = w.ptr[x] /\ v.peers[x] = w.peers[x]
                        \/ v.ptr[x] # "unknown" /\ Witnessed(v, x)
    BY <1>3, <1>5
  <2>2. \A p \in BagToSet(v.wire) : p \in BagToSet(w.wire) \/ Good(v, p)
    BY <1>3, <1>5
  <2>3. \A n \in Net : \/ v.seed[n] = w.seed[n]
                       \/ /\ NetOf[v.seed[n]] = n /\ v.ptr[v.seed[n]] # "unknown"
                          /\ n = Creator => v.ptr[v.seed[n]] = "resident"
    BY <1>3, <1>5
  <2>4. \A x \in Slab : v.pc[x] = "waiting" =>
                         w.pc[x] = "waiting"
                         \/ (NetOf[x] # Creator /\ v.ptr[x] # "unknown")
    BY <1>3, <1>5
  <2> QED  BY <1>4, <2>1, <2>2, <2>3, <2>4, SoundGrows
<1> QED  BY <1>3, <1>4, <1>6 DEF After, v

LEMMA PcAfter ==
  ASSUME NEW w \in Sound, NEW s \in Slab, NEW c \in Pc,
         c = "waiting" => NetOf[s] # Creator /\ w.ptr[s] # "unknown"
  PROVE  [w EXCEPT !.pc[s] = c] \in After(w)
<1> DEFINE v == [w EXCEPT !.pc[s] = c]
<1>1. w \in Worlds
  BY DEF Sound
<1>2. v \in Worlds
  BY <1>1, PcChanged
<1>3. /\ v.ptr = w.ptr /\ v.peers = w.peers /\ v.wire = w.wire /\ v.refs = w.refs
      /\ v.seed = w.seed /\ v.slabs = w.slabs
      /\ \A x \in Slab : v.pc[x] = IF x = s THEN c ELSE w.pc[x]
  BY <1>1 DEF Worlds
<1> HIDE DEF v
<1>4. v \in Grown(w)
  BY <1>2, <1>3 DEF Grown
<1>5. v \in Sound
  <2>1. \A x \in Slab : \/ v.ptr[x] = w.ptr[x] /\ v.peers[x] = w.peers[x]
                        \/ v.ptr[x] # "unknown" /\ Witnessed(v, x)
    BY <1>3
  <2>2. \A p \in BagToSet(v.wire) : p \in BagToSet(w.wire) \/ Good(v, p)
    BY <1>3
  <2>3. \A n \in Net : \/ v.seed[n] = w.seed[n]
                       \/ /\ NetOf[v.seed[n]] = n /\ v.ptr[v.seed[n]] # "unknown"
                          /\ n = Creator => v.ptr[v.seed[n]] = "resident"
    BY <1>3
  <2>4. \A x \in Slab : v.pc[x] = "waiting" =>
                         w.pc[x] = "waiting"
                         \/ (NetOf[x] # Creator /\ v.ptr[x] # "unknown")
    BY <1>3
  <2> QED  BY <1>4, <2>1, <2>2, <2>3, <2>4, SoundGrows
<1> QED  BY <1>3, <1>4, <1>5 DEF After, v

LEMMA OneMore ==
  ASSUME NEW b \in Wire, NEW p
  PROVE  /\ BagToSet(b (+) SetToBag({p})) = BagToSet(b) \cup {p}
         /\ BagToSet(b (-) SetToBag({p})) \subseteq BagToSet(b)
<1>1. DOMAIN (b (+) SetToBag({p})) = DOMAIN b \cup {p}
  BY DEF SetToBag, (+)
<1>2. DOMAIN (b (-) SetToBag({p})) \subseteq DOMAIN b
  BY DEF SetToBag, (-)
<1> QED  BY <1>1, <1>2 DEF BagToSet

LEMMA PacketAfter ==
  ASSUME NEW w \in Sound, NEW p \in Packet, Good(w, p)
  PROVE  [w EXCEPT !.wire = @ (+) SetToBag({p})] \in After(w)
<1> DEFINE b == w.wire (+) SetToBag({p})
<1>1. w.wire \in Wire
  BY DEF Sound, Worlds
<1>2. b \in Wire
  BY <1>1, BagAdded
<1>3. \A q \in BagToSet(b) : q \in BagToSet(w.wire) \/ Good(w, q)
  <2>1. BagToSet(b) = BagToSet(w.wire) \cup {p}
    BY <1>1, OneMore
  <2> HIDE DEF b
  <2> QED  BY <2>1
<1> HIDE DEF b
<1>4. [w EXCEPT !.wire = b] \in After(w)
  BY <1>2, <1>3, WireAfter
<1> QED  BY <1>4 DEF b

\* A message that is good by whatever route.
LEMMA SendAfter ==
  ASSUME NEW w \in Sound, NEW s \in Slab, NEW by \in Slab, NEW i \in Id,
         NEW body \in Body(IdOf[s]),
         \A p \in Packet : p.from = IdOf[s] /\ p.to = i /\ p.body = body => Good(w, p)
  PROVE  Send(w, s, by, i, body) \in After(w)
<1> DEFINE v == Send(w, s, by, i, body)
<1>1. Sent(w, v, IdOf[s], i, body)
  BY SendIs DEF Sound
<1> HIDE DEF v
<1> SUFFICES v \in After(w)
  BY DEF v
<1>2. CASE v = w
  <2>1. w \in After(w)
    BY AfterNothing
  <2> QED  BY <1>2, <2>1
<1>3. CASE v # w
  <2>1. PICK p \in Packet : /\ p.from = IdOf[s] /\ p.to = i /\ p.body = body
                            /\ v = [w EXCEPT !.wire = @ (+) SetToBag({p})]
    BY <1>1, <1>3 DEF Sent
  <2>2. Good(w, p)
    BY <2>1
  <2>3. [w EXCEPT !.wire = @ (+) SetToBag({p})] \in After(w)
    BY <2>2, PacketAfter
  <2> QED  BY <2>1, <2>3
<1> QED  BY <1>2, <1>3

LEMMA AssertSlabrefAfter ==
  ASSUME NEW w \in Sound, NEW s \in Slab, NEW i \in Id,
         NEW addresses \in Seq({Local, Place(i)})
  PROVE  /\ AssertSlabref(w, s, i, addresses) \in After(w)
         /\ i # IdOf[s] /\ Place(i) \in ToSet(addresses) =>
              Place(i) \in ToSet(AssertSlabref(w, s, i, addresses).refs[s][i])
<1> DEFINE v == AssertSlabref(w, s, i, addresses)
<1>1. Referred(w, v, s, i, addresses) /\ w \in Worlds
  BY AssertSlabrefIs DEF Sound
<1> HIDE DEF v
<1>2. CASE i = IdOf[s]
  BY <1>1, <1>2, AfterNothing DEF Referred, v
<1>3. CASE i # IdOf[s]
  <2>1. PICK q \in Seq(Home(s, i)) :
          /\ v = [w EXCEPT !.refs[s][i] = q]
          /\ ToSet(w.refs[s][i]) \subseteq ToSet(q)
          /\ Place(i) \in ToSet(addresses) => Place(i) \in ToSet(q)
    <3>1. Place(i) # Local
      BY Places, NoneAssumption
    <3>2. \A a \in ToSet(addresses) : a # Local => Usable(w, s, i, a)
      BY DEF Usable
    <3> QED  BY <1>1, <1>3, <3>1, <3>2 DEF Referred
  <2>2. v \in After(w)
    BY <2>1, RefsAfter
  <2>3. v.refs[s][i] = q
    BY <1>1, <2>1 DEF Worlds
  <2> QED  BY <2>1, <2>2, <2>3 DEF v
<1> QED  BY <1>2, <1>3

\* What slab s hears of the memo.
Row(w, s, list) ==
  [i \in Id |->
     IF list[i] # None /\ (i = IdOf[s] => w.ptr[s] = "unknown")
     THEN [status |-> list[i].status,
           by     |-> IF w.peers[s][i] = None THEN list[i].by ELSE w.peers[s][i].by]
     ELSE w.peers[s][i]]

LEMMA RowIn ==
  ASSUME NEW w \in Worlds, NEW s \in Slab, NEW list \in List
  PROVE  Row(w, s, list) \in [Id -> Peer \cup {None}]
<1>1. ASSUME NEW i \in Id PROVE Row(w, s, list)[i] \in Peer \cup {None}
  <2>1. w.peers[s][i] \in Peer \cup {None}
    BY PeersOf
  <2>2. w.peers[s][i] # None => w.peers[s][i].by \in Slab
    BY PeersOf
  <2>3. list[i] # None => list[i].status \in Status /\ list[i].by \in Slab
    BY EntryOf
  <2> QED  BY <2>1, <2>2, <2>3 DEF Row, Peer
<1> QED  BY <1>1 DEF Row

\* The list names a slab that has the memo and that can be reached, or the one
\* that is told knows one.
Tells(w, s, list) ==
  \/ w.ptr[s] # "unknown"
  \/ \E t \in Slab : /\ w.ptr[t] = "resident" /\ list[IdOf[t]] # None
                     /\ Reaches(w, list[IdOf[t]].by, t)

\* Changes to what one slab knows of the memo.
LEMMA KnownAfter ==
  ASSUME NEW w \in Sound, NEW s \in Slab, NEW row \in [Id -> Peer \cup {None}], NEW c \in Ptr,
         c # "unknown", w.ptr[s] = "resident" => c = "resident",
         \A i \in Id : w.peers[s][i] # None =>
                         row[i] # None /\ row[i].by = w.peers[s][i].by,
         \/ c = "resident"
         \/ w.ptr[s] # "unknown"
         \/ \E t \in Slab : /\ w.ptr[t] = "resident" /\ row[IdOf[t]] # None
                            /\ Reaches(w, row[IdOf[t]].by, t)
  PROVE  [w EXCEPT !.peers[s] = row, !.ptr[s] = c] \in After(w)
<1> DEFINE v == [w EXCEPT !.peers[s] = row, !.ptr[s] = c]
<1>1. w \in Worlds
  BY DEF Sound
<1>2. v \in Worlds
  BY <1>1, PeersChanged
<1>3. /\ v.pc = w.pc /\ v.wire = w.wire /\ v.refs = w.refs
      /\ v.seed = w.seed /\ v.slabs = w.slabs
      /\ \A x \in Slab : v.ptr[x] = IF x = s THEN c ELSE w.ptr[x]
      /\ \A x \in Slab : v.peers[x] = IF x = s THEN row ELSE w.peers[x]
  BY <1>1 DEF Worlds
<1> HIDE DEF v
<1>4. v \in Grown(w)
  BY <1>2, <1>3 DEF Grown
<1>5. v.ptr[s] # "unknown" /\ Witnessed(v, s)
  <2>1. CASE c = "resident"
    BY <1>3, <2>1 DEF Witnessed
  <2>2. CASE w.ptr[s] # "unknown"
    BY <1>1, <1>3, <1>4, <2>2, KnownIsWitnessed, WitnessedGrows
  <2>3. ASSUME NEW t \in Slab, w.ptr[t] = "resident", row[IdOf[t]] # None,
               Reaches(w, row[IdOf[t]].by, t), c # "resident"
        PROVE  Witnessed(v, s)
    <3>1. v.ptr[t] = "resident"
      BY <1>3, <2>3
    <3>2. Reaches(v, row[IdOf[t]].by, t)
      BY <1>3, <2>3 DEF Reaches
    <3> QED  BY <1>3, <2>3, <3>1, <3>2 DEF Witnessed
  <2> QED  BY <1>3, <2>1, <2>2, <2>3
<1>6. v \in Sound
  <2>1. \A x \in Slab : \/ v.ptr[x] = w.ptr[x] /\ v.peers[x] = w.peers[x]
                        \/ v.ptr[x] # "unknown" /\ Witnessed(v, x)
    BY <1>3, <1>5
  <2>2. \A p \in BagToSet(v.wire) : p \in BagToSet(w.wire) \/ Good(v, p)
    BY <1>3, <1>5
  <2>3. \A n \in Net : \/ v.seed[n] = w.seed[n]
                       \/ /\ NetOf[v.seed[n]] = n /\ v.ptr[v.seed[n]] # "unknown"
                          /\ n = Creator => v.ptr[v.seed[n]] = "resident"
    BY <1>3, <1>5
  <2>4. \A x \in Slab : v.pc[x] = "waiting" =>
                         w.pc[x] = "waiting"
                         \/ (NetOf[x] # Creator /\ v.ptr[x] # "unknown")
    BY <1>3, <1>5
  <2> QED  BY <1>4, <2>1, <2>2, <2>3, <2>4, SoundGrows
<1> QED  BY <1>3, <1>4, <1>6 DEF After, v

LEMMA AssertMemorefAfter ==
  ASSUME NEW w \in Sound, NEW s \in Slab, NEW list \in List,
         NEW state \in {"remote", "resident"},
         state = "resident" \/ Tells(w, s, list)
  PROVE  /\ AssertMemoref(w, s, list, state) \in After(w)
         /\ AssertMemoref(w, s, list, state).ptr[s] # "unknown"
         /\ state = "resident" => AssertMemoref(w, s, list, state).ptr[s] = "resident"
<1> DEFINE row == Row(w, s, list)
           c == IF "resident" \in {w.ptr[s], state} THEN "resident" ELSE "remote"
<1>1. AssertMemoref(w, s, list, state) = [w EXCEPT !.peers[s] = row, !.ptr[s] = c]
  BY DEF AssertMemoref, Row
<1>2. w \in Worlds
  BY DEF Sound
<1>3. row \in [Id -> Peer \cup {None}]
  BY <1>2, RowIn
<1>4. c \in Ptr /\ c # "unknown" /\ (w.ptr[s] = "resident" => c = "resident")
      /\ (state = "resident" => c = "resident")
  BY DEF Ptr
<1>5. \A i \in Id : w.peers[s][i] # None =>
                      row[i] # None /\ row[i].by = w.peers[s][i].by
  <2>1. \A i \in Id : w.peers[s][i] # None /\ row[i] # w.peers[s][i] =>
          row[i] = [status |-> list[i].status, by |-> w.peers[s][i].by]
                   /\ row[i] \in Peer \cup {None}
    BY <1>3 DEF Row
  <2>2. \A i \in Id : list[i] # None => list[i].status \in Status
    BY EntryOf
  <2>3. ASSUME NEW i \in Id, w.peers[s][i] # None
        PROVE  row[i] # None /\ row[i].by = w.peers[s][i].by
    <3>1. w.peers[s][i].by \in Slab
      BY <1>2, <2>3, PeersOf
    <3>2. CASE row[i] = w.peers[s][i]
      BY <2>3, <3>2
    <3>3. CASE row[i] # w.peers[s][i]
      <4>1. list[i] # None
        BY <3>3 DEF Row
      <4>2. row[i] = [status |-> list[i].status, by |-> w.peers[s][i].by]
        BY <2>1, <2>3, <3>3
      <4>3. row[i] \in Peer
        BY <2>2, <3>1, <4>1, <4>2 DEF Peer
      <4> QED  BY <4>2, <4>3, NoneAssumption
    <3> QED  BY <3>2, <3>3
  <2> QED  BY <2>3
<1>6. \/ c = "resident"
      \/ w.ptr[s] # "unknown"
      \/ \E t \in Slab : /\ w.ptr[t] = "resident" /\ row[IdOf[t]] # None
                         /\ Reaches(w, row[IdOf[t]].by, t)
  <2>1. ASSUME NEW t \in Slab, w.ptr[t] = "resident", list[IdOf[t]] # None,
               Reaches(w, list[IdOf[t]].by, t), w.ptr[s] = "unknown"
        PROVE  row[IdOf[t]] # None /\ row[IdOf[t]].by = list[IdOf[t]].by
    <3>1. IdOf[t] \in Id
      BY Places
    <3>2. w.peers[s][IdOf[t]] = None
      BY <2>1, <3>1 DEF Sound
    <3>3. row[IdOf[t]] = [status |-> list[IdOf[t]].status, by |-> list[IdOf[t]].by]
      BY <2>1, <3>1, <3>2 DEF Row
    <3>4. list[IdOf[t]].status \in Status /\ list[IdOf[t]].by \in Slab
      BY <2>1, <3>1, EntryOf
    <3>5. row[IdOf[t]] \in Peer
      BY <3>3, <3>4 DEF Peer
    <3> QED  BY <3>3, <3>5, NoneAssumption
  <2> QED  BY <1>4, <2>1 DEF Tells
<1> HIDE DEF row, c
<1>7. [w EXCEPT !.peers[s] = row, !.ptr[s] = c] \in After(w)
  BY <1>3, <1>4, <1>5, <1>6, KnownAfter
<1>8. [w EXCEPT !.peers[s] = row, !.ptr[s] = c].ptr[s] = c
  BY <1>2 DEF Worlds
<1> QED  BY <1>1, <1>4, <1>7, <1>8

\* A slab that goes through the peers of a list can reach those that were listed
\* with their address.
LEMMA AssertPeersAfter ==
  ASSUME NEW w \in Sound, NEW s \in Slab, NEW list \in List
  PROVE  /\ AssertPeers(w, s, list) \in After(w)
         /\ \A i \in Id : /\ list[i] # None /\ i # IdOf[s]
                          /\ Place(i) \in ToSet(list[i].via)
              => Place(i) \in ToSet(AssertPeers(w, s, list).refs[s][i])
<1> DEFINE Wanted(i) == list[i] # None /\ i # IdOf[s] /\ Place(i) \in ToSet(list[i].via)
           F == [d \in SUBSET Id |->
                   {v \in After(w) : \A i \in d : Wanted(i) => Place(i) \in ToSet(v.refs[s][i])}]
           D == {i \in Id : list[i] # None}
           r == AssertPeers(w, s, list)
<1>1. \A d \in SUBSET Id : \A v :
        v \in F[d] <=> /\ v \in After(w)
                       /\ \A i \in d : Wanted(i) => Place(i) \in ToSet(v.refs[s][i])
  OBVIOUS
<1>2. {} \in SUBSET Id /\ D \in SUBSET Id
      /\ \A d \in SUBSET Id : \A i \in d : i \in Id /\ d \ {i} \in SUBSET Id
  OBVIOUS
<1>3. w \in Worlds
  BY DEF Sound
<1>4. ASSUME NEW d \in SUBSET Id, NEW i \in d, list[i] # None, NEW x \in F[d \ {i}]
      PROVE  AssertSlabref(x, s, i, list[i].via) \in F[d]
  <2> DEFINE y == AssertSlabref(x, s, i, list[i].via)
  <2> HIDE DEF F
  <2>1. x \in After(w) /\ x \in Sound /\ i \in Id
    BY <1>1, <1>2 DEF After
  <2>2. list[i].via \in Seq({Local, Place(i)})
    BY <1>4, <2>1, EntryOf
  <2>3. y \in After(x) /\ (Wanted(i) => Place(i) \in ToSet(y.refs[s][i]))
    BY <2>1, <2>2, AssertSlabrefAfter
  <2> HIDE DEF y
  <2>4. y \in After(w) /\ y \in Grown(x)
    BY <2>1, <2>3, AfterAgain DEF After
  <2>5. ASSUME NEW k \in d, Wanted(k) PROVE Place(k) \in ToSet(y.refs[s][k])
    <3>1. CASE k = i
      BY <2>3, <2>5, <3>1
    <3>2. CASE k # i
      <4>1. Place(k) \in ToSet(x.refs[s][k]) /\ k \in Id
        BY <1>1, <1>2, <2>5, <3>2
      <4> QED  BY <2>4, <4>1 DEF Grown
    <3> QED  BY <3>1, <3>2
  <2>6. y \in F[d]
    <3> HIDE DEF Wanted
    <3> QED  BY <1>1, <2>4, <2>5
  <2> QED  BY <2>6 DEF y
<1>5. w \in F[{}]
  <2> HIDE DEF F, Wanted
  <2> QED  BY <1>1, <1>2, AfterNothing
<1>6. \A d \in SUBSET Id : F[d] \subseteq Worlds
  <2> HIDE DEF F, Wanted
  <2> QED  BY <1>1 DEF After, Grown
<1>7. r \in F[D]
  <2> HIDE DEF F
  <2> QED  BY <1>3, <1>4, <1>5, <1>6, AssertPeersKeeps
<1> HIDE DEF F, r
<1>8. r \in After(w) /\ \A i \in D : Wanted(i) => Place(i) \in ToSet(r.refs[s][i])
  BY <1>1, <1>2, <1>7
<1> QED  BY <1>8 DEF r

\* The messages of each kind that can be relied on.
LEMMA GoodKinds ==
  ASSUME NEW w, NEW p
  PROVE  /\ p.body.kind = "memo" /\ GoodMemo(w, p) => Good(w, p)
         /\ p.body.kind = "request" /\ GoodRequest(w, p) => Good(w, p)
         /\ p.body.kind = "presence" /\ GoodPresence(w, p) => Good(w, p)
         /\ p.body.kind = "peering" /\ GoodPeering(w, p) => Good(w, p)
BY DEF Good

\* A slab lists itself with its address.
LEMMA PeerlistOwn ==
  ASSUME NEW w, NEW s \in Slab, NEW dest
  PROVE  /\ PeerlistFor(w, s, dest)[IdOf[s]] # None
         /\ NetOf[s] \in ToSet(PeerlistFor(w, s, dest)[IdOf[s]].via)
<1> DEFINE e == [status |-> StatusOf(w, s), by |-> s, via |-> <<NetOf[s]>>]
<1>1. PeerlistFor(w, s, dest)[IdOf[s]] = e
  BY Places DEF PeerlistFor
<1>2. e \in Entry
  <2>1. <<NetOf[s]>> \in Seq(Net \cup {Local}) /\ StatusOf(w, s) \in Status
    BY Places DEF StatusOf, Status
  <2> QED  BY <2>1 DEF Entry
<1>3. NetOf[s] \in ToSet(e.via)
  BY DEF ToSet
<1> HIDE DEF e
<1> QED  BY <1>1, <1>2, <1>3, NoneAssumption

\* So a list of a slab that has the memo leads to the memo.
LEMMA ResidentNamed ==
  ASSUME NEW w, NEW s \in Slab, w.ptr[s] = "resident", NEW dest
  PROVE  Named(w, IdOf[s], PeerlistFor(w, s, dest))
BY PeerlistOwn DEF Named

\* What another slab is listed with.
LEMMA PeerlistOther ==
  ASSUME NEW w \in Worlds, NEW s \in Slab, NEW dest, NEW i \in Id,
         i # IdOf[s], i # dest, w.peers[s][i] # None
  PROVE  /\ PeerlistFor(w, s, dest)[i] # None
         /\ PeerlistFor(w, s, dest)[i].by = w.peers[s][i].by
         /\ PeerlistFor(w, s, dest)[i].via = w.refs[w.peers[s][i].by][i]
<1> DEFINE e == [status |-> w.peers[s][i].status, by |-> w.peers[s][i].by,
                 via |-> w.refs[w.peers[s][i].by][i]]
<1>1. PeerlistFor(w, s, dest)[i] = e
  BY DEF PeerlistFor
<1>2. e \in Entry
  <2>1. w.peers[s][i].by \in Slab /\ w.peers[s][i].status \in Status
    BY PeersOf
  <2>2. w.refs[w.peers[s][i].by][i] \in Seq(Net \cup {Local})
    BY <2>1 DEF Worlds
  <2> QED  BY <2>1, <2>2 DEF Entry
<1> QED  BY <1>1, <1>2, NoneAssumption

\* A list of a slab that knows of the memo leads to it, or is for a slab that
\* has it.
LEMMA PeerlistLeads ==
  ASSUME NEW w \in Sound, NEW s \in Slab, w.ptr[s] # "unknown", NEW dest
  PROVE  \/ Named(w, IdOf[s], PeerlistFor(w, s, dest))
         \/ \E t \in Slab : IdOf[t] = dest /\ w.ptr[t] = "resident"
<1>1. w \in Worlds /\ Witnessed(w, s)
  BY KnownIsWitnessed DEF Sound
<1>2. PICK t \in Slab : /\ w.ptr[t] = "resident"
                        /\ \/ t = s
                           \/ /\ w.peers[s][IdOf[t]] # None
                              /\ Reaches(w, w.peers[s][IdOf[t]].by, t)
  BY <1>1 DEF Witnessed
<1>3. CASE t = s
  BY <1>2, <1>3, ResidentNamed
<1>4. CASE IdOf[t] = dest
  BY <1>2, <1>4
<1>5. CASE t # s /\ IdOf[t] # dest
  <2>1. IdOf[t] # IdOf[s] /\ IdOf[t] \in Id
    BY <1>5, IdAssumption, Places
  <2>2. w.peers[s][IdOf[t]] # None /\ Reaches(w, w.peers[s][IdOf[t]].by, t)
    BY <1>2, <1>5
  <2> DEFINE l == PeerlistFor(w, s, dest)
  <2>3. /\ l[IdOf[t]] # None /\ l[IdOf[t]].by = w.peers[s][IdOf[t]].by
        /\ l[IdOf[t]].via = w.refs[w.peers[s][IdOf[t]].by][IdOf[t]]
    BY <1>1, <1>5, <2>1, <2>2, PeerlistOther
  <2> HIDE DEF l
  <2>4. NetOf[t] \in ToSet(l[IdOf[t]].via) /\ Reaches(w, l[IdOf[t]].by, t)
    BY <2>2, <2>3 DEF Reaches
  <2>5. Named(w, IdOf[s], l)
    BY <1>2, <2>3, <2>4 DEF Named
  <2> QED  BY <2>5 DEF l
<1> QED  BY <1>3, <1>4, <1>5

\* A slab that has the memo passes it on.
LEMMA EmitAfter ==
  ASSUME NEW w \in Sound, NEW s \in Slab, w.ptr[s] = "resident"
  PROVE  Emit(w, s) \in After(w)
<1>1. ASSUME NEW x \in After(w), NEW i \in Id
      PROVE  Send(x, s, s, i, Memo(x, s, i)) \in After(w)
  <2> DEFINE b == Memo(x, s, i)
  <2>1. x \in Sound /\ x \in Worlds /\ x.ptr[s] = "resident"
    BY DEF After, Sound, Grown
  <2>2. b \in Body(IdOf[s]) /\ b.kind = "memo"
    BY <2>1, MemoIn DEF Memo
  <2> HIDE DEF b
  <2>3. \A p \in Packet : p.from = IdOf[s] /\ p.to = i /\ p.body = b => Good(x, p)
    BY <2>1, <2>2, GoodKinds DEF GoodMemo
  <2>4. Send(x, s, s, i, b) \in After(x)
    BY <2>1, <2>2, <2>3, SendAfter
  <2> QED  BY <2>4, AfterAgain DEF b
<1>2. w \in After(w)
  BY AfterNothing
<1> QED  BY <1>1, <1>2, EmitKeeps

\* A slab that takes in the memo has it, and tells the one it got it from.
LEMMA ReconstituteAfter ==
  ASSUME NEW w \in Sound, NEW s \in Slab, NEW t \in Slab, w.ptr[t] = "resident",
         NEW list \in List
  PROVE  /\ Reconstitute(w, s, IdOf[t], list) \in After(w)
         /\ Reconstitute(w, s, IdOf[t], list).ptr[s] = "resident"
<1> DEFINE first == AssertMemoref(w, s, list, "resident")
           taken == Emit(first, s)
           c     == IF taken.pc[s] = "waiting" THEN "found" ELSE taken.pc[s]
           told  == [taken EXCEPT !.pc[s] = c]
           b     == Peering(PeerlistFor(told, s, IdOf[t]))
           v     == Send(told, s, s, IdOf[t], b)
<1>1. Reconstitute(w, s, IdOf[t], list) = v
  BY DEF Reconstitute
<1>2. first \in After(w) /\ first \in Sound /\ first.ptr[s] = "resident"
  BY AssertMemorefAfter DEF After
<1> HIDE DEF first
<1>3. taken \in After(first) /\ taken \in Sound /\ taken \in Worlds
  BY <1>2, EmitAfter DEF After, Sound
<1> HIDE DEF taken
<1>4. c \in Pc /\ c # "waiting"
  BY <1>3 DEF Worlds, Pc
<1> HIDE DEF c
<1>5. told \in After(taken) /\ told \in Sound /\ told \in Worlds
  BY <1>3, <1>4, PcAfter DEF After, Sound
<1> HIDE DEF told
<1>6. told \in After(w)
  BY <1>2, <1>3, <1>5, AfterAgain
<1>7. told.ptr[s] = "resident" /\ told.ptr[t] = "resident"
  <2>1. taken.ptr[s] = "resident"
    BY <1>2, <1>3 DEF After, Grown
  <2> QED  BY <1>5, <1>6, <2>1 DEF After, Grown
<1>8. IdOf[t] \in Id /\ PeerlistFor(told, s, IdOf[t]) \in List
  BY <1>5, Places, PeerlistIn
<1>9. b \in Body(IdOf[s]) /\ b.kind = "peering" /\ b.list = PeerlistFor(told, s, IdOf[t])
  BY <1>8, PeeringIn DEF Peering
<1> HIDE DEF b
<1>10. \A p \in Packet : p.from = IdOf[s] /\ p.to = IdOf[t] /\ p.body = b => Good(told, p)
  <2>1. Witnessed(told, t)
    BY <1>7 DEF Witnessed
  <2>2. Named(told, IdOf[s], PeerlistFor(told, s, IdOf[t]))
    BY <1>7, ResidentNamed
  <2> QED  BY <1>9, <2>1, <2>2, GoodKinds DEF GoodPeering, Expected, Leads
<1>11. v \in After(told)
  BY <1>5, <1>8, <1>9, <1>10, SendAfter
<1> HIDE DEF v
<1>12. v \in After(w)
  BY <1>6, <1>11, AfterAgain
<1>13. v.ptr[s] = "resident"
  BY <1>7, <1>11 DEF After, Grown
<1> QED  BY <1>1, <1>12, <1>13

\* A list is not None.
LEMMA NoList == \A l \in List : l # None
<1> SUFFICES ASSUME NEW l \in List PROVE l \in [Id -> Entry \cup {None}]
  BY NoneAssumption
<1>1. ASSUME NEW i \in Id PROVE l[i] \in Entry \cup {None}
  <2>1. l[i] \in Listed(i)
    BY DEF List
  <2>2. \A q \in Seq({Local, Place(i)}) : q \in Seq(Net \cup {Local})
    BY Places, SeqOfMore
  <2> QED  BY <2>1, <2>2 DEF Listed, Entry
<1> QED  BY <1>1 DEF List

\* A slab that takes the seed of its network for its own knows of the memo, and
\* has it if the network created the system.
LEMMA LocalizeSeedAfter ==
  ASSUME NEW w \in Sound, NEW s \in Slab
  PROVE  /\ LocalizeSeed(w, s) \in After(w)
         /\ w.seed[NetOf[s]] # None => LocalizeSeed(w, s).ptr[s] # "unknown"
         /\ w.seed[NetOf[s]] # None /\ NetOf[s] = Creator
              => LocalizeSeed(w, s).ptr[s] = "resident"
<1> DEFINE holder == w.seed[NetOf[s]]
           list == SeedList(w, holder, s)
           v == LocalizeSeed(w, s)
<1>1. v = IF holder \in {None, s} THEN w
          ELSE IF w.ptr[holder] = "resident" THEN Reconstitute(w, s, IdOf[holder], list)
          ELSE AssertMemoref(w, s, list, "remote")
  BY DEF LocalizeSeed, SeedList
<1>2. /\ w \in Worlds /\ NetOf[s] \in Net /\ holder \in Slab \cup {None}
      /\ holder # None => w.ptr[holder] # "unknown"
      /\ holder # None /\ NetOf[s] = Creator => w.ptr[holder] = "resident"
  BY Places DEF Sound, Worlds
<1> HIDE DEF v, list, holder
<1> SUFFICES /\ v \in After(w)
             /\ holder # None => v.ptr[s] # "unknown"
             /\ holder # None /\ NetOf[s] = Creator => v.ptr[s] = "resident"
  BY DEF v, holder
<1>3. CASE holder \in {None, s}
  <2>1. v = w
    BY <1>1, <1>3
  <2> QED  BY <1>2, <1>3, <2>1, AfterNothing
<1>4. CASE holder \notin {None, s} /\ w.ptr[holder] = "resident"
  <2>1. holder \in Slab
    BY <1>2, <1>4
  <2>2. list \in List
    BY <1>2, <2>1, SeedListIs DEF list
  <2>3. v \in After(w) /\ v.ptr[s] = "resident"
    BY <1>1, <1>4, <2>1, <2>2, ReconstituteAfter
  <2> QED  BY <2>3
<1>5. CASE holder \notin {None, s} /\ w.ptr[holder] # "resident"
  <2>1. holder \in Slab /\ v = AssertMemoref(w, s, list, "remote")
    BY <1>1, <1>2, <1>5
  <2>2. /\ list \in List
        /\ \A i \in Id \ {IdOf[holder]} : list[i] = PeerlistFor(w, holder, IdOf[s])[i]
    BY <1>2, <2>1, SeedListIs DEF list
  <2>3. Witnessed(w, holder)
    BY <1>2, <1>5, <2>1, KnownIsWitnessed
  <2>4. PICK t \in Slab : /\ w.ptr[t] = "resident"
                          /\ \/ t = holder
                             \/ /\ w.peers[holder][IdOf[t]] # None
                                /\ Reaches(w, w.peers[holder][IdOf[t]].by, t)
    BY <2>3 DEF Witnessed
  <2>5. /\ t # holder /\ w.peers[holder][IdOf[t]] # None
        /\ Reaches(w, w.peers[holder][IdOf[t]].by, t)
        /\ IdOf[t] # IdOf[holder] /\ IdOf[t] \in Id
    BY <1>5, <2>1, <2>4, IdAssumption, Places
  <2>6. Tells(w, s, list)
    <3>1. CASE t = s
      BY <2>4, <3>1 DEF Tells
    <3>2. CASE t # s
      <4> DEFINE l == PeerlistFor(w, holder, IdOf[s])
      <4>1. IdOf[t] # IdOf[s]
        BY <3>2, IdAssumption
      <4>2. l[IdOf[t]] # None /\ l[IdOf[t]].by = w.peers[holder][IdOf[t]].by
        BY <1>2, <2>1, <2>5, <4>1, PeerlistOther
      <4>3. list[IdOf[t]] = l[IdOf[t]]
        BY <2>2, <2>5
      <4> HIDE DEF l
      <4> QED  BY <2>4, <2>5, <4>2, <4>3 DEF Tells
    <3> QED  BY <3>1, <3>2
  <2>7. v \in After(w) /\ v.ptr[s] # "unknown"
    BY <2>1, <2>2, <2>6, AssertMemorefAfter
  <2> QED  BY <1>2, <1>5, <2>7
<1> QED  BY <1>3, <1>4, <1>5

\* A presence of a network that has the seed leads to the memo, unless it is
\* for slab 0, whoever that is; one of a network that has none is not from
\* the creator.
LEMMA PresenceGood ==
  ASSUME NEW w \in Sound, NEW s \in Slab, NEW a, NEW p \in Packet,
         p.from = IdOf[s], p.body = Presence(w, s, a, p.to),
         w.seed[NetOf[s]] = None => NetOf[s] # Creator,
         w.seed[NetOf[s]] # None => w.ptr[s] # "unknown",
         \/ p.to # 0 \/ 0 \notin Id \/ w.ptr[s] = "resident"
         \/ w.seed[NetOf[s]] = None
  PROVE  Good(w, p)
<1> DEFINE l == PeerlistFor(w, s, p.to)
<1>1. /\ p.body.kind = "presence"
      /\ p.body.seed = IF w.seed[NetOf[s]] = None THEN None ELSE l
  BY DEF Presence
<1>2. l \in List /\ l # None
  <2>1. l \in List
    BY PeerlistIn DEF Sound
  <2> HIDE DEF l
  <2> QED  BY <2>1, NoList
<1>3. CASE w.seed[NetOf[s]] = None
  <2>1. Place(p.from) # Creator
    BY <1>3, Places
  <2> QED  BY <1>1, <1>3, <2>1, GoodKinds DEF GoodPresence
<1>4. CASE w.seed[NetOf[s]] # None
  <2>1. Leads(w, p, l)
    <3>1. CASE w.ptr[s] = "resident"
      BY <3>1, ResidentNamed DEF Leads
    <3>2. CASE w.ptr[s] # "resident"
      <4>1. \/ Named(w, IdOf[s], l)
            \/ \E t \in Slab : IdOf[t] = p.to /\ w.ptr[t] = "resident"
        BY <1>4, PeerlistLeads
      <4>2. ASSUME NEW t \in Slab, IdOf[t] = p.to, w.ptr[t] = "resident"
            PROVE  Expected(w, p)
        <5>1. p.to # 0
          BY <1>4, <3>2, <4>2, Places
        <5> QED  BY <4>2, <5>1 DEF Expected, Witnessed
      <4> HIDE DEF l
      <4> QED  BY <4>1, <4>2 DEF Leads
    <3> QED  BY <3>1, <3>2
  <2> HIDE DEF l
  <2> QED  BY <1>1, <1>2, <1>4, <2>1, GoodKinds DEF GoodPresence
<1> QED  BY <1>3, <1>4

\* Worlds in which the creator, once it has a slab, has the seed.
Seeded(w) == w.slabs[Creator] # << >> => w.seed[Creator] # None

\* What a handler that can seed a network leaves.
Kept(w) == {v \in Sound : /\ v.slabs = w.slabs
                          /\ w.seed[Creator] # None => v.seed[Creator] # None}

LEMMA AfterIsKept ==
  ASSUME NEW w PROVE After(w) \subseteq Kept(w)
BY DEF After, Kept

\* The id 0 is of a slab of the creator, if it is used.
ZeroIsCreators == \A s \in Slab : IdOf[s] = 0 => NetOf[s] = Creator

\* A presence without a seed is answered.
LEMMA AnswerPresenceAfter ==
  ASSUME ZeroIsCreators, NEW w \in Sound, NEW s \in Slab, NEW p \in Packet, Good(w, p),
         p.body.kind = "presence", p.body.seed = None,
         NetOf[s] = Creator => w.seed[Creator] # None
  PROVE  AnswerPresence(w, s, p) \in After(w)
<1> DEFINE told    == AssertSlabref(w, s, p.from, <<p.body.address>>)
           knowing == LocalizeSeed(told, s)
           a       == ReturnAddress(w, s, p.from)
           b       == Presence(knowing, s, a, p.from)
           v       == Send(knowing, s, s, p.from, b)
<1>1. /\ p.from \in Id /\ p.body.address \in {Local, Place(p.from)}
      /\ Place(p.from) # Creator
  BY PacketParts DEF Good, GoodPresence
<1>2. p.from # 0
  BY <1>1, Places DEF ZeroIsCreators, Id
<1>3. AnswerPresence(w, s, p) = IF p.body.address = Local THEN w ELSE v
  BY DEF AnswerPresence
<1>4. <<p.body.address>> \in Seq({Local, Place(p.from)})
  BY <1>1
<1>5. told \in After(w) /\ told \in Sound
  BY <1>1, <1>4, AssertSlabrefAfter DEF After
<1> HIDE DEF told
<1>6. /\ knowing \in After(told) /\ knowing \in Sound /\ knowing \in Worlds
      /\ told.seed[NetOf[s]] # None => knowing.ptr[s] # "unknown"
  BY <1>5, LocalizeSeedAfter DEF After, Sound
<1> HIDE DEF knowing
<1>7. knowing \in After(w) /\ knowing.seed = w.seed /\ told.seed = w.seed
  BY <1>5, <1>6, AfterAgain DEF After
<1>8. a \in {Local, NetOf[s]}
  BY DEF ReturnAddress
<1> HIDE DEF a
<1>9. b \in Body(IdOf[s])
  BY <1>6, <1>8, PresenceIn
<1>10. ASSUME NEW q \in Packet, q.from = IdOf[s], q.to = p.from, q.body = b
       PROVE  Good(knowing, q)
  <2>1. q.body = Presence(knowing, s, a, q.to)
    BY <1>10
  <2> HIDE DEF b
  <2>2. /\ knowing.seed[NetOf[s]] = None => NetOf[s] # Creator
        /\ knowing.seed[NetOf[s]] # None => knowing.ptr[s] # "unknown"
        /\ q.to # 0
    BY <1>2, <1>6, <1>7, <1>10
  <2> QED  BY <1>6, <1>10, <2>1, <2>2, PresenceGood
<1> HIDE DEF b
<1>11. v \in After(knowing)
  BY <1>1, <1>6, <1>9, <1>10, SendAfter
<1> HIDE DEF v
<1>12. v \in After(w)
  BY <1>7, <1>11, AfterAgain
<1> QED  BY <1>3, <1>12, AfterNothing

\* A list that came with a packet tells of the memo, once its slabs are known.
LEMMA ListTells ==
  ASSUME NEW w \in Sound, NEW s \in Slab, NEW p \in Packet, NEW l \in List,
         p.local \/ p.to # 0 => p.to = IdOf[s],
         Leads(w, p, l)
  PROVE  Tells(AssertPeers(w, s, l), s, Heard(p, s, l))
<1> DEFINE x == AssertPeers(w, s, l)
           h == Heard(p, s, l)
<1>1. /\ x \in After(w)
      /\ \A i \in Id : l[i] # None /\ i # IdOf[s] /\ Place(i) \in ToSet(l[i].via)
           => Place(i) \in ToSet(x.refs[s][i])
  BY AssertPeersAfter
<1>2. w \in Worlds /\ x \in Grown(w) /\ h \in List
  BY <1>1, HeardIn DEF Sound, After
<1>3. \A i \in Id : l[i] # None => h[i] = [l[i] EXCEPT !.by = IF p.local /\ i # p.from THEN @ ELSE s]
  BY DEF Heard
<1> HIDE DEF x, h
<1>4. CASE Expected(w, p)
  <2>1. PICK y \in Slab : IdOf[y] = p.to /\ (p.local \/ p.to # 0) /\ Witnessed(w, y)
    BY <1>4 DEF Expected
  <2>2. y = s
    BY <2>1, IdAssumption
  <2>3. w.ptr[s] # "unknown"
    BY <2>1, <2>2, KnownIsWitnessed
  <2> QED  BY <1>2, <2>3 DEF Grown, Tells, x, h
<1>5. CASE Named(w, p.from, l)
  <2>1. PICK t \in Slab : /\ w.ptr[t] = "resident"
                          /\ l[IdOf[t]] # None
                          /\ NetOf[t] \in ToSet(l[IdOf[t]].via)
                          /\ IdOf[t] = p.from \/ Reaches(w, l[IdOf[t]].by, t)
    BY <1>5 DEF Named
  <2>2. x.ptr[t] = "resident" /\ IdOf[t] \in Id /\ Place(IdOf[t]) = NetOf[t]
    BY <1>2, <2>1, Places DEF Grown
  <2>3. CASE t = s
    BY <2>2, <2>3 DEF Tells, x, h
  <2>4. CASE t # s
    <3>1. IdOf[t] # IdOf[s]
      BY <2>4, IdAssumption
    <3>2. /\ l[IdOf[t]].by \in Slab
          /\ l[IdOf[t]] \in Entry
      <4>1. l[IdOf[t]] \in Listed(IdOf[t]) /\ l[IdOf[t]].by \in Slab
        BY <2>1, <2>2, EntryOf
      <4>2. l[IdOf[t]] \in [status : Status, by : Slab, via : Seq({Local, Place(IdOf[t])})]
        BY <2>1, <4>1 DEF Listed
      <4>3. \A q \in Seq({Local, Place(IdOf[t])}) : q \in Seq(Net \cup {Local})
        BY <2>2, Places, SeqOfMore
      <4> QED  BY <4>1, <4>2, <4>3 DEF Entry
    <3> DEFINE e == h[IdOf[t]]
    <3>3. e = [l[IdOf[t]] EXCEPT !.by = IF p.local /\ IdOf[t] # p.from THEN @ ELSE s]
      BY <1>3, <2>1, <2>2
    <3>4. /\ e # None
          /\ e.by = IF p.local /\ IdOf[t] # p.from THEN l[IdOf[t]].by ELSE s
      <4> HIDE DEF e
      <4>1. e \in Entry /\ e.by = IF p.local /\ IdOf[t] # p.from THEN l[IdOf[t]].by ELSE s
        BY <3>2, <3>3 DEF Entry
      <4> QED  BY <4>1, NoneAssumption
    <3>5. Reaches(x, s, t)
      BY <1>1, <2>1, <2>2, <3>1 DEF Reaches
    <3>6. IdOf[t] # p.from => Reaches(x, l[IdOf[t]].by, t)
      BY <1>2, <2>1, <3>2, ReachesGrows
    <3>7. Reaches(x, e.by, t)
      <4> HIDE DEF e
      <4> QED  BY <3>4, <3>5, <3>6
    <3>8. Tells(x, s, h)
      BY <2>2, <3>4, <3>7 DEF Tells
    <3> QED  BY <3>8 DEF x, h
  <2> QED  BY <2>3, <2>4
<1> QED  BY <1>4, <1>5 DEF Leads

\* A world with a seed more.
LEMMA SeedAfter ==
  ASSUME NEW w \in Sound, NEW s \in Slab, w.ptr[s] # "unknown",
         NetOf[s] = Creator => w.ptr[s] = "resident"
  PROVE  [w EXCEPT !.seed[NetOf[s]] = s] \in Kept(w)
<1> DEFINE n == NetOf[s]
           v == [w EXCEPT !.seed[n] = s]
<1>1. w \in Worlds /\ n \in Net /\ Creator \in Net
  BY Places, JoinAssumption DEF Sound
<1>2. v \in Worlds
  BY <1>1, SeedChanged
<1>3. /\ v.ptr = w.ptr /\ v.peers = w.peers /\ v.wire = w.wire
      /\ v.refs = w.refs /\ v.pc = w.pc /\ v.slabs = w.slabs
      /\ \A m \in Net : v.seed[m] = IF m = n THEN s ELSE w.seed[m]
  BY <1>1 DEF Worlds
<1> HIDE DEF v
<1>4. v \in Grown(w)
  BY <1>2, <1>3 DEF Grown
<1>5. v \in Sound
  <2>1. \A x \in Slab : \/ v.ptr[x] = w.ptr[x] /\ v.peers[x] = w.peers[x]
                        \/ v.ptr[x] # "unknown" /\ Witnessed(v, x)
    BY <1>3
  <2>2. \A p \in BagToSet(v.wire) : p \in BagToSet(w.wire) \/ Good(v, p)
    BY <1>3
  <2>3. \A i \in Net : \/ v.seed[i] = w.seed[i]
                       \/ /\ NetOf[v.seed[i]] = i /\ v.ptr[v.seed[i]] # "unknown"
                          /\ i = Creator => v.ptr[v.seed[i]] = "resident"
    BY <1>3
  <2>4. \A x \in Slab : v.pc[x] = "waiting" =>
                         w.pc[x] = "waiting"
                         \/ (NetOf[x] # Creator /\ v.ptr[x] # "unknown")
    BY <1>3
  <2> QED  BY <1>4, <2>1, <2>2, <2>3, <2>4, SoundGrows
<1>6. v.seed[Creator] # None \/ w.seed[Creator] = None
  BY <1>1, <1>3, NoneAssumption
<1> QED  BY <1>3, <1>5, <1>6 DEF Kept, v

\* A presence with a seed makes the slab know of the memo, and its network have
\* a seed.
LEMMA ApplySeedAfter ==
  ASSUME NEW w \in Sound, NEW s \in Slab, NEW p \in Packet, Good(w, p),
         p.local \/ p.to # 0 => p.to = IdOf[s],
         p.body.kind = "presence", p.body.seed # None,
         NetOf[s] = Creator => w.seed[Creator] # None
  PROVE  ApplySeed(w, s, p) \in Kept(w)
<1> DEFINE l     == p.body.seed
           x     == AssertPeers(w, s, l)
           h     == Heard(p, s, l)
           heard == AssertMemoref(x, s, h, "remote")
           new   == [status |-> "Resident",
                     by |-> IF heard.peers[s][p.from] = None THEN s
                            ELSE heard.peers[s][p.from].by]
           row   == [heard.peers[s] EXCEPT ![p.from] = new]
           hack  == [heard EXCEPT !.peers[s] = row]
           m     == NetOf[s]
<1>1. l \in List /\ p.from \in Id /\ Leads(w, p, l) /\ m \in Net /\ Creator \in Net
  BY PacketParts, Places, JoinAssumption DEF Good, GoodPresence
<1>2. Tells(x, s, h) /\ h \in List
  BY <1>1, ListTells, HeardIn
<1>3. x \in After(w) /\ x \in Sound
  BY <1>1, AssertPeersAfter DEF After
<1>4. ApplySeed(w, s, p)
        = [[heard EXCEPT !.peers[s][p.from] =
              [status |-> "Resident", by |-> IF @ = None THEN s ELSE @.by]]
             EXCEPT !.seed[m] = IF @ = None THEN s ELSE @]
  BY DEF ApplySeed
<1> HIDE DEF l, x, h
<1>5. /\ heard \in After(x) /\ heard \in Sound /\ heard \in Worlds
      /\ heard.ptr[s] # "unknown"
  BY <1>2, <1>3, AssertMemorefAfter DEF After, Sound
<1> HIDE DEF heard
<1>6. new \in Peer
  BY <1>1, <1>5, PeersOf DEF Peer, Status
<1>7. [heard EXCEPT !.peers[s][p.from] =
         [status |-> "Resident", by |-> IF @ = None THEN s ELSE @.by]] = hack
  BY <1>1, <1>5 DEF Worlds
<1>8. /\ heard.peers[s] \in [Id -> Peer \cup {None}] /\ heard.ptr[s] \in Ptr
      /\ heard = [heard EXCEPT !.ptr[s] = heard.ptr[s]]
  BY <1>5 DEF Worlds
<1>9. /\ row \in [Id -> Peer \cup {None}]
      /\ \A i \in Id : heard.peers[s][i] # None =>
                         row[i] # None /\ row[i].by = heard.peers[s][i].by
  <2>1. new # None /\ (heard.peers[s][p.from] # None => new.by = heard.peers[s][p.from].by)
    <3>1. heard.peers[s][p.from] # None => new.by = heard.peers[s][p.from].by
      OBVIOUS
    <3> HIDE DEF new
    <3> QED  BY <1>6, <3>1, NoneAssumption
  <2> HIDE DEF new
  <2> QED  BY <1>1, <1>6, <1>8, <2>1
<1> HIDE DEF row
<1>10. hack = [heard EXCEPT !.peers[s] = row, !.ptr[s] = heard.ptr[s]]
  BY <1>5 DEF Worlds
<1>11. hack \in After(heard)
  <2> DEFINE c == heard.ptr[s]
  <2>1. /\ heard \in Sound /\ row \in [Id -> Peer \cup {None}] /\ c \in Ptr
        /\ c # "unknown" /\ (heard.ptr[s] = "resident" => c = "resident")
        /\ heard.ptr[s] # "unknown"
        /\ \A i \in Id : heard.peers[s][i] # None =>
                          row[i] # None /\ row[i].by = heard.peers[s][i].by
        /\ hack = [heard EXCEPT !.peers[s] = row, !.ptr[s] = c]
    BY <1>5, <1>8, <1>9, <1>10
  <2> HIDE DEF c, hack
  <2>2. [heard EXCEPT !.peers[s] = row, !.ptr[s] = c] \in After(heard)
    BY ONLY <2>1, KnownAfter, s \in Slab
  <2> QED  BY <2>1, <2>2
<1> HIDE DEF hack
<1>12. /\ hack \in After(w) /\ hack \in Sound /\ hack \in Worlds
       /\ hack.ptr[s] # "unknown" /\ hack.seed = w.seed
  <2>1. hack \in After(w)
    BY <1>3, <1>5, <1>11, AfterAgain
  <2> QED  BY <1>5, <1>11, <2>1 DEF After, Sound, Grown
<1>13. ApplySeed(w, s, p)
         = [hack EXCEPT !.seed[m] = IF hack.seed[m] = None THEN s ELSE hack.seed[m]]
  BY <1>4, <1>7
<1>14. CASE hack.seed[m] = None
  <2>1. ApplySeed(w, s, p) = [hack EXCEPT !.seed[m] = s]
    BY <1>13, <1>14
  <2>2. m # Creator
    BY <1>12, <1>14
  <2>3. [hack EXCEPT !.seed[m] = s] \in Kept(hack)
    BY <1>12, <2>2, SeedAfter
  <2> QED  BY <1>12, <2>1, <2>3 DEF After, Kept
<1>15. CASE hack.seed[m] # None
  <2>1. [hack EXCEPT !.seed[m] = hack.seed[m]] = hack
    BY <1>1, <1>12 DEF Worlds
  <2>2. ApplySeed(w, s, p) = hack
    BY <1>13, <1>15, <2>1
  <2> QED  BY <1>12, <2>2, AfterIsKept
<1> QED  BY <1>14, <1>15

LEMMA AnswerRequestAfter ==
  ASSUME ZeroIsCreators, NEW w \in Sound, NEW s \in Slab, NEW p \in Packet, Good(w, p),
         p.body.kind = "request"
  PROVE  AnswerRequest(w, s, p) \in After(w)
<1> DEFINE l == [i \in Id |->
                   IF i = IdOf[s]
                   THEN [status |-> "NonParticipating", by |-> s, via |-> <<NetOf[s]>>]
                   ELSE None]
           b == Memo(w, s, p.from)
           c == Peering(l)
<1>1. /\ w \in Worlds /\ p.from \in Id /\ Place(p.from) # Creator
      /\ GoodRequest(w, p) /\ w.ptr[s] \in Ptr
  BY PacketParts DEF Good, GoodRequest, Sound, Worlds
<1>2. p.from # 0
  BY <1>1, Places DEF ZeroIsCreators, Id
<1>3. l \in List
  <2>1. \A i \in Id : l[i] \in Listed(i)
    BY OwnEntry DEF Listed, Status
  <2> QED  BY <2>1, ListIn
<1>4. \/ AnswerRequest(w, s, p) = w
      \/ w.ptr[s] = "resident" /\ AnswerRequest(w, s, p) = Send(w, s, s, p.from, b)
      \/ AnswerRequest(w, s, p) = Send(w, s, s, p.from, c)
  BY <1>1 DEF AnswerRequest, Ptr
<1>5. /\ b \in Body(IdOf[s]) /\ b.kind = "memo"
      /\ c \in Body(IdOf[s]) /\ c.kind = "peering" /\ c.list = l
  BY <1>1, <1>3, MemoIn, PeeringIn DEF Memo, Peering
<1> HIDE DEF b, c, l
<1>6. ASSUME w.ptr[s] = "resident" PROVE Send(w, s, s, p.from, b) \in After(w)
  <2>1. \A q \in Packet : q.from = IdOf[s] /\ q.to = p.from /\ q.body = b => Good(w, q)
    BY <1>5, <1>6, GoodKinds DEF GoodMemo
  <2> QED  BY <1>1, <1>5, <2>1, SendAfter
<1>7. Send(w, s, s, p.from, c) \in After(w)
  <2>1. \A q \in Packet : q.from = IdOf[s] /\ q.to = p.from /\ q.body = c => Good(w, q)
    <3> SUFFICES ASSUME NEW q \in Packet, q.from = IdOf[s], q.to = p.from, q.body = c
                 PROVE  Good(w, q)
      OBVIOUS
    <3>1. Expected(w, q)
      BY <1>1, <1>2 DEF GoodRequest, Expected
    <3> QED  BY <1>5, <3>1, GoodKinds DEF GoodPeering, Leads
  <2> QED  BY <1>1, <1>5, <2>1, SendAfter
<1> QED  BY <1>4, <1>6, <1>7, AfterNothing

\* Whatever packet slab s takes in.
LEMMA HandledAfter ==
  ASSUME ZeroIsCreators, NEW w \in Sound, NEW s \in Slab, NEW p \in Packet, Good(w, p),
         p.local \/ p.to # 0 => p.to = IdOf[s],
         NetOf[s] = Creator => w.seed[Creator] # None
  PROVE  Handled(w, s, p) \in Kept(w)
<1>1. CASE p.body.kind = "presence" /\ p.body.seed # None
  <2>1. Handled(w, s, p) = ApplySeed(w, s, p)
    BY <1>1 DEF Handled
  <2> QED  BY <1>1, <2>1, ApplySeedAfter
<1>2. CASE p.body.kind = "presence" /\ p.body.seed = None
  <2>1. Handled(w, s, p) = AnswerPresence(w, s, p)
    BY <1>2 DEF Handled
  <2> QED  BY <1>2, <2>1, AnswerPresenceAfter, AfterIsKept
<1>3. CASE p.body.kind = "request"
  <2>1. Handled(w, s, p) = AnswerRequest(w, s, p)
    BY <1>3 DEF Handled
  <2> QED  BY <1>3, <2>1, AnswerRequestAfter, AfterIsKept
<1>4. CASE p.body.kind = "memo"
  <2> DEFINE v == IF p.local THEN w ELSE Introduced(w, s, p)
             l == Heard(p, s, p.body.list)
             u == Reconstitute(v, s, p.from, l)
  <2>1. Handled(w, s, p) = u
    BY <1>4 DEF Handled
  <2>2. p.body.list \in List
    BY <1>4, PacketParts
  <2>3. v \in After(w)
    BY <2>2, AssertPeersAfter, AfterNothing DEF Introduced
  <2>4. l \in List
    BY <2>2, HeardIn
  <2>5. PICK t \in Slab : IdOf[t] = p.from /\ w.ptr[t] = "resident"
    BY <1>4 DEF Good, GoodMemo
  <2> HIDE DEF v, l
  <2>6. v \in Sound /\ v.ptr[t] = "resident"
    BY <2>3, <2>5 DEF After, Grown
  <2>7. u \in After(v)
    BY <2>4, <2>5, <2>6, ReconstituteAfter
  <2> HIDE DEF u
  <2>8. u \in After(w)
    BY <2>3, <2>7, AfterAgain
  <2> QED  BY <2>1, <2>8, AfterIsKept
<1>5. CASE p.body.kind = "peering"
  <2> DEFINE l == p.body.list
             x == Introduced(w, s, p)
             h == Heard(p, s, l)
             u == AssertMemoref(x, s, h, "remote")
  <2>1. Handled(w, s, p) = u
    BY <1>5 DEF Handled
  <2>2. l \in List /\ GoodPeering(w, p)
    BY <1>5, PacketParts DEF Good
  <2>3. h \in List
    BY <2>2, HeardIn
  <2>4. x \in After(w) /\ Tells(x, s, h)
    <3>1. CASE p.local
      <4> DEFINE m == [l EXCEPT ![p.from] = None]
      <4>1. m \in List
        <5>1. m = [i \in Id |-> m[i]] /\ \A i \in Id : m[i] \in Listed(i)
          BY <2>2 DEF List, Listed
        <5> HIDE DEF m
        <5> QED  BY <5>1, ListIn
      <4>2. x = AssertPeers(w, s, m)
        BY <3>1 DEF Introduced
      <4> HIDE DEF m, x
      <4>3. x \in After(w)
        BY <4>1, <4>2, AssertPeersAfter
      <4>4. PICK y \in Slab : IdOf[y] = p.to /\ Witnessed(w, y)
        BY <2>2, <3>1 DEF GoodPeering, Expected
      <4>5. y = s
        BY <3>1, <4>4, IdAssumption
      <4>6. x.ptr[s] # "unknown"
        BY <4>3, <4>4, <4>5, KnownIsWitnessed DEF After, Grown
      <4> QED  BY <4>3, <4>6 DEF Tells
    <3>2. CASE ~p.local
      <4>1. x = AssertPeers(w, s, l)
        BY <3>2 DEF Introduced
      <4>2. Leads(w, p, l)
        BY <2>2, <3>2 DEF GoodPeering
      <4> HIDE DEF x, l
      <4>3. x \in After(w)
        BY <2>2, <4>1, AssertPeersAfter
      <4>4. Tells(x, s, Heard(p, s, l))
        BY <2>2, <4>1, <4>2, ListTells
      <4> QED  BY <4>3, <4>4
    <3> QED  BY <3>1, <3>2
  <2> HIDE DEF x, h, l
  <2>5. x \in Sound
    BY <2>4 DEF After
  <2>6. u \in After(x)
    BY <2>3, <2>4, <2>5, AssertMemorefAfter
  <2> HIDE DEF u
  <2>7. u \in After(w)
    BY <2>4, <2>6, AfterAgain
  <2> QED  BY <2>1, <2>7, AfterIsKept
<1> QED  BY <1>1, <1>2, <1>3, <1>4, <1>5, PacketParts

\* Who does not have the memo asks for it.
LEMMA AskAfter ==
  ASSUME NEW w \in Sound, NEW s \in Slab, NetOf[s] # Creator, w.ptr[s] # "unknown"
  PROVE  Ask(w, s) \in After(w)
<1>1. [w EXCEPT !.pc[s] = "waiting"] \in After(w)
  BY PcAfter DEF Pc
<1>2. ASSUME NEW x \in After(w), NEW i \in Id, NEW by \in Slab
      PROVE  Send(x, s, by, i, Request) \in After(w)
  <2>1. x \in Sound /\ x.ptr[s] # "unknown"
    BY DEF After, Grown
  <2>2. Request \in Body(IdOf[s]) /\ Request.kind = "request"
    BY DEF Body, Request
  <2>3. \A q \in Packet : q.from = IdOf[s] /\ q.to = i /\ q.body = Request => Good(x, q)
    <3> SUFFICES ASSUME NEW q \in Packet, q.from = IdOf[s], q.body = Request
                 PROVE  Good(x, q)
      OBVIOUS
    <3>1. GoodRequest(x, q)
      BY <2>1, KnownIsWitnessed, Places DEF GoodRequest
    <3> QED  BY <2>2, <3>1, GoodKinds
  <2>4. Send(x, s, by, i, Request) \in After(x)
    BY <2>1, <2>2, <2>3, SendAfter
  <2> QED  BY <2>4, AfterAgain
<1> QED  BY <1>1, <1>2, AskStays DEF Sound

-----------------------------------------------------------------------------
(***************************************************************************)
(* The steps, and the theorem.                                             *)
(***************************************************************************)
\* Who says hello has not joined yet, or is the creator; or 0 is no slab's own id.
HelloBeforeJoining ==
  \A n, m \in Net : SayHello(n, m) => n = Creator \/ seed[n] = None \/ 0 \notin Id

\* What is known of the memo in every state.
KnownInv == World \in Sound /\ Seeded(World)

\* A state that a handler leaves.
LEMMA BecomesKnown ==
  ASSUME KnownInv, NEW w \in Kept(World), Becomes(w)
  PROVE  KnownInv'
<1>1. w \in Worlds
  BY DEF Kept, Sound
<1>2. World' = w
  BY <1>1 DEF Becomes, World, Worlds
<1>3. w \in Sound /\ Seeded(w)
  BY DEF KnownInv, Kept, Seeded
<1> QED  BY <1>2, <1>3 DEF KnownInv, Seeded

LEMMA ReceiveKnown ==
  ASSUME ZeroIsCreators, KnownInv, NEW p \in BagToSet(wire), Receive(p)
  PROVE  KnownInv'
<1> DEFINE s == Destination(p)
           b == wire (-) SetToBag({p})
           w == [World EXCEPT !.wire = b]
           v == IF p.local THEN w ELSE AssertSlabref(w, s, p.from, <<p.src>>)
           u == Handled(v, s, p)
<1>1. /\ World \in Sound /\ World \in Worlds /\ wire \in Wire /\ World.wire = wire
      /\ slabs = World.slabs /\ seed = World.seed
  BY DEF KnownInv, Sound, Worlds, World
<1>2. p \in Packet /\ p.net \in Net /\ Good(World, p)
  <2>1. p \in Packet
    BY <1>1 DEF Wire, BagToSet
  <2> QED  BY <1>1, <2>1, PacketParts DEF Sound
<1>3. /\ s \in Slab /\ slabs[NetOf[s]] # << >>
      /\ p.local \/ p.to # 0 => p.to = IdOf[s]
  <2>1. s # None
    BY DEF Receive
  <2>2. CASE p.to = 0 /\ ~p.local
    <3>1. slabs[p.net] \in Seq(SlabsOf(p.net)) /\ slabs[p.net] # << >> /\ s = slabs[p.net][1]
      BY <1>1, <1>2, <2>1, <2>2 DEF Destination, Worlds
    <3>2. Head(slabs[p.net]) \in SlabsOf(p.net)
      BY <3>1, HeadTailProperties
    <3> QED  BY <2>2, <3>1, <3>2 DEF SlabsOf
  <2>3. CASE ~ (p.to = 0 /\ ~p.local)
    <3>1. s = SlabWith(World, p.net, p.to)
      BY <2>3 DEF Destination
    <3> HIDE DEF s
    <3>2. s \in Slab /\ NetOf[s] = p.net /\ IdOf[s] = p.to /\ World.slabs[p.net] # << >>
      BY <1>1, <1>2, <2>1, <3>1, SlabHere
    <3> QED  BY <1>1, <3>2
  <2> QED  BY <2>2, <2>3
<1>4. NetOf[s] = Creator => World.seed[Creator] # None
  BY <1>1, <1>3 DEF KnownInv, Seeded
<1>5. Becomes(u)
  BY <1>1 DEF Receive
<1> HIDE DEF s
<1>6. b \in Wire /\ \A q \in BagToSet(b) : q \in BagToSet(World.wire)
  BY <1>1, BagTaken, OneMore
<1> HIDE DEF b
<1>7. w \in After(World) /\ w \in Sound
  BY <1>1, <1>6, WireAfter DEF After
<1> HIDE DEF w
<1>8. v \in After(w)
  <2>1. p.from \in Id /\ <<p.src>> \in Seq({Local, Place(p.from)})
    BY <1>2, PacketParts
  <2> QED  BY <1>3, <1>7, <2>1, AssertSlabrefAfter, AfterNothing
<1> HIDE DEF v
<1>9. v \in After(World) /\ v \in Sound /\ v.seed = World.seed /\ v \in Grown(World)
  BY <1>7, <1>8, AfterAgain DEF After
<1>10. Good(v, p)
  BY <1>1, <1>2, <1>9, GoodGrows
<1>11. u \in Kept(v)
  BY <1>2, <1>3, <1>4, <1>9, <1>10, HandledAfter
<1> HIDE DEF u
<1>12. u \in Kept(World)
  BY <1>9, <1>11 DEF Kept, After
<1> QED  BY <1>5, <1>12, BecomesKnown

\* A packet is lost, or comes again.
LEMMA WireKnown ==
  ASSUME KnownInv, NEW p \in BagToSet(wire),
         \/ wire' = wire (-) SetToBag({p})
         \/ wire' = wire (+) SetToBag({p}),
         UNCHANGED <<slabs, seed, refs, ptr, peers, pc>>
  PROVE  KnownInv'
<1>1. World \in Sound /\ wire \in Wire /\ World.wire = wire
  BY DEF KnownInv, Sound, Worlds, World
<1>2. p \in Packet
  BY <1>1 DEF Wire, BagToSet
<1>3. wire' \in Wire /\ \A q \in BagToSet(wire') : q \in BagToSet(World.wire)
  <2>1. wire (-) SetToBag({p}) \in Wire /\ wire (+) SetToBag({p}) \in Wire
    BY <1>1, <1>2, BagTaken, BagAdded
  <2>2. /\ BagToSet(wire (-) SetToBag({p})) \subseteq BagToSet(wire)
        /\ BagToSet(wire (+) SetToBag({p})) = BagToSet(wire) \cup {p}
    BY <1>1, OneMore
  <2>3. wire' \in Wire /\ BagToSet(wire') \subseteq BagToSet(wire)
    <3>1. CASE wire' = wire (-) SetToBag({p})
      BY <2>1, <2>2, <3>1
    <3>2. CASE wire' = wire (+) SetToBag({p})
      BY <2>1, <2>2, <3>2
    <3> QED  BY <3>1, <3>2
  <2> QED  BY <1>1, <2>3
<1>4. [World EXCEPT !.wire = wire'] \in After(World)
  BY <1>1, <1>3, WireAfter
<1>5. World' = [World EXCEPT !.wire = wire']
  BY DEF World
<1>6. World' \in Kept(World)
  BY <1>4, <1>5, AfterIsKept
<1>7. Becomes(World')
  BY DEF Becomes, World
<1> QED  BY <1>6, <1>7, BecomesKnown

LEMMA ReadKnown ==
  ASSUME KnownInv, NEW s \in Slab, Read(s) \/ Timeout(s)
  PROVE  KnownInv'
<1>1. World \in Sound /\ World.seed = seed /\ World.pc = pc
  BY DEF KnownInv, World
<1>2. ASSUME NEW w \in After(World) PROVE w \in Sound /\ [w EXCEPT !.pc[s] = "found"] \in After(World)
        /\ [w EXCEPT !.pc[s] = "failed"] \in After(World)
  <2>1. w \in Sound
    BY DEF After
  <2>2. [w EXCEPT !.pc[s] = "found"] \in After(w) /\ [w EXCEPT !.pc[s] = "failed"] \in After(w)
    BY <2>1, PcAfter DEF Pc
  <2> QED  BY <2>1, <2>2, AfterAgain
<1>3. ASSUME NEW w \in After(World), NetOf[s] # Creator, w.ptr[s] # "unknown"
      PROVE  Ask(w, s) \in After(World)
  <2>1. w \in Sound
    BY DEF After
  <2>2. Ask(w, s) \in After(w)
    BY <1>3, <2>1, AskAfter
  <2> QED  BY <2>2, AfterAgain
<1>4. CASE Read(s)
  <2> DEFINE w == LocalizeSeed(World, s)
             new == IF w.ptr[s] = "resident" THEN [w EXCEPT !.pc[s] = "found"]
                    ELSE Ask(w, s)
  <2>1. Becomes(new) /\ seed[NetOf[s]] # None
    BY <1>4 DEF Read, ReadEnabled
  <2>2. /\ w \in After(World) /\ w.ptr[s] # "unknown"
        /\ NetOf[s] = Creator => w.ptr[s] = "resident"
    BY <1>1, <2>1, LocalizeSeedAfter
  <2> HIDE DEF w
  <2>3. new \in Kept(World)
    BY <1>2, <1>3, <2>2, AfterIsKept
  <2> QED  BY <2>1, <2>3, BecomesKnown
<1>5. CASE Timeout(s)
  <2> DEFINE new == IF tries[s] < MaxTries THEN Ask(World, s)
                    ELSE [World EXCEPT !.pc[s] = "failed"]
  <2>1. Becomes(new) /\ World.pc[s] = "waiting"
    BY <1>1, <1>5 DEF Timeout
  <2>2. NetOf[s] # Creator /\ World.ptr[s] # "unknown" /\ World \in After(World)
    BY <1>1, <2>1, AfterNothing DEF Sound
  <2>3. new \in Kept(World)
    BY <1>2, <1>3, <2>2, AfterIsKept
  <2> QED  BY <2>1, <2>3, BecomesKnown
<1> QED  BY <1>4, <1>5

\* A slab that has met the others, and may be the first of the system.
LEMMA StartKnown ==
  ASSUME KnownInv, NEW s \in Slab, Start(s)
  PROVE  KnownInv'
<1> DEFINE n == NetOf[s]
           q == slabs[n]
           base == [World EXCEPT !.slabs[n] = <<s>> \o @]
           met == FoldLeft(LAMBDA w, t : AssertSlabref(AssertSlabref(w, t, IdOf[s], <<Local>>),
                                                       s, IdOf[t], <<Local>>),
                           base, q)
           first == [met EXCEPT !.seed[n] = s, !.ptr[s] = "resident"]
           new == IF n = Creator /\ seed[n] = None THEN first ELSE met
<1>1. /\ n \in Net /\ Creator \in Net /\ q \in Seq(Slab) /\ q \in Seq(SlabsOf(n))
      /\ World \in Sound /\ World \in Worlds
      /\ World.slabs[n] = q /\ World.slabs \in [Net -> Seq(Slab)] /\ World.seed = seed
  BY Places, JoinAssumption DEF KnownInv, Sound, World, Worlds
<1>2. Becomes(new)
  BY DEF Start
<1>3. base \in Worlds
  <2> DEFINE r == <<s>> \o q
  <2>1. <<s>> \in Seq(SlabsOf(n)) /\ <<s>> \in Seq(Slab)
    BY DEF SlabsOf
  <2>2. r \in Seq(SlabsOf(n)) /\ r \in Seq(Slab)
    BY <1>1, <2>1, ConcatProperties
  <2>3. base = [World EXCEPT !.slabs[n] = r]
    BY <1>1
  <2> HIDE DEF r, base, q, n
  <2> QED  BY <1>1, <2>2, <2>3 DEF Worlds
<1>4. /\ base.seed = seed /\ base.refs = World.refs /\ base.ptr = World.ptr
      /\ base.peers = World.peers /\ base.wire = World.wire /\ base.pc = World.pc
      /\ \A m \in Net : m # n => base.slabs[m] = World.slabs[m]
  BY <1>1 DEF Worlds
<1> HIDE DEF base
<1>5. base \in Sound
  <2>1. base \in Grown(World)
    BY <1>3, <1>4 DEF Grown
  <2>0. World \in Sound
    BY <1>1
  <2>2. \A x \in Slab : \/ base.ptr[x] = World.ptr[x] /\ base.peers[x] = World.peers[x]
                        \/ base.ptr[x] # "unknown" /\ Witnessed(base, x)
    BY <1>4
  <2>3. \A p \in BagToSet(base.wire) : p \in BagToSet(World.wire) \/ Good(base, p)
    BY <1>4
  <2>4. \A i \in Net : \/ base.seed[i] = World.seed[i]
                       \/ /\ NetOf[base.seed[i]] = i /\ base.ptr[base.seed[i]] # "unknown"
                          /\ i = Creator => base.ptr[base.seed[i]] = "resident"
    BY <1>1, <1>4
  <2>5. \A x \in Slab : base.pc[x] = "waiting" =>
                         World.pc[x] = "waiting"
                         \/ (NetOf[x] # Creator /\ base.ptr[x] # "unknown")
    BY <1>4
  <2> QED  BY <2>0, <2>1, <2>2, <2>3, <2>4, <2>5, SoundGrows
<1>6. met \in After(base)
  <2>1. ASSUME NEW v \in After(base), NEW t \in Slab
        PROVE  AssertSlabref(AssertSlabref(v, t, IdOf[s], <<Local>>), s, IdOf[t], <<Local>>)
                 \in After(base)
    <3> DEFINE x == AssertSlabref(v, t, IdOf[s], <<Local>>)
               y == AssertSlabref(x, s, IdOf[t], <<Local>>)
    <3>1. \A i \in Id : <<Local>> \in Seq({Local, Place(i)})
      OBVIOUS
    <3>2. IdOf[s] \in Id /\ IdOf[t] \in Id /\ v \in Sound
      BY Places DEF After
    <3>3. x \in After(v) /\ x \in Sound
      BY <3>1, <3>2, AssertSlabrefAfter DEF After
    <3> HIDE DEF x
    <3>4. y \in After(x)
      BY <3>1, <3>2, <3>3, AssertSlabrefAfter
    <3> HIDE DEF y
    <3>5. y \in After(base)
      BY <3>3, <3>4, AfterAgain
    <3> QED  BY <3>5 DEF x, y
  <2>2. base \in After(base)
    BY <1>5, AfterNothing
  <2>3. Met(base, s, q) \in After(base)
    BY <1>1, <1>3, <2>1, <2>2, MeetStays
  <2> QED  BY <2>3 DEF Met
<1> HIDE DEF met
<1>7. /\ met \in Sound /\ met \in Worlds /\ met.seed = seed
      /\ \A m \in Net : m # n => met.slabs[m] = World.slabs[m]
  BY <1>4, <1>6 DEF After, Sound
<1>8. CASE n = Creator /\ seed[n] = None
  <2> DEFINE known == [met EXCEPT !.ptr[s] = "resident"]
  <2>1. known \in Worlds
    BY <1>7 DEF Worlds, Ptr
  <2>2. /\ known.refs = met.refs /\ known.peers = met.peers /\ known.wire = met.wire
        /\ known.pc = met.pc /\ known.seed = met.seed
        /\ \A x \in Slab : known.ptr[x] = IF x = s THEN "resident" ELSE met.ptr[x]
    BY <1>7 DEF Worlds
  <2>3. first = [known EXCEPT !.seed[n] = s]
    BY <1>7 DEF Worlds
  <2> HIDE DEF known, first
  <2>4. known \in Grown(met)
    BY <2>1, <2>2 DEF Grown
  <2>5. Witnessed(known, s) /\ known.ptr[s] = "resident"
    BY <2>2 DEF Witnessed
  <2>6. known \in Sound
    <3>1. \A x \in Slab : \/ known.ptr[x] = met.ptr[x] /\ known.peers[x] = met.peers[x]
                          \/ known.ptr[x] # "unknown" /\ Witnessed(known, x)
      BY <2>2, <2>5
    <3>2. \A p \in BagToSet(known.wire) : p \in BagToSet(met.wire) \/ Good(known, p)
      BY <2>2, <2>5
    <3>3. \A i \in Net : \/ known.seed[i] = met.seed[i]
                         \/ /\ NetOf[known.seed[i]] = i /\ known.ptr[known.seed[i]] # "unknown"
                            /\ i = Creator => known.ptr[known.seed[i]] = "resident"
      BY <2>2, <2>5
    <3>4. \A x \in Slab : known.pc[x] = "waiting" =>
                           met.pc[x] = "waiting"
                           \/ (NetOf[x] # Creator /\ known.ptr[x] # "unknown")
      BY <2>2, <2>5
    <3> QED  BY <1>7, <2>4, <3>1, <3>2, <3>3, <3>4, SoundGrows
  <2>7. first \in Sound /\ first.seed[n] = s
    <3>1. [known EXCEPT !.seed[n] = s] \in Kept(known)
      BY <2>5, <2>6, SeedAfter
    <3>2. first.seed[n] = s
      BY <1>1, <2>1, <2>3 DEF Worlds
    <3> QED  BY <2>3, <3>1, <3>2 DEF Kept
  <2>8. World' = first
    BY <1>2, <1>8, <2>7 DEF Becomes, World, Sound, Worlds
  <2> QED  BY <1>8, <2>7, <2>8, NoneAssumption DEF KnownInv, Seeded
<1>9. CASE ~ (n = Creator /\ seed[n] = None)
  <2>1. World' = met
    BY <1>2, <1>7, <1>9 DEF Becomes, World, Worlds
  <2>2. Seeded(met)
    BY <1>1, <1>7, <1>9 DEF KnownInv, Seeded
  <2> QED  BY <1>7, <2>1, <2>2 DEF KnownInv, Seeded
<1> QED  BY <1>8, <1>9

\* A network says hello.
LEMMA SayHelloKnown ==
  ASSUME KnownInv, NEW n \in Net, NEW m \in Net, SayHello(n, m),
         n = Creator \/ seed[n] = None \/ 0 \notin Id
  PROVE  KnownInv'
<1> DEFINE new == FoldLeft(LAMBDA v, s :
                    LET knowing == LocalizeSeed(v, s)
                    IN  [knowing EXCEPT !.wire = @ (+) SetToBag(
                           {[net |-> m, local |-> FALSE, to |-> 0, from |-> IdOf[s],
                             src |-> n, body |-> Presence(knowing, s, n, 0)]})],
                  World, slabs[n])
<1>1. Becomes(new) /\ slabs[n] # << >>
  BY DEF SayHello
<1>2. /\ World \in Sound /\ World.seed = seed /\ slabs[n] \in Seq(SlabsOf(n))
      /\ n = Creator => seed[n] # None
  BY <1>1 DEF KnownInv, Sound, World, Worlds, Seeded
<1>3. ASSUME NEW v \in After(World), NEW s \in SlabsOf(n)
      PROVE  Hail(v, s, n, m) \in After(World)
  <2> DEFINE w == LocalizeSeed(v, s)
             b == Presence(w, s, n, 0)
             p == [net |-> m, local |-> FALSE, to |-> 0, from |-> IdOf[s],
                   src |-> n, body |-> b]
             u == [w EXCEPT !.wire = @ (+) SetToBag({p})]
  <2>1. s \in Slab /\ NetOf[s] = n
    BY DEF SlabsOf
  <2>2. v \in Sound /\ v.seed = seed
    BY <1>2 DEF After
  <2>3. /\ w \in After(v) /\ w \in Sound /\ w \in Worlds /\ w.seed = seed
        /\ seed[n] # None => w.ptr[s] # "unknown"
        /\ seed[n] # None /\ n = Creator => w.ptr[s] = "resident"
    BY <2>1, <2>2, LocalizeSeedAfter DEF After, Sound
  <2>4. Hail(v, s, n, m) = u
    BY DEF Hail
  <2> HIDE DEF w
  <2>5. p \in Packet
    BY <2>3, HailPacket
  <2>6. p.from = IdOf[s] /\ p.to = 0 /\ p.body = Presence(w, s, n, p.to)
    OBVIOUS
  <2> HIDE DEF p
  <2>7. /\ w.seed[NetOf[s]] = None => NetOf[s] # Creator
        /\ w.seed[NetOf[s]] # None => w.ptr[s] # "unknown"
        /\ p.to # 0 \/ 0 \notin Id \/ w.ptr[s] = "resident" \/ w.seed[NetOf[s]] = None
    BY <1>2, <2>1, <2>3
  <2>8. Good(w, p)
    BY <2>1, <2>3, <2>5, <2>6, <2>7, PresenceGood
  <2>9. u \in After(w)
    BY <2>3, <2>5, <2>8, PacketAfter
  <2> HIDE DEF u
  <2>10. u \in After(World)
    BY <2>3, <2>9, AfterAgain
  <2> QED  BY <2>4, <2>10
<1>4. World \in After(World)
  BY <1>2, AfterNothing
<1>5. Greeted(World, n, m, slabs[n]) \in After(World)
  BY <1>2, <1>3, <1>4, GreetKeeps
<1>6. Greeted(World, n, m, slabs[n]) = new
  BY DEF Greeted
<1> HIDE DEF new
<1>7. new \in Kept(World)
  BY <1>5, <1>6, AfterIsKept
<1> QED  BY <1>1, <1>7, BecomesKnown

\* It is so at first, and after every step.
LEMMA InitKnown == Init => KnownInv
<1> SUFFICES ASSUME Init PROVE KnownInv
  OBVIOUS
<1>1. World \in Worlds
  BY InitInv DEF IInv
<1>2. BagToSet(World.wire) = {}
  BY DEF Init, World, EmptyBag, SetToBag, BagToSet
<1>3. World \in Sound
  BY <1>1, <1>2, JoinAssumption DEF Init, World, Sound
<1>4. Seeded(World)
  BY JoinAssumption DEF Init, World, Seeded
<1> QED  BY <1>3, <1>4 DEF KnownInv

LEMMA NextKnown ==
  ASSUME ZeroIsCreators, KnownInv, [Next]_vars, [HelloBeforeJoining]_vars
  PROVE  KnownInv'
<1>1. ASSUME NEW s \in Slab, Start(s) PROVE KnownInv'
  BY <1>1, StartKnown
<1>2. ASSUME NEW n \in Net, NEW m \in Net, SayHello(n, m) PROVE KnownInv'
  <2>1. said' # said
    BY <1>2 DEF SayHello
  <2>2. n = Creator \/ seed[n] = None \/ 0 \notin Id
    BY <1>2, <2>1 DEF HelloBeforeJoining, vars
  <2> QED  BY <1>2, <2>2, SayHelloKnown
<1>3. ASSUME NEW n \in Net, NEW m \in Net, Arrive(m, n) PROVE KnownInv'
  <2>1. PICK p \in BagToSet(wire) : Receive(p) \/ Refuse(p)
    BY <1>3 DEF Arrive
  <2>2. CASE Receive(p)
    BY <2>2, ReceiveKnown
  <2>3. CASE Refuse(p)
    BY <2>3, WireKnown DEF Refuse
  <2> QED  BY <2>1, <2>2, <2>3
<1>4. CASE Lose
  BY <1>4, WireKnown DEF Lose
<1>5. CASE Repeat
  BY <1>5, WireKnown DEF Repeat
<1>6. ASSUME NEW s \in Reader, Read(s) \/ Timeout(s) PROVE KnownInv'
  <2>1. s \in Slab
    BY JoinAssumption
  <2> QED  BY <1>6, <2>1, ReadKnown
<1>7. CASE UNCHANGED vars
  <2>1. World' = World
    BY <1>7 DEF vars, World
  <2> QED  BY <2>1 DEF KnownInv, Seeded
<1> QED  BY <1>1, <1>2, <1>3, <1>4, <1>5, <1>6, <1>7 DEF Next

\* A network that has a seed can fetch the root memo in one step, for any number
\* of networks and slabs, whatever was lost, repeated or reordered
\* (apply_root_index_seed, get_peerlist_for_peer).  Of the ids that the processes
\* choose, 0 is at most the creator's, and a network says its hellos before it
\* joins, as the processes of the tests and examples do.  Otherwise it would give
\* its seed to whoever represents the network it greets, as a peer list made for
\* slab 0: in that one the creator's slab 0, which may be the only one to have the
\* memo, is left out (slab/memoref/serde.rs:15).
THEOREM UdpJoinSeedCanBeFetched ==
  ASSUME ZeroIsCreators
  PROVE  Spec /\ [][HelloBeforeJoining]_vars => []SeedCanBeFetched
<1>1. KnownInv => SeedCanBeFetched
  <2> SUFFICES ASSUME KnownInv, NEW n \in Net, seed[n] # None, ptr[seed[n]] # "resident"
               PROVE  \E t \in Slab : /\ ptr[t] = "resident"
                                      /\ peers[seed[n]][IdOf[t]] # None
                                      /\ Route(World, peers[seed[n]][IdOf[t]].by, IdOf[t]) # None
    BY DEF SeedCanBeFetched
  <2> DEFINE s == seed[n]
  <2>1. /\ World \in Sound /\ World \in Worlds /\ s \in Slab
        /\ World.seed[n] = s /\ World.ptr = ptr /\ World.peers = peers
    BY DEF KnownInv, Sound, World, Worlds
  <2>2. Witnessed(World, s)
    BY <2>1, KnownIsWitnessed DEF Sound
  <2> HIDE DEF s
  <2>3. PICK t \in Slab : /\ ptr[t] = "resident"
                          /\ \/ t = s
                             \/ /\ peers[s][IdOf[t]] # None
                                /\ Reaches(World, peers[s][IdOf[t]].by, t)
    BY <2>1, <2>2 DEF Witnessed
  <2>4. /\ peers[s][IdOf[t]] # None /\ IdOf[t] \in Id
        /\ Reaches(World, peers[s][IdOf[t]].by, t)
    BY <2>3, Places DEF s
  <2> DEFINE by == peers[s][IdOf[t]].by
             q == World.refs[by][IdOf[t]]
  <2>5. by \in Slab
    BY <2>1, <2>4, PeersOf
  <2> HIDE DEF by
  <2>6. q \in Seq(Home(by, IdOf[t])) /\ IdOf[by] # IdOf[t] /\ NetOf[t] \in ToSet(q)
    BY <2>1, <2>4, <2>5, PeersOf DEF Reaches, by
  <2>7. q # << >>
    BY <2>6 DEF ToSet
  <2>8. Last(q) # None
    <3>1. Last(q) \in Home(by, IdOf[t])
      <4> HIDE DEF q
      <4>1. Len(q) \in 1 .. Len(q)
        BY <2>6, <2>7, LenProperties, EmptySeq
      <4> QED  BY <2>6, <4>1, LenProperties DEF Last
    <3> QED  BY <2>4, <2>5, <3>1, Places, NoneAssumption
  <2>9. Route(World, by, IdOf[t]) # None
    BY <2>6, <2>7, <2>8 DEF Route
  <2> QED  BY <2>3, <2>4, <2>9 DEF by, s
<1>2. Spec /\ [][HelloBeforeJoining]_vars => []KnownInv
  <2>1. KnownInv /\ [Next]_vars /\ [HelloBeforeJoining]_vars => KnownInv'
    BY NextKnown
  <2> QED  BY <2>1, InitKnown, PTL DEF Spec
<1> QED  BY <1>1, <1>2, PTL
-----------------------------------------------------------------------------
(***************************************************************************)
(* Requests fail only for a reason: what happens to the one that can be    *)
(* answered.                                                               *)
(***************************************************************************)
\* What handlers leave of a world: its slabs, its packets and more, addresses for
\* whom there were some.  The memo stays, and who gets it does not wait any more.
Moved(w) ==
  {v \in Worlds :
     /\ v.slabs = w.slabs
     /\ \A p \in BagToSet(w.wire) : p \in BagToSet(v.wire)
     /\ \A x \in Slab :
          /\ v.pc[x] # w.pc[x] => w.pc[x] = "waiting" /\ v.pc[x] = "found"
          /\ w.ptr[x] = "resident" => v.ptr[x] = "resident"
          /\ v.ptr[x] = "resident" /\ v.pc[x] = "waiting" => w.ptr[x] = "resident"
          /\ \A i \in Id : w.refs[x][i] # << >> => v.refs[x][i] # << >>}

LEMMA MovedAgain ==
  ASSUME NEW w, NEW v \in Moved(w), NEW u \in Moved(v)
  PROVE  u \in Moved(w)
<1>1. u \in Worlds /\ u.slabs = w.slabs /\ \A p \in BagToSet(w.wire) : p \in BagToSet(u.wire)
  BY DEF Moved
<1>2. ASSUME NEW x \in Slab
      PROVE  /\ u.pc[x] # w.pc[x] => w.pc[x] = "waiting" /\ u.pc[x] = "found"
             /\ w.ptr[x] = "resident" => u.ptr[x] = "resident"
             /\ u.ptr[x] = "resident" /\ u.pc[x] = "waiting" => w.ptr[x] = "resident"
             /\ \A i \in Id : w.refs[x][i] # << >> => u.refs[x][i] # << >>
  <2>1. /\ v.pc[x] # w.pc[x] => w.pc[x] = "waiting" /\ v.pc[x] = "found"
        /\ w.ptr[x] = "resident" => v.ptr[x] = "resident"
        /\ v.ptr[x] = "resident" /\ v.pc[x] = "waiting" => w.ptr[x] = "resident"
        /\ \A i \in Id : w.refs[x][i] # << >> => v.refs[x][i] # << >>
    BY DEF Moved
  <2>2. /\ u.pc[x] # v.pc[x] => v.pc[x] = "waiting" /\ u.pc[x] = "found"
        /\ v.ptr[x] = "resident" => u.ptr[x] = "resident"
        /\ u.ptr[x] = "resident" /\ u.pc[x] = "waiting" => v.ptr[x] = "resident"
        /\ \A i \in Id : v.refs[x][i] # << >> => u.refs[x][i] # << >>
    BY DEF Moved
  <2> QED  BY <2>1, <2>2
<1> QED  BY <1>1, <1>2 DEF Moved

LEMMA MovedNothing ==
  ASSUME NEW w \in Worlds
  PROVE  w \in Moved(w)
BY DEF Moved

\* A packet more, and an address more.
LEMMA PacketThere ==
  ASSUME NEW w \in Worlds, NEW p
  PROVE  LET v == [w EXCEPT !.wire = @ (+) SetToBag({p})]
         IN  /\ v.slabs = w.slabs /\ v.pc = w.pc /\ v.ptr = w.ptr /\ v.refs = w.refs
             /\ BagToSet(v.wire) = BagToSet(w.wire) \cup {p}
<1> DEFINE v == [w EXCEPT !.wire = @ (+) SetToBag({p})]
<1>1. w.wire \in Wire
  BY DEF Worlds
<1>2. /\ v.slabs = w.slabs /\ v.pc = w.pc /\ v.ptr = w.ptr /\ v.refs = w.refs
      /\ v.wire = w.wire (+) SetToBag({p})
  BY DEF Worlds
<1> HIDE DEF v
<1>3. BagToSet(v.wire) = BagToSet(w.wire) \cup {p}
  BY <1>1, <1>2, OneMore
<1> QED  BY <1>2, <1>3 DEF v

LEMMA PacketMoved ==
  ASSUME NEW w \in Worlds, NEW p \in Packet
  PROVE  [w EXCEPT !.wire = @ (+) SetToBag({p})] \in Moved(w)
<1> DEFINE v == [w EXCEPT !.wire = @ (+) SetToBag({p})]
<1>1. v \in Worlds
  BY PacketAdded
<1>2. /\ v.slabs = w.slabs /\ v.pc = w.pc /\ v.ptr = w.ptr /\ v.refs = w.refs
      /\ BagToSet(v.wire) = BagToSet(w.wire) \cup {p}
  BY PacketThere
<1> HIDE DEF v
<1>3. v \in Moved(w)
  BY <1>1, <1>2 DEF Moved
<1> QED  BY <1>3 DEF v

LEMMA SendMoved ==
  ASSUME NEW w \in Worlds, NEW s \in Slab, NEW by \in Slab, NEW i \in Id,
         NEW body \in Body(IdOf[s])
  PROVE  Send(w, s, by, i, body) \in Moved(w)
<1> DEFINE v == Send(w, s, by, i, body)
<1>1. Sent(w, v, IdOf[s], i, body)
  BY SendIs
<1> HIDE DEF v
<1>2. v \in Moved(w)
  BY <1>1, MovedNothing, PacketMoved DEF Sent
<1> QED  BY <1>2 DEF v

LEMMA AssertSlabrefMoved ==
  ASSUME NEW w \in Worlds, NEW s \in Slab, NEW i \in Id,
         NEW addresses \in Seq({Local, Place(i)})
  PROVE  /\ AssertSlabref(w, s, i, addresses) \in Moved(w)
         /\ i # IdOf[s] => \A a \in ToSet(addresses) :
              Usable(w, s, i, a) => AssertSlabref(w, s, i, addresses).refs[s][i] # << >>
<1> DEFINE v == AssertSlabref(w, s, i, addresses)
<1>1. Referred(w, v, s, i, addresses)
  BY AssertSlabrefIs
<1> HIDE DEF v
<1>2. CASE i = IdOf[s]
  BY <1>1, <1>2, MovedNothing DEF Referred, v
<1>3. CASE i # IdOf[s]
  <2>1. PICK q \in Seq(Home(s, i)) :
          /\ v = [w EXCEPT !.refs[s][i] = q]
          /\ ToSet(w.refs[s][i]) \subseteq ToSet(q)
          /\ \A a \in ToSet(addresses) : Usable(w, s, i, a) => a \in ToSet(q)
    BY <1>1, <1>3 DEF Referred
  <2>2. v \in Worlds
    BY <2>1, RefsChanged
  <2>3. /\ v.slabs = w.slabs /\ v.pc = w.pc /\ v.ptr = w.ptr /\ v.wire = w.wire
        /\ \A x \in Slab : \A j \in Id :
             v.refs[x][j] = IF x = s /\ j = i THEN q ELSE w.refs[x][j]
    BY <2>1 DEF Worlds
  <2>4. \A a \in ToSet(q) : q # << >>
    BY DEF ToSet
  <2>5. w.refs[s][i] # << >> => q # << >>
    <3>1. w.refs[s][i] \in Seq(Home(s, i))
      BY PeersOf
    <3>2. w.refs[s][i] # << >> => w.refs[s][i][1] \in ToSet(w.refs[s][i])
      <4> DEFINE r == w.refs[s][i]
      <4> HIDE DEF r
      <4>1. r # << >> => 1 \in DOMAIN r
        BY <3>1, LenProperties, EmptySeq DEF r
      <4> QED  BY <4>1 DEF ToSet, r
    <3> QED  BY <2>1, <2>4, <3>2
  <2>6. v \in Moved(w)
    BY <2>2, <2>3, <2>5 DEF Moved
  <2> QED  BY <2>1, <2>3, <2>4, <2>6 DEF v
<1> QED  BY <1>2, <1>3

\* The calls of the handlers, and the handlers.
LEMMA AssertPeersMoved ==
  ASSUME NEW w \in Worlds, NEW s \in Slab, NEW list \in List
  PROVE  AssertPeers(w, s, list) \in Moved(w)
<1> DEFINE F == [d \in SUBSET Id |-> Moved(w)]
<1>1. \A d \in SUBSET Id : F[d] = Moved(w)
  OBVIOUS
<1>2. ASSUME NEW x \in Moved(w), NEW i \in Id, list[i] # None
      PROVE  AssertSlabref(x, s, i, list[i].via) \in Moved(w)
  <2>1. x \in Worlds /\ list[i].via \in Seq({Local, Place(i)})
    BY <1>2, EntryOf DEF Moved
  <2>2. AssertSlabref(x, s, i, list[i].via) \in Moved(x)
    BY <2>1, AssertSlabrefMoved
  <2> QED  BY <2>2, MovedAgain
<1>3. {} \in SUBSET Id /\ {i \in Id : list[i] # None} \in SUBSET Id
      /\ \A d \in SUBSET Id : \A i \in d : i \in Id /\ d \ {i} \in SUBSET Id
  OBVIOUS
<1> HIDE DEF F
<1>4. \A d \in SUBSET Id : F[d] \subseteq Worlds
  BY <1>1 DEF Moved
<1>5. w \in F[{}]
  BY <1>1, <1>3, MovedNothing
<1>6. \A d \in SUBSET Id : \A i \in d : list[i] # None =>
        \A x \in F[d \ {i}] : AssertSlabref(x, s, i, list[i].via) \in F[d]
  BY <1>1, <1>2, <1>3
<1>7. AssertPeers(w, s, list) \in F[{i \in Id : list[i] # None}]
  BY <1>4, <1>5, <1>6, AssertPeersKeeps
<1> QED  BY <1>1, <1>3, <1>7

\* A memoref that is told may become resident.
LEMMA AssertMemorefTakes ==
  ASSUME NEW w \in Worlds, NEW s \in Slab, NEW list \in List,
         NEW state \in {"remote", "resident"}
  PROVE  LET v == AssertMemoref(w, s, list, state)
         IN  /\ v \in Worlds /\ v.slabs = w.slabs /\ v.pc = w.pc /\ v.refs = w.refs
             /\ v.wire = w.wire
             /\ \A x \in Slab : x # s => v.ptr[x] = w.ptr[x]
             /\ w.ptr[s] = "resident" => v.ptr[s] = "resident"
             /\ v.ptr[s] = "resident" => "resident" \in {w.ptr[s], state}
<1> DEFINE v == AssertMemoref(w, s, list, state)
           new == IF "resident" \in {w.ptr[s], state} THEN "resident" ELSE "remote"
<1>1. v \in Worlds
  BY AssertMemorefIn
<1>2. /\ v.slabs = w.slabs /\ v.pc = w.pc /\ v.refs = w.refs /\ v.wire = w.wire
      /\ v.ptr = [w.ptr EXCEPT ![s] = new]
  BY DEF AssertMemoref, Worlds
<1>3. DOMAIN w.ptr = Slab
  BY DEF Worlds
<1> HIDE DEF v
<1>4. \A x \in Slab : v.ptr[x] = IF x = s THEN new ELSE w.ptr[x]
  BY <1>2, <1>3
<1> QED  BY <1>1, <1>2, <1>4 DEF v

LEMMA AssertMemorefMoved ==
  ASSUME NEW w \in Worlds, NEW s \in Slab, NEW list \in List
  PROVE  AssertMemoref(w, s, list, "remote") \in Moved(w)
<1> DEFINE v == AssertMemoref(w, s, list, "remote")
<1>1. /\ v \in Worlds /\ v.slabs = w.slabs /\ v.pc = w.pc /\ v.refs = w.refs
      /\ v.wire = w.wire
      /\ \A x \in Slab : x # s => v.ptr[x] = w.ptr[x]
      /\ w.ptr[s] = "resident" => v.ptr[s] = "resident"
      /\ v.ptr[s] = "resident" => "resident" \in {w.ptr[s], "remote"}
  BY AssertMemorefTakes
<1> HIDE DEF v
<1>2. v \in Moved(w)
  BY <1>1 DEF Moved
<1> QED  BY <1>2 DEF v

LEMMA EmitMoved ==
  ASSUME NEW w \in Worlds, NEW s \in Slab
  PROVE  Emit(w, s) \in Moved(w)
<1>1. ASSUME NEW x \in Moved(w), NEW i \in Id
      PROVE  Send(x, s, s, i, Memo(x, s, i)) \in Moved(w)
  <2>1. x \in Worlds
    BY DEF Moved
  <2>2. Send(x, s, s, i, Memo(x, s, i)) \in Moved(x)
    BY <2>1, MemoIn, SendMoved
  <2> QED  BY <2>2, MovedAgain
<1> QED  BY <1>1, MovedNothing, EmitKeeps

LEMMA ReconstituteMoved ==
  ASSUME NEW w \in Worlds, NEW s \in Slab, NEW i \in Id, NEW list \in List
  PROVE  /\ Reconstitute(w, s, i, list) \in Moved(w)
         /\ Reconstitute(w, s, i, list).pc[s] # "waiting"
<1> DEFINE here  == AssertMemoref(w, s, list, "resident")
           taken == Emit(here, s)
           told  == [taken EXCEPT !.pc[s] = IF @ = "waiting" THEN "found" ELSE @]
           v     == Reconstitute(w, s, i, list)
<1>1. /\ here \in Worlds /\ here.slabs = w.slabs /\ here.pc = w.pc /\ here.refs = w.refs
      /\ here.wire = w.wire
      /\ \A x \in Slab : x # s => here.ptr[x] = w.ptr[x]
      /\ w.ptr[s] = "resident" => here.ptr[s] = "resident"
  BY AssertMemorefTakes
<1>2. v = Send(told, s, s, i, Peering(PeerlistFor(told, s, i)))
  BY DEF Reconstitute
<1> HIDE DEF here, v
<1>3. taken \in Moved(here) /\ taken \in Worlds
  BY <1>1, EmitMoved DEF Moved
<1> HIDE DEF taken
<1>4. told \in Worlds
  <2>1. (IF taken.pc[s] = "waiting" THEN "found" ELSE taken.pc[s]) \in Pc
    BY <1>3 DEF Worlds, Pc
  <2> QED  BY <1>3, <2>1, PcChanged
<1>5. /\ told.slabs = taken.slabs /\ told.ptr = taken.ptr /\ told.refs = taken.refs
      /\ told.wire = taken.wire
      /\ \A x \in Slab : told.pc[x] = IF x = s /\ taken.pc[x] = "waiting" THEN "found"
                                      ELSE taken.pc[x]
  BY <1>3 DEF Worlds
<1> HIDE DEF told
<1>6. told \in Moved(w)
  <2>1. /\ told.slabs = w.slabs
        /\ \A p \in BagToSet(w.wire) : p \in BagToSet(told.wire)
    BY <1>1, <1>3, <1>5 DEF Moved
  <2>2. ASSUME NEW x \in Slab
        PROVE  /\ told.pc[x] # w.pc[x] => w.pc[x] = "waiting" /\ told.pc[x] = "found"
               /\ w.ptr[x] = "resident" => told.ptr[x] = "resident"
               /\ told.ptr[x] = "resident" /\ told.pc[x] = "waiting" => w.ptr[x] = "resident"
               /\ \A j \in Id : w.refs[x][j] # << >> => told.refs[x][j] # << >>
    <3>1. /\ taken.pc[x] # here.pc[x] => here.pc[x] = "waiting" /\ taken.pc[x] = "found"
          /\ here.ptr[x] = "resident" => taken.ptr[x] = "resident"
          /\ taken.ptr[x] = "resident" /\ taken.pc[x] = "waiting" => here.ptr[x] = "resident"
          /\ \A j \in Id : here.refs[x][j] # << >> => taken.refs[x][j] # << >>
      BY <1>3 DEF Moved
    <3>2. CASE x = s
      BY <1>1, <1>5, <3>1, <3>2
    <3>3. CASE x # s
      BY <1>1, <1>5, <3>1, <3>3
    <3> QED  BY <3>2, <3>3
  <2> QED  BY <1>4, <2>1, <2>2 DEF Moved
<1>7. v \in Moved(told)
  BY <1>2, <1>4, PeerlistIn, PeeringIn, SendMoved
<1>8. told.pc[s] # "waiting"
  BY <1>5
<1>9. v \in Moved(w) /\ v.pc[s] # "waiting"
  <2>1. v.pc[s] # told.pc[s] => told.pc[s] = "waiting"
    BY <1>7 DEF Moved
  <2> QED  BY <1>6, <1>7, <1>8, <2>1, MovedAgain
<1> QED  BY <1>9 DEF v

LEMMA LocalizeSeedMoved ==
  ASSUME NEW w \in Worlds, NEW s \in Slab
  PROVE  LocalizeSeed(w, s) \in Moved(w)
<1> DEFINE holder == w.seed[NetOf[s]]
           list == SeedList(w, holder, s)
<1>1. CASE holder \in {None, s}
  BY <1>1, MovedNothing DEF LocalizeSeed
<1>2. CASE holder \notin {None, s}
  <2>1. holder \in Slab
    BY <1>2, Places DEF Worlds
  <2>2. LocalizeSeed(w, s) = IF w.ptr[holder] = "resident"
           THEN Reconstitute(w, s, IdOf[holder], list)
           ELSE AssertMemoref(w, s, list, "remote")
    BY <1>2 DEF LocalizeSeed, SeedList
  <2> HIDE DEF holder
  <2>3. list \in List /\ IdOf[holder] \in Id
    BY <2>1, SeedListIs, Places
  <2> HIDE DEF list
  <2> QED  BY <2>2, <2>3, ReconstituteMoved, AssertMemorefMoved
<1> QED  BY <1>1, <1>2

LEMMA IntroducedMoved ==
  ASSUME NEW w \in Worlds, NEW s \in Slab, NEW p \in Packet, p.body.list \in List
  PROVE  Introduced(w, s, p) \in Moved(w)
<1> DEFINE l == [p.body.list EXCEPT ![p.from] = None]
<1>1. l \in List
  <2>1. l = [i \in Id |-> l[i]] /\ \A i \in Id : l[i] \in Listed(i)
    BY DEF List, Listed
  <2> HIDE DEF l
  <2> QED  BY <2>1, ListIn
<1> HIDE DEF l
<1>2. AssertPeers(w, s, l) \in Moved(w) /\ AssertPeers(w, s, p.body.list) \in Moved(w)
  BY <1>1, AssertPeersMoved
<1> QED  BY <1>2 DEF Introduced, l

LEMMA ApplySeedMoved ==
  ASSUME NEW w \in Worlds, NEW s \in Slab, NEW p \in Packet, p.body.seed \in List
  PROVE  ApplySeed(w, s, p) \in Moved(w)
<1> DEFINE list  == p.body.seed
           told  == AssertPeers(w, s, list)
           heard == AssertMemoref(told, s, Heard(p, s, list), "remote")
           v     == ApplySeed(w, s, p)
<1>1. told \in Moved(w) /\ told \in Worlds
  BY AssertPeersMoved, AssertPeersIn
<1>2. v.slabs = heard.slabs /\ v.refs = heard.refs /\ v.ptr = heard.ptr
      /\ v.wire = heard.wire /\ v.pc = heard.pc
  BY DEF ApplySeed
<1> HIDE DEF told
<1>3. heard \in Moved(told)
  BY <1>1, HeardIn, AssertMemorefMoved
<1>4. v \in Worlds
  BY ApplySeedIn
<1> HIDE DEF heard, v
<1>5. heard \in Moved(w)
  BY <1>1, <1>3, MovedAgain
<1>6. v \in Moved(w)
  BY <1>2, <1>4, <1>5 DEF Moved
<1> QED  BY <1>6 DEF v

LEMMA AnswerPresenceMoved ==
  ASSUME NEW w \in Worlds, NEW s \in Slab, NEW p \in Packet,
         p.body.kind = "presence"
  PROVE  AnswerPresence(w, s, p) \in Moved(w)
<1> DEFINE told == AssertSlabref(w, s, p.from, <<p.body.address>>)
           knowing == LocalizeSeed(told, s)
           b == Presence(knowing, s, ReturnAddress(w, s, p.from), p.from)
           v == Send(knowing, s, s, p.from, b)
<1>1. p.from \in Id /\ p.body.address \in {Local, Place(p.from)}
  BY PacketParts
<1>2. <<p.body.address>> \in Seq({Local, Place(p.from)})
  BY <1>1
<1>3. told \in Moved(w) /\ told \in Worlds
  BY <1>1, <1>2, AssertSlabrefMoved, AssertSlabrefIn
<1>4. AnswerPresence(w, s, p) = IF p.body.address = Local THEN w ELSE v
  BY DEF AnswerPresence
<1> HIDE DEF told
<1>5. knowing \in Moved(told) /\ knowing \in Worlds
  BY <1>3, LocalizeSeedMoved DEF Moved
<1> HIDE DEF knowing
<1>6. b \in Body(IdOf[s])
  <2>1. ReturnAddress(w, s, p.from) \in {Local, NetOf[s]}
    BY DEF ReturnAddress
  <2> QED  BY <1>5, <2>1, PresenceIn
<1> HIDE DEF b
<1>7. v \in Moved(knowing)
  BY <1>1, <1>5, <1>6, SendMoved
<1> HIDE DEF v
<1> QED  BY <1>3, <1>4, <1>5, <1>7, MovedAgain, MovedNothing

LEMMA AnswerRequestMoved ==
  ASSUME NEW w \in Worlds, NEW s \in Slab, NEW p \in Packet
  PROVE  AnswerRequest(w, s, p) \in Moved(w)
<1> DEFINE l == [i \in Id |->
                 IF i = IdOf[s]
                 THEN [status |-> "NonParticipating", by |-> s, via |-> <<NetOf[s]>>]
                 ELSE None]
<1>1. l \in List
  <2>1. \A i \in Id : l[i] \in Listed(i)
    BY OwnEntry DEF Listed, Status
  <2> QED  BY <2>1, ListIn
<1>2. p.from \in Id
  BY PacketParts
<1>3. w.ptr[s] \in Ptr
  BY DEF Worlds
<1>4. AnswerRequest(w, s, p) \in
        {w, Send(w, s, s, p.from, Memo(w, s, p.from)),
         Send(w, s, s, p.from, Peering(l))}
  BY <1>3 DEF AnswerRequest, Ptr
<1> HIDE DEF l
<1>5. Send(w, s, s, p.from, Memo(w, s, p.from)) \in Moved(w)
  BY <1>2, MemoIn, SendMoved
<1>6. Send(w, s, s, p.from, Peering(l)) \in Moved(w)
  BY <1>1, <1>2, PeeringIn, SendMoved
<1> QED  BY <1>4, <1>5, <1>6, MovedNothing

\* Whoever gets the memo does not wait for it any more.
LEMMA HandledMoved ==
  ASSUME NEW w \in Worlds, NEW s \in Slab, NEW p \in Packet
  PROVE  /\ Handled(w, s, p) \in Moved(w)
         /\ p.body.kind = "memo" => Handled(w, s, p).pc[s] # "waiting"
<1> USE PacketParts
<1>1. CASE p.body.kind = "presence" /\ p.body.seed # None
  <2>1. Handled(w, s, p) = ApplySeed(w, s, p)
    BY <1>1 DEF Handled
  <2> QED  BY <1>1, <2>1, ApplySeedMoved
<1>2. CASE p.body.kind = "presence" /\ p.body.seed = None
  <2>1. Handled(w, s, p) = AnswerPresence(w, s, p)
    BY <1>2 DEF Handled
  <2> QED  BY <1>2, <2>1, AnswerPresenceMoved
<1>3. CASE p.body.kind = "request"
  <2>1. Handled(w, s, p) = AnswerRequest(w, s, p)
    BY <1>3 DEF Handled
  <2> QED  BY <1>3, <2>1, AnswerRequestMoved
<1>4. CASE p.body.kind = "memo"
  <2> DEFINE v == IF p.local THEN w ELSE Introduced(w, s, p)
  <2>1. Handled(w, s, p) = Reconstitute(v, s, p.from, Heard(p, s, p.body.list))
    BY <1>4 DEF Handled
  <2>2. v \in Moved(w) /\ v \in Worlds
    BY <1>4, IntroducedMoved, MovedNothing DEF Moved
  <2> HIDE DEF v
  <2>3. /\ Reconstitute(v, s, p.from, Heard(p, s, p.body.list)) \in Moved(v)
        /\ Reconstitute(v, s, p.from, Heard(p, s, p.body.list)).pc[s] # "waiting"
    BY <1>4, <2>2, HeardIn, ReconstituteMoved
  <2> QED  BY <2>1, <2>2, <2>3, MovedAgain
<1>5. CASE p.body.kind = "peering"
  <2> DEFINE v == Introduced(w, s, p)
  <2>1. Handled(w, s, p) = AssertMemoref(v, s, Heard(p, s, p.body.list), "remote")
    BY <1>5 DEF Handled
  <2>2. v \in Moved(w) /\ v \in Worlds
    BY <1>5, IntroducedMoved DEF Moved
  <2> HIDE DEF v
  <2>3. AssertMemoref(v, s, Heard(p, s, p.body.list), "remote") \in Moved(v)
    BY <1>5, <2>2, HeardIn, AssertMemorefMoved
  <2> QED  BY <1>5, <2>1, <2>2, <2>3, MovedAgain
<1> QED  BY <1>1, <1>2, <1>3, <1>4, <1>5

LEMMA HailMoved ==
  ASSUME NEW w \in Worlds, NEW n \in Net, NEW m \in Net, NEW s \in SlabsOf(n)
  PROVE  Hail(w, s, n, m) \in Moved(w)
<1> DEFINE v == LocalizeSeed(w, s)
           p == [net |-> m, local |-> FALSE, to |-> 0, from |-> IdOf[s],
                 src |-> n, body |-> Presence(v, s, n, 0)]
           u == [v EXCEPT !.wire = @ (+) SetToBag({p})]
<1>1. v \in Moved(w) /\ v \in Worlds
  BY LocalizeSeedMoved DEF SlabsOf, Moved
<1>2. Hail(w, s, n, m) = u
  BY DEF Hail
<1> HIDE DEF v
<1>3. p \in Packet
  BY <1>1, HailPacket
<1> HIDE DEF p
<1>4. u \in Moved(v)
  BY <1>1, <1>3, PacketMoved
<1> HIDE DEF u
<1> QED  BY <1>1, <1>2, <1>4, MovedAgain

LEMMA GreetedMoved ==
  ASSUME NEW w \in Worlds, NEW n \in Net, NEW m \in Net, NEW q \in Seq(SlabsOf(n))
  PROVE  Greeted(w, n, m, q) \in Moved(w)
<1>1. ASSUME NEW v \in Moved(w), NEW s \in SlabsOf(n)
      PROVE  Hail(v, s, n, m) \in Moved(w)
  <2>1. v \in Worlds
    BY DEF Moved
  <2>2. Hail(v, s, n, m) \in Moved(v)
    BY <2>1, HailMoved
  <2> QED  BY <2>2, MovedAgain
<1> QED  BY <1>1, MovedNothing, GreetKeeps

-----------------------------------------------------------------------------
(***************************************************************************)
(* A request is answered, or a packet was lost, or its timer was early.    *)
(***************************************************************************)
\* The slabs of a network have references to each other.
Meshed(w) ==
  \A n \in Net : \A x, y \in ToSet(w.slabs[n]) : x # y => w.refs[x][IdOf[y]] # << >>

\* Packet p is a request of slab s on its way to a slab that has the memo, or the
\* memo on its way to slab s.
Helps(w, s, p) ==
  \/ p.body.kind = "memo" /\ p.to = IdOf[s]
  \/ /\ p.body.kind = "request" /\ p.from = IdOf[s]
     /\ \E t \in Slab : /\ w.ptr[t] = "resident" /\ p.to = IdOf[t]
                        /\ p.net = IF p.local THEN NetOf[s] ELSE NetOf[t]

Hopeful(w, s) == \E p \in BagToSet(w.wire) : Helps(w, s, p)

LEMMA HopefulMoved ==
  ASSUME NEW w, NEW v \in Moved(w), NEW s \in Slab, NEW p \in BagToSet(w.wire),
         Helps(w, s, p)
  PROVE  Hopeful(v, s)
<1>1. p \in BagToSet(v.wire) /\ \A t \in Slab : w.ptr[t] = "resident" => v.ptr[t] = "resident"
  BY DEF Moved
<1>2. Helps(v, s, p)
  BY <1>1 DEF Helps
<1> QED  BY <1>1, <1>2 DEF Hopeful

LEMMA SlabsThere ==
  ASSUME NEW w \in Worlds, NEW n \in Net, NEW x \in ToSet(w.slabs[n])
  PROVE  x \in Slab /\ NetOf[x] = n
<1>1. w.slabs[n] \in Seq(SlabsOf(n))
  BY DEF Worlds
<1>2. \A k \in DOMAIN w.slabs[n] : w.slabs[n][k] \in SlabsOf(n)
  BY <1>1, LenProperties
<1>3. x \in SlabsOf(n)
  BY <1>2 DEF ToSet
<1> QED  BY <1>3 DEF SlabsOf

LEMMA MeshedMoved ==
  ASSUME NEW w \in Worlds, NEW v \in Moved(w), Meshed(w)
  PROVE  Meshed(v)
<1> SUFFICES ASSUME NEW n \in Net, NEW x \in ToSet(v.slabs[n]), NEW y \in ToSet(v.slabs[n]),
                    x # y
             PROVE  v.refs[x][IdOf[y]] # << >>
  BY DEF Meshed
<1>1. x \in ToSet(w.slabs[n]) /\ y \in ToSet(w.slabs[n])
  BY DEF Moved
<1>2. x \in Slab /\ y \in Slab /\ IdOf[y] \in Id
  BY <1>1, SlabsThere, Places
<1>3. w.refs[x][IdOf[y]] # << >>
  BY <1>1 DEF Meshed
<1> QED  BY <1>2, <1>3 DEF Moved

\* Who has an address sends.
LEMMA SendTells ==
  ASSUME NEW w \in Worlds, NEW s \in Slab, NEW by \in Slab, NEW i \in Id,
         NEW body \in Body(IdOf[s]), i # IdOf[by], w.refs[by][i] # << >>
  PROVE  \E p \in BagToSet(Send(w, s, by, i, body).wire) :
           /\ p.from = IdOf[s] /\ p.to = i /\ p.body = body
           /\ p.net = IF p.local THEN NetOf[s] ELSE Place(i)
<1> DEFINE a == Route(w, by, i)
           p == [net |-> IF a = Local THEN NetOf[s] ELSE a, local |-> a = Local,
                 to |-> i, from |-> IdOf[s], src |-> NetOf[s], body |-> body]
           v == Send(w, s, by, i, body)
<1>1. a \in {Local, Place(i)} /\ a # None
  <2> DEFINE q == w.refs[by][i]
  <2>1. q \in Seq(Home(by, i)) /\ q # << >> /\ a = Last(q)
    BY PeersOf DEF Route
  <2> HIDE DEF q, a
  <2>2. Len(q) \in 1 .. Len(q)
    BY <2>1, LenProperties, EmptySeq
  <2>3. a \in Home(by, i)
    BY <2>1, <2>2, LenProperties DEF Last
  <2> QED  BY <2>3, Places, NoneAssumption
<1>2. v = [w EXCEPT !.wire = @ (+) SetToBag({p})]
  BY <1>1 DEF Send
<1>3. /\ p.from = IdOf[s] /\ p.to = i /\ p.body = body
      /\ p.net = IF p.local THEN NetOf[s] ELSE Place(i)
  BY <1>1
<1> HIDE DEF p, v
<1>4. p \in BagToSet(v.wire)
  <2>1. BagToSet([w EXCEPT !.wire = @ (+) SetToBag({p})].wire) = BagToSet(w.wire) \cup {p}
    BY PacketThere
  <2> QED  BY <1>2, <2>1
<1> QED  BY <1>3, <1>4 DEF v

\* Slab t is asked by slab s if it is listed with an address.
LEMMA AskLeaves ==
  ASSUME NEW w \in Worlds, NEW s \in Slab
  PROVE  LET v == Ask(w, s)
         IN  /\ v \in Worlds /\ v.slabs = w.slabs /\ v.refs = w.refs /\ v.ptr = w.ptr
             /\ \A p \in BagToSet(w.wire) : p \in BagToSet(v.wire)
             /\ \A x \in Slab : v.pc[x] = IF x = s THEN "waiting" ELSE w.pc[x]
             /\ \A i \in Id : /\ w.peers[s][i] # None /\ i # IdOf[w.peers[s][i].by]
                              /\ w.refs[w.peers[s][i].by][i] # << >>
                  => \E p \in BagToSet(v.wire) :
                       /\ p.from = IdOf[s] /\ p.to = i /\ p.body = Request
                       /\ p.net = IF p.local THEN NetOf[s] ELSE Place(i)
<1> DEFINE base == [w EXCEPT !.pc[s] = "waiting"]
           Reachable(i) == /\ w.peers[s][i] # None /\ i # IdOf[w.peers[s][i].by]
                           /\ w.refs[w.peers[s][i].by][i] # << >>
           Asked(v, i) == \E p \in BagToSet(v.wire) :
                            /\ p.from = IdOf[s] /\ p.to = i /\ p.body = Request
                            /\ p.net = IF p.local THEN NetOf[s] ELSE Place(i)
           Same == {v \in Worlds :
                     /\ v.slabs = w.slabs /\ v.refs = w.refs /\ v.ptr = w.ptr
                     /\ \A p \in BagToSet(w.wire) : p \in BagToSet(v.wire)
                     /\ \A x \in Slab : v.pc[x] = IF x = s THEN "waiting" ELSE w.pc[x]}
           F == [d \in SUBSET Id |-> {v \in Same : \A i \in d : Reachable(i) => Asked(v, i)}]
           D == {i \in Id : w.peers[s][i] # None}
           v == Ask(w, s)
<1>1. base \in Same
  <2>1. base \in Worlds
    BY PcChanged DEF Pc
  <2>2. /\ base.slabs = w.slabs /\ base.refs = w.refs /\ base.ptr = w.ptr /\ base.wire = w.wire
        /\ \A x \in Slab : base.pc[x] = IF x = s THEN "waiting" ELSE w.pc[x]
    BY DEF Worlds
  <2> HIDE DEF base
  <2> QED  BY <2>1, <2>2
<1>2. ASSUME NEW x \in Same, NEW i \in Id, w.peers[s][i] # None
      PROVE  /\ Send(x, s, w.peers[s][i].by, i, Request) \in Same
             /\ \A p \in BagToSet(x.wire) :
                  p \in BagToSet(Send(x, s, w.peers[s][i].by, i, Request).wire)
             /\ Reachable(i) => Asked(Send(x, s, w.peers[s][i].by, i, Request), i)
  <2> DEFINE by == w.peers[s][i].by
             y == Send(x, s, by, i, Request)
  <2>1. by \in Slab /\ Request \in Body(IdOf[s])
    <3>1. by \in Slab
      BY <1>2, PeersOf
    <3>2. Request \in Body(IdOf[s])
      BY DEF Body
    <3> QED  BY <3>1, <3>2
  <2>2. Reachable(i) => i # IdOf[by] /\ x.refs[by][i] # << >>
    OBVIOUS
  <2> HIDE DEF by
  <2>3. Sent(x, y, IdOf[s], i, Request)
    BY <2>1, SendIs
  <2>4. Reachable(i) => Asked(y, i)
    BY <2>1, <2>2, SendTells
  <2> HIDE DEF y, Reachable, Asked
  <2>5. /\ y \in Worlds /\ y.slabs = x.slabs /\ y.refs = x.refs /\ y.ptr = x.ptr
        /\ y.pc = x.pc /\ \A p \in BagToSet(x.wire) : p \in BagToSet(y.wire)
    <3>1. CASE y = x
      BY <3>1
    <3>2. CASE y # x
      <4>1. PICK p \in Packet : y = [x EXCEPT !.wire = @ (+) SetToBag({p})]
        BY <2>3, <3>2 DEF Sent
      <4>2. y \in Worlds
        BY <4>1, PacketAdded
      <4>3. /\ y.slabs = x.slabs /\ y.refs = x.refs /\ y.ptr = x.ptr /\ y.pc = x.pc
            /\ BagToSet(y.wire) = BagToSet(x.wire) \cup {p}
        <5>1. x \in Worlds
          OBVIOUS
        <5> HIDE DEF Same
        <5> QED  BY <4>1, <5>1, PacketThere
      <4> QED  BY <4>2, <4>3
    <3> QED  BY <3>1, <3>2
  <2>6. y \in Same
    BY <2>5
  <2> QED  BY <2>4, <2>5, <2>6 DEF y, by
<1>3. \A d \in SUBSET Id : F[d] = {x \in Same : \A i \in d : Reachable(i) => Asked(x, i)}
  OBVIOUS
<1>4. {} \in SUBSET Id /\ D \in SUBSET Id
      /\ \A d \in SUBSET Id : \A i \in d : i \in Id /\ d \ {i} \in SUBSET Id
  OBVIOUS
<1>5. ASSUME NEW d \in SUBSET Id, NEW i \in d, w.peers[s][i] # None, NEW x \in F[d \ {i}]
      PROVE  Send(x, s, w.peers[s][i].by, i, Request) \in F[d]
  <2> DEFINE y == Send(x, s, w.peers[s][i].by, i, Request)
  <2>1. x \in Same /\ i \in Id /\ \A j \in d \ {i} : Reachable(j) => Asked(x, j)
    BY <1>3, <1>4, <1>5
  <2>2. /\ y \in Same /\ (Reachable(i) => Asked(y, i))
        /\ \A p \in BagToSet(x.wire) : p \in BagToSet(y.wire)
    <3> HIDE DEF Same, Reachable, Asked, F
    <3> QED  BY <1>2, <1>5, <2>1
  <2> HIDE DEF y, Same
  <2>3. \A j \in Id : Asked(x, j) => Asked(y, j)
    BY <2>2
  <2> HIDE DEF Reachable, Asked, F
  <2>4. \A j \in d : Reachable(j) => Asked(y, j)
    BY <1>4, <2>1, <2>2, <2>3
  <2>5. y \in F[d]
    BY <1>3, <2>2, <2>4
  <2> QED  BY <2>5 DEF y
<1> HIDE DEF F, D
<1>6. base \in F[{}]
  <2> HIDE DEF base, Same, Reachable, Asked
  <2> QED  BY <1>1, <1>3, <1>4
<1>7. v \in F[D]
  <2> HIDE DEF Same, Reachable, Asked, v
  <2>1. \A d \in SUBSET Id : \A i \in d : w.peers[s][i] # None =>
          \A x \in F[d \ {i}] : Send(x, s, w.peers[s][i].by, i, Request) \in F[d]
    BY <1>5
  <2>2. Ask(w, s) \in F[{i \in Id : w.peers[s][i] # None}]
    BY <1>6, <2>1, AskKeeps DEF base
  <2> QED  BY <2>2 DEF v, D
<1> HIDE DEF v
<1>8. v \in Same /\ \A i \in D : Reachable(i) => Asked(v, i)
  <2> HIDE DEF Same, Reachable, Asked
  <2> QED  BY <1>3, <1>4, <1>7
<1>9. \A i \in Id : Reachable(i) => Asked(v, i)
  BY <1>8 DEF D
<1> QED  BY <1>8, <1>9 DEF v

\* Who has the memo answers a slab that it has a reference to.
LEMMA RequestAnswered ==
  ASSUME NEW w \in Worlds, NEW t \in Slab, NEW p \in Packet, w.ptr[t] = "resident",
         p.from # IdOf[t], w.refs[t][p.from] # << >>
  PROVE  \E q \in BagToSet(AnswerRequest(w, t, p).wire) :
           q.body.kind = "memo" /\ q.to = p.from
<1>1. p.from \in Id
  BY PacketParts
<1>2. AnswerRequest(w, t, p) = Send(w, t, t, p.from, Memo(w, t, p.from))
  BY DEF AnswerRequest
<1>3. PICK q \in BagToSet(Send(w, t, t, p.from, Memo(w, t, p.from)).wire) :
        q.to = p.from /\ q.body = Memo(w, t, p.from)
  BY <1>1, MemoIn, SendTells
<1>4. q.body.kind = "memo"
  BY <1>3 DEF Memo
<1> QED  BY <1>2, <1>3, <1>4

\* Who knows of the memo and does not have it asks a slab that has it.
LEMMA AskHopes ==
  ASSUME NEW w \in Sound, NEW s \in Slab, w.ptr[s] # "unknown", w.ptr[s] # "resident"
  PROVE  Hopeful(Ask(w, s), s)
<1> DEFINE v == Ask(w, s)
<1>1. w \in Worlds
  BY DEF Sound
<1>2. PICK t \in Slab : /\ w.ptr[t] = "resident" /\ w.peers[s][IdOf[t]] # None
                        /\ Reaches(w, w.peers[s][IdOf[t]].by, t)
  BY KnownIsWitnessed DEF Witnessed
<1>3. /\ IdOf[t] \in Id /\ Place(IdOf[t]) = NetOf[t]
      /\ IdOf[t] # IdOf[w.peers[s][IdOf[t]].by]
      /\ w.refs[w.peers[s][IdOf[t]].by][IdOf[t]] # << >>
  <2>1. \A q : NetOf[t] \in ToSet(q) => q # << >>
    BY DEF ToSet
  <2> QED  BY <1>2, <2>1, Places DEF Reaches
<1>4. /\ v.ptr = w.ptr
      /\ \E p \in BagToSet(v.wire) : /\ p.from = IdOf[s] /\ p.to = IdOf[t] /\ p.body = Request
                                     /\ p.net = IF p.local THEN NetOf[s] ELSE Place(IdOf[t])
  <2>1. v.ptr = w.ptr
    BY <1>1, AskLeaves
  <2>2. \A i \in Id : /\ w.peers[s][i] # None /\ i # IdOf[w.peers[s][i].by]
                       /\ w.refs[w.peers[s][i].by][i] # << >>
          => \E p \in BagToSet(v.wire) : /\ p.from = IdOf[s] /\ p.to = i /\ p.body = Request
                                         /\ p.net = IF p.local THEN NetOf[s] ELSE Place(i)
    BY <1>1, AskLeaves
  <2> HIDE DEF v
  <2> QED  BY <1>2, <1>3, <2>1, <2>2
<1> HIDE DEF v
<1>5. PICK p \in BagToSet(v.wire) : /\ p.from = IdOf[s] /\ p.to = IdOf[t] /\ p.body = Request
                                    /\ p.net = IF p.local THEN NetOf[s] ELSE NetOf[t]
  BY <1>3, <1>4
<1>6. p.body.kind = "request"
  BY <1>5 DEF Request
<1>7. Helps(v, s, p)
  BY <1>2, <1>4, <1>5, <1>6 DEF Helps
<1> QED  BY <1>7 DEF Hopeful, v

\* Slab 0, if there is one, is the only slab of the creator: packets for it and
\* packets for whoever represents the creator are for the same slab.
ZeroIsAlone ==
  \A s \in Slab : IdOf[s] = 0 =>
    NetOf[s] = Creator /\ \A t \in Slab : NetOf[t] = Creator => t = s

\* A slab that waits does not have the memo; each of its tries but the last failed
\* for a reason, and the last one did if no packet is on its way for it.
HopeInv ==
  /\ lost \in Nat /\ late \in Nat
  /\ Meshed(World)
  /\ \A s \in Slab : pc[s] = "waiting" =>
       /\ ptr[s] # "resident" /\ s \in ToSet(slabs[NetOf[s]])
       /\ tries[s] <= lost + late + (IF Hopeful(World, s) THEN 1 ELSE 0)
  /\ \A s \in Slab : pc[s] = "failed" => lost + late >= MaxTries

\* A step in which nobody asks.
LEMMA HopeKept ==
  ASSUME IInv, HopeInv, Meshed(World)', late' = late, lost' \in {lost, lost + 1},
         \A n \in Net : ToSet(slabs[n]) \subseteq ToSet(slabs'[n]),
         \A x \in Slab :
           /\ pc'[x] # pc[x] => pc'[x] = "found"
           /\ pc'[x] = "waiting" => tries'[x] = tries[x]
           /\ pc'[x] = "waiting" /\ ptr'[x] = "resident" => ptr[x] = "resident"
           /\ pc'[x] = "waiting" /\ Hopeful(World, x) => Hopeful(World, x)' \/ lost' = lost + 1
  PROVE  HopeInv'
<1>1. /\ lost \in Nat /\ late \in Nat /\ MaxTries \in Nat
      /\ tries \in [Slab -> 0 .. MaxTries]
  BY JoinAssumption DEF IInv, HopeInv
<1>2. lost' \in Nat /\ late' \in Nat /\ lost' >= lost
  BY <1>1
<1>3. ASSUME NEW x \in Slab, pc'[x] = "waiting"
      PROVE  /\ ptr'[x] # "resident" /\ x \in ToSet(slabs'[NetOf[x]])
             /\ tries'[x] <= lost' + late' + (IF Hopeful(World, x)' THEN 1 ELSE 0)
  <2>1. pc[x] = "waiting" /\ NetOf[x] \in Net
    BY <1>3, Places
  <2>2. /\ ptr[x] # "resident" /\ x \in ToSet(slabs[NetOf[x]])
        /\ tries[x] <= lost + late + (IF Hopeful(World, x) THEN 1 ELSE 0)
    BY <2>1 DEF HopeInv
  <2>3. ptr'[x] # "resident" /\ x \in ToSet(slabs'[NetOf[x]])
    BY <1>3, <2>1, <2>2
  <2>4. tries'[x] = tries[x] /\ tries[x] \in Nat
    BY <1>1, <1>3
  <2>5. Hopeful(World, x) => Hopeful(World, x)' \/ lost' = lost + 1
    BY <1>3
  <2>6. tries[x] <= lost' + late + (IF Hopeful(World, x)' THEN 1 ELSE 0)
    <3>1. CASE Hopeful(World, x)'
      BY <1>1, <1>2, <2>2, <2>4, <3>1
    <3>2. CASE ~Hopeful(World, x)'
      BY <1>1, <1>2, <2>2, <2>4, <2>5, <3>2
    <3> QED  BY <3>1, <3>2
  <2> QED  BY <2>3, <2>4, <2>6
<1>4. ASSUME NEW x \in Slab, pc'[x] = "failed"
      PROVE  lost' + late' >= MaxTries
  <2>1. pc[x] = "failed"
    BY <1>4
  <2>2. lost + late >= MaxTries
    BY <2>1 DEF HopeInv
  <2> QED  BY <1>1, <1>2, <2>2
<1> QED  BY <1>2, <1>3, <1>4 DEF HopeInv

\* A handler leaves w of a state, and packets are lost if it says so.
LEMMA HopeMoved ==
  ASSUME IInv, HopeInv, NEW b \in Wire, World' \in Moved([World EXCEPT !.wire = b]),
         tries' = tries, late' = late, lost' \in {lost, lost + 1},
         \A x \in Slab : \A q \in BagToSet(wire) :
           pc'[x] = "waiting" /\ Helps(World, x, q) =>
             q \in BagToSet(b) \/ Hopeful(World, x)' \/ lost' = lost + 1
  PROVE  HopeInv'
<1> DEFINE w == [World EXCEPT !.wire = b]
<1>1. World \in Worlds /\ w \in Worlds /\ World.wire = wire
  BY WireChanged DEF IInv, World
<1>2. /\ w.slabs = slabs /\ w.refs = refs /\ w.ptr = ptr /\ w.pc = pc /\ w.wire = b
      /\ World.slabs = slabs /\ World.refs = refs /\ World.ptr = ptr
      /\ World'.slabs = slabs' /\ World'.ptr = ptr' /\ World'.pc = pc'
  BY DEF World
<1> HIDE DEF w
<1>3. World' \in Moved(w)
  BY DEF w
<1>4. Meshed(World)'
  <2>1. Meshed(w)
    BY <1>2 DEF HopeInv, Meshed
  <2>2. Meshed(World')
    BY <1>1, <1>3, <2>1, MeshedMoved
  <2> QED  BY <2>2
<1>5. ASSUME NEW x \in Slab, pc'[x] = "waiting", Hopeful(World, x)
      PROVE  Hopeful(World, x)' \/ lost' = lost + 1
  <2>1. PICK q \in BagToSet(wire) : Helps(World, x, q)
    BY <1>1, <1>5 DEF Hopeful
  <2>2. CASE q \in BagToSet(b)
    <3>1. Helps(w, x, q)
      BY <1>2, <2>1 DEF Helps
    <3>2. Hopeful(World', x)
      BY <1>2, <1>3, <2>2, <3>1, HopefulMoved
    <3> QED  BY <3>2
  <2> QED  BY <1>5, <2>1, <2>2
<1>6. \A n \in Net : slabs'[n] = slabs[n]
  BY <1>2, <1>3 DEF Moved
<1>7. ASSUME NEW x \in Slab
      PROVE  /\ pc'[x] # pc[x] => pc'[x] = "found"
             /\ pc'[x] = "waiting" /\ ptr'[x] = "resident" => ptr[x] = "resident"
  BY <1>2, <1>3 DEF Moved
<1> QED  BY <1>4, <1>5, <1>6, <1>7, HopeKept

\* A packet taken is one, and the others are still there.
LEMMA OneLess ==
  ASSUME NEW b \in Wire, NEW p, NEW q \in BagToSet(b), q # p
  PROVE  q \in BagToSet(b (-) SetToBag({p}))
<1>1. PICK P \in SUBSET Packet : b \in [P -> Nat \ {0}]
  BY DEF Wire
<1>2. q \in P /\ b[q] > 0 /\ q \notin {p}
  BY <1>1 DEF BagToSet
<1>3. q \in DOMAIN (b (-) SetToBag({p}))
  BY <1>1, <1>2 DEF SetToBag, (-)
<1> QED  BY <1>3 DEF BagToSet

\* The slab that packet p is for.
LEMMA DestinationIs ==
  ASSUME World \in Worlds, NEW p \in Packet, Destination(p) # None
  PROVE  /\ Destination(p) \in ToSet(slabs[p.net])
         /\ p.local \/ p.to # 0 => IdOf[Destination(p)] = p.to
<1> DEFINE s == Destination(p)
<1>1. p.net \in Net /\ World.slabs = slabs
  BY PacketParts DEF World
<1>2. CASE p.to = 0 /\ ~p.local
  <2>1. slabs[p.net] \in Seq(Slab) /\ slabs[p.net] # << >> /\ s = slabs[p.net][1]
    BY <1>1, <1>2 DEF Destination, Worlds
  <2>2. 1 \in DOMAIN slabs[p.net]
    <3> DEFINE q == slabs[p.net]
    <3> HIDE DEF q
    <3>1. q \in Seq(Slab) /\ q # << >>
      BY <2>1 DEF q
    <3>2. 1 \in DOMAIN q
      BY <3>1, LenProperties, EmptySeq
    <3> QED  BY <3>2 DEF q
  <2> QED  BY <1>2, <2>1, <2>2 DEF ToSet
<1>3. CASE ~ (p.to = 0 /\ ~p.local)
  <2>1. s = SlabWith(World, p.net, p.to) /\ s # None
    BY <1>3 DEF Destination
  <2>2. s \in {x \in ToSet(slabs[p.net]) : IdOf[x] = p.to}
    BY <1>1, <2>1 DEF SlabWith
  <2> QED  BY <2>2
<1> QED  BY <1>2, <1>3

\* A packet arrives.  If it helps slab x, it is the memo for x, or a request of x
\* that is answered.
LEMMA ReceiveHope ==
  ASSUME ZeroIsAlone, IInv, KnownInv, HopeInv, NEW p \in BagToSet(wire), Receive(p)
  PROVE  HopeInv'
<1> DEFINE d == Destination(p)
           b == wire (-) SetToBag({p})
           w == [World EXCEPT !.wire = b]
           v == IF p.local THEN w ELSE AssertSlabref(w, d, p.from, <<p.src>>)
           u == Handled(v, d, p)
<1>1. /\ World \in Sound /\ World \in Worlds /\ wire \in Wire /\ World.wire = wire
      /\ World.slabs = slabs /\ World.refs = refs /\ World.ptr = ptr /\ World.pc = pc
  BY DEF KnownInv, Sound, Worlds, World
<1>2. p \in Packet /\ p.net \in Net /\ p.from \in Id /\ p.src \in Net /\ p.src = Place(p.from)
  <2>1. p \in Packet
    BY <1>1 DEF Wire, BagToSet
  <2> QED  BY <2>1, PacketParts
<1>3. /\ d \in ToSet(slabs[p.net]) /\ d \in Slab /\ NetOf[d] = p.net
      /\ p.local \/ p.to # 0 => IdOf[d] = p.to
  <2>1. /\ d \in ToSet(slabs[p.net])
        /\ p.local \/ p.to # 0 => IdOf[d] = p.to
    BY <1>1, <1>2, DestinationIs DEF Receive
  <2> QED  BY <1>1, <1>2, <2>1, SlabsThere
<1>4. Becomes(u) /\ tries' = tries /\ lost' = lost /\ late' = late
  BY <1>1 DEF Receive
<1> HIDE DEF d
<1>5. b \in Wire /\ \A q \in BagToSet(wire) : q # p => q \in BagToSet(b)
  BY <1>1, BagTaken, OneLess
<1> HIDE DEF b
<1>6. w \in Worlds
  BY <1>1, <1>5, WireChanged
<1>7. w.refs = refs /\ w.ptr = ptr
  BY DEF World
<1>8. /\ v \in Moved(w)
      /\ ~p.local /\ p.from # IdOf[d] => v.refs[d][p.from] # << >>
  <2> DEFINE x == AssertSlabref(w, d, p.from, <<p.src>>)
  <2>1. <<p.src>> \in Seq({Local, Place(p.from)}) /\ p.src \in ToSet(<<p.src>>)
    BY <1>2 DEF ToSet
  <2>2. Usable(w, d, p.from, p.src)
    BY <1>2, NoneAssumption DEF Usable
  <2>3. x \in Moved(w) /\ (p.from # IdOf[d] => x.refs[d][p.from] # << >>)
    <3> HIDE DEF w
    <3> QED  BY <1>2, <1>3, <1>6, <2>1, <2>2, AssertSlabrefMoved
  <2> HIDE DEF w, x
  <2>4. v = IF p.local THEN w ELSE x
    BY DEF x
  <2> QED  BY <1>6, <2>3, <2>4, MovedNothing
<1> HIDE DEF v, w
<1>9. /\ v \in Worlds /\ \A x \in Slab : ptr[x] = "resident" => v.ptr[x] = "resident"
      /\ \A x \in Slab, i \in Id : refs[x][i] # << >> => v.refs[x][i] # << >>
  BY <1>7, <1>8 DEF Moved
<1>10. u \in Moved(v) /\ (p.body.kind = "memo" => u.pc[d] # "waiting")
  BY <1>2, <1>3, <1>9, HandledMoved
<1>11. p.body.kind = "request" => u = AnswerRequest(v, d, p)
  BY DEF Handled
<1> HIDE DEF u
<1>12. World' = u /\ pc' = u.pc
  <2>1. u \in Worlds
    BY <1>10 DEF Moved
  <2>2. World' = u
    BY <1>4, <2>1 DEF Becomes, World, Worlds
  <2> QED  BY <2>2 DEF World
<1>13. u \in Moved(w)
  BY <1>8, <1>10, MovedAgain
<1>14. ASSUME NEW x \in Slab, pc'[x] = "waiting", Helps(World, x, p)
       PROVE  Hopeful(u, x)
  <2>1. pc[x] = "waiting" /\ ptr[x] # "resident" /\ x \in ToSet(slabs[NetOf[x]])
        /\ NetOf[x] # Creator /\ IdOf[x] \in Id /\ NetOf[x] \in Net
    <3>1. pc[x] = "waiting"
      <4>1. w.pc = pc
        BY DEF w, World
      <4> QED  BY <1>12, <1>13, <1>14, <4>1 DEF Moved
    <3> QED  BY <1>1, <3>1, Places DEF HopeInv, Sound
  <2>2. IdOf[x] # 0
    BY <2>1 DEF ZeroIsAlone
  <2>3. CASE p.body.kind = "memo" /\ p.to = IdOf[x]
    <3>1. IdOf[d] = IdOf[x]
      BY <1>3, <2>2, <2>3
    <3>2. d = x
      BY <1>3, <3>1, IdAssumption
    <3> QED  BY <1>10, <1>12, <1>14, <2>3, <3>2
  <2>4. CASE p.body.kind # "memo"
    <3>1. PICK t \in Slab : /\ p.body.kind = "request" /\ p.from = IdOf[x]
                            /\ ptr[t] = "resident" /\ p.to = IdOf[t]
                            /\ p.net = IF p.local THEN NetOf[x] ELSE NetOf[t]
      BY <1>1, <1>14, <2>4 DEF Helps
    <3>2. d = t
      <4>1. CASE p.local \/ p.to # 0
        BY <1>3, <3>1, <4>1, IdAssumption
      <4>2. CASE ~p.local /\ p.to = 0
        BY <1>3, <3>1, <4>2 DEF ZeroIsAlone
      <4> QED  BY <4>1, <4>2
    <3>3. x # d /\ p.from # IdOf[d]
      BY <1>3, <2>1, <3>1, <3>2, IdAssumption
    <3>4. v.refs[d][p.from] # << >>
      <4>1. CASE p.local
        <5>1. d \in ToSet(slabs[NetOf[x]])
          BY <1>3, <3>1, <4>1
        <5>2. refs[d][IdOf[x]] # << >>
          BY <1>1, <2>1, <3>3, <5>1 DEF HopeInv, Meshed
        <5> QED  BY <1>3, <1>9, <2>1, <3>1, <5>2
      <4>2. CASE ~p.local
        BY <1>8, <3>3, <4>2
      <4> QED  BY <4>1, <4>2
    <3>5. v.ptr[d] = "resident"
      BY <1>9, <3>1, <3>2
    <3>6. PICK q \in BagToSet(AnswerRequest(v, d, p).wire) :
            q.body.kind = "memo" /\ q.to = p.from
      BY <1>2, <1>3, <1>9, <3>3, <3>4, <3>5, RequestAnswered
    <3> QED  BY <1>11, <3>1, <3>6 DEF Hopeful, Helps
  <2> QED  BY <1>14, <2>3, <2>4 DEF Helps
<1>15. World' \in Moved([World EXCEPT !.wire = b])
  BY <1>12, <1>13 DEF w
<1>16. ASSUME NEW x \in Slab, NEW q \in BagToSet(wire), pc'[x] = "waiting", Helps(World, x, q)
       PROVE  q \in BagToSet(b) \/ Hopeful(World, x)' \/ lost' = lost + 1
  <2>1. CASE q # p
    BY <1>5, <2>1
  <2>2. CASE q = p
    <3>1. Hopeful(World', x)
      BY <1>12, <1>14, <1>16, <2>2
    <3> QED  BY <3>1
  <2> QED  BY <2>1, <2>2
<1> QED  BY <1>4, <1>5, <1>15, <1>16, HopeMoved

\* A packet is gone, or comes again.
LEMMA WireHope ==
  ASSUME IInv, HopeInv, NEW p \in BagToSet(wire),
         \/ wire' = wire (-) SetToBag({p}) /\ lost' = lost + 1
         \/ wire' = wire (+) SetToBag({p}) /\ lost' = lost,
         UNCHANGED <<slabs, seed, refs, ptr, peers, pc, tries, late>>
  PROVE  HopeInv'
<1>1. World \in Worlds /\ wire \in Wire /\ World.wire = wire
  BY DEF IInv, Worlds, World
<1>2. p \in Packet
  BY <1>1 DEF Wire, BagToSet
<1>3. /\ wire' \in Wire /\ lost' \in {lost, lost + 1}
      /\ lost' = lost + 1 \/ \A q \in BagToSet(wire) : q \in BagToSet(wire')
  <2>1. CASE wire' = wire (-) SetToBag({p}) /\ lost' = lost + 1
    BY <1>1, <2>1, BagTaken
  <2>2. CASE wire' = wire (+) SetToBag({p}) /\ lost' = lost
    <3>1. BagToSet(wire (+) SetToBag({p})) = BagToSet(wire) \cup {p}
      BY <1>1, OneMore
    <3> QED  BY <1>1, <1>2, <2>2, <3>1, BagAdded
  <2> QED  BY <2>1, <2>2
<1>4. World' = [World EXCEPT !.wire = wire']
  BY DEF World
<1>5. World' \in Moved([World EXCEPT !.wire = wire'])
  <2>1. [World EXCEPT !.wire = wire'] \in Worlds
    BY <1>1, <1>3, WireChanged
  <2> QED  BY <1>4, <2>1, MovedNothing
<1> QED  BY <1>3, <1>5, HopeMoved

\* A network says hello.
LEMMA SayHelloHope ==
  ASSUME IInv, HopeInv, NEW n \in Net, NEW m \in Net, SayHello(n, m)
  PROVE  HopeInv'
<1> DEFINE new == Greeted(World, n, m, slabs[n])
<1>1. Becomes(new) /\ tries' = tries /\ lost' = lost /\ late' = late
  BY DEF SayHello, Greeted
<1>2. /\ World \in Worlds /\ wire \in Wire /\ slabs[n] \in Seq(SlabsOf(n))
      /\ World = [World EXCEPT !.wire = wire]
  BY DEF IInv, World, Worlds
<1>3. new \in Moved(World)
  BY <1>2, GreetedMoved
<1> HIDE DEF new
<1>4. World' = new
  <2>1. new \in Worlds
    BY <1>3 DEF Moved
  <2> QED  BY <1>1, <2>1 DEF Becomes, World, Worlds
<1> QED  BY <1>1, <1>2, <1>3, <1>4, HopeMoved

\* Slab s asks, for the first time or again, after timers that ran out.
LEMMA AskedHope ==
  ASSUME IInv, HopeInv, NEW s \in Slab, NEW w \in Sound \cap Moved(World),
         w.ptr[s] # "unknown", w.ptr[s] # "resident", s \in ToSet(slabs[NetOf[s]]),
         Becomes(Ask(w, s)), NEW k \in Nat, tries' = [tries EXCEPT ![s] = k],
         lost' = lost, late' \in Nat, late' >= late, k <= lost + late' + 1
  PROVE  HopeInv'
<1> DEFINE v == Ask(w, s)
<1>1. /\ lost \in Nat /\ late \in Nat /\ MaxTries \in Nat
      /\ tries \in [Slab -> 0 .. MaxTries]
  BY JoinAssumption DEF IInv, HopeInv
<1>2. /\ World \in Worlds /\ w \in Worlds
      /\ World.slabs = slabs /\ World.ptr = ptr /\ World.pc = pc
  BY DEF IInv, Sound, World
<1>3. /\ v \in Worlds /\ v.slabs = w.slabs /\ v.refs = w.refs /\ v.ptr = w.ptr
      /\ \A p \in BagToSet(w.wire) : p \in BagToSet(v.wire)
      /\ \A x \in Slab : v.pc[x] = IF x = s THEN "waiting" ELSE w.pc[x]
  BY <1>2, AskLeaves
<1>4. Hopeful(v, s)
  BY AskHopes
<1>5. Becomes(v)
  OBVIOUS
<1> HIDE DEF v
<1>6. World' = v
  BY <1>3, <1>5 DEF Becomes, World, Worlds
<1>7. slabs' = v.slabs /\ ptr' = v.ptr /\ pc' = v.pc /\ v.slabs = slabs
  BY <1>2, <1>3, <1>6 DEF World, Moved
<1>8. Meshed(World)'
  <2>1. Meshed(w)
    BY <1>2, MeshedMoved DEF HopeInv
  <2>2. Meshed(World')
    BY <1>3, <1>6, <2>1 DEF Meshed
  <2> QED  BY <2>2
<1>9. ASSUME NEW x \in Slab, pc'[x] = "waiting"
      PROVE  /\ ptr'[x] # "resident" /\ x \in ToSet(slabs'[NetOf[x]])
             /\ tries'[x] <= lost' + late' + (IF Hopeful(World, x)' THEN 1 ELSE 0)
  <2>1. CASE x = s
    <3>1. Hopeful(World, x)'
      BY <1>4, <1>6, <2>1
    <3>2. tries'[x] = k
      BY <1>1, <2>1
    <3> QED  BY <1>1, <1>3, <1>7, <2>1, <3>1, <3>2
  <2>2. CASE x # s
    <3>1. w.pc[x] = "waiting"
      BY <1>3, <1>7, <1>9, <2>2
    <3>2. pc[x] = "waiting"
      BY <1>2, <3>1 DEF Moved
    <3>3. /\ ptr[x] # "resident" /\ x \in ToSet(slabs[NetOf[x]])
          /\ tries[x] <= lost + late + (IF Hopeful(World, x) THEN 1 ELSE 0)
      BY <3>2 DEF HopeInv
    <3>4. w.ptr[x] # "resident"
      BY <1>2, <3>1, <3>3 DEF Moved
    <3>5. tries'[x] = tries[x] /\ tries[x] \in Nat
      BY <1>1, <2>2
    <3>6. Hopeful(World, x) => Hopeful(World, x)'
      <4> SUFFICES ASSUME Hopeful(World, x) PROVE Hopeful(World', x)
        OBVIOUS
      <4>1. Hopeful(w, x)
        BY HopefulMoved DEF Hopeful
      <4>2. Hopeful(v, x)
        BY <1>3, <4>1 DEF Hopeful, Helps
      <4> QED  BY <1>6, <4>2
    <3>7. tries'[x] <= lost' + late' + (IF Hopeful(World, x)' THEN 1 ELSE 0)
      <4>1. CASE Hopeful(World, x)'
        BY <1>1, <3>3, <3>5, <4>1
      <4>2. CASE ~Hopeful(World, x)'
        BY <1>1, <3>3, <3>5, <3>6, <4>2
      <4> QED  BY <4>1, <4>2
    <3> QED  BY <1>3, <1>7, <3>3, <3>4, <3>7
  <2> QED  BY <2>1, <2>2
<1>10. ASSUME NEW x \in Slab, pc'[x] = "failed"
       PROVE  lost' + late' >= MaxTries
  <2>1. w.pc[x] = "failed"
    BY <1>3, <1>7, <1>10
  <2>2. pc[x] = "failed"
    BY <1>2, <2>1 DEF Moved
  <2>3. lost + late >= MaxTries
    BY <2>2 DEF HopeInv
  <2> QED  BY <1>1, <2>3
<1> QED  BY <1>1, <1>8, <1>9, <1>10 DEF HopeInv

LEMMA ReadHope ==
  ASSUME IInv, KnownInv, HopeInv, NEW s \in Slab, Read(s)
  PROVE  HopeInv'
<1> DEFINE w == LocalizeSeed(World, s)
           found == [w EXCEPT !.pc[s] = "found"]
<1>1. /\ World \in Sound /\ World \in Worlds /\ World.seed = seed /\ World.slabs = slabs
      /\ wire \in Wire /\ World = [World EXCEPT !.wire = wire]
      /\ seed[NetOf[s]] # None /\ Contains(slabs[NetOf[s]], s) /\ NetOf[s] \in Net
      /\ lost \in Nat /\ late \in Nat
  BY Places DEF KnownInv, IInv, HopeInv, World, Worlds, Read, ReadEnabled
<1>2. /\ Becomes(IF w.ptr[s] = "resident" THEN found ELSE Ask(w, s))
      /\ tries' = [tries EXCEPT ![s] = 1] /\ lost' = lost /\ late' = late
      /\ pc[s] = "idle"
  BY DEF Read, ReadEnabled
<1>3. w \in Moved(World) /\ w \in Sound /\ w \in Worlds /\ w.ptr[s] # "unknown"
  BY <1>1, LocalizeSeedAfter, LocalizeSeedMoved DEF After, Sound
<1>4. s \in ToSet(slabs[NetOf[s]])
  <2>1. slabs[NetOf[s]] \in Seq(Slab)
    BY <1>1 DEF Worlds
  <2> QED  BY <1>1, <2>1, ContainedIn
<1> HIDE DEF w
<1>5. CASE w.ptr[s] # "resident"
  <2>1. Becomes(Ask(w, s)) /\ w \in Sound \cap Moved(World)
    BY <1>2, <1>3, <1>5
  <2>2. 1 \in Nat /\ late' \in Nat /\ late' >= late /\ 1 <= lost + late' + 1
    BY <1>1, <1>2
  <2> QED  BY <1>2, <1>3, <1>4, <1>5, <2>1, <2>2, AskedHope
<1>6. CASE w.ptr[s] = "resident"
  <2>1. /\ found \in Worlds /\ found.slabs = w.slabs /\ found.ptr = w.ptr
        /\ found.refs = w.refs /\ found.wire = w.wire
        /\ \A x \in Slab : found.pc[x] = IF x = s THEN "found" ELSE w.pc[x]
    <3>1. found \in Worlds
      BY <1>3, PcChanged DEF Pc
    <3> QED  BY <1>3, <3>1 DEF Worlds
  <2>2. Becomes(found)
    BY <1>2, <1>6
  <2> HIDE DEF found
  <2>3. World' = found
    BY <2>1, <2>2 DEF Becomes, World, Worlds
  <2>4. /\ slabs' = slabs /\ ptr' = w.ptr /\ pc' = found.pc
        /\ World.ptr = ptr /\ World.pc = pc
    BY <1>1, <1>3, <2>1, <2>3 DEF World, Moved
  <2>5. Meshed(World)'
    <3>1. Meshed(w)
      BY <1>1, <1>3, MeshedMoved DEF HopeInv
    <3>2. Meshed(World')
      BY <2>1, <2>3, <3>1 DEF Meshed
    <3> QED  BY <3>2
  <2>6. ASSUME NEW x \in Slab
        PROVE  /\ pc'[x] # pc[x] => pc'[x] = "found"
               /\ pc'[x] = "waiting" /\ ptr'[x] = "resident" => ptr[x] = "resident"
               /\ Hopeful(World, x) => Hopeful(World, x)'
    <3>1. pc'[x] # pc[x] => pc'[x] = "found"
      BY <1>3, <2>1, <2>4 DEF Moved
    <3>2. pc'[x] = "waiting" /\ ptr'[x] = "resident" => ptr[x] = "resident"
      BY <1>3, <2>1, <2>4 DEF Moved
    <3>3. Hopeful(World, x) => Hopeful(World', x)
      <4>1. Hopeful(World, x) => Hopeful(w, x)
        BY <1>3, HopefulMoved DEF Hopeful
      <4>2. Hopeful(w, x) => Hopeful(found, x)
        BY <2>1 DEF Hopeful, Helps
      <4> QED  BY <2>3, <4>1, <4>2
    <3> QED  BY <3>1, <3>2, <3>3
  <2>7. ASSUME NEW x \in Slab PROVE pc'[x] = "waiting" => tries'[x] = tries[x]
    BY <1>2, <2>1, <2>4 DEF IInv
  <2> QED  BY <1>2, <2>4, <2>5, <2>6, <2>7, HopeKept
<1> QED  BY <1>5, <1>6

\* A timer that runs out while there is hope is early, and counted.
LEMMA TimeoutHope ==
  ASSUME IInv, KnownInv, HopeInv, NEW s \in Slab, Timeout(s)
  PROVE  HopeInv'
<1> DEFINE failed == [World EXCEPT !.pc[s] = "failed"]
<1>1. /\ World \in Sound /\ World \in Worlds /\ World.slabs = slabs /\ World.ptr = ptr
      /\ World.pc = pc /\ World.wire = wire
      /\ lost \in Nat /\ late \in Nat /\ MaxTries \in Nat \ {0}
      /\ tries \in [Slab -> 0 .. MaxTries]
  BY JoinAssumption DEF KnownInv, IInv, HopeInv, World
<1>2. /\ pc[s] = "waiting" /\ lost' = lost
      /\ Becomes(IF tries[s] < MaxTries THEN Ask(World, s) ELSE failed)
      /\ tries' = [tries EXCEPT ![s] = IF @ < MaxTries THEN @ + 1 ELSE @]
      /\ late' = late + (IF InFlight({"request", "memo"}) THEN 1 ELSE 0)
  BY DEF Timeout
<1>3. Hopeful(World, s) => late' = late + 1
  <2>1. Hopeful(World, s) => InFlight({"request", "memo"})
    BY <1>1 DEF Hopeful, Helps, InFlight
  <2> QED  BY <1>2, <2>1
<1>4. late' \in {late, late + 1} /\ late' \in Nat
  BY <1>1, <1>2
<1>5. /\ ptr[s] # "resident" /\ ptr[s] # "unknown" /\ s \in ToSet(slabs[NetOf[s]])
      /\ tries[s] <= lost + late + (IF Hopeful(World, s) THEN 1 ELSE 0)
  BY <1>1, <1>2 DEF HopeInv, Sound
<1>6. tries[s] \in Nat /\ tries[s] <= lost + late'
  <2>1. CASE Hopeful(World, s)
    BY <1>1, <1>3, <1>5, <2>1
  <2>2. CASE ~Hopeful(World, s)
    BY <1>1, <1>4, <1>5, <2>2
  <2> QED  BY <2>1, <2>2
<1>7. CASE tries[s] < MaxTries
  <2>1. Becomes(Ask(World, s)) /\ tries' = [tries EXCEPT ![s] = tries[s] + 1]
    BY <1>1, <1>2, <1>7
  <2>2. tries[s] + 1 \in Nat /\ late' >= late /\ tries[s] + 1 <= lost + late' + 1
    BY <1>1, <1>4, <1>6
  <2>3. World \in Sound \cap Moved(World)
    BY <1>1, MovedNothing
  <2> QED  BY <1>1, <1>2, <1>4, <1>5, <2>1, <2>2, <2>3, AskedHope
<1>8. CASE ~(tries[s] < MaxTries)
  <2>1. tries[s] \in 0 .. MaxTries /\ lost + late' >= MaxTries /\ tries' = tries
    <3>1. tries[s] \in 0 .. MaxTries
      BY <1>1
    <3> QED  BY <1>1, <1>2, <1>4, <1>6, <1>8, <3>1
  <2>2. /\ failed \in Worlds /\ failed.slabs = slabs /\ failed.ptr = ptr
        /\ failed.refs = World.refs /\ failed.wire = wire
        /\ \A x \in Slab : failed.pc[x] = IF x = s THEN "failed" ELSE pc[x]
    <3>1. failed \in Worlds
      BY <1>1, PcChanged DEF Pc
    <3> QED  BY <1>1, <3>1 DEF Worlds
  <2>3. Becomes(failed)
    BY <1>2, <1>8
  <2> HIDE DEF failed
  <2>4. World' = failed
    BY <2>2, <2>3 DEF Becomes, World, Worlds
  <2>5. slabs' = slabs /\ ptr' = ptr /\ pc' = failed.pc
    BY <2>2, <2>4 DEF World
  <2>6. Meshed(World)'
    <3>1. Meshed(World')
      BY <1>1, <2>2, <2>4 DEF HopeInv, Meshed
    <3> QED  BY <3>1
  <2>7. ASSUME NEW x \in Slab, pc'[x] = "waiting"
        PROVE  /\ ptr'[x] # "resident" /\ x \in ToSet(slabs'[NetOf[x]])
               /\ tries'[x] <= lost' + late' + (IF Hopeful(World, x)' THEN 1 ELSE 0)
    <3>1. pc[x] = "waiting"
      BY <2>2, <2>5, <2>7
    <3>2. /\ ptr[x] # "resident" /\ x \in ToSet(slabs[NetOf[x]])
          /\ tries[x] <= lost + late + (IF Hopeful(World, x) THEN 1 ELSE 0)
      BY <3>1 DEF HopeInv
    <3>3. Hopeful(World, x) => Hopeful(World, x)'
      <4>1. Hopeful(World, x) => Hopeful(World', x)
        BY <1>1, <2>2, <2>4 DEF Hopeful, Helps
      <4> QED  BY <4>1
    <3>4. tries[x] \in Nat
      BY <1>1
    <3>5. tries[x] <= lost + late' + (IF Hopeful(World, x)' THEN 1 ELSE 0)
      <4>1. CASE Hopeful(World, x)'
        BY <1>1, <1>4, <3>2, <3>4, <4>1
      <4>2. CASE ~Hopeful(World, x)'
        BY <1>1, <1>4, <3>2, <3>3, <3>4, <4>2
      <4> QED  BY <4>1, <4>2
    <3> QED  BY <1>2, <2>1, <2>5, <3>2, <3>5
  <2>8. ASSUME NEW x \in Slab, pc'[x] = "failed"
        PROVE  lost' + late' >= MaxTries
    BY <1>2, <2>1
  <2> QED  BY <1>1, <1>2, <1>4, <2>6, <2>7, <2>8 DEF HopeInv
<1> QED  BY <1>7, <1>8

\* A slab that is here is found.
LEMMA SlabThere ==
  ASSUME NEW w \in Worlds, NEW n \in Net, NEW x \in ToSet(w.slabs[n])
  PROVE  SlabWith(w, n, IdOf[x]) # None
<1> DEFINE here == {y \in ToSet(w.slabs[n]) : IdOf[y] = IdOf[x]}
<1>1. x \in here /\ \A y \in here : y \in Slab
  BY SlabsThere
<1>2. SlabWith(w, n, IdOf[x]) \in here
  BY <1>1 DEF SlabWith
<1> QED  BY <1>1, <1>2, NoneAssumption

\* A slab that starts has references to those before it, and they have one to it.
LEMMA MetMeshed ==
  ASSUME NEW w \in Worlds, NEW s \in Slab, NEW q \in Seq(Slab),
         w.slabs[NetOf[s]] = <<s>> \o q, \A k \in DOMAIN q : NetOf[q[k]] = NetOf[s] /\ q[k] # s
  PROVE  /\ Met(w, s, q) \in Moved(w)
         /\ \A k \in DOMAIN q : /\ Met(w, s, q).refs[q[k]][IdOf[s]] # << >>
                                /\ Met(w, s, q).refs[s][IdOf[q[k]]] # << >>
<1> DEFINE D == DOMAIN q
           Knows(v, k) == v.refs[q[k]][IdOf[s]] # << >> /\ v.refs[s][IdOf[q[k]]] # << >>
           F == [d \in SUBSET D |-> {v \in Moved(w) : \A k \in d : Knows(v, k)}]
<1>1. /\ \A k \in D : q[k] \in Slab /\ IdOf[q[k]] \in Id /\ IdOf[q[k]] # IdOf[s]
      /\ IdOf[s] \in Id /\ NetOf[s] \in Net
  BY LenProperties, Places, IdAssumption
<1>2. s \in ToSet(w.slabs[NetOf[s]]) /\ \A k \in D : q[k] \in ToSet(w.slabs[NetOf[s]])
  <2> DEFINE r == <<s>> \o q
  <2>1. /\ <<s>> \in Seq(Slab) /\ Len(<<s>>) = 1 /\ Len(q) \in Nat /\ D = 1 .. Len(q)
    BY LenProperties
  <2>2. /\ r \in Seq(Slab) /\ Len(r) = 1 + Len(q) /\ r[1] = s
        /\ \A k \in D : r[k + 1] = q[k]
    BY <2>1, ConcatProperties
  <2> HIDE DEF r, D
  <2>3. DOMAIN r = 1 .. Len(q) + 1
    BY <2>1, <2>2, LenProperties
  <2>4. 1 \in DOMAIN r /\ \A k \in D : k + 1 \in DOMAIN r
    BY <2>1, <2>3
  <2>5. s \in ToSet(r) /\ \A k \in D : q[k] \in ToSet(r)
    BY <2>2, <2>4 DEF ToSet
  <2> QED  BY <2>5 DEF r
<1>3. ASSUME NEW v \in Moved(w), NEW k \in D
      PROVE  LET u == AssertSlabref(AssertSlabref(v, q[k], IdOf[s], <<Local>>),
                                    s, IdOf[q[k]], <<Local>>)
             IN  u \in Moved(v) /\ Knows(u, k)
  <2> DEFINE t == q[k]
             y == AssertSlabref(v, t, IdOf[s], <<Local>>)
             u == AssertSlabref(y, s, IdOf[t], <<Local>>)
  <2>1. /\ t \in Slab /\ NetOf[t] = NetOf[s] /\ IdOf[t] \in Id /\ IdOf[t] # IdOf[s]
        /\ t \in ToSet(w.slabs[NetOf[s]])
    BY <1>1, <1>2
  <2> HIDE DEF t
  <2>2. v \in Worlds /\ v.slabs = w.slabs
    BY DEF Moved
  <2>3. Local \in ToSet(<<Local>>) /\ \A i \in Id : <<Local>> \in Seq({Local, Place(i)})
    BY DEF ToSet
  <2>4. Usable(v, t, IdOf[s], Local)
    BY <1>1, <1>2, <2>1, <2>2, SlabThere DEF Usable
  <2>5. y \in Moved(v) /\ y.refs[t][IdOf[s]] # << >>
    BY <1>1, <2>1, <2>2, <2>3, <2>4, AssertSlabrefMoved
  <2> HIDE DEF y
  <2>6. y \in Worlds /\ y.slabs = w.slabs
    BY <2>2, <2>5 DEF Moved
  <2>7. Usable(y, s, IdOf[t], Local)
    BY <1>1, <2>1, <2>6, SlabThere DEF Usable
  <2>8. u \in Moved(y) /\ u.refs[s][IdOf[t]] # << >>
    BY <1>1, <2>1, <2>3, <2>6, <2>7, AssertSlabrefMoved
  <2> HIDE DEF u
  <2>9. u.refs[t][IdOf[s]] # << >>
    BY <1>1, <2>1, <2>5, <2>8 DEF Moved
  <2> QED  BY <2>5, <2>8, <2>9, MovedAgain DEF t, y, u
<1>4. \A d \in SUBSET D : F[d] = {v \in Moved(w) : \A k \in d : Knows(v, k)}
  OBVIOUS
<1>5. {} \in SUBSET D /\ D \in SUBSET D
      /\ \A d \in SUBSET D : \A k \in d : k \in D /\ d \ {k} \in SUBSET D
  OBVIOUS
<1> HIDE DEF F
<1>6. ASSUME NEW d \in SUBSET D, NEW k \in d, NEW v \in F[d \ {k}]
      PROVE  AssertSlabref(AssertSlabref(v, q[k], IdOf[s], <<Local>>), s, IdOf[q[k]], <<Local>>)
               \in F[d]
  <2> DEFINE u == AssertSlabref(AssertSlabref(v, q[k], IdOf[s], <<Local>>),
                                s, IdOf[q[k]], <<Local>>)
  <2>1. k \in D /\ v \in Moved(w) /\ \A j \in d \ {k} : Knows(v, j)
    <3> HIDE DEF Knows
    <3> QED  BY <1>4, <1>5, <1>6
  <2>2. u \in Moved(v) /\ Knows(u, k)
    <3> HIDE DEF Knows
    <3> QED  BY <1>3, <2>1
  <2> HIDE DEF u
  <2>3. u \in Moved(w)
    BY <2>1, <2>2, MovedAgain
  <2>4. ASSUME NEW j \in d \ {k} PROVE Knows(u, j)
    <3>1. q[j] \in Slab /\ IdOf[q[j]] \in Id /\ IdOf[s] \in Id
      BY <1>1
    <3>2. Knows(v, j)
      BY <2>1
    <3> QED  BY <2>2, <3>1, <3>2 DEF Moved
  <2>5. u \in F[d]
    <3> HIDE DEF Knows
    <3> QED  BY <1>4, <2>2, <2>3, <2>4
  <2> QED  BY <2>5 DEF u
<1>7. w \in F[{}]
  BY <1>4, <1>5, MovedNothing
<1>8. \A d \in SUBSET DOMAIN q : \A k \in d : \A v \in F[d \ {k}] :
        AssertSlabref(AssertSlabref(v, q[k], IdOf[s], <<Local>>), s, IdOf[q[k]], <<Local>>)
          \in F[d]
  BY <1>6
<1> DEFINE met == Met(w, s, q)
<1>9. met \in F[D]
  BY <1>7, <1>8, MeetKeeps
<1> HIDE DEF met
<1>10. met \in Moved(w) /\ \A k \in D : Knows(met, k)
  <2> HIDE DEF Knows, D
  <2> QED  BY <1>4, <1>5, <1>9
<1> QED  BY <1>10 DEF met

\* A slab that starts does not wait: it was not there.
LEMMA StartHope ==
  ASSUME IInv, HopeInv, NEW s \in Slab, Start(s)
  PROVE  HopeInv'
<1> DEFINE n == NetOf[s]
           q == slabs[n]
           r == <<s>> \o q
           base == [World EXCEPT !.slabs[n] = <<s>> \o @]
           met == FoldLeft(LAMBDA w, t : AssertSlabref(AssertSlabref(w, t, IdOf[s], <<Local>>),
                                                       s, IdOf[t], <<Local>>),
                           base, q)
           new == IF n = Creator /\ seed[n] = None
                  THEN [met EXCEPT !.seed[n] = s, !.ptr[s] = "resident"]
                  ELSE met
<1>1. /\ n \in Net /\ q \in Seq(Slab) /\ q \in Seq(SlabsOf(n)) /\ World \in Worlds
      /\ World.slabs = slabs /\ World.slabs \in [Net -> Seq(Slab)]
      /\ World.ptr = ptr /\ World.pc = pc /\ World.refs = refs
  BY Places DEF IInv, World, Worlds
<1>2. /\ Becomes(new) /\ tries' = tries /\ lost' = lost /\ late' = late
      /\ ~Contains(q, s)
  BY DEF Start
<1>3. /\ r \in Seq(SlabsOf(n)) /\ r \in Seq(Slab) /\ ToSet(r) = {s} \cup ToSet(q)
  <2> DEFINE one == <<s>>
  <2>1. one \in Seq(SlabsOf(n)) /\ one \in Seq(Slab) /\ Range(one) = {s}
    BY DEF SlabsOf, Range
  <2>2. Range(q) = ToSet(q) /\ Range(r) = ToSet(r)
    BY DEF Range, ToSet
  <2>3. r = one \o q
    OBVIOUS
  <2> HIDE DEF one, r, q, n
  <2> QED  BY <1>1, <2>1, <2>2, <2>3, ConcatProperties, RangeConcatenation
<1>4. base \in Worlds /\ base.slabs[n] = r
      /\ base.refs = refs /\ base.ptr = ptr /\ base.pc = pc /\ base.wire = World.wire
      /\ \A m \in Net : m # n => base.slabs[m] = slabs[m]
  <2>1. base = [World EXCEPT !.slabs[n] = r]
    BY <1>1
  <2> HIDE DEF r, base, q, n
  <2> QED  BY <1>1, <1>3, <2>1 DEF Worlds
<1>5. s \notin ToSet(q) /\ \A k \in DOMAIN q : NetOf[q[k]] = n /\ q[k] # s
  <2>1. DOMAIN q = 1 .. Len(q) /\ \A k \in DOMAIN q : q[k] \in SlabsOf(n)
    BY <1>1, LenProperties
  <2>2. \A k \in DOMAIN q : q[k] # s
    BY <1>2, <2>1 DEF Contains
  <2>3. \A k \in DOMAIN q : NetOf[q[k]] = n
    BY <2>1 DEF SlabsOf
  <2> QED  BY <2>2, <2>3 DEF ToSet
<1> HIDE DEF base
<1>6. /\ met \in Moved(base)
      /\ \A k \in DOMAIN q : met.refs[q[k]][IdOf[s]] # << >> /\ met.refs[s][IdOf[q[k]]] # << >>
  <2>1. met = Met(base, s, q)
    BY DEF Met
  <2> HIDE DEF met
  <2>2. base.slabs[NetOf[s]] = <<s>> \o q
    BY <1>4
  <2>3. \A k \in DOMAIN q : NetOf[q[k]] = NetOf[s] /\ q[k] # s
    BY <1>5
  <2> HIDE DEF q, r, n
  <2>4. /\ Met(base, s, q) \in Moved(base)
        /\ \A k \in DOMAIN q : /\ Met(base, s, q).refs[q[k]][IdOf[s]] # << >>
                               /\ Met(base, s, q).refs[s][IdOf[q[k]]] # << >>
    BY <1>1, <1>4, <2>2, <2>3, MetMeshed
  <2> QED  BY <2>1, <2>4
<1> HIDE DEF met
<1>7. /\ met \in Worlds /\ new \in Worlds /\ new.slabs = base.slabs /\ new.refs = met.refs
      /\ new.pc = met.pc /\ new.wire = met.wire
      /\ \A x \in Slab : /\ x # s => new.ptr[x] = met.ptr[x]
                         /\ met.ptr[x] = "resident" => new.ptr[x] = "resident"
  <2>1. met \in Worlds /\ met.slabs = base.slabs
    BY <1>6 DEF Moved
  <2> DEFINE known == [met EXCEPT !.ptr[s] = "resident"]
  <2>2. /\ known \in Worlds /\ known.slabs = met.slabs /\ known.refs = met.refs
        /\ known.pc = met.pc /\ known.wire = met.wire
        /\ \A x \in Slab : known.ptr[x] = IF x = s THEN "resident" ELSE met.ptr[x]
    <3>1. known \in Worlds
      BY <2>1 DEF Worlds, Ptr
    <3>2. /\ known.slabs = met.slabs /\ known.refs = met.refs
          /\ known.pc = met.pc /\ known.wire = met.wire
          /\ \A x \in Slab : known.ptr[x] = IF x = s THEN "resident" ELSE met.ptr[x]
      BY <2>1 DEF Worlds
    <3> QED  BY <3>1, <3>2
  <2> DEFINE first == [known EXCEPT !.seed[n] = s]
  <2>3. [met EXCEPT !.seed[n] = s, !.ptr[s] = "resident"] = first
    BY <2>1 DEF Worlds
  <2> HIDE DEF known
  <2>4. first \in Worlds
    BY <1>1, <2>2, SeedChanged
  <2>5. /\ first.slabs = known.slabs /\ first.refs = known.refs /\ first.ptr = known.ptr
        /\ first.pc = known.pc /\ first.wire = known.wire
    BY <2>2 DEF Worlds
  <2> HIDE DEF first
  <2>6. new = IF n = Creator /\ seed[n] = None THEN first ELSE met
    BY <2>3
  <2> HIDE DEF new
  <2> QED  BY <2>1, <2>2, <2>4, <2>5, <2>6
<1> HIDE DEF new
<1>8. World' = new
  BY <1>2, <1>7 DEF Becomes, World, Worlds
<1>9. slabs' = base.slabs /\ ptr' = new.ptr /\ pc' = met.pc
  BY <1>7, <1>8 DEF World
<1>10. \A m \in Net : ToSet(slabs[m]) \subseteq ToSet(slabs'[m])
  <2> HIDE DEF q, r, n
  <2>1. ToSet(q) \subseteq ToSet(r) /\ slabs[n] = q
    BY <1>3 DEF q
  <2> QED  BY <1>4, <1>9, <2>1
<1>11. Meshed(World)'
  <2>1. \A k \in DOMAIN q : q[k] \in ToSet(q)
    BY DEF ToSet
  <2>2. ASSUME NEW m \in Net, NEW x \in ToSet(new.slabs[m]), NEW y \in ToSet(new.slabs[m]),
               x # y
        PROVE  new.refs[x][IdOf[y]] # << >>
    <3>1. CASE x \in ToSet(slabs[m]) /\ y \in ToSet(slabs[m])
      <4>1. refs[x][IdOf[y]] # << >>
        BY <1>1, <2>2, <3>1 DEF HopeInv, Meshed
      <4>2. x \in Slab /\ IdOf[y] \in Id
        BY <1>1, <3>1, SlabsThere, Places
      <4> QED  BY <1>4, <1>6, <1>7, <4>1, <4>2 DEF Moved
    <3>2. CASE ~(x \in ToSet(slabs[m]) /\ y \in ToSet(slabs[m]))
      <4>1. m = n /\ x \in {s} \cup ToSet(q) /\ y \in {s} \cup ToSet(q)
        <5> HIDE DEF q, r, n
        <5>1. slabs[n] = q
          BY DEF q
        <5> QED  BY <1>3, <1>4, <1>7, <2>2, <3>2, <5>1
      <4>2. CASE x = s /\ y \in ToSet(q)
        <5>1. PICK k \in DOMAIN q : y = q[k]
          BY <4>2 DEF ToSet
        <5> QED  BY <1>6, <1>7, <4>2, <5>1
      <4>3. CASE y = s /\ x \in ToSet(q)
        <5>1. PICK k \in DOMAIN q : x = q[k]
          BY <4>3 DEF ToSet
        <5> QED  BY <1>6, <1>7, <4>3, <5>1
      <4> QED  BY <2>2, <3>2, <4>1, <4>2, <4>3
    <3> QED  BY <3>1, <3>2
  <2>3. Meshed(new)
    BY <2>2 DEF Meshed
  <2>4. Meshed(World')
    BY <1>8, <2>3
  <2> QED  BY <2>4
<1>12. pc[s] # "waiting"
  BY <1>5 DEF HopeInv
<1>13. ASSUME NEW x \in Slab
       PROVE  /\ pc'[x] # pc[x] => pc'[x] = "found"
              /\ pc'[x] = "waiting" => tries'[x] = tries[x]
              /\ pc'[x] = "waiting" /\ ptr'[x] = "resident" => ptr[x] = "resident"
              /\ Hopeful(World, x) => Hopeful(World, x)'
  <2>1. pc'[x] # pc[x] => pc'[x] = "found"
    BY <1>4, <1>6, <1>9 DEF Moved
  <2>2. pc'[x] = "waiting" /\ ptr'[x] = "resident" => ptr[x] = "resident"
    <3> SUFFICES ASSUME pc'[x] = "waiting", ptr'[x] = "resident" PROVE ptr[x] = "resident"
      OBVIOUS
    <3>1. pc[x] = "waiting"
      BY <2>1
    <3>2. x # s
      BY <1>12, <3>1
    <3>3. met.ptr[x] = "resident" /\ met.pc[x] = "waiting"
      BY <1>7, <1>9, <3>2
    <3> QED  BY <1>4, <1>6, <3>3 DEF Moved
  <2>3. Hopeful(World, x) => Hopeful(World', x)
    <3>1. Hopeful(World, x) => Hopeful(base, x)
      BY <1>1, <1>4 DEF Hopeful, Helps
    <3>2. Hopeful(base, x) => Hopeful(met, x)
      BY <1>6, HopefulMoved DEF Hopeful
    <3>3. Hopeful(met, x) => Hopeful(new, x)
      BY <1>7 DEF Hopeful, Helps
    <3> QED  BY <1>8, <3>1, <3>2, <3>3
  <2> QED  BY <1>2, <2>1, <2>2, <2>3
<1> QED  BY <1>2, <1>10, <1>11, <1>13, HopeKept

\* It is so at first, and after every step.
LEMMA InitHope == Init => HopeInv
<1> SUFFICES ASSUME Init PROVE HopeInv
  OBVIOUS
<1>1. Meshed(World)
  <2>1. \A n \in Net : ToSet(World.slabs[n]) = {}
    BY DEF Init, World, ToSet
  <2> QED  BY <2>1 DEF Meshed
<1>2. \A s \in Slab : pc[s] = "idle"
  BY DEF Init
<1>3. lost \in Nat /\ late \in Nat
  BY DEF Init
<1> QED  BY <1>1, <1>2, <1>3 DEF HopeInv

LEMMA NextHope ==
  ASSUME ZeroIsAlone, IInv, KnownInv, HopeInv, [Next]_vars
  PROVE  HopeInv'
<1>1. ASSUME NEW s \in Slab, Start(s) PROVE HopeInv'
  BY <1>1, StartHope
<1>2. ASSUME NEW n \in Net, NEW m \in Net, SayHello(n, m) PROVE HopeInv'
  BY <1>2, SayHelloHope
<1>3. ASSUME NEW n \in Net, NEW m \in Net, Arrive(m, n) PROVE HopeInv'
  <2>1. PICK p \in BagToSet(wire) : Receive(p) \/ Refuse(p)
    BY <1>3 DEF Arrive
  <2>2. CASE Receive(p)
    BY <2>2, ReceiveHope
  <2>3. CASE Refuse(p)
    BY <2>3, WireHope DEF Refuse
  <2> QED  BY <2>1, <2>2, <2>3
<1>4. CASE Lose
  BY <1>4, WireHope DEF Lose
<1>5. CASE Repeat
  BY <1>5, WireHope DEF Repeat
<1>6. ASSUME NEW s \in Reader, Read(s) \/ Timeout(s) PROVE HopeInv'
  <2>1. s \in Slab
    BY JoinAssumption
  <2> QED  BY <1>6, <2>1, ReadHope, TimeoutHope
<1>7. CASE UNCHANGED vars
  <2>1. World' = World
    BY <1>7 DEF vars, World
  <2>2. Meshed(World') /\ \A s \in Slab : Hopeful(World', s) = Hopeful(World, s)
    BY <2>1 DEF HopeInv
  <2> QED  BY <1>7, <2>2 DEF vars, HopeInv
<1> QED  BY <1>1, <1>2, <1>3, <1>4, <1>5, <1>6, <1>7 DEF Next

\* A request that fails was foiled at each of its tries, for any number of networks
\* and slabs and of tries: a datagram was lost, or the timer did not wait for one that
\* was on its way (SlabHandle::request_memo).  Every try reaches a slab that has the
\* memo, and the answer finds its way back, whatever else is on the wire.  A system
\* with a slab 0 has no other slab in the creator's network: the newest slab of a
\* network gets the packets that are for slab 0 (Network::get_representative_slab),
\* and one that does not have the memo cannot send it.
THEOREM UdpJoinDeadlineMeansLoss ==
  ASSUME ZeroIsAlone
  PROVE  Spec /\ [][HelloBeforeJoining]_vars => []DeadlineMeansLoss
<1>1. HopeInv => DeadlineMeansLoss
  BY JoinAssumption DEF HopeInv, DeadlineMeansLoss
<1>2. Spec /\ [][HelloBeforeJoining]_vars => []KnownInv
  <2>1. ZeroIsCreators
    BY DEF ZeroIsAlone, ZeroIsCreators
  <2>2. KnownInv /\ [Next]_vars /\ [HelloBeforeJoining]_vars => KnownInv'
    BY <2>1, NextKnown
  <2> QED  BY <2>2, InitKnown, PTL DEF Spec
<1>3. IInv /\ KnownInv /\ HopeInv /\ [Next]_vars => HopeInv'
  BY NextHope
<1> QED  BY <1>1, <1>2, <1>3, SpecInv, InitHope, PTL DEF Spec
=============================================================================
