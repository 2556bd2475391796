------------------------ MODULE SubscriptionsProofs -------------------------
(***************************************************************************)
(* Proofs about who is told of the memos that arrive (module               *)
(* Subscriptions), for any number of contexts, observers, threads, edits   *)
(* and routes, and any buffer.                                             *)
(*                                                                         *)
(* The first part is about the loop of notify_local_subscribers alone, the *)
(* second about the subscribers.                                           *)
(***************************************************************************)
EXTENDS Subscriptions, SequenceTheorems, FiniteSetTheorems, TLAPS

-----------------------------------------------------------------------------
(***************************************************************************)
(* Sequences and numbers.                                                  *)
(***************************************************************************)
\* An element was appended.
LEMMA RangeOfAppend ==
  ASSUME NEW S, NEW q \in Seq(S), NEW m \in S
  PROVE  /\ Append(q, m) \in Seq(S)
         /\ Range(Append(q, m)) = Range(q) \cup {m}
<1> DEFINE one == <<m>>
<1>1. one \in Seq(S) /\ Range(one) = {m} /\ Append(q, m) = q \o one
  BY AppendIsConcat DEF Range
<1> HIDE DEF one
<1> QED  BY <1>1, AppendProperties, RangeConcatenation

\* An element that was not there yet was appended.
LEMMA InjectiveAppend ==
  ASSUME NEW S, NEW q \in Seq(S), IsInjective(q), NEW m \in S, m \notin Range(q)
  PROVE  IsInjective(Append(q, m))
<1>1. /\ Append(q, m) \in Seq(S) /\ Len(Append(q, m)) = Len(q) + 1
      /\ \A i \in 1 .. Len(q) : Append(q, m)[i] = q[i]
      /\ Append(q, m)[Len(q) + 1] = m
  BY AppendProperties
<1>2. /\ Len(q) \in Nat /\ DOMAIN q = 1 .. Len(q)
      /\ DOMAIN Append(q, m) = 1 .. Len(q) + 1
  BY <1>1, LenProperties
<1>3. \A i \in 1 .. Len(q) : q[i] # m
  BY <1>2 DEF Range
<1> QED  BY <1>1, <1>2, <1>3 DEF IsInjective

\* What is appended to the second of two sequences ends both.
LEMMA ConcatAppend ==
  ASSUME NEW S, NEW q \in Seq(S), NEW r \in Seq(S), NEW m \in S
  PROVE  q \o Append(r, m) = Append(q \o r, m)
<1> DEFINE a == q \o Append(r, m)
           b == Append(q \o r, m)
<1>1. Len(q) \in Nat /\ Len(r) \in Nat
  BY LenProperties
<1>2. /\ Append(r, m) \in Seq(S) /\ Len(Append(r, m)) = Len(r) + 1
      /\ \A i \in 1 .. Len(r) : Append(r, m)[i] = r[i]
      /\ Append(r, m)[Len(r) + 1] = m
  BY AppendProperties
<1>3. /\ q \o r \in Seq(S) /\ Len(q \o r) = Len(q) + Len(r)
      /\ \A i \in 1 .. Len(q) + Len(r) :
           (q \o r)[i] = IF i <= Len(q) THEN q[i] ELSE r[i - Len(q)]
  BY ConcatProperties
<1>4. /\ a \in Seq(S) /\ Len(a) = Len(q) + (Len(r) + 1)
      /\ \A i \in 1 .. Len(q) + (Len(r) + 1) :
           a[i] = IF i <= Len(q) THEN q[i] ELSE Append(r, m)[i - Len(q)]
  BY <1>2, ConcatProperties
<1>5. /\ b \in Seq(S) /\ Len(b) = Len(q) + Len(r) + 1
      /\ \A i \in 1 .. Len(q) + Len(r) : b[i] = (q \o r)[i]
      /\ b[Len(q) + Len(r) + 1] = m
  BY <1>3, AppendProperties
<1> HIDE DEF a, b
<1>6. ASSUME NEW i \in 1 .. Len(q) + Len(r) + 1 PROVE a[i] = b[i]
  <2>1. CASE i = Len(q) + Len(r) + 1
    <3>1. i - Len(q) = Len(r) + 1 /\ ~ (i <= Len(q))
      BY <1>1, <2>1
    <3> QED  BY <1>1, <1>2, <1>4, <1>5, <2>1, <3>1
  <2>2. CASE i # Len(q) + Len(r) + 1 /\ i <= Len(q)
    <3>1. i \in 1 .. Len(q) + Len(r) /\ i \in 1 .. Len(q) + (Len(r) + 1) /\ i <= Len(q)
      BY <1>1, <2>2
    <3>2. a[i] = q[i]
      BY <1>4, <3>1
    <3>3. b[i] = (q \o r)[i]
      BY <1>5, <3>1
    <3>4. (q \o r)[i] = q[i]
      BY <1>3, <3>1
    <3> QED  BY <3>2, <3>3, <3>4
  <2>3. CASE i # Len(q) + Len(r) + 1 /\ ~ (i <= Len(q))
    <3>1. i - Len(q) \in 1 .. Len(r)
      BY <1>1, <2>3
    <3> QED  BY <1>1, <1>2, <1>3, <1>4, <1>5, <2>3, <3>1
  <2> QED  BY <2>1, <2>2, <2>3
<1>7. Len(a) = Len(b) /\ \A i \in 1 .. Len(a) : a[i] = b[i]
  BY <1>1, <1>4, <1>5, <1>6
<1>8. a = b
  BY <1>4, <1>5, <1>7, SeqEqual
<1> QED  BY <1>8 DEF a, b

\* What is taken from the second of two sequences and added to the first.
LEMMA ConcatMove ==
  ASSUME NEW S, NEW q \in Seq(S), NEW r \in Seq(S), r # << >>
  PROVE  Append(q, Head(r)) \o Tail(r) = q \o r
<1> DEFINE h == Head(r)
           rest == Tail(r)
           a == Append(q, h) \o rest
           b == q \o r
<1>1. /\ h \in S /\ h = r[1] /\ rest \in Seq(S) /\ Len(rest) = Len(r) - 1
      /\ \A i \in 1 .. Len(rest) : rest[i] = r[i + 1]
  BY HeadTailProperties
<1>2. Len(q) \in Nat /\ Len(r) \in Nat /\ Len(r) >= 1
  BY LenProperties, EmptySeq
<1> HIDE DEF h, rest
<1>3. /\ Append(q, h) \in Seq(S) /\ Len(Append(q, h)) = Len(q) + 1
      /\ \A i \in 1 .. Len(q) : Append(q, h)[i] = q[i]
      /\ Append(q, h)[Len(q) + 1] = h
  BY <1>1, AppendProperties
<1>4. /\ a \in Seq(S) /\ Len(a) = Len(q) + Len(r)
      /\ \A i \in 1 .. Len(q) + Len(r) :
           a[i] = IF i <= Len(q) + 1 THEN Append(q, h)[i] ELSE rest[i - (Len(q) + 1)]
  <2> DEFINE p == Append(q, h)
  <2>1. p \in Seq(S) /\ Len(p) = Len(q) + 1
    BY <1>3
  <2> HIDE DEF p
  <2>2. /\ p \o rest \in Seq(S)
        /\ Len(p \o rest) = Len(p) + Len(rest)
        /\ \A i \in 1 .. Len(p) + Len(rest) :
             (p \o rest)[i] = IF i <= Len(p) THEN p[i] ELSE rest[i - Len(p)]
    BY <1>1, <2>1, ConcatProperties
  <2>3. Len(p) + Len(rest) = Len(q) + Len(r)
    BY <1>1, <1>2, <2>1
  <2> QED  BY <2>1, <2>2, <2>3 DEF p
<1>5. /\ b \in Seq(S) /\ Len(b) = Len(q) + Len(r)
      /\ \A i \in 1 .. Len(q) + Len(r) :
           b[i] = IF i <= Len(q) THEN q[i] ELSE r[i - Len(q)]
  BY ConcatProperties
<1> HIDE DEF a, b
<1>6. ASSUME NEW i \in 1 .. Len(q) + Len(r) PROVE a[i] = b[i]
  <2>1. CASE i = Len(q) + 1
    <3>1. i - Len(q) = 1 /\ ~ (i <= Len(q)) /\ i <= Len(q) + 1
      BY <1>2, <2>1
    <3> QED  BY <1>1, <1>3, <1>4, <1>5, <2>1, <3>1
  <2>2. CASE i <= Len(q)
    <3>1. i \in 1 .. Len(q) /\ i <= Len(q) + 1
      BY <1>2, <2>2
    <3> QED  BY <1>3, <1>4, <1>5, <2>2, <3>1
  <2>3. CASE i # Len(q) + 1 /\ ~ (i <= Len(q))
    <3>1. /\ ~ (i <= Len(q) + 1) /\ i - (Len(q) + 1) \in 1 .. Len(rest)
          /\ (i - (Len(q) + 1)) + 1 = i - Len(q)
      BY <1>1, <1>2, <2>3
    <3>2. a[i] = rest[i - (Len(q) + 1)] /\ b[i] = r[i - Len(q)]
      BY <1>4, <1>5, <2>3, <3>1
    <3>3. rest[i - (Len(q) + 1)] = r[(i - (Len(q) + 1)) + 1]
      BY <1>1, <3>1
    <3> QED  BY <3>1, <3>2, <3>3
  <2> QED  BY <2>1, <2>2, <2>3
<1>7. a = b
  BY <1>4, <1>5, <1>6, SeqEqual
<1> QED  BY <1>7 DEF a, b, h, rest

\* A set of numbers that is not empty has a least one.
LEMMA Least ==
  ASSUME NEW S \in SUBSET Nat, S # {}
  PROVE  Min(S) \in S /\ \A i \in S : Min(S) <= i
<1>1. PICK i \in S : \A j \in S : ~ (<<j, i>> \in OpToRel(<, Nat))
  BY NatLessThanWellFounded, WFMin
<1>2. \A j \in S : i <= j
  <2> SUFFICES ASSUME NEW j \in S, j < i PROVE FALSE
    OBVIOUS
  <2>1. <<j, i>> \in OpToRel(<, Nat)
    BY DEF OpToRel
  <2> QED  BY <1>1, <2>1
<1> QED  BY <1>2 DEF Min

-----------------------------------------------------------------------------
(***************************************************************************)
(* The loop over the senders.                                              *)
(***************************************************************************)

\* Vec::swap_remove takes one element out and moves none of those before it.
LEMMA SwapRemoved ==
  ASSUME NEW S, NEW q \in Seq(S), IsInjective(q), NEW k \in 1 .. Len(q)
  PROVE  /\ SwapRemove(q, k) \in Seq(S) /\ IsInjective(SwapRemove(q, k))
         /\ Len(SwapRemove(q, k)) = Len(q) - 1
         /\ \A j \in 1 .. k - 1 : SwapRemove(q, k)[j] = q[j]
         /\ Range(SwapRemove(q, k)) = Range(q) \ {q[k]}
<1> DEFINE n == Len(q)
           e == [q EXCEPT ![k] = Last(q)]
           r == SwapRemove(q, k)
<1>1. /\ n \in Nat /\ k \in Nat /\ n >= 1 /\ DOMAIN q = 1 .. n
      /\ \A j \in 1 .. n : q[j] \in S
  BY LenProperties
<1>2. /\ e \in Seq(S) /\ Len(e) = n
      /\ \A j \in 1 .. n : e[j] = IF j = k THEN q[n] ELSE q[j]
  <2>1. Last(q) \in S /\ Last(q) = q[n]
    BY <1>1 DEF Last
  <2> QED  BY <2>1, ExceptSeq
<1>3. /\ r \in Seq(S) /\ Len(r) = n - 1
      /\ \A j \in 1 .. n - 1 : r[j] = e[j]
  <2>1. r = SubSeq(e, 1, n - 1)
    BY <1>2 DEF SwapRemove, Front
  <2>2. \A i \in 1 .. n - 1 : e[i] \in S
    BY <1>1, <1>2
  <2>3. 1 \in Int /\ n - 1 \in Int
    BY <1>1
  <2> HIDE DEF e, n, r
  <2>4. /\ SubSeq(e, 1, n - 1) \in Seq(S)
        /\ Len(SubSeq(e, 1, n - 1)) = IF 1 <= n - 1 THEN (n - 1) - 1 + 1 ELSE 0
        /\ \A i \in 1 .. (n - 1) - 1 + 1 : SubSeq(e, 1, n - 1)[i] = e[1 + i - 1]
    BY <2>2, <2>3, SubSeqProperties
  <2> QED  BY <1>1, <2>1, <2>4
<1> HIDE DEF e, n, r
<1>4. DOMAIN r = 1 .. n - 1 /\ \A j \in 1 .. n - 1 : r[j] = IF j = k THEN q[n] ELSE q[j]
  <2>1. DOMAIN r = 1 .. n - 1
    BY <1>3, LenProperties
  <2>2. \A j \in 1 .. n - 1 : j \in 1 .. n
    BY <1>1
  <2> QED  BY <1>2, <1>3, <2>1, <2>2
<1>5. k \in 1 .. n
  BY DEF n
<1>6. IsInjective(r)
  <2> SUFFICES ASSUME NEW i \in 1 .. n - 1, NEW j \in 1 .. n - 1, r[i] = r[j]
               PROVE  i = j
    BY <1>4 DEF IsInjective
  <2>1. i \in 1 .. n /\ j \in 1 .. n /\ n \in 1 .. n /\ i # n /\ j # n
    BY <1>1
  <2> QED  BY <1>1, <1>4, <2>1 DEF IsInjective
<1>7. \A j \in 1 .. k - 1 : r[j] = q[j]
  BY <1>1, <1>4, <1>5
<1>8. Range(r) = Range(q) \ {q[k]}
  <2>1. ASSUME NEW j \in 1 .. n - 1 PROVE r[j] \in Range(q) \ {q[k]}
    <3>1. j \in 1 .. n /\ n \in 1 .. n /\ j # n
      BY <1>1
    <3>2. CASE j = k
      <4>1. r[j] = q[n] /\ q[n] # q[k]
        BY <1>1, <1>4, <3>1, <3>2 DEF IsInjective
      <4> QED  BY <1>1, <3>1, <4>1 DEF Range
    <3>3. CASE j # k
      <4>1. r[j] = q[j] /\ q[j] # q[k]
        BY <1>1, <1>4, <1>5, <3>1, <3>3 DEF IsInjective
      <4> QED  BY <1>1, <3>1, <4>1 DEF Range
    <3> QED  BY <3>2, <3>3
  <2>2. ASSUME NEW j \in 1 .. n, q[j] # q[k] PROVE q[j] \in Range(r)
    <3>1. CASE j = n
      <4>1. k \in 1 .. n - 1 /\ r[k] = q[j]
        BY <1>1, <1>4, <1>5, <2>2, <3>1
      <4> QED  BY <1>4, <4>1 DEF Range
    <3>2. CASE j # n
      <4>1. j \in 1 .. n - 1 /\ r[j] = q[j]
        BY <1>1, <1>4, <2>2, <3>2
      <4> QED  BY <1>4, <4>1 DEF Range
    <3> QED  BY <3>1, <3>2
  <2>3. Range(r) = {r[j] : j \in 1 .. n - 1} /\ Range(q) = {q[j] : j \in 1 .. n}
    BY <1>1, <1>4 DEF Range
  <2> QED  BY <2>1, <2>2, <2>3
<1> QED  BY <1>3, <1>6, <1>7, <1>8 DEF n, r

\* f is what the loop has done after each of its first k turns.
IsTold(senders, v, f, k) ==
  f = [i \in 0 .. k |-> IF i = 0 THEN Untold(senders)
                        ELSE Send(f[i - 1], Len(senders) + 1 - i, v)]

LEMMA ToldExists ==
  ASSUME NEW senders, NEW v, Len(senders) \in Nat
  PROVE  \E f : IsTold(senders, v, f, Len(senders))
<1> DEFINE n == Len(senders)
           Without == {k \in 0 .. n : ~ \E f : IsTold(senders, v, f, k)}
<1>1. CASE Without = {}
  BY <1>1
<1>2. CASE Without # {}
  <2>1. PICK k \in Without : \A j \in Without : k <= j
    <3>1. Without \in SUBSET Nat
      OBVIOUS
    <3> HIDE DEF Without
    <3> QED  BY <1>2, <3>1, Least
  <2>2. k # 0
    <3>1. IsTold(senders, v, [i \in 0 .. 0 |-> Untold(senders)], 0)
      BY DEF IsTold
    <3> QED  BY <3>1, <2>1
  <2>3. k - 1 \in 0 .. n /\ ~ (k <= k - 1) /\ k \in Nat
    BY <2>1, <2>2
  <2>4. PICK f : IsTold(senders, v, f, k - 1)
    BY <2>1, <2>3
  <2> DEFINE last == Send(f[k - 1], Len(senders) + 1 - k, v)
             g == [i \in 0 .. k |-> IF i = k THEN last ELSE f[i]]
  <2>5. ASSUME NEW i \in 0 .. k
        PROVE  g[i] = IF i = 0 THEN Untold(senders)
                      ELSE Send(g[i - 1], Len(senders) + 1 - i, v)
    <3>1. CASE i = k
      <4>1. g[k - 1] = f[k - 1]
        BY <2>2, <2>3
      <4> QED  BY <2>2, <3>1, <4>1
    <3>2. CASE i # k
      <4>1. i \in 0 .. k - 1 /\ (i # 0 => i - 1 \in 0 .. k /\ i - 1 # k)
        BY <2>3, <3>2
      <4>2. f[i] = IF i = 0 THEN Untold(senders)
                   ELSE Send(f[i - 1], Len(senders) + 1 - i, v)
        BY <2>4, <4>1 DEF IsTold
      <4>3. g[i] = f[i] /\ (i # 0 => g[i - 1] = f[i - 1])
        BY <3>2, <4>1
      <4> QED  BY <4>2, <4>3
    <3> QED  BY <3>1, <3>2
  <2>6. IsTold(senders, v, g, k)
    <3>1. g = [i \in 0 .. k |-> g[i]]
      OBVIOUS
    <3> HIDE DEF g
    <3> QED  BY <2>5, <3>1 DEF IsTold
  <2> QED  BY <2>1, <2>6
<1> QED  BY <1>1, <1>2

LEMMA TellIsTold ==
  ASSUME NEW senders, NEW v, Len(senders) \in Nat
  PROVE  \E f : /\ IsTold(senders, v, f, Len(senders))
                /\ Tell(senders, v) = f[Len(senders)]
<1> DEFINE f == CHOOSE told : told = [i \in 0 .. Len(senders) |->
             IF i = 0 THEN Untold(senders)
             ELSE Send(told[i - 1], Len(senders) + 1 - i, v)]
<1>1. IsTold(senders, v, f, Len(senders))
  <2>1. \E told : told = [i \in 0 .. Len(senders) |->
             IF i = 0 THEN Untold(senders)
             ELSE Send(told[i - 1], Len(senders) + 1 - i, v)]
    <3>1. PICK g : IsTold(senders, v, g, Len(senders))
      BY ToldExists
    <3> QED  BY <3>1, Zenon DEF IsTold
  <2>2. f = [i \in 0 .. Len(senders) |->
             IF i = 0 THEN Untold(senders)
             ELSE Send(f[i - 1], Len(senders) + 1 - i, v)]
    BY <2>1, Zenon
  <2> HIDE DEF f
  <2> QED  BY <2>2, Zenon DEF IsTold
<1>2. Tell(senders, v) = f[Len(senders)]
  BY DEF Tell
<1> HIDE DEF f
<1> QED  BY <1>1, <1>2

\* The channels hold versions and are no longer than they may be.
Channels(ch) ==
  /\ ch \in [Subscriber -> Seq(Version)]
  /\ \A x \in Subscriber : Len(ch[x]) <= Buffer + 1

\* What has become of the list while its first k senders were not visited yet.
Kept(senders, k, w) ==
  /\ w = [senders |-> w.senders, chan |-> w.chan, panic |-> w.panic]
  /\ w.senders \in Seq(Subscriber) /\ IsInjective(w.senders)
  /\ k <= Len(w.senders)
  /\ \A j \in 1 .. k : w.senders[j] = senders[j]
  /\ Range(w.senders) \subseteq Range(senders)
  /\ \A x \in Range(senders) : Open(x) => x \in Range(w.senders)

\* What has become of the channels when the senders in V were visited.
Sent(senders, v, V, w) ==
  /\ Channels(w.chan)
  /\ w.panic \in BOOLEAN
  /\ ~w.panic => \A x \in Subscriber :
       w.chan[x] = IF x \in V /\ Open(x) THEN Append(chan[x], v) ELSE chan[x]
  /\ w.panic => \E x \in Range(senders) : Open(x) /\ Full(chan[x])

LEMMA SendTurn ==
  ASSUME SubscriptionsAssumption, Channels(chan),
         NEW senders \in Seq(Subscriber), IsInjective(senders),
         NEW v \in Version, NEW k \in 1 .. Len(senders),
         NEW V, senders[k] \notin V, NEW w, Kept(senders, k, w), Sent(senders, v, V, w)
  PROVE  /\ Kept(senders, k - 1, Send(w, k, v))
         /\ Sent(senders, v, V \cup {senders[k]}, Send(w, k, v))
<1> DEFINE next == Send(w, k, v)
           x == senders[k]
<1>1. /\ Buffer \in Nat /\ k \in Nat /\ k - 1 < k
      /\ x \in Subscriber /\ x \in Range(senders)
  BY LenProperties DEF SubscriptionsAssumption, Range
<1>2. /\ w = [senders |-> w.senders, chan |-> w.chan, panic |-> w.panic]
      /\ w.senders \in Seq(Subscriber) /\ IsInjective(w.senders)
      /\ Len(w.senders) \in Nat
      /\ k <= Len(w.senders) /\ k \in 1 .. Len(w.senders)
      /\ w.senders[k] = x
      /\ \A j \in 1 .. k - 1 : w.senders[j] = senders[j]
      /\ Range(w.senders) \subseteq Range(senders)
      /\ \A y \in Range(senders) : Open(y) => y \in Range(w.senders)
  BY LenProperties DEF Kept
<1>3. /\ w.chan \in [Subscriber -> Seq(Version)]
      /\ \A y \in Subscriber : Len(w.chan[y]) <= Buffer + 1
      /\ w.panic \in BOOLEAN
  BY DEF Sent, Channels
<1> HIDE DEF x
<1>4. CASE w.panic
  <2>1. next = w
    BY <1>4 DEF Send
  <2>2. Kept(senders, k - 1, next)
    BY <1>1, <1>2, <2>1 DEF Kept
  <2>3. Sent(senders, v, V \cup {x}, next)
    BY <1>4, <2>1 DEF Sent
  <2> QED  BY <2>2, <2>3 DEF x
<1>5. CASE ~w.panic /\ ~Open(x)
  <2> DEFINE rest == SwapRemove(w.senders, k)
  <2>1. next = [senders |-> rest, chan |-> w.chan, panic |-> w.panic]
    BY <1>2, <1>5 DEF Send
  <2>2. /\ rest \in Seq(Subscriber) /\ IsInjective(rest)
        /\ Len(rest) = Len(w.senders) - 1
        /\ \A j \in 1 .. k - 1 : rest[j] = w.senders[j]
        /\ Range(rest) = Range(w.senders) \ {x}
    <3> DEFINE q == w.senders
    <3>1. q \in Seq(Subscriber) /\ IsInjective(q) /\ k \in 1 .. Len(q) /\ q[k] = x
      BY <1>2
    <3> HIDE DEF q
    <3>2. /\ SwapRemove(q, k) \in Seq(Subscriber) /\ IsInjective(SwapRemove(q, k))
          /\ Len(SwapRemove(q, k)) = Len(q) - 1
          /\ \A j \in 1 .. k - 1 : SwapRemove(q, k)[j] = q[j]
          /\ Range(SwapRemove(q, k)) = Range(q) \ {q[k]}
      BY <3>1, SwapRemoved
    <3> QED  BY <3>1, <3>2 DEF q
  <2> HIDE DEF rest
  <2>3. k - 1 <= Len(rest)
    BY <1>1, <1>2, <2>2
  <2>4. Kept(senders, k - 1, next)
    BY <1>2, <1>5, <2>1, <2>2, <2>3 DEF Kept
  <2>5. Sent(senders, v, V \cup {x}, next)
    BY <1>5, <2>1 DEF Sent
  <2> QED  BY <2>4, <2>5 DEF x
<1>6. CASE ~w.panic /\ Open(x) /\ Full(w.chan[x])
  <2>1. next = [senders |-> w.senders, chan |-> w.chan, panic |-> TRUE]
    BY <1>2, <1>6 DEF Send
  <2>2. w.chan[x] = chan[x]
    BY <1>1, <1>6 DEF Sent, x
  <2>3. Sent(senders, v, V \cup {x}, next)
    BY <1>1, <1>3, <1>6, <2>1, <2>2 DEF Sent, Channels
  <2>4. Kept(senders, k - 1, next)
    BY <1>1, <1>2, <2>1 DEF Kept
  <2> QED  BY <2>3, <2>4 DEF x
<1>7. CASE ~w.panic /\ Open(x) /\ ~Full(w.chan[x])
  <2> DEFINE ch == [w.chan EXCEPT ![x] = Append(@, v)]
  <2>1. next = [senders |-> w.senders, chan |-> ch, panic |-> w.panic]
    BY <1>2, <1>7 DEF Send
  <2>2. w.chan[x] = chan[x]
    BY <1>1, <1>7 DEF Sent, x
  <2>3. /\ Append(chan[x], v) \in Seq(Version)
        /\ Len(Append(chan[x], v)) <= Buffer + 1
    <3>1. chan[x] \in Seq(Version) /\ Len(chan[x]) \in Nat
      BY <1>1, LenProperties DEF Channels
    <3>2. Len(Append(chan[x], v)) = Len(chan[x]) + 1
      BY <3>1, AppendProperties
    <3>3. Len(chan[x]) <= Buffer
      BY <1>1, <1>7, <2>2, <3>1 DEF Full
    <3> QED  BY <1>1, <3>1, <3>2, <3>3, AppendProperties
  <2>4. \A y \in Subscriber :
          ch[y] = IF y = x THEN Append(chan[x], v) ELSE w.chan[y]
    BY <1>3, <2>2
  <2>5. Channels(ch)
    BY <1>1, <1>3, <2>2, <2>3, <2>4 DEF Channels
  <2> HIDE DEF ch
  <2>6. Sent(senders, v, V \cup {x}, next)
    BY <1>7, <2>1, <2>4, <2>5 DEF Sent
  <2>7. Kept(senders, k - 1, next)
    BY <1>1, <1>2, <2>1 DEF Kept
  <2> QED  BY <2>6, <2>7 DEF x
<1> QED  BY <1>3, <1>4, <1>5, <1>6, <1>7 DEF x

\* The whole loop: everyone who listens is told once, or somebody who listens
\* had no room.
LEMMA TellTold ==
  ASSUME SubscriptionsAssumption, Channels(chan),
         NEW senders \in Seq(Subscriber), IsInjective(senders),
         NEW v \in Version
  PROVE  /\ Kept(senders, 0, Tell(senders, v))
         /\ Sent(senders, v, Range(senders), Tell(senders, v))
<1> DEFINE n == Len(senders)
           Visited(i) == {senders[j] : j \in n + 1 - i .. n}
           Good(i, w) == /\ Kept(senders, n - i, w)
                         /\ Sent(senders, v, Visited(i), w)
<1>1. n \in Nat /\ DOMAIN senders = 1 .. n
  BY LenProperties
<1>2. Visited(n) = Range(senders)
  <2>1. n + 1 - n .. n = 1 .. n
    BY <1>1
  <2> QED  BY <1>1, <2>1 DEF Range
<1>3. PICK f : IsTold(senders, v, f, n) /\ Tell(senders, v) = f[n]
  BY <1>1, TellIsTold
<1>4. /\ f[0] = Untold(senders)
      /\ \A i \in 1 .. n : f[i] = Send(f[i - 1], n + 1 - i, v)
  <2> HIDE DEF n
  <2>1. \A i \in 0 .. n : f[i] = IF i = 0 THEN Untold(senders)
                                ELSE Send(f[i - 1], n + 1 - i, v)
    BY <1>3, Zenon DEF IsTold, n
  <2>2. 0 \in 0 .. n /\ \A i \in 1 .. n : i \in 0 .. n /\ i # 0
    BY <1>1
  <2> QED  BY <2>1, <2>2
<1>5. Good(0, f[0])
  <2>1. Visited(0) = {}
    BY <1>1
  <2>2. /\ f[0] = [senders |-> senders, chan |-> chan, panic |-> FALSE]
        /\ f[0].senders = senders /\ f[0].chan = chan /\ f[0].panic = FALSE
    BY <1>4 DEF Untold
  <2>3. Kept(senders, n - 0, f[0])
    BY <1>1, <2>2 DEF Kept
  <2>4. Sent(senders, v, {}, f[0])
    BY <2>2 DEF Sent
  <2> QED  BY <2>1, <2>3, <2>4
<1>6. ASSUME NEW i \in 1 .. n, Good(i - 1, f[i - 1])
      PROVE  Good(i, f[i])
  <2> DEFINE k == n + 1 - i
             V == Visited(i - 1)
             w == f[i - 1]
  <2>1. k \in 1 .. n /\ n - (i - 1) = k /\ n - i = k - 1
    BY <1>1
  <2>2. Kept(senders, k, w) /\ Sent(senders, v, V, w)
    BY <1>6, <2>1
  <2>3. senders[k] \notin V
    <3>1. \A j \in n + 1 - (i - 1) .. n : j \in 1 .. n /\ j # k
      BY <1>1
    <3> QED  BY <1>1, <2>1, <3>1 DEF IsInjective
  <2>4. Visited(i) = V \cup {senders[k]}
    <3>1. n + 1 - i .. n = (n + 1 - (i - 1) .. n) \cup {k}
      BY <1>1
    <3> QED  BY <3>1
  <2>5. f[i] = Send(w, k, v)
    BY <1>4
  <2> HIDE DEF V, w, k
  <2>6. /\ Kept(senders, k - 1, Send(w, k, v))
        /\ Sent(senders, v, V \cup {senders[k]}, Send(w, k, v))
    BY <2>1, <2>2, <2>3, SendTurn
  <2> QED  BY <2>1, <2>4, <2>5, <2>6
<1> HIDE DEF Good
<1>7. Good(n, f[n])
  <2> DEFINE Bad == {i \in 0 .. n : ~Good(i, f[i])}
  <2>1. CASE Bad = {}
    BY <1>1, <2>1
  <2>2. CASE Bad # {}
    <3>1. PICK i \in Bad : \A j \in Bad : i <= j
      <4>1. Bad \in SUBSET Nat
        OBVIOUS
      <4> HIDE DEF Bad
      <4> QED  BY <2>2, <4>1, Least
    <3>2. i # 0
      BY <1>5, <3>1
    <3>3. i \in 1 .. n /\ i - 1 \in 0 .. n /\ ~ (i <= i - 1)
      BY <1>1, <3>1, <3>2
    <3> QED  BY <1>6, <3>1, <3>3
  <2> QED  BY <2>1, <2>2
<1>8. n - n = 0
  BY <1>1
<1> QED  BY <1>2, <1>3, <1>7, <1>8 DEF Good

-----------------------------------------------------------------------------
(***************************************************************************)
(* The subscribers.                                                        *)
(***************************************************************************)
At == {"away", "found", "opened", "listed", "gone"}

\* What has no part in the channels and the lists.
PlainInv ==
  /\ edits \in Version
  /\ coming \in [Memo -> 0 .. Routes]
  /\ thread \in [Thread -> {Idle, Dead} \cup Memo]
  /\ poisoned \in BOOLEAN
  /\ at \in [Subscriber -> At]
  /\ stash \in [Context -> Version] /\ head \in [Observer -> Version]

ChannelsInv ==
  /\ Channels(chan)
  /\ got \in [Subscriber -> Seq(Version)]
  /\ due \in [Subscriber -> Seq(Version)]

Concerned(kind) == IF kind = "index" THEN Context ELSE Observer

\* The lists have everyone who listens, once, and some who have left.
ListInv ==
  /\ list \in [record : Seq(Subscriber), index : Seq(Subscriber)]
  /\ \A kind \in {"record", "index"} :
       /\ IsInjective(list[kind])
       /\ Range(list[kind]) \subseteq Concerned(kind)
       /\ \A x \in Range(list[kind]) : at[x] \in {"listed", "gone"}
       /\ \A x \in Concerned(kind) : at[x] = "listed" => x \in Range(list[kind])

\* Nothing was taken before there was something to take.
FreshInv ==
  \A x \in Subscriber : at[x] \in {"away", "found", "opened"} => got[x] = << >>

ToldInv ==
  ~poisoned => \A x \in Subscriber : got[x] \o chan[x] = due[x]

IInv == PlainInv /\ ChannelsInv /\ ListInv /\ FreshInv /\ ToldInv

LEMMA InitIInv == Init => IInv
<1> SUFFICES ASSUME Init PROVE IInv
  OBVIOUS
<1>1. PlainInv
  <2>1. 0 \in Version /\ 0 \in 0 .. Routes
    BY SubscriptionsAssumption DEF Version
  <2>2. at \in [Subscriber -> At]
    BY DEF Init, At
  <2>3. coming \in [Memo -> 0 .. Routes] /\ thread \in [Thread -> {Idle, Dead} \cup Memo]
    BY <2>1 DEF Init
  <2> QED  BY <2>1, <2>2, <2>3 DEF Init, PlainInv
<1>2. ChannelsInv /\ FreshInv
  BY SubscriptionsAssumption DEF Init, ChannelsInv, Channels, FreshInv
<1>3. ToldInv
  <2>1. << >> \o << >> = << >>
    OBVIOUS
  <2> QED  BY <2>1 DEF Init, ToldInv
<1>4. ListInv
  <2> DEFINE q == SetToSeq(Context)
             n == Cardinality(Context)
  <2>1. /\ q \in [1 .. n -> Context] /\ IsInjective(q) /\ n \in Nat
        /\ Range(q) = Context
    <3>1. PICK f \in Bijection(1 .. n, Context) : n \in Nat
      BY SubscriptionsAssumption, FS_CardinalityType DEF ExistsBijection
    <3>2. f \in [1 .. n -> Context] /\ IsInjective(f)
      BY <3>1 DEF Bijection, Injection
    <3>3. q \in [1 .. n -> Context] /\ IsInjective(q)
      BY <3>2 DEF SetToSeq
    <3>4. q \in Surjection(1 .. n, Context)
      <4>1. IsFiniteSet(1 .. n) /\ Cardinality(1 .. n) = Cardinality(Context)
        BY <3>1, FS_Interval
      <4>2. q \in Injection(1 .. n, Context)
        BY <3>3 DEF Injection
      <4> QED  BY <4>1, <4>2, SubscriptionsAssumption, FS_Injection
    <3>5. Range(q) = Context
      BY <3>3, <3>4 DEF Surjection, Range
    <3> QED  BY <3>1, <3>3, <3>5
  <2> HIDE DEF q, n
  <2>2. q \in Seq(Subscriber)
    <3>1. q \in [1 .. n -> Subscriber]
      BY <2>1 DEF Subscriber
    <3> QED  BY <2>1, <3>1, SeqDef
  <2>3. << >> \in Seq(Subscriber) /\ IsInjective(<< >>) /\ Range(<< >>) = {}
    BY DEF IsInjective, Range
  <2>4. /\ list = [record |-> << >>, index |-> q]
        /\ list["record"] = << >> /\ list["index"] = q
    BY DEF Init, q
  <2>5. /\ \A x \in Context : at[x] = "listed"
        /\ \A x \in Observer : at[x] = "away"
    BY SubscriptionsAssumption DEF Init, Subscriber
  <2>6. list \in [record : Seq(Subscriber), index : Seq(Subscriber)]
    BY <2>2, <2>3, <2>4
  <2>7. ASSUME NEW kind \in {"record", "index"}
        PROVE  /\ IsInjective(list[kind])
               /\ Range(list[kind]) \subseteq Concerned(kind)
               /\ \A x \in Range(list[kind]) : at[x] \in {"listed", "gone"}
               /\ \A x \in Concerned(kind) : at[x] = "listed" => x \in Range(list[kind])
    <3>1. CASE kind = "record"
      BY <2>3, <2>4, <2>5, <3>1 DEF Concerned
    <3>2. CASE kind = "index"
      BY <2>1, <2>4, <2>5, <3>2 DEF Concerned
    <3> QED  BY <3>1, <3>2
  <2> QED  BY <2>6, <2>7 DEF ListInv
<1> QED  BY <1>1, <1>2, <1>3, <1>4 DEF IInv

\* A subscriber goes: the receiver is dropped with what is in the channel.
LEMMA LeaveIInv ==
  ASSUME IInv, NEW x \in Subscriber, at[x] \in {"opened", "listed"}, Leave(x),
         UNCHANGED <<edits, coming, thread, poisoned, list, stash, head>>
  PROVE  IInv'
<1>1. /\ at' = [at EXCEPT ![x] = "gone"]
      /\ chan' = [chan EXCEPT ![x] = << >>]
      /\ got' = [got EXCEPT ![x] = << >>]
      /\ due' = [due EXCEPT ![x] = << >>]
  BY DEF Leave
<1>2. PlainInv'
  BY <1>1 DEF IInv, PlainInv, At
<1>3. ChannelsInv'
  BY <1>1, SubscriptionsAssumption DEF IInv, ChannelsInv, Channels
<1>4. ListInv'
  <2>1. at \in [Subscriber -> At]
    BY DEF IInv, PlainInv
  <2>2. \A kind \in {"record", "index"} : Concerned(kind) \subseteq Subscriber
    BY DEF Concerned, Subscriber
  <2> QED  BY <1>1, <2>1, <2>2 DEF IInv, ListInv
<1>5. FreshInv'
  BY <1>1 DEF IInv, PlainInv, ChannelsInv, FreshInv
<1>6. ToldInv'
  <2>1. << >> \o << >> = << >>
    OBVIOUS
  <2> QED  BY <1>1, <2>1 DEF IInv, PlainInv, ChannelsInv, Channels, ToldInv
<1> QED  BY <1>2, <1>3, <1>4, <1>5, <1>6 DEF IInv

\* A subscriber that listens takes what is first in its channel.
LEMMA TakenIInv ==
  ASSUME IInv, NEW x \in Subscriber, at[x] = "listed", chan[x] # << >>,
         chan' = [chan EXCEPT ![x] = Tail(@)],
         got' = [got EXCEPT ![x] = Append(@, Head(chan[x]))],
         UNCHANGED <<edits, coming, thread, poisoned, list, at, head, due>>,
         stash' \in [Context -> Version]
  PROVE  IInv'
<1>1. /\ chan[x] \in Seq(Version) /\ got[x] \in Seq(Version)
      /\ Len(chan[x]) \in Nat /\ Len(chan[x]) <= Buffer + 1
  BY LenProperties DEF IInv, ChannelsInv, Channels
<1>2. /\ Head(chan[x]) \in Version /\ Tail(chan[x]) \in Seq(Version)
      /\ Len(Tail(chan[x])) = Len(chan[x]) - 1
  BY <1>1, HeadTailProperties
<1>3. Append(got[x], Head(chan[x])) \in Seq(Version)
  BY <1>1, <1>2, AppendProperties
<1>4. PlainInv'
  BY DEF IInv, PlainInv
<1>5. ChannelsInv'
  <2>1. Len(Tail(chan[x])) <= Buffer + 1
    BY <1>1, <1>2, SubscriptionsAssumption
  <2> QED  BY <1>2, <1>3, <2>1 DEF IInv, ChannelsInv, Channels
<1>6. ListInv'
  BY DEF IInv, ListInv
<1>7. FreshInv'
  BY DEF IInv, ChannelsInv, FreshInv
<1>8. ToldInv'
  <2>1. Append(got[x], Head(chan[x])) \o Tail(chan[x]) = got[x] \o chan[x]
    BY <1>1, ConcatMove
  <2> QED  BY <2>1 DEF IInv, ChannelsInv, Channels, ToldInv
<1> QED  BY <1>4, <1>5, <1>6, <1>7, <1>8 DEF IInv

LEMMA NotifyIInv ==
  ASSUME IInv, NEW t \in Thread, Notify(t)
  PROVE  IInv'
<1>1. CASE poisoned
  <2>1. thread' = [thread EXCEPT ![t] = Dead]
        /\ UNCHANGED <<edits, coming, poisoned, list, chan, at, stash, head, got, due>>
    BY <1>1 DEF Notify
  <2> QED  BY <2>1 DEF IInv, PlainInv, ChannelsInv, ListInv, FreshInv, ToldInv
<1>2. CASE ~poisoned
  <2>1. PICK m : m = thread[t] /\ m \in Memo
    BY DEF Notify
  <2>2. PICK w : w = Tell(list[m.kind], m.version)
    OBVIOUS
  <2>3. /\ list' = [list EXCEPT ![m.kind] = w.senders]
        /\ chan' = w.chan
        /\ poisoned' = w.panic
        /\ thread' = [thread EXCEPT ![t] = IF w.panic THEN Dead ELSE Idle]
        /\ due' = [x \in Subscriber |->
                     IF at[x] = "listed" /\ (x \in Context <=> m.kind = "index")
                     THEN Append(due[x], m.version) ELSE due[x]]
        /\ UNCHANGED <<edits, coming, at, stash, head, got>>
    BY <1>2, <2>1, <2>2 DEF Notify
  <2>4. PICK kind : kind = m.kind
    OBVIOUS
  <2>5. PICK v : v = m.version
    OBVIOUS
  <2>6. PICK senders : senders = list[kind]
    OBVIOUS
  <2>7. /\ kind \in {"record", "index"} /\ v \in Version
        /\ senders \in Seq(Subscriber) /\ IsInjective(senders)
        /\ Range(senders) \subseteq Concerned(kind)
        /\ \A x \in Range(senders) : at[x] \in {"listed", "gone"}
        /\ \A x \in Concerned(kind) : at[x] = "listed" => x \in Range(senders)
    <3>1. kind \in {"record", "index"} /\ v \in Version
      BY <2>1, <2>4, <2>5 DEF Memo
    <3>2. list[kind] \in Seq(Subscriber)
      BY <3>1 DEF IInv, ListInv
    <3> QED  BY <2>6, <3>1, <3>2 DEF IInv, ListInv
  <2>8. Kept(senders, 0, w) /\ Sent(senders, v, Range(senders), w)
    <3>1. Channels(chan)
      BY DEF IInv, ChannelsInv
    <3>2. w = Tell(senders, v)
      BY <2>2, <2>4, <2>5, <2>6
    <3> QED  BY <2>7, <3>1, <3>2, SubscriptionsAssumption, TellTold
  <2>9. \A x \in Subscriber : x \in Concerned(kind) <=> (x \in Context <=> kind = "index")
    BY <2>7, SubscriptionsAssumption DEF Concerned, Subscriber
  <2>10. PlainInv'
    BY <2>3, <2>8 DEF IInv, PlainInv, Sent
  <2>11. ChannelsInv'
    <3>1. \A x \in Subscriber : Append(due[x], v) \in Seq(Version)
      BY <2>7, AppendProperties DEF IInv, ChannelsInv
    <3> QED  BY <2>3, <2>5, <2>8, <3>1 DEF IInv, ChannelsInv, Sent
  <2>12. ListInv'
    <3>1. w.senders \in Seq(Subscriber)
      BY <2>8 DEF Kept
    <3>2. list \in [record : Seq(Subscriber), index : Seq(Subscriber)]
      BY DEF IInv, ListInv
    <3>3. list' \in [record : Seq(Subscriber), index : Seq(Subscriber)]
      BY <2>3, <2>4, <2>7, <3>1, <3>2
    <3>4. /\ list'[kind] = w.senders
          /\ \A k \in {"record", "index"} : k # kind => list'[k] = list[k]
      BY <2>3, <2>4, <2>7, <3>2
    <3>5. ASSUME NEW k \in {"record", "index"}
          PROVE  /\ IsInjective(list'[k])
                 /\ Range(list'[k]) \subseteq Concerned(k)
                 /\ \A x \in Range(list'[k]) : at'[x] \in {"listed", "gone"}
                 /\ \A x \in Concerned(k) : at'[x] = "listed" => x \in Range(list'[k])
      <4>1. CASE k = kind
        <5>1. /\ IsInjective(w.senders) /\ Range(w.senders) \subseteq Range(senders)
              /\ \A x \in Range(senders) : at[x] = "listed" => x \in Range(w.senders)
          BY <2>8 DEF Kept, Open
        <5> QED  BY <2>3, <2>7, <3>4, <4>1, <5>1
      <4>2. CASE k # kind
        BY <2>3, <3>4, <4>2 DEF IInv, ListInv
      <4> QED  BY <4>1, <4>2
    <3> QED  BY <3>3, <3>5 DEF ListInv
  <2>13. FreshInv'
    BY <2>3 DEF IInv, FreshInv
  <2>14. ToldInv'
    <3> SUFFICES ASSUME ~poisoned', NEW x \in Subscriber
                 PROVE  got'[x] \o chan'[x] = due'[x]
      BY DEF ToldInv
    <3>1. got[x] \o chan[x] = due[x]
      BY <1>2 DEF IInv, ToldInv
    <3>2. /\ got[x] \in Seq(Version) /\ chan[x] \in Seq(Version)
      BY DEF IInv, ChannelsInv, Channels
    <3>3. chan'[x] = IF x \in Range(senders) /\ Open(x)
                     THEN Append(chan[x], v) ELSE chan[x]
      BY <2>3, <2>8 DEF Sent
    <3>4. x \in Range(senders) /\ Open(x) <=> at[x] = "listed" /\ x \in Concerned(kind)
      BY <2>7 DEF Open
    <3>5. due'[x] = IF at[x] = "listed" /\ x \in Concerned(kind)
                    THEN Append(due[x], v) ELSE due[x]
      BY <2>3, <2>4, <2>5, <2>9
    <3>6. got[x] \o Append(chan[x], v) = Append(got[x] \o chan[x], v)
      <4> DEFINE q == got[x]
                 r == chan[x]
                 S == Version
      <4>1. q \in Seq(S) /\ r \in Seq(S) /\ v \in S
        BY <2>7, <3>2
      <4> HIDE DEF q, r, S
      <4>2. q \o Append(r, v) = Append(q \o r, v)
        BY <4>1, ConcatAppend
      <4> QED  BY <4>2 DEF q, r
    <3> QED  BY <2>3, <3>1, <3>3, <3>4, <3>5, <3>6
  <2> QED  BY <2>10, <2>11, <2>12, <2>13, <2>14 DEF IInv
<1> QED  BY <1>1, <1>2

LEMMA OpenChannelIInv ==
  ASSUME IInv, NEW o \in Observer, OpenChannel(o)
  PROVE  IInv'
<1>1. /\ at[o] = "found" /\ o \in Subscriber /\ got[o] = << >>
      /\ at' = [at EXCEPT ![o] = "opened"]
      /\ chan' = [chan EXCEPT ![o] = <<head[o]>>]
      /\ due' = [due EXCEPT ![o] = <<head[o]>>]
      /\ UNCHANGED <<edits, coming, thread, poisoned, list, stash, head, got>>
  BY DEF OpenChannel, IInv, FreshInv, Subscriber
<1>2. /\ <<head[o]>> \in Seq(Version) /\ Len(<<head[o]>>) <= Buffer + 1
      /\ << >> \o <<head[o]>> = <<head[o]>>
  BY SubscriptionsAssumption DEF IInv, PlainInv
<1>3. PlainInv'
  BY <1>1 DEF IInv, PlainInv, At
<1>4. ChannelsInv'
  BY <1>1, <1>2 DEF IInv, ChannelsInv, Channels
<1>5. ListInv'
  <2>1. at \in [Subscriber -> At]
    BY DEF IInv, PlainInv
  <2>2. \A kind \in {"record", "index"} : Concerned(kind) \subseteq Subscriber
    BY DEF Concerned, Subscriber
  <2> QED  BY <1>1, <2>1, <2>2 DEF IInv, ListInv
<1>6. FreshInv'
  BY <1>1 DEF IInv, PlainInv, FreshInv
<1>7. ToldInv'
  <2> SUFFICES ASSUME ~poisoned, NEW x \in Subscriber
               PROVE  got'[x] \o chan'[x] = due'[x]
    BY <1>1 DEF ToldInv
  <2>1. chan \in [Subscriber -> Seq(Version)] /\ due \in [Subscriber -> Seq(Version)]
    BY DEF IInv, ChannelsInv, Channels
  <2>2. CASE x = o
    BY <1>1, <1>2, <2>1, <2>2
  <2>3. CASE x # o
    <3>1. chan'[x] = chan[x] /\ due'[x] = due[x] /\ got'[x] = got[x]
      BY <1>1, <2>1, <2>3
    <3> QED  BY <3>1 DEF IInv, ToldInv
  <2> QED  BY <2>2, <2>3
<1> QED  BY <1>3, <1>4, <1>5, <1>6, <1>7 DEF IInv

LEMMA ObserveEntityIInv ==
  ASSUME IInv, NEW o \in Observer, ObserveEntity(o)
  PROVE  IInv'
<1>1. at[o] = "opened" /\ o \in Subscriber
      /\ UNCHANGED <<edits, coming, thread, poisoned, stash, head>>
  BY DEF ObserveEntity, Subscriber
<1>2. CASE poisoned
  <2>1. Leave(o) /\ UNCHANGED <<edits, coming, thread, poisoned, list, stash, head>>
    BY <1>1, <1>2 DEF ObserveEntity
  <2> QED  BY <1>1, <2>1, LeaveIInv
<1>3. CASE ~poisoned
  <2> DEFINE q == list["record"]
  <2>1. /\ at' = [at EXCEPT ![o] = "listed"]
        /\ list' = [list EXCEPT !["record"] = Append(q, o)]
        /\ UNCHANGED <<chan, got, due>>
    BY <1>3 DEF ObserveEntity
  <2>2. list \in [record : Seq(Subscriber), index : Seq(Subscriber)]
    BY DEF IInv, ListInv
  <2>3. q \in Seq(Subscriber) /\ IsInjective(q) /\ o \notin Range(q)
    BY <1>1, <2>2 DEF IInv, ListInv
  <2> HIDE DEF q
  <2>4. /\ Append(q, o) \in Seq(Subscriber)
        /\ Range(Append(q, o)) = Range(q) \cup {o}
    BY <1>1, <2>3, RangeOfAppend
  <2>5. IsInjective(Append(q, o))
    BY <1>1, <2>3, InjectiveAppend
  <2>6. PlainInv'
    BY <1>1, <2>1 DEF IInv, PlainInv, At
  <2>7. ChannelsInv'
    BY <2>1 DEF IInv, ChannelsInv
  <2>8. ListInv'
    <3>1. list' \in [record : Seq(Subscriber), index : Seq(Subscriber)]
      BY <2>1, <2>2, <2>4
    <3>2. list'["record"] = Append(q, o) /\ list'["index"] = list["index"]
      BY <2>1, <2>2
    <3>3. /\ at'[o] = "listed" /\ \A x \in Subscriber : x # o => at'[x] = at[x]
          /\ o \notin Context
      BY <1>1, <2>1, SubscriptionsAssumption DEF IInv, PlainInv
    <3>4. ASSUME NEW kind \in {"record", "index"}
          PROVE  /\ IsInjective(list'[kind])
                 /\ Range(list'[kind]) \subseteq Concerned(kind)
                 /\ \A x \in Range(list'[kind]) : at'[x] \in {"listed", "gone"}
                 /\ \A x \in Concerned(kind) :
                      at'[x] = "listed" => x \in Range(list'[kind])
      <4>1. /\ IsInjective(list[kind])
            /\ Range(list[kind]) \subseteq Concerned(kind)
            /\ \A x \in Range(list[kind]) : at[x] \in {"listed", "gone"}
            /\ \A x \in Concerned(kind) : at[x] = "listed" => x \in Range(list[kind])
            /\ Concerned(kind) \subseteq Subscriber
        BY DEF IInv, ListInv, Concerned, Subscriber
      <4>2. CASE kind = "record"
        <5>1. Range(list'[kind]) = Range(list[kind]) \cup {o} /\ IsInjective(list'[kind])
              /\ o \in Concerned(kind)
          BY <2>4, <2>5, <3>2, <4>2 DEF q, Concerned
        <5> QED  BY <3>3, <4>1, <5>1
      <4>3. CASE kind = "index"
        <5>1. list'[kind] = list[kind] /\ o \notin Concerned(kind)
          BY <3>2, <3>3, <4>3 DEF Concerned
        <5> QED  BY <3>3, <4>1, <5>1
      <4> QED  BY <4>2, <4>3
    <3> QED  BY <3>1, <3>4 DEF ListInv
  <2>9. FreshInv'
    BY <1>1, <2>1 DEF IInv, PlainInv, FreshInv
  <2>10. ToldInv'
    BY <1>1, <2>1 DEF IInv, ToldInv
  <2> QED  BY <2>6, <2>7, <2>8, <2>9, <2>10 DEF IInv
<1> QED  BY <1>2, <1>3

LEMMA NextIInv == IInv /\ [Next]_vars => IInv'
<1> SUFFICES ASSUME IInv, [Next]_vars PROVE IInv'
  OBVIOUS
<1>1. CASE UNCHANGED vars
  BY <1>1 DEF vars, IInv, PlainInv, ChannelsInv, ListInv, FreshInv, ToldInv, Open
<1>2. CASE Edit
  <2>1. edits' \in Version
    BY <1>2, SubscriptionsAssumption DEF Edit, IInv, PlainInv, Version
  <2>2. coming' \in [Memo -> 0 .. Routes]
    <3>1. Routes \in 0 .. Routes
      BY SubscriptionsAssumption
    <3> QED  BY <1>2, <3>1 DEF Edit, IInv, PlainInv
  <2>3. UNCHANGED <<thread, poisoned, list, chan, at, stash, head, got, due>>
    BY <1>2 DEF Edit
  <2> QED  BY <2>1, <2>2, <2>3
           DEF IInv, PlainInv, ChannelsInv, ListInv, FreshInv, ToldInv
<1>3. ASSUME NEW t \in Thread, NEW m \in Memo, Receive(t, m) PROVE IInv'
  <2>1. coming' \in [Memo -> 0 .. Routes]
    <3>1. coming[m] \in 0 .. Routes /\ coming[m] > 0
      BY <1>3 DEF Receive, IInv, PlainInv
    <3>2. coming[m] - 1 \in 0 .. Routes
      BY <3>1, SubscriptionsAssumption
    <3> QED  BY <1>3, <3>2 DEF Receive, IInv, PlainInv
  <2>2. thread' \in [Thread -> {Idle, Dead} \cup Memo]
    BY <1>3 DEF Receive, IInv, PlainInv
  <2>3. UNCHANGED <<edits, poisoned, list, chan, at, stash, head, got, due>>
    BY <1>3 DEF Receive
  <2> QED  BY <2>1, <2>2, <2>3
           DEF IInv, PlainInv, ChannelsInv, ListInv, FreshInv, ToldInv
<1>4. ASSUME NEW t \in Thread, Notify(t) PROVE IInv'
  BY <1>4, NotifyIInv
<1>5. ASSUME NEW c \in Context, Apply(c) PROVE IInv'
  <2>1. stash' \in [Context -> Version]
    <3>1. chan[c] \in Seq(Version) /\ chan[c] # << >>
      BY <1>5 DEF Apply, IInv, ChannelsInv, Channels, Subscriber
    <3>2. Head(chan[c]) \in Version
      BY <3>1, HeadTailProperties
    <3>3. Later(stash[c], Head(chan[c])) \in Version
      BY <3>2 DEF Later, IInv, PlainInv
    <3> QED  BY <1>5, <3>3 DEF Apply, IInv, PlainInv
  <2> QED  BY <1>5, <2>1, TakenIInv DEF Apply, Subscriber
<1>6. ASSUME NEW c \in Context, ApplierFails(c) PROVE IInv'
  BY <1>6, LeaveIInv DEF ApplierFails, Subscriber
<1>7. ASSUME NEW o \in Observer, Find(o) PROVE IInv'
  <2>1. /\ at[o] = "away" /\ o \in Subscriber /\ ContextOf[o] \in Context
        /\ at' = [at EXCEPT ![o] = "found"]
        /\ head' = [head EXCEPT ![o] = stash[ContextOf[o]]]
        /\ UNCHANGED <<edits, coming, thread, poisoned, list, chan, stash, got, due>>
    BY <1>7, SubscriptionsAssumption DEF Find, Subscriber
  <2>2. PlainInv'
    BY <2>1 DEF IInv, PlainInv, At
  <2>3. ListInv'
    <3>1. at \in [Subscriber -> At]
      BY DEF IInv, PlainInv
    <3>2. \A kind \in {"record", "index"} : Concerned(kind) \subseteq Subscriber
      BY DEF Concerned, Subscriber
    <3> QED  BY <2>1, <3>1, <3>2 DEF IInv, ListInv
  <2>4. FreshInv'
    BY <2>1 DEF IInv, PlainInv, FreshInv
  <2> QED  BY <2>1, <2>2, <2>3, <2>4 DEF IInv, ChannelsInv, ToldInv
<1>8. ASSUME NEW o \in Observer, OpenChannel(o) PROVE IInv'
  BY <1>8, OpenChannelIInv
<1>9. ASSUME NEW o \in Observer, ObserveEntity(o) PROVE IInv'
  BY <1>9, ObserveEntityIInv
<1>10. ASSUME NEW o \in Observer, Take(o) PROVE IInv'
  <2>1. stash' \in [Context -> Version]
    BY <1>10 DEF Take, IInv, PlainInv
  <2> QED  BY <1>10, <2>1, TakenIInv DEF Take, Subscriber
<1>11. ASSUME NEW x \in Subscriber, Stop(x) PROVE IInv'
  BY <1>11, LeaveIInv DEF Stop
<1> QED  BY <1>1, <1>2, <1>3, <1>4, <1>5, <1>6, <1>7, <1>8, <1>9, <1>10, <1>11
         DEF Next

THEOREM SubscriptionsIInv == Spec => []IInv
BY InitIInv, NextIInv, PTL DEF Spec

-----------------------------------------------------------------------------
(***************************************************************************)
(* The variables have the values they are declared with: no channel holds  *)
(* more than its buffer and the place of its sender, no list has anybody   *)
(* twice or on the wrong side.                                             *)
(***************************************************************************)
THEOREM SubscriptionsTypeOK == Spec => []TypeOK
<1>1. IInv => TypeOK
  <2> SUFFICES ASSUME IInv PROVE TypeOK
    OBVIOUS
  <2>1. \A x \in Subscriber : Len(chan[x]) <= Buffer + 1
    BY DEF IInv, ChannelsInv, Channels
  <2>2. at \in [Subscriber -> {"away", "found", "opened", "listed", "gone"}]
    BY DEF IInv, PlainInv, At
  <2>3. \A kind \in {"record", "index"} :
          /\ IsInjective(list[kind])
          /\ ToSet(list[kind]) \subseteq (IF kind = "index" THEN Context ELSE Observer)
    BY DEF IInv, ListInv, Concerned, ToSet, Range
  <2> QED  BY <2>1, <2>2, <2>3 DEF IInv, PlainInv, TypeOK
<1> QED  BY <1>1, SubscriptionsIInv, PTL

(***************************************************************************)
(* Whoever subscribes is told of every memo that concerns it from then on, *)
(* once for each arrival and in order, whoever comes and goes meanwhile:   *)
(* striking senders off with swap_remove passes over nobody                *)
(* (SlabAgent::notify_local_subscribers).                                  *)
(***************************************************************************)
THEOREM SubscriptionsToldOnce == Spec => []EveryoneIsToldOnce
<1>1. IInv => EveryoneIsToldOnce
  BY DEF IInv, ToldInv, EveryoneIsToldOnce
<1> QED  BY <1>1, SubscriptionsIInv, PTL

(***************************************************************************)
(* What stops a slab for good is a subscriber that listens and is behind   *)
(* by a whole channel, never one that has left.                            *)
(***************************************************************************)
THEOREM SubscriptionsOnlyTheSlow == Spec => OnlyTheSlowStopIt
<1> DEFINE Slow == \E x \in Subscriber : at[x] = "listed" /\ Len(chan[x]) = Buffer + 1
<1>1. IInv /\ [Next]_vars => [~poisoned /\ poisoned' => Slow]_vars
  <2> SUFFICES ASSUME IInv, Next, ~poisoned, poisoned' PROVE Slow
    OBVIOUS
  <2>1. PICK t \in Thread : Notify(t)
    BY DEF Next, Edit, Receive, Apply, ApplierFails, Find, OpenChannel,
           ObserveEntity, Take, Stop
  <2>2. PICK m : m = thread[t] /\ m \in Memo
    BY <2>1 DEF Notify
  <2>3. PICK w : w = Tell(list[m.kind], m.version)
    OBVIOUS
  <2>4. w.panic
    BY <2>1, <2>2, <2>3 DEF Notify
  <2>5. PICK senders : senders = list[m.kind]
    OBVIOUS
  <2>6. PICK v : v = m.version
    OBVIOUS
  <2>7. /\ senders \in Seq(Subscriber) /\ IsInjective(senders) /\ v \in Version
        /\ \A x \in Range(senders) : x \in Subscriber /\ at[x] \in {"listed", "gone"}
    <3>1. m.kind \in {"record", "index"} /\ v \in Version
      BY <2>2, <2>6 DEF Memo
    <3>2. list[m.kind] \in Seq(Subscriber)
      BY <3>1 DEF IInv, ListInv
    <3> QED  BY <2>5, <3>1, <3>2 DEF IInv, ListInv, Concerned, Subscriber
  <2>8. Sent(senders, v, Range(senders), w)
    <3>1. Channels(chan)
      BY DEF IInv, ChannelsInv
    <3>2. w = Tell(senders, v)
      BY <2>3, <2>5, <2>6
    <3> QED  BY <2>7, <3>1, <3>2, SubscriptionsAssumption, TellTold
  <2>9. PICK x \in Range(senders) : Open(x) /\ Full(chan[x])
    BY <2>4, <2>8 DEF Sent
  <2>10. x \in Subscriber /\ at[x] = "listed"
    BY <2>7, <2>9 DEF Open
  <2>11. Len(chan[x]) = Buffer + 1
    <3>1. Len(chan[x]) \in Nat /\ Len(chan[x]) <= Buffer + 1 /\ Len(chan[x]) > Buffer
      BY <2>9, <2>10, LenProperties DEF IInv, ChannelsInv, Channels, Full
    <3> QED  BY <3>1, SubscriptionsAssumption
  <2> QED  BY <2>10, <2>11
<1> QED  BY <1>1, SubscriptionsIInv, PTL DEF Spec, OnlyTheSlowStopIt
=============================================================================
