------------------------- MODULE MemoExchangeProofs -------------------------
(***************************************************************************)
(* Proofs about the exchange of a memo (module MemoExchange), for any      *)
(* number of slabs and tasks and any bounds.                               *)
(***************************************************************************)
EXTENDS MemoExchange, SequenceTheorems, TLAPS

-----------------------------------------------------------------------------
(***************************************************************************)
(* Sequences.                                                              *)
(***************************************************************************)
\* An element was appended.
LEMMA RangeOfAppend ==
  ASSUME NEW S, NEW q \in Seq(S), NEW m \in S
  PROVE  /\ Append(q, m) \in Seq(S)
         /\ Range(Append(q, m)) = Range(q) \cup {m}
<1> DEFINE one == <<m>>
<1>1. one \in Seq(S) /\ Range(one) = {m} /\ Append(q, m) = q \o one
  BY AppendIsConcat DEF Range
<1> HIDE DEF one
<1> QED  BY <1>1, AppendProperties, RangeConcatenation

\* The first element was taken.
LEMMA RangeOfTail ==
  ASSUME NEW S, NEW q \in Seq(S), q # << >>
  PROVE  /\ Head(q) \in S /\ Tail(q) \in Seq(S)
         /\ Range(q) = {Head(q)} \cup Range(Tail(q))
<1> DEFINE first == <<Head(q)>>
           rest == Tail(q)
<1>1. first \in Seq(S) /\ Range(first) = {Head(q)} /\ q = first \o rest
  BY HeadTailProperties DEF Range
<1>2. Head(q) \in S /\ rest \in Seq(S)
  BY HeadTailProperties
<1> HIDE DEF first, rest
<1>3. Range(first \o rest) = Range(first) \cup Range(rest)
  BY <1>1, <1>2, RangeConcatenation
<1> QED  BY <1>1, <1>2, <1>3 DEF rest

\* Nothing is in the empty sequence, and only in that.
LEMMA RangeOfEmpty ==
  ASSUME NEW S, NEW q \in Seq(S)
  PROVE  Range(q) = {} <=> q = << >>
<1>1. Len(q) # 0 => q[1] \in Range(q)
  BY RangeEquality, LenProperties
<1> QED  BY <1>1, EmptySeq, RangeEquality

-----------------------------------------------------------------------------
(***************************************************************************)
(* What is in a queue.                                                     *)
(***************************************************************************)
Queues == [Pair -> Seq(Message)]

\* What is on its way after a message was sent.
LEMMA Sent ==
  ASSUME NEW m \in Message, NEW from, NEW to, queue \in Queues,
         Send(m, from, to)
  PROVE  /\ queue' \in Queues
         /\ \A p \in Pair :
              Range(queue'[p]) = IF p[1] = from /\ p[2] \in to
                                 THEN Range(queue[p]) \cup {m}
                                 ELSE Range(queue[p])
<1>1. ASSUME NEW p \in Pair
      PROVE  /\ queue[p] \in Seq(Message)
             /\ Append(queue[p], m) \in Seq(Message)
             /\ Range(Append(queue[p], m)) = Range(queue[p]) \cup {m}
  BY RangeOfAppend DEF Queues
<1>2. \A p \in Pair : queue'[p] = IF p[1] = from /\ p[2] \in to
                                  THEN Append(queue[p], m) ELSE queue[p]
  BY DEF Send
<1> QED  BY <1>1, <1>2 DEF Send, Queues

\* What is on its way after a message was taken.
LEMMA Taken ==
  ASSUME NEW p \in Pair, queue \in Queues, queue[p] # << >>,
         queue' = [queue EXCEPT ![p] = Tail(@)]
  PROVE  /\ queue' \in Queues
         /\ Range(queue[p]) = {Head(queue[p])} \cup Range(queue'[p])
         /\ \A o \in Pair : o # p => queue'[o] = queue[o]
<1>1. /\ Tail(queue[p]) \in Seq(Message)
      /\ Range(queue[p]) = {Head(queue[p])} \cup Range(Tail(queue[p]))
  BY RangeOfTail DEF Queues
<1> QED  BY <1>1 DEF Queues

\* What is on its way after a message was answered.
LEMMA Replied ==
  ASSUME NEW p \in Pair, NEW m \in Message, NEW to, queue \in Queues,
         queue[p] # << >>, Reply(p, m, to)
  PROVE  /\ queue' \in Queues
         /\ \A o \in Pair : Range(queue'[o]) \subseteq Range(queue[o]) \cup {m}
<1>1. /\ Tail(queue[p]) \in Seq(Message)
      /\ Range(queue[p]) = {Head(queue[p])} \cup Range(Tail(queue[p]))
  BY RangeOfTail DEF Queues
<1>2. ASSUME NEW o \in Pair
      PROVE  /\ queue[o] \in Seq(Message)
             /\ Append(queue[o], m) \in Seq(Message)
             /\ Range(Append(queue[o], m)) = Range(queue[o]) \cup {m}
  BY RangeOfAppend DEF Queues
<1> QED  BY <1>1, <1>2 DEF Reply, Queues

-----------------------------------------------------------------------------
(***************************************************************************)
(* Types.  A task that has yet to ask has tries left.                      *)
(***************************************************************************)
TriesLeft ==
  \A r \in Task : pc[r] \in {"idle", "missed", "asking"} => tries[r] < MaxTries

TypeInv == TypeOK /\ TriesLeft

PeerList == [Slab -> Status]

LEMMA PeeringIsMessage ==
  ASSUME NEW said \in PeerList, NEW citing \in BOOLEAN
  PROVE  Peering(said, citing) \in Message
BY DEF Peering, Message, PeerList

LEMMA PeerlistForType ==
  ASSUME TypeOK, NEW s \in Slab, NEW dest \in Slab
  PROVE  PeerlistFor(s, dest) \in PeerList
BY DEF TypeOK, PeerlistFor, PeerList, StatusOf, Status

LEMMA AppliedToType ==
  ASSUME NEW s \in Slab, NEW known \in PeerList, known[s] = "none",
         NEW said \in PeerList
  PROVE  /\ AppliedTo(s, known, said) \in PeerList
         /\ AppliedTo(s, known, said)[s] = "none"
BY DEF AppliedTo, PeerList

LEMMA QueuesInit == Init => queue \in Queues /\ \A p \in Pair : Range(queue[p]) = {}
<1>0. << >> \in Seq(Message)
  OBVIOUS
<1>1. Range(<< >>) = {}
  BY <1>0, RangeOfEmpty, Zenon
<1>2. ASSUME Init PROVE \A p \in Pair : queue[p] = << >>
  BY <1>2 DEF Init
<1>3. ASSUME Init PROVE queue \in Queues
  BY <1>0, <1>3 DEF Init, Queues
<1> QED  BY <1>1, <1>2, <1>3

LEMMA InitType == Init => TypeInv
<1> SUFFICES ASSUME Init PROVE TypeInv  OBVIOUS
<1> USE DEF Init
<1>1. queue \in [Pair -> Seq(Message)]
  BY QueuesInit DEF Queues
<1>2. /\ peers \in [Slab -> [Slab -> Status]]
      /\ list \in [Pair -> [Slab -> Status]]
      /\ \A s \in Slab : peers[s][s] = "none"
  BY DEF Nobody, Status
<1>3. /\ ptr \in [Slab -> {"unknown", "remote", "resident"}]
      /\ stage \in [Pair -> {"idle", "assert", "emit", "settle", "reassert"}]
      /\ pc \in [Task -> {"idle", "missed", "asking", "waiting", "found", "failed"}]
  OBVIOUS
<1>4. remotized \in [Slab -> 0 .. MaxRemotize] /\ tries \in [Task -> 0 .. MaxTries]
  BY SlabsAssumption
<1>5. /\ telling \in [Slab -> SUBSET Slab] /\ waiters \in [Slab -> SUBSET Task]
      /\ answered \in SUBSET Task
  OBVIOUS
<1>6. TriesLeft
  BY SlabsAssumption DEF TriesLeft
<1> QED  BY <1>1, <1>2, <1>3, <1>4, <1>5, <1>6 DEF TypeInv, TypeOK

LEMMA NewMemoType == TypeInv /\ NewMemo => TypeInv'
<1> SUFFICES ASSUME TypeInv, NewMemo PROVE TypeInv'  OBVIOUS
<1>1. queue' \in [Pair -> Seq(Message)]
  BY Sent DEF NewMemo, TypeInv, TypeOK, Queues, Message
<1>2. ptr' \in [Slab -> {"unknown", "remote", "resident"}]
  BY DEF NewMemo, TypeInv, TypeOK
<1> QED  BY <1>1, <1>2 DEF NewMemo, TypeInv, TypeOK, TriesLeft

LEMMA ReceiveRemoteType ==
  ASSUME TypeInv, NEW p \in Pair, ReceiveRemote(p) PROVE TypeInv'
<1>1. p[1] \in Slab /\ p[2] \in Slab
  BY DEF Pair
<1>2. queue' \in [Pair -> Seq(Message)]
  BY Taken DEF ReceiveRemote, Arrived, TypeInv, TypeOK, Queues
<1>3. /\ peers' \in [Slab -> [Slab -> Status]]
      /\ \A s \in Slab : peers'[s][s] = "none"
  <2>1. PeerlistFor(p[1], p[2]) \in PeerList
    BY <1>1, PeerlistForType DEF TypeInv
  <2>2. /\ AppliedTo(p[2], peers[p[2]], PeerlistFor(p[1], p[2])) \in PeerList
        /\ AppliedTo(p[2], peers[p[2]], PeerlistFor(p[1], p[2]))[p[2]] = "none"
    <3>1. peers[p[2]] \in PeerList /\ peers[p[2]][p[2]] = "none"
      BY <1>1 DEF TypeInv, TypeOK, PeerList
    <3> QED  BY <1>1, <2>1, <3>1, AppliedToType
  <2> DEFINE new == AppliedTo(p[2], peers[p[2]], PeerlistFor(p[1], p[2]))
  <2>3. peers' = [peers EXCEPT ![p[2]] = new]
    BY DEF ReceiveRemote
  <2> HIDE DEF new
  <2>4. new \in PeerList /\ new[p[2]] = "none"
    BY <2>2 DEF new
  <2> QED  BY <1>1, <2>3, <2>4 DEF TypeInv, TypeOK, PeerList
<1>4. ptr' \in [Slab -> {"unknown", "remote", "resident"}]
  BY <1>1 DEF ReceiveRemote, TypeInv, TypeOK
<1> QED  BY <1>2, <1>3, <1>4 DEF ReceiveRemote, TypeInv, TypeOK, TriesLeft

LEMMA ReceiveMemoType ==
  ASSUME TypeInv, NEW p \in Pair, ReceiveMemo(p) PROVE TypeInv'
<1>1. p[1] \in Slab /\ p[2] \in Slab
  BY DEF Pair
<1>2. queue' \in [Pair -> Seq(Message)]
  BY Taken DEF ReceiveMemo, Arrived, TypeInv, TypeOK, Queues
<1>3. PeerlistFor(p[1], p[2]) \in PeerList
  BY <1>1, PeerlistForType DEF TypeInv
<1>4. list' \in [Pair -> [Slab -> Status]]
  BY <1>3 DEF ReceiveMemo, TypeInv, TypeOK, PeerList
<1>5. stage' \in [Pair -> {"idle", "assert", "emit", "settle", "reassert"}]
  BY DEF ReceiveMemo, TypeInv, TypeOK
<1> QED  BY <1>2, <1>4, <1>5 DEF ReceiveMemo, TypeInv, TypeOK, TriesLeft

LEMMA ResidentType ==
  ASSUME TypeInv, NEW p \in Pair, Resident(p)
  PROVE  /\ ptr' \in [Slab -> {"unknown", "remote", "resident"}]
         /\ peers' \in [Slab -> [Slab -> Status]]
         /\ \A s \in Slab : peers'[s][s] = "none"
<1>1. p[1] \in Slab /\ p[2] \in Slab
  BY DEF Pair
<1>2. /\ AppliedTo(p[2], peers[p[2]], list[p]) \in PeerList
      /\ AppliedTo(p[2], peers[p[2]], list[p])[p[2]] = "none"
  <2>1. /\ peers[p[2]] \in PeerList /\ peers[p[2]][p[2]] = "none"
        /\ list[p] \in PeerList
    BY <1>1 DEF TypeInv, TypeOK, PeerList
  <2> QED  BY <1>1, <2>1, AppliedToType
<1>3. ptr' \in [Slab -> {"unknown", "remote", "resident"}]
  BY <1>1 DEF Resident, TypeInv, TypeOK
<1> DEFINE new == AppliedTo(p[2], peers[p[2]], list[p])
<1>4. peers' = [peers EXCEPT ![p[2]] = new]
  BY DEF Resident
<1> HIDE DEF new
<1>5. new \in PeerList /\ new[p[2]] = "none"
  BY <1>2 DEF new
<1>6. /\ peers' \in [Slab -> [Slab -> Status]]
      /\ \A s \in Slab : peers'[s][s] = "none"
  BY <1>1, <1>4, <1>5 DEF TypeInv, TypeOK, PeerList
<1> QED  BY <1>3, <1>6

LEMMA AssertMemoType ==
  ASSUME TypeInv, NEW p \in Pair, AssertMemo(p) PROVE TypeInv'
<1>1. stage' \in [Pair -> {"idle", "assert", "emit", "settle", "reassert"}]
  BY DEF AssertMemo, TypeInv, TypeOK
<1> QED  BY <1>1, ResidentType DEF AssertMemo, TypeInv, TypeOK, TriesLeft

LEMMA ReassertType ==
  ASSUME TypeInv, NEW p \in Pair, Reassert(p) PROVE TypeInv'
<1>1. stage' \in [Pair -> {"idle", "assert", "emit", "settle", "reassert"}]
  BY DEF Reassert, TypeInv, TypeOK
<1>2. list' \in [Pair -> [Slab -> Status]]
  BY DEF Reassert, TypeInv, TypeOK, Nobody, Status
<1> QED  BY <1>1, <1>2, ResidentType DEF Reassert, TypeInv, TypeOK, TriesLeft

LEMMA EmitMemoType ==
  ASSUME TypeInv, NEW p \in Pair, EmitMemo(p) PROVE TypeInv'
<1>1. queue' \in [Pair -> Seq(Message)]
  BY Sent DEF EmitMemo, TypeInv, TypeOK, Queues, Message
<1>2. stage' \in [Pair -> {"idle", "assert", "emit", "settle", "reassert"}]
  BY DEF EmitMemo, TypeInv, TypeOK
<1> QED  BY <1>1, <1>2 DEF EmitMemo, TypeInv, TypeOK, TriesLeft

LEMMA SettleType ==
  ASSUME TypeInv, NEW p \in Pair, Settle(p) PROVE TypeInv'
<1>1. p[1] \in Slab /\ p[2] \in Slab
  BY DEF Pair
<1>2. Peering(PeerlistFor(p[2], p[1]), TRUE) \in Message
  BY <1>1, PeerlistForType, PeeringIsMessage DEF TypeInv
<1>3. queue' \in [Pair -> Seq(Message)]
  BY <1>2, Sent DEF Settle, TypeInv, TypeOK, Queues
<1>4. stage' \in [Pair -> {"idle", "assert", "emit", "settle", "reassert"}]
  BY DEF Settle, TypeInv, TypeOK
<1>5. waiters' \in [Slab -> SUBSET Task] /\ answered' \in SUBSET Task
  <2>1. \/ UNCHANGED <<waiters, answered>>
        \/ /\ answered' = answered \cup waiters[p[2]]
           /\ waiters' = [waiters EXCEPT ![p[2]] = {}]
    BY DEF Settle
  <2>2. waiters[p[2]] \in SUBSET Task
    BY <1>1 DEF TypeInv, TypeOK
  <2>3. waiters \in [Slab -> SUBSET Task] /\ answered \in SUBSET Task
    BY DEF TypeInv, TypeOK
  <2> QED  BY <2>1, <2>2, <2>3
<1> QED  BY <1>3, <1>4, <1>5 DEF Settle, TypeInv, TypeOK, TriesLeft

LEMMA ReceivePeeringType ==
  ASSUME TypeInv, NEW p \in Pair, ReceivePeering(p) PROVE TypeInv'
<1>1. p[1] \in Slab /\ p[2] \in Slab
  BY DEF Pair
<1>2. queue' \in [Pair -> Seq(Message)]
  BY Taken DEF ReceivePeering, Arrived, TypeInv, TypeOK, Queues
<1>3. Head(queue[p]) \in Message /\ Head(queue[p]).kind = "peering"
  BY RangeOfTail DEF ReceivePeering, Arrived, TypeInv, TypeOK
<1>4. Head(queue[p]).said \in PeerList
  BY <1>3 DEF Message, Memo, Request, PeerList
<1> DEFINE cited == IF Head(queue[p]).citing
                    THEN AppliedTo(p[2], peers[p[2]], PeerlistFor(p[1], p[2]))
                    ELSE peers[p[2]]
           new   == AppliedTo(p[2], cited, Head(queue[p]).said)
<1>5. cited \in PeerList /\ cited[p[2]] = "none"
  <2>1. PeerlistFor(p[1], p[2]) \in PeerList
    BY <1>1, PeerlistForType DEF TypeInv
  <2>2. peers[p[2]] \in PeerList /\ peers[p[2]][p[2]] = "none"
    BY <1>1 DEF TypeInv, TypeOK, PeerList
  <2>3. /\ AppliedTo(p[2], peers[p[2]], PeerlistFor(p[1], p[2])) \in PeerList
        /\ AppliedTo(p[2], peers[p[2]], PeerlistFor(p[1], p[2]))[p[2]] = "none"
    BY <1>1, <2>1, <2>2, AppliedToType
  <2> QED  BY <2>2, <2>3
<1>6. peers' = [peers EXCEPT ![p[2]] = new]
  BY DEF ReceivePeering
<1> HIDE DEF cited
<1>7. new \in PeerList /\ new[p[2]] = "none"
  BY <1>1, <1>4, <1>5, AppliedToType
<1> HIDE DEF new
<1>8. /\ peers' \in [Slab -> [Slab -> Status]]
      /\ \A s \in Slab : peers'[s][s] = "none"
  BY <1>1, <1>6, <1>7 DEF TypeInv, TypeOK, PeerList
<1>9. ptr' \in [Slab -> {"unknown", "remote", "resident"}]
  BY <1>1 DEF ReceivePeering, TypeInv, TypeOK
<1> QED  BY <1>2, <1>8, <1>9 DEF ReceivePeering, TypeInv, TypeOK, TriesLeft

LEMMA ReceiveRequestType ==
  ASSUME TypeInv, NEW p \in Pair, ReceiveRequest(p) PROVE TypeInv'
<1>1. p[1] \in Slab /\ p[2] \in Slab
  BY DEF Pair
<1>2. Peering([Nobody EXCEPT ![p[2]] = "NonParticipating"], FALSE) \in Message
  <2>1. [Nobody EXCEPT ![p[2]] = "NonParticipating"] \in PeerList
    BY DEF Nobody, PeerList, Status
  <2> QED  BY <2>1, PeeringIsMessage
<1>3. Memo \in Message
  BY DEF Message
<1>4. ptr[p[2]] \in {"unknown", "remote", "resident"}
  BY <1>1 DEF TypeInv, TypeOK
<1>5. \E m \in Message, to \in {{p[1]}, {}} : Reply(p, m, to)
  BY <1>2, <1>3, <1>4 DEF ReceiveRequest
<1>6. queue' \in [Pair -> Seq(Message)]
  BY <1>5, Replied DEF ReceiveRequest, Arrived, TypeInv, TypeOK, Queues
<1> QED  BY <1>6 DEF ReceiveRequest, TypeInv, TypeOK, TriesLeft

LEMMA RemotizeType ==
  ASSUME TypeInv, NEW s \in Slab, Remotize(s) PROVE TypeInv'
<1>1. ptr' \in [Slab -> {"unknown", "remote", "resident"}]
  BY DEF Remotize, TypeInv, TypeOK
<1>2. telling' \in [Slab -> SUBSET Slab]
  BY DEF Remotize, TypeInv, TypeOK, Listed
<1>3. remotized' \in [Slab -> 0 .. MaxRemotize]
  BY SlabsAssumption DEF Remotize, TypeInv, TypeOK
<1> QED  BY <1>1, <1>2, <1>3 DEF Remotize, TypeInv, TypeOK, TriesLeft

LEMMA TellPeersType ==
  ASSUME TypeInv, NEW s \in Slab, TellPeers(s) PROVE TypeInv'
<1>1. Peering([Nobody EXCEPT ![s] = "Participating"], TRUE) \in Message
  <2>1. [Nobody EXCEPT ![s] = "Participating"] \in PeerList
    BY DEF Nobody, PeerList, Status
  <2> QED  BY <2>1, PeeringIsMessage
<1>2. queue' \in [Pair -> Seq(Message)]
  BY <1>1, Sent DEF TellPeers, TypeInv, TypeOK, Queues
<1>3. telling' \in [Slab -> SUBSET Slab]
  BY DEF TellPeers, TypeInv, TypeOK
<1> QED  BY <1>2, <1>3 DEF TellPeers, TypeInv, TypeOK, TriesLeft

LEMMA AskType ==
  ASSUME TypeInv, NEW r \in Task, Ask(r) PROVE TypeInv'
<1>1. queue' \in [Pair -> Seq(Message)]
  BY Sent DEF Ask, TypeInv, TypeOK, Queues, Message
<1>2. tries' \in [Task -> 0 .. MaxTries]
  <2>1. tries[r] \in 0 .. MaxTries /\ tries[r] < MaxTries
    BY DEF Ask, TypeInv, TypeOK, TriesLeft
  <2>2. tries[r] + 1 \in 0 .. MaxTries
    BY <2>1, SlabsAssumption
  <2>3. tries' = [tries EXCEPT ![r] = tries[r] + 1]
    BY DEF Ask
  <2> QED  BY <2>2, <2>3 DEF TypeInv, TypeOK
<1>3. pc' \in [Task -> {"idle", "missed", "asking", "waiting", "found", "failed"}]
  BY DEF Ask, TypeInv, TypeOK
<1>4. TriesLeft'
  BY DEF Ask, TypeInv, TypeOK, TriesLeft
<1> QED  BY <1>1, <1>2, <1>3, <1>4 DEF Ask, TypeInv, TypeOK

\* The other steps of a task.
TaskStep(r) == GetMemo(r) \/ Register(r) \/ Timeout(r) \/ Return(r)

LEMMA TaskStepType ==
  ASSUME TypeInv, NEW r \in Task, TaskStep(r) PROVE TypeInv'
<1>1. pc' \in [Task -> {"idle", "missed", "asking", "waiting", "found", "failed"}]
  <2>1. \E x \in {"missed", "asking", "found", "failed"} :
          pc' = [pc EXCEPT ![r] = x]
    BY DEF TaskStep, GetMemo, Register, Timeout, Return
  <2> QED  BY <2>1 DEF TypeInv, TypeOK
<1>2. waiters' \in [Slab -> SUBSET Task]
  <2>1. CASE Register(r)
    <3>1. SlabOf[r] \in Slab
      BY SlabsAssumption
    <3> QED  BY <2>1, <3>1 DEF Register, TypeInv, TypeOK
  <2>2. CASE UNCHANGED waiters
    BY <2>2 DEF TypeInv, TypeOK
  <2> QED  BY <2>1, <2>2 DEF TaskStep, GetMemo, Timeout, Return
<1>3. TriesLeft'
  BY DEF TaskStep, GetMemo, Register, Timeout, Return, TypeInv, TypeOK, TriesLeft
<1>4. UNCHANGED <<ptr, peers, queue, stage, list, telling, remotized, tries,
                  answered>>
  BY DEF TaskStep, GetMemo, Register, Timeout, Return
<1> QED  BY <1>1, <1>2, <1>3, <1>4 DEF TypeInv, TypeOK

LEMMA NextType == TypeInv /\ [Next]_vars => TypeInv'
<1> SUFFICES ASSUME TypeInv, [Next]_vars PROVE TypeInv'  OBVIOUS
<1>1. CASE UNCHANGED vars
  BY <1>1 DEF vars, TypeInv, TypeOK, TriesLeft
<1>2. ASSUME NEW p \in Pair, Deliver(p) PROVE TypeInv'
  BY <1>2, ReceiveRemoteType, ReceiveMemoType, ReceivePeeringType,
     ReceiveRequestType, AssertMemoType, EmitMemoType, SettleType, ReassertType
  DEF Deliver
<1>3. ASSUME NEW s \in Slab, Remotize(s) \/ TellPeers(s) PROVE TypeInv'
  BY <1>3, RemotizeType, TellPeersType
<1>4. ASSUME NEW r \in Task, GetMemo(r) \/ Fetch(r) \/ Timeout(r) PROVE TypeInv'
  BY <1>4, AskType, TaskStepType DEF Fetch, TaskStep
<1> QED  BY <1>1, <1>2, <1>3, <1>4, NewMemoType DEF Next

LEMMA SpecType == Spec => []TypeInv
<1> QED  BY InitType, NextType, PTL DEF Spec

(***************************************************************************)
(* The slabs' memorefs, the queues between them and the requests stay well *)
(* typed: no slab is a peer of itself, and no request is sent more often   *)
(* than it may be (MemoRef, SlabHandle::request_memo).                     *)
(***************************************************************************)
THEOREM MemoExchangeTypeOK == Spec => []TypeOK
<1>1. TypeInv => TypeOK  BY DEF TypeInv
<1> QED  BY <1>1, SpecType, PTL

-----------------------------------------------------------------------------
(***************************************************************************)
(* Before the memo is issued nobody has to do with it, so the origin's     *)
(* copy is its first.                                                      *)
(***************************************************************************)
\* Nothing is on its way, and nobody knows a peer.
Untouched ==
  /\ \A p \in Pair : Range(queue[p]) = {} /\ stage[p] = "idle"
  /\ \A s \in Slab : Listed(s) = {} /\ telling[s] = {}

FirstCopy == ptr[Origin] = "unknown" => Untouched

LEMMA InitTouched ==
  Init => /\ Untouched
          /\ \A s \in Slab : ptr[s] = "unknown"
<1> SUFFICES ASSUME Init PROVE Untouched /\ \A s \in Slab : ptr[s] = "unknown"
  OBVIOUS
<1>1. \A p \in Pair : Range(queue[p]) = {}
  BY QueuesInit
<1>2. \A p \in Pair : stage[p] = "idle"
  BY DEF Init
<1>3. \A s \in Slab : Listed(s) = {} /\ telling[s] = {}
  BY DEF Init, Listed, Nobody
<1>4. \A s \in Slab : ptr[s] = "unknown"
  BY DEF Init
<1> QED  BY <1>1, <1>2, <1>3, <1>4 DEF Untouched

\* A message that arrived is in the queue.
LEMMA ArrivedInRange ==
  ASSUME TypeInv, NEW p \in Pair, NEW kind, Arrived(p, kind)
  PROVE  /\ queue[p] # << >> /\ queue \in Queues
         /\ Head(queue[p]) \in Range(queue[p]) /\ Head(queue[p]).kind = kind
<1>1. queue[p] # << >> /\ queue[p] \in Seq(Message) /\ queue \in Queues
  BY DEF Arrived, TypeInv, TypeOK, Queues
<1>2. Head(queue[p]) \in Range(queue[p])
  BY <1>1, RangeOfTail
<1> QED  BY <1>1, <1>2 DEF Arrived

\* Who knows no peers asks nobody.
LEMMA AskNobody ==
  ASSUME TypeInv, NEW r \in Task, Ask(r), Listed(SlabOf[r]) = {}
  PROVE  \A p \in Pair : Range(queue'[p]) = Range(queue[p])
<1>1. Request \in Message /\ queue \in Queues /\ Send(Request, SlabOf[r], {})
  BY DEF Message, TypeInv, TypeOK, Queues, Ask
<1> QED  BY <1>1, Sent

\* Steps that concern neither memorefs nor messages.
LEMMA TaskStepFrame ==
  ASSUME NEW r \in Task, TaskStep(r)
  PROVE  UNCHANGED <<ptr, peers, queue, stage, list, telling, remotized>>
BY DEF TaskStep, GetMemo, Register, Timeout, Return

LEMMA UntouchedStep ==
  TypeInv /\ Untouched /\ [Next]_vars => NewMemo \/ (Untouched' /\ UNCHANGED ptr)
<1> SUFFICES ASSUME TypeInv, Untouched, [Next]_vars
             PROVE  NewMemo \/ (Untouched' /\ UNCHANGED ptr)
  OBVIOUS
<1>1. ASSUME NEW p \in Pair, Deliver(p) PROVE FALSE
  <2>1. stage[p] = "idle" /\ Range(queue[p]) = {}
    BY DEF Untouched
  <2>2. ASSUME NEW kind, Arrived(p, kind) PROVE FALSE
    BY <2>1, <2>2, ArrivedInRange
  <2> QED
    BY <1>1, <2>1, <2>2
    DEF Deliver, ReceiveRemote, ReceiveMemo, ReceivePeering, ReceiveRequest,
        AssertMemo, EmitMemo, Settle, Reassert
<1>2. ASSUME NEW s \in Slab, Remotize(s) \/ TellPeers(s) PROVE FALSE
  BY <1>2 DEF Remotize, TellPeers, Untouched
<1>3. ASSUME NEW r \in Task, Ask(r) PROVE Untouched' /\ UNCHANGED ptr
  <2>1. Listed(SlabOf[r]) = {}
    BY SlabsAssumption DEF Untouched
  <2>2. \A p \in Pair : Range(queue'[p]) = Range(queue[p])
    BY <1>3, <2>1, AskNobody
  <2> QED  BY <1>3, <2>2 DEF Ask, Untouched, Listed
<1>4. ASSUME NEW r \in Task, TaskStep(r) PROVE Untouched' /\ UNCHANGED ptr
  BY <1>4, TaskStepFrame DEF Untouched, Listed
<1>5. CASE UNCHANGED vars
  BY <1>5 DEF vars, Untouched, Listed
<1>6. CASE \E r \in Task : GetMemo(r) \/ Fetch(r) \/ Timeout(r)
  BY <1>3, <1>4, <1>6 DEF Fetch, TaskStep
<1> QED  BY <1>1, <1>2, <1>5, <1>6 DEF Next

\* A memoref that exists stays.
LEMMA KnownStays ==
  ASSUME TypeInv, NEW s \in Slab, ptr[s] # "unknown", [Next]_vars
  PROVE  ptr'[s] # "unknown"
<1>1. ASSUME NEW p \in Pair, Deliver(p) PROVE ptr'[s] # "unknown"
  BY <1>1
  DEF Deliver, ReceiveRemote, ReceiveMemo, ReceivePeering, ReceiveRequest,
      AssertMemo, EmitMemo, Settle, Reassert, Resident, TypeInv, TypeOK
<1>2. ASSUME NEW o \in Slab, Remotize(o) \/ TellPeers(o) PROVE ptr'[s] # "unknown"
  BY <1>2 DEF Remotize, TellPeers, TypeInv, TypeOK
<1>3. CASE NewMemo
  BY <1>3 DEF NewMemo, TypeInv, TypeOK
<1>4. ASSUME NEW r \in Task, Ask(r) \/ TaskStep(r) PROVE ptr'[s] # "unknown"
  BY <1>4, TaskStepFrame DEF Ask
<1>5. CASE UNCHANGED vars
  BY <1>5 DEF vars
<1> QED  BY <1>1, <1>2, <1>3, <1>4, <1>5 DEF Next, Fetch, TaskStep

LEMMA FirstCopyStep == TypeInv /\ FirstCopy /\ [Next]_vars => FirstCopy'
<1> SUFFICES ASSUME TypeInv, FirstCopy, [Next]_vars, ptr'[Origin] = "unknown"
             PROVE  Untouched'
  BY DEF FirstCopy
<1>1. ptr[Origin] = "unknown" /\ Untouched
  BY KnownStays, SlabsAssumption DEF FirstCopy
<1>2. ~NewMemo
  BY SlabsAssumption DEF NewMemo, TypeInv, TypeOK
<1> QED  BY <1>1, <1>2, UntouchedStep

-----------------------------------------------------------------------------
\* A copy is only lost by a slab that may let go of it.
LEMMA CopyStays ==
  ASSUME TypeInv, NEW s \in Slab \ Remotizer, ptr[s] = "resident", [Next]_vars
  PROVE  ptr'[s] = "resident"
<1>1. ASSUME NEW p \in Pair, Deliver(p) PROVE ptr'[s] = "resident"
  BY <1>1
  DEF Deliver, ReceiveRemote, ReceiveMemo, ReceivePeering, ReceiveRequest,
      AssertMemo, EmitMemo, Settle, Reassert, Resident, TypeInv, TypeOK
<1>2. ASSUME NEW o \in Slab, Remotize(o) \/ TellPeers(o)
      PROVE  ptr'[s] = "resident"
  BY <1>2 DEF Remotize, TellPeers, TypeInv, TypeOK
<1>3. CASE NewMemo
  BY <1>3 DEF NewMemo, TypeInv, TypeOK
<1>4. ASSUME NEW r \in Task, Ask(r) \/ TaskStep(r) PROVE ptr'[s] = "resident"
  BY <1>4, TaskStepFrame DEF Ask
<1>5. CASE UNCHANGED vars
  BY <1>5 DEF vars
<1> QED  BY <1>1, <1>2, <1>3, <1>4, <1>5 DEF Next, Fetch, TaskStep

-----------------------------------------------------------------------------
(***************************************************************************)
(* MeshIsComplete, while nobody has let go of the memo.                    *)
(***************************************************************************)
\* What is said of the peers of a slab is true of the memorefs.
Truthful(said, memorefs) ==
  \A t \in Slab : /\ said[t] \in {"none", "Resident"}
                  /\ said[t] = "Resident" => memorefs[t] = "resident"

\* Slab s knows that t has the memo, or will be told.
Meets(s, t) ==
  \/ peers[s][t] = "Resident"
  \/ \E p \in Pair : p[2] = s /\ stage[p] = "emit"
  \/ Memo \in Range(queue[<<s, t>>])
  \/ stage[<<s, t>>] \in {"assert", "emit", "settle"}
  \/ \E m \in Range(queue[<<t, s>>]) : m.kind = "peering"

SlabsInv ==
  \A s \in Slab : ptr[s] # "remote" /\ telling[s] = {} /\ Truthful(peers[s], ptr)

ThreadsInv ==
  \A p \in Pair :
    /\ Truthful(list[p], ptr)
    /\ stage[p] # "idle" => ptr[p[1]] = "resident"
    /\ stage[p] \in {"emit", "settle", "reassert"} => ptr[p[2]] = "resident"

\* What message m from slab p[1] to p[2] may be.
Sound(m, p, memorefs) ==
  /\ memorefs[p[1]] = "resident"
  /\ m.kind # "memo" => /\ m.kind = "peering"
                        /\ memorefs[p[2]] = "resident"
                        /\ Truthful(m.said, memorefs)
                        /\ m.said[p[1]] = "Resident"

QueuesInv == \A p \in Pair : \A m \in Range(queue[p]) : Sound(m, p, ptr)

MeetInv == \A s, t \in Slab : s # t /\ ptr[s] = "resident" => Meets(s, t)

MeshInv ==
  SlabsInv /\ ThreadsInv /\ QueuesInv /\ MeetInv /\ \A r \in Task : pc[r] = "idle"

NobodyLetGo == remotized = [s \in Slab |-> 0]

LEMMA PairOf ==
  /\ \A p \in Pair : /\ p[1] \in Slab /\ p[2] \in Slab /\ p[1] # p[2]
                     /\ p = <<p[1], p[2]>>
  /\ \A s, t \in Slab : s # t => <<s, t>> \in Pair
BY DEF Pair

LEMMA PeerlistTruthful ==
  ASSUME NEW s \in Slab, NEW dest \in Slab \ {s}, ptr[s] = "resident",
         Truthful(peers[s], ptr)
  PROVE  /\ Truthful(PeerlistFor(s, dest), ptr)
         /\ PeerlistFor(s, dest)[s] = "Resident"
BY DEF Truthful, PeerlistFor, StatusOf

\* What is true stays true while no copy is let go.
LEMMA TruthStays ==
  ASSUME \A s \in Slab : ptr[s] = "resident" => ptr'[s] = "resident"
  PROVE  /\ \A said : Truthful(said, ptr) => Truthful(said, ptr')
         /\ \A m, p : p \in Pair /\ Sound(m, p, ptr) => Sound(m, p, ptr')
<1>1. \A said : Truthful(said, ptr) => Truthful(said, ptr')
  BY DEF Truthful
<1>2. ASSUME NEW m, NEW p \in Pair, Sound(m, p, ptr) PROVE Sound(m, p, ptr')
  BY <1>1, <1>2, PairOf DEF Sound
<1> QED  BY <1>1, <1>2

LEMMA InitMesh == Init => MeshInv
<1> SUFFICES ASSUME Init PROVE MeshInv  OBVIOUS
<1>1. Untouched /\ \A s \in Slab : ptr[s] = "unknown"
  BY InitTouched
<1>2. Truthful(Nobody, ptr)
  BY DEF Truthful, Nobody
<1>3. SlabsInv
  BY <1>1, <1>2 DEF Init, SlabsInv, Untouched
<1>4. ThreadsInv
  BY <1>1, <1>2 DEF Init, ThreadsInv, Untouched
<1>5. QueuesInv /\ MeetInv
  BY <1>1 DEF QueuesInv, MeetInv, Untouched
<1> QED  BY <1>3, <1>4, <1>5 DEF MeshInv, Init

LEMMA NewMemoMesh == TypeInv /\ MeshInv /\ NewMemo => MeshInv'
<1> SUFFICES ASSUME TypeInv, MeshInv, NewMemo PROVE MeshInv'  OBVIOUS
<1> USE DEF MeshInv
<1>1. \A p \in Pair :
        Range(queue'[p]) = IF p[1] = Origin /\ p[2] \in EmitTo(Origin)
                           THEN Range(queue[p]) \cup {Memo}
                           ELSE Range(queue[p])
  <2>1. Memo \in Message /\ queue \in Queues /\ Send(Memo, Origin, EmitTo(Origin))
    BY DEF Message, TypeInv, TypeOK, Queues, NewMemo
  <2> QED  BY <2>1, Sent
<1>2. \A s \in Slab : ptr'[s] = IF s = Origin THEN "resident" ELSE ptr[s]
  BY DEF NewMemo, TypeInv, TypeOK
<1>3. /\ \A said : Truthful(said, ptr) => Truthful(said, ptr')
      /\ \A m, p : p \in Pair /\ Sound(m, p, ptr) => Sound(m, p, ptr')
  BY <1>2, TruthStays
<1>4. SlabsInv'
  <2>1. peers' = peers /\ telling' = telling
    BY DEF NewMemo
  <2>2. \A s \in Slab : Truthful(peers[s], ptr')
    BY <1>3 DEF SlabsInv
  <2> QED  BY <1>2, <2>1, <2>2 DEF SlabsInv
<1>5. ThreadsInv'
  <2>1. list' = list /\ stage' = stage
    BY DEF NewMemo
  <2>2. \A p \in Pair : Truthful(list[p], ptr')
    BY <1>3 DEF ThreadsInv
  <2> QED  BY <1>2, <2>1, <2>2, PairOf DEF ThreadsInv
<1>6. QueuesInv'
  <2>1. \A p \in Pair : p[1] = Origin => Sound(Memo, p, ptr')
    BY <1>2, SlabsAssumption DEF Sound, Memo
  <2> QED  BY <1>1, <1>3, <2>1 DEF QueuesInv
<1>7. MeetInv'
  <2> SUFFICES ASSUME NEW s \in Slab, NEW t \in Slab, s # t, ptr'[s] = "resident"
               PROVE  Meets(s, t)'
    BY DEF MeetInv
  <2>1. <<s, t>> \in Pair /\ <<t, s>> \in Pair
    BY PairOf
  <2>2. CASE s = Origin /\ t \in EmitTo(Origin)
    BY <1>1, <2>1, <2>2 DEF Meets
  <2>3. CASE s = Origin /\ t \notin EmitTo(Origin)
    BY <2>3, SlabsAssumption DEF EmitTo, NewMemo, SlabsInv, Truthful, Meets
  <2>4. CASE s # Origin
    <3>1. Meets(s, t)
      BY <1>2, <2>4 DEF MeetInv
    <3>2. UNCHANGED <<peers, stage>>
      BY DEF NewMemo
    <3> QED  BY <1>1, <2>1, <3>1, <3>2 DEF Meets
  <2> QED  BY <2>2, <2>3, <2>4
<1> QED  BY <1>4, <1>5, <1>6, <1>7 DEF NewMemo

\* Only the memo and what is said of peers is on its way.
LEMMA MeshArrived ==
  ASSUME TypeInv, MeshInv, NEW p \in Pair, NEW kind, Arrived(p, kind)
  PROVE  /\ kind \in {"memo", "peering"}
         /\ ptr[p[1]] = "resident"
         /\ Head(queue[p]).kind = kind /\ Sound(Head(queue[p]), p, ptr)
BY ArrivedInRange DEF MeshInv, QueuesInv, Sound

LEMMA ReceiveMemoMesh ==
  ASSUME TypeInv, MeshInv, NEW p \in Pair, ReceiveMemo(p) PROVE MeshInv'
<1> USE DEF MeshInv
<1>1. p[1] \in Slab /\ p[2] \in Slab /\ p[1] # p[2] /\ p = <<p[1], p[2]>>
  BY PairOf
<1>2. /\ queue[p] # << >> /\ queue \in Queues /\ ptr[p[1]] = "resident"
      /\ Head(queue[p]).kind = "memo"
  BY ArrivedInRange DEF ReceiveMemo
<1>3. /\ Range(queue[p]) = {Head(queue[p])} \cup Range(queue'[p])
      /\ \A o \in Pair : o # p => queue'[o] = queue[o]
  BY <1>2, Taken DEF ReceiveMemo
<1>4. ptr' = ptr /\ peers' = peers /\ telling' = telling /\ pc' = pc
  BY DEF ReceiveMemo
<1>5. SlabsInv'
  BY <1>4 DEF SlabsInv
<1>6. ThreadsInv'
  <2>1. Truthful(PeerlistFor(p[1], p[2]), ptr)
    BY <1>1, <1>2, PeerlistTruthful DEF SlabsInv
  <2>2. \A o \in Pair :
          /\ list'[o] = IF o = p THEN PeerlistFor(p[1], p[2]) ELSE list[o]
          /\ stage'[o] = IF o = p THEN "assert" ELSE stage[o]
    BY DEF ReceiveMemo, TypeInv, TypeOK
  <2> QED  BY <1>2, <1>4, <2>1, <2>2 DEF ThreadsInv
<1>7. QueuesInv'
  BY <1>3, <1>4 DEF QueuesInv
<1>8. MeetInv'
  <2> SUFFICES ASSUME NEW s \in Slab, NEW t \in Slab, s # t, ptr'[s] = "resident"
               PROVE  Meets(s, t)'
    BY DEF MeetInv
  <2>1. <<s, t>> \in Pair /\ <<t, s>> \in Pair
    BY PairOf
  <2>2. Meets(s, t)
    BY <1>4 DEF MeetInv
  <2>3. \A o \in Pair : stage'[o] = IF o = p THEN "assert" ELSE stage[o]
    BY DEF ReceiveMemo, TypeInv, TypeOK
  <2>4. stage[p] = "idle"
    BY DEF ReceiveMemo, Arrived
  <2>5. CASE <<s, t>> = p
    BY <2>3, <2>5 DEF Meets
  <2>6. CASE <<s, t>> # p
    <3>1. Memo \in Range(queue[<<s, t>>]) => Memo \in Range(queue'[<<s, t>>])
      BY <1>3, <2>1, <2>6
    <3>2. \A m \in Range(queue[<<t, s>>]) :
            m.kind = "peering" => m \in Range(queue'[<<t, s>>])
      BY <1>2, <1>3, <2>1
    <3> QED  BY <1>4, <2>1, <2>2, <2>3, <2>4, <2>6, <3>1, <3>2 DEF Meets
  <2> QED  BY <2>5, <2>6
<1> QED  BY <1>4, <1>5, <1>6, <1>7, <1>8

LEMMA ResidentMesh ==
  ASSUME TypeInv, MeshInv, NEW p \in Pair, Resident(p)
  PROVE  /\ ptr' = [ptr EXCEPT ![p[2]] = "resident"]
         /\ \A s \in Slab : ptr'[s] = IF s = p[2] THEN "resident" ELSE ptr[s]
         /\ \A s, t \in Slab : peers[s][t] = "Resident" => peers'[s][t] = "Resident"
         /\ \A s \in Slab : Truthful(peers'[s], ptr')
         /\ \A o \in Pair : Truthful(list[o], ptr')
         /\ \A o \in Pair : \A m \in Range(queue[o]) : Sound(m, o, ptr')
<1> USE DEF MeshInv
<1>1. p[1] \in Slab /\ p[2] \in Slab
  BY PairOf
<1>2. \A s \in Slab : ptr'[s] = IF s = p[2] THEN "resident" ELSE ptr[s]
  BY <1>1 DEF Resident, TypeInv, TypeOK
<1>3. /\ \A said : Truthful(said, ptr) => Truthful(said, ptr')
      /\ \A m, o : o \in Pair /\ Sound(m, o, ptr) => Sound(m, o, ptr')
  BY <1>2, TruthStays
<1> DEFINE new == AppliedTo(p[2], peers[p[2]], list[p])
<1>4. /\ Truthful(new, ptr)
      /\ \A t \in Slab : peers[p[2]][t] = "Resident" => new[t] = "Resident"
  <2>1. Truthful(peers[p[2]], ptr) /\ Truthful(list[p], ptr)
    BY <1>1 DEF SlabsInv, ThreadsInv
  <2>2. /\ Truthful(AppliedTo(p[2], peers[p[2]], list[p]), ptr)
        /\ \A t \in Slab :
             peers[p[2]][t] = "Resident" \/ (t # p[2] /\ list[p][t] = "Resident")
               => AppliedTo(p[2], peers[p[2]], list[p])[t] = "Resident"
    BY <1>1, <2>1 DEF Truthful, AppliedTo
  <2> QED  BY <2>2
<1>5. peers' = [peers EXCEPT ![p[2]] = new]
  BY DEF Resident
<1> HIDE DEF new
<1>6. \A s \in Slab : peers'[s] = IF s = p[2] THEN new ELSE peers[s]
  BY <1>1, <1>5 DEF TypeInv, TypeOK
<1>7. \A s \in Slab : Truthful(peers'[s], ptr)
  BY <1>4, <1>6 DEF SlabsInv
<1>8. \A s \in Slab : Truthful(peers'[s], ptr')
  BY <1>3, <1>7
<1>9. \A o \in Pair : Truthful(list[o], ptr')
  BY <1>3 DEF ThreadsInv
<1>10. \A o \in Pair : \A m \in Range(queue[o]) : Sound(m, o, ptr')
  BY <1>3 DEF QueuesInv
<1>11. \A s, t \in Slab : peers[s][t] = "Resident" => peers'[s][t] = "Resident"
  BY <1>4, <1>6
<1> QED  BY <1>2, <1>8, <1>9, <1>10, <1>11 DEF Resident

LEMMA AssertMemoMesh ==
  ASSUME TypeInv, MeshInv, NEW p \in Pair, AssertMemo(p) PROVE MeshInv'
<1> USE DEF MeshInv
<1>1. p[1] \in Slab /\ p[2] \in Slab /\ p[1] # p[2] /\ p = <<p[1], p[2]>>
  BY PairOf
<1>2. /\ \A s \in Slab : ptr'[s] = IF s = p[2] THEN "resident" ELSE ptr[s]
      /\ \A s, t \in Slab : peers[s][t] = "Resident" => peers'[s][t] = "Resident"
      /\ \A s \in Slab : Truthful(peers'[s], ptr')
      /\ \A o \in Pair : Truthful(list[o], ptr')
      /\ \A o \in Pair : \A m \in Range(queue[o]) : Sound(m, o, ptr')
  BY ResidentMesh DEF AssertMemo
<1>3. list' = list /\ queue' = queue /\ telling' = telling /\ pc' = pc
  BY DEF AssertMemo
<1>4. \A o \in Pair : stage'[o] = IF o = p THEN "emit" ELSE stage[o]
  BY DEF AssertMemo, TypeInv, TypeOK
<1>5. stage[p] = "assert"
  BY DEF AssertMemo
<1>6. SlabsInv'
  BY <1>2, <1>3 DEF SlabsInv
<1>7. ThreadsInv'
  BY <1>1, <1>2, <1>3, <1>4, <1>5, PairOf DEF ThreadsInv
<1>8. QueuesInv'
  BY <1>2, <1>3 DEF QueuesInv
<1>9. MeetInv'
  <2> SUFFICES ASSUME NEW s \in Slab, NEW t \in Slab, s # t, ptr'[s] = "resident"
               PROVE  Meets(s, t)'
    BY DEF MeetInv
  <2>1. <<s, t>> \in Pair /\ <<t, s>> \in Pair
    BY PairOf
  <2>2. CASE s = p[2]
    BY <1>4, <2>2 DEF Meets
  <2>3. CASE s # p[2]
    <3>1. Meets(s, t)
      BY <1>2, <2>3 DEF MeetInv
    <3> QED  BY <1>2, <1>3, <1>4, <1>5, <2>1, <3>1 DEF Meets
  <2> QED  BY <2>2, <2>3
<1> QED  BY <1>3, <1>6, <1>7, <1>8, <1>9

LEMMA ReassertMesh ==
  ASSUME TypeInv, MeshInv, NEW p \in Pair, Reassert(p) PROVE MeshInv'
<1> USE DEF MeshInv
<1>1. p[1] \in Slab /\ p[2] \in Slab
  BY PairOf
<1>2. /\ \A s \in Slab : ptr'[s] = IF s = p[2] THEN "resident" ELSE ptr[s]
      /\ \A s, t \in Slab : peers[s][t] = "Resident" => peers'[s][t] = "Resident"
      /\ \A s \in Slab : Truthful(peers'[s], ptr')
      /\ \A o \in Pair : Truthful(list[o], ptr')
      /\ \A o \in Pair : \A m \in Range(queue[o]) : Sound(m, o, ptr')
  BY ResidentMesh DEF Reassert
<1>3. queue' = queue /\ telling' = telling /\ pc' = pc
  BY DEF Reassert
<1>4. \A o \in Pair : /\ stage'[o] = IF o = p THEN "idle" ELSE stage[o]
                      /\ list'[o] = IF o = p THEN Nobody ELSE list[o]
  BY DEF Reassert, TypeInv, TypeOK
<1>5. stage[p] = "reassert" /\ ptr[p[2]] = "resident"
  BY DEF Reassert, ThreadsInv
<1>6. SlabsInv'
  BY <1>2, <1>3 DEF SlabsInv
<1>7. ThreadsInv'
  <2>1. Truthful(Nobody, ptr')
    BY DEF Truthful, Nobody
  <2> QED  BY <1>2, <1>4, <2>1, PairOf DEF ThreadsInv
<1>8. QueuesInv'
  BY <1>2, <1>3 DEF QueuesInv
<1>9. MeetInv'
  <2> SUFFICES ASSUME NEW s \in Slab, NEW t \in Slab, s # t, ptr'[s] = "resident"
               PROVE  Meets(s, t)'
    BY DEF MeetInv
  <2>1. <<s, t>> \in Pair /\ <<t, s>> \in Pair
    BY PairOf
  <2>2. Meets(s, t)
    BY <1>2, <1>5 DEF MeetInv
  <2> QED  BY <1>2, <1>3, <1>4, <1>5, <2>1, <2>2 DEF Meets
<1> QED  BY <1>3, <1>6, <1>7, <1>8, <1>9

LEMMA EmitMemoMesh ==
  ASSUME TypeInv, MeshInv, NEW p \in Pair, EmitMemo(p) PROVE MeshInv'
<1> USE DEF MeshInv
<1>1. p[1] \in Slab /\ p[2] \in Slab
  BY PairOf
<1>2. stage[p] = "emit" /\ ptr[p[2]] = "resident"
  BY DEF EmitMemo, ThreadsInv
<1>3. \A o \in Pair :
        Range(queue'[o]) = IF o[1] = p[2] /\ o[2] \in EmitTo(p[2])
                           THEN Range(queue[o]) \cup {Memo}
                           ELSE Range(queue[o])
  <2>1. Memo \in Message /\ queue \in Queues /\ Send(Memo, p[2], EmitTo(p[2]))
    BY <1>2 DEF Message, TypeInv, TypeOK, Queues, EmitMemo
  <2> QED  BY <2>1, Sent
<1>4. ptr' = ptr /\ peers' = peers /\ telling' = telling /\ list' = list /\ pc' = pc
  BY DEF EmitMemo
<1>5. \A o \in Pair : stage'[o] = IF o = p THEN "settle" ELSE stage[o]
  BY DEF EmitMemo, TypeInv, TypeOK
<1>6. SlabsInv'
  BY <1>4 DEF SlabsInv
<1>7. ThreadsInv'
  BY <1>2, <1>4, <1>5 DEF ThreadsInv
<1>8. QueuesInv'
  <2>1. \A o \in Pair : o[1] = p[2] => Sound(Memo, o, ptr)
    BY <1>2 DEF Sound, Memo
  <2> QED  BY <1>3, <1>4, <2>1 DEF QueuesInv
<1>9. MeetInv'
  <2> SUFFICES ASSUME NEW s \in Slab, NEW t \in Slab, s # t, ptr'[s] = "resident"
               PROVE  Meets(s, t)'
    BY DEF MeetInv
  <2>1. <<s, t>> \in Pair /\ <<t, s>> \in Pair
    BY PairOf
  <2>2. CASE s = p[2] /\ t \in EmitTo(p[2])
    BY <1>3, <2>1, <2>2 DEF Meets
  <2>3. CASE s = p[2] /\ t \notin EmitTo(p[2])
    BY <1>4, <2>3 DEF EmitTo, SlabsInv, Truthful, Meets
  <2>4. CASE s # p[2]
    <3>1. Meets(s, t)
      BY <1>4 DEF MeetInv
    <3> QED  BY <1>2, <1>3, <1>4, <1>5, <2>1, <2>4, <3>1 DEF Meets
  <2> QED  BY <2>2, <2>3, <2>4
<1> QED  BY <1>4, <1>6, <1>7, <1>8, <1>9

LEMMA SettleMesh ==
  ASSUME TypeInv, MeshInv, NEW p \in Pair, Settle(p) PROVE MeshInv'
<1> USE DEF MeshInv
<1>1. p[1] \in Slab /\ p[2] \in Slab /\ p[1] # p[2] /\ p = <<p[1], p[2]>>
  BY PairOf
<1>2. stage[p] = "settle" /\ ptr[p[1]] = "resident" /\ ptr[p[2]] = "resident"
  BY DEF Settle, ThreadsInv
<1> DEFINE said    == PeerlistFor(p[2], p[1])
           message == Peering(said, TRUE)
<1>3. Truthful(said, ptr) /\ said[p[2]] = "Resident"
  BY <1>1, <1>2, PeerlistTruthful DEF SlabsInv
<1>4. message \in Message
  BY <1>1, PeerlistForType, PeeringIsMessage DEF TypeInv
<1>5. message.kind = "peering" /\ message.said = said
  BY DEF Peering
<1>6. Send(message, p[2], {p[1]})
  BY <1>2 DEF Settle
<1> HIDE DEF said, message
<1>7. \A o \in Pair :
        Range(queue'[o]) = IF o[1] = p[2] /\ o[2] \in {p[1]}
                           THEN Range(queue[o]) \cup {message}
                           ELSE Range(queue[o])
  <2>1. queue \in Queues
    BY DEF TypeInv, TypeOK, Queues
  <2> QED  BY <1>4, <1>6, <2>1, Sent, Zenon
<1>8. ptr' = ptr /\ peers' = peers /\ telling' = telling /\ list' = list /\ pc' = pc
  BY DEF Settle
<1>9. \A o \in Pair : stage'[o] = IF o = p THEN "reassert" ELSE stage[o]
  BY DEF Settle, TypeInv, TypeOK
<1>10. SlabsInv'
  BY <1>8 DEF SlabsInv
<1>11. ThreadsInv'
  BY <1>2, <1>8, <1>9 DEF ThreadsInv
<1>12. QueuesInv'
  <2>1. \A o \in Pair : o[1] = p[2] /\ o[2] = p[1] => Sound(message, o, ptr)
    BY <1>2, <1>3, <1>5 DEF Sound
  <2> QED  BY <1>7, <1>8, <2>1 DEF QueuesInv
<1>13. MeetInv'
  <2> SUFFICES ASSUME NEW s \in Slab, NEW t \in Slab, s # t, ptr'[s] = "resident"
               PROVE  Meets(s, t)'
    BY DEF MeetInv
  <2>1. <<s, t>> \in Pair /\ <<t, s>> \in Pair
    BY PairOf
  <2>2. CASE <<s, t>> = p
    <3>1. <<t, s>>[1] = p[2] /\ <<t, s>>[2] = p[1]
      BY <2>2
    <3>2. message \in Range(queue'[<<t, s>>])
      BY <1>7, <2>1, <3>1
    <3> QED  BY <1>5, <3>2 DEF Meets
  <2>3. CASE <<s, t>> # p
    <3>1. Meets(s, t)
      BY <1>8 DEF MeetInv
    <3> QED  BY <1>2, <1>7, <1>8, <1>9, <2>1, <2>3, <3>1 DEF Meets
  <2> QED  BY <2>2, <2>3
<1> QED  BY <1>8, <1>10, <1>11, <1>12, <1>13

LEMMA ReceivePeeringMesh ==
  ASSUME TypeInv, MeshInv, NEW p \in Pair, ReceivePeering(p) PROVE MeshInv'
<1> USE DEF MeshInv
<1>1. p[1] \in Slab /\ p[2] \in Slab /\ p[1] # p[2] /\ p = <<p[1], p[2]>>
  BY PairOf
<1> DEFINE message == Head(queue[p])
           said    == PeerlistFor(p[1], p[2])
           cited   == IF message.citing THEN AppliedTo(p[2], peers[p[2]], said)
                      ELSE peers[p[2]]
           new     == AppliedTo(p[2], cited, message.said)
<1>2. /\ queue[p] # << >> /\ queue \in Queues
      /\ message.kind = "peering" /\ Sound(message, p, ptr)
  BY ArrivedInRange, MeshArrived DEF ReceivePeering
<1>3. /\ ptr[p[1]] = "resident" /\ ptr[p[2]] = "resident"
      /\ Truthful(message.said, ptr) /\ message.said[p[1]] = "Resident"
  BY <1>2 DEF Sound
<1>4. /\ Range(queue[p]) = {message} \cup Range(queue'[p])
      /\ \A o \in Pair : o # p => queue'[o] = queue[o]
  BY <1>2, Taken DEF ReceivePeering
<1>5. peers' = [peers EXCEPT ![p[2]] = new]
  BY DEF ReceivePeering
<1> HIDE DEF message
<1>6. Truthful(said, ptr) /\ Truthful(peers[p[2]], ptr)
  BY <1>1, <1>3, PeerlistTruthful DEF SlabsInv
<1> HIDE DEF said
<1>7. /\ Truthful(cited, ptr)
      /\ \A t \in Slab : peers[p[2]][t] = "Resident" => cited[t] = "Resident"
  <2>1. /\ Truthful(AppliedTo(p[2], peers[p[2]], said), ptr)
        /\ \A t \in Slab : peers[p[2]][t] = "Resident"
                             => AppliedTo(p[2], peers[p[2]], said)[t] = "Resident"
    <3>1. /\ Truthful(AppliedTo(p[2], peers[p[2]], said), ptr)
          /\ \A t \in Slab :
               peers[p[2]][t] = "Resident" \/ (t # p[2] /\ said[t] = "Resident")
                 => AppliedTo(p[2], peers[p[2]], said)[t] = "Resident"
      BY <1>1, <1>6 DEF Truthful, AppliedTo
    <3> QED  BY <3>1
  <2> QED  BY <1>6, <2>1
<1> HIDE DEF cited
<1>8. /\ Truthful(new, ptr)
      /\ \A t \in Slab : peers[p[2]][t] = "Resident" => new[t] = "Resident"
      /\ new[p[1]] = "Resident"
  <2>1. /\ Truthful(AppliedTo(p[2], cited, message.said), ptr)
        /\ \A t \in Slab :
             cited[t] = "Resident" \/ (t # p[2] /\ message.said[t] = "Resident")
               => AppliedTo(p[2], cited, message.said)[t] = "Resident"
    BY <1>1, <1>3, <1>7 DEF Truthful, AppliedTo
  <2>2. p[1] \in Slab /\ p[1] # p[2] /\ message.said[p[1]] = "Resident"
    BY <1>1, <1>3
  <2> QED  BY <1>7, <2>1, <2>2
<1> HIDE DEF new
<1>9. \A s \in Slab : peers'[s] = IF s = p[2] THEN new ELSE peers[s]
  BY <1>5 DEF TypeInv, TypeOK
<1>10. ptr' = ptr
  BY <1>1, <1>3 DEF ReceivePeering, TypeInv, TypeOK
<1>11. stage' = stage /\ telling' = telling /\ list' = list /\ pc' = pc
  BY DEF ReceivePeering
<1>12. SlabsInv'
  BY <1>8, <1>9, <1>10, <1>11 DEF SlabsInv
<1>13. ThreadsInv'
  BY <1>10, <1>11 DEF ThreadsInv
<1>14. QueuesInv'
  BY <1>4, <1>10 DEF QueuesInv
<1>15. MeetInv'
  <2> SUFFICES ASSUME NEW s \in Slab, NEW t \in Slab, s # t, ptr'[s] = "resident"
               PROVE  Meets(s, t)'
    BY DEF MeetInv
  <2>1. <<s, t>> \in Pair /\ <<t, s>> \in Pair
    BY PairOf
  <2>2. CASE <<t, s>> = p
    <3>1. p[1] = t /\ p[2] = s
      BY <2>2
    <3> QED  BY <1>8, <1>9, <3>1 DEF Meets
  <2>3. CASE <<t, s>> # p
    <3>1. Meets(s, t)
      BY <1>10 DEF MeetInv
    <3>2. peers[s][t] = "Resident" => peers'[s][t] = "Resident"
      BY <1>8, <1>9
    <3>3. Memo \in Range(queue[<<s, t>>]) => Memo \in Range(queue'[<<s, t>>])
      BY <1>2, <1>4, <2>1 DEF Memo
    <3>4. queue'[<<t, s>>] = queue[<<t, s>>]
      BY <1>4, <2>1, <2>3
    <3> QED  BY <1>11, <3>1, <3>2, <3>3, <3>4 DEF Meets
  <2> QED  BY <2>2, <2>3
<1> QED  BY <1>11, <1>12, <1>13, <1>14, <1>15

LEMMA NextMesh ==
  ASSUME TypeInv, NobodyLetGo => MeshInv, [Next]_vars, NobodyLetGo'
  PROVE  MeshInv'
<1>1. ~ \E s \in Slab : Remotize(s)
  <2> SUFFICES ASSUME NEW s \in Slab, Remotize(s) PROVE FALSE  OBVIOUS
  <2>1. remotized[s] \in Nat /\ remotized'[s] = remotized[s] + 1
    BY SlabsAssumption DEF Remotize, TypeInv, TypeOK
  <2>2. remotized'[s] = 0
    BY DEF NobodyLetGo
  <2> QED  BY <2>1, <2>2
<1>2. remotized' = remotized
  BY <1>1, TaskStepFrame
  DEF Next, vars, NewMemo, Deliver, ReceiveRemote, ReceiveMemo, ReceivePeering,
      ReceiveRequest, AssertMemo, EmitMemo, Settle, Reassert, TellPeers, Fetch,
      Ask, TaskStep
<1>3. MeshInv
  BY <1>2 DEF NobodyLetGo
<1>4. ASSUME NEW p \in Pair, Deliver(p) PROVE MeshInv'
  <2>1. ~ReceiveRemote(p) /\ ~ReceiveRequest(p)
    BY <1>3, MeshArrived DEF ReceiveRemote, ReceiveRequest
  <2> QED
    BY <1>3, <1>4, <2>1, ReceiveMemoMesh, ReceivePeeringMesh, AssertMemoMesh,
       EmitMemoMesh, SettleMesh, ReassertMesh
    DEF Deliver
<1>5. ~ \E s \in Slab : TellPeers(s)
  BY <1>3 DEF MeshInv, SlabsInv, TellPeers
<1>6. ~ \E r \in Task : GetMemo(r) \/ Fetch(r) \/ Timeout(r)
  BY <1>3, SlabsAssumption
  DEF MeshInv, SlabsInv, GetMemo, Fetch, Register, Ask, Return, Timeout
<1>7. CASE UNCHANGED vars
  BY <1>3, <1>7
  DEF vars, MeshInv, SlabsInv, ThreadsInv, QueuesInv, MeetInv, Meets
<1> QED  BY <1>1, <1>3, <1>4, <1>5, <1>6, <1>7, NewMemoMesh DEF Next

(***************************************************************************)
(* However its deliveries interleave, the exchange of a memo that nobody   *)
(* lets go of ends with every slab having it and knowing that every other  *)
(* has, for any number of slabs up to the limit of five peers              *)
(* (consider_emit_memo, do_peering, apply_peers).                          *)
(***************************************************************************)
THEOREM MemoExchangeMeshIsComplete == Spec => []MeshIsComplete
<1>1. Init => (NobodyLetGo => MeshInv)
  BY InitMesh
<1>2. TypeInv /\ (NobodyLetGo => MeshInv) /\ [Next]_vars
        => (NobodyLetGo => MeshInv)'
  BY NextMesh
<1>3. TypeInv /\ (NobodyLetGo => MeshInv) => MeshIsComplete
  <2> SUFFICES ASSUME TypeInv, MeshInv, Quiescent, ptr[Origin] # "unknown"
               PROVE  \A s, t \in Slab : /\ ptr[s] = "resident"
                                         /\ s # t => peers[s][t] = "Resident"
    BY DEF MeshIsComplete, NobodyLetGo
  <2> USE DEF MeshInv
  <2>1. \A p \in Pair : Range(queue[p]) = {} /\ stage[p] = "idle"
    BY RangeOfEmpty DEF Quiescent, TypeInv, TypeOK
  <2>2. ASSUME NEW s \in Slab, NEW t \in Slab, s # t, ptr[s] = "resident"
        PROVE  peers[s][t] = "Resident"
    <3>1. Meets(s, t) /\ <<s, t>> \in Pair /\ <<t, s>> \in Pair
      BY <2>2, PairOf DEF MeetInv
    <3> QED  BY <2>1, <3>1 DEF Meets
  <2>3. ptr[Origin] = "resident"
    BY SlabsAssumption DEF SlabsInv, TypeInv, TypeOK
  <2>4. ASSUME NEW s \in Slab PROVE ptr[s] = "resident"
    BY <2>2, <2>3, SlabsAssumption DEF SlabsInv, Truthful
  <2> QED  BY <2>2, <2>4
<1> QED  BY <1>1, <1>2, <1>3, InitType, NextType, PTL DEF Spec

-----------------------------------------------------------------------------
(***************************************************************************)
(* NobodyWaitsInVain, when only slab "only" may let go of the memo.  Once  *)
(* it did, it knows a slab that keeps the memo, because up to then what is *)
(* said of peers is true (MeshInv); and whoever reads knows one, or will   *)
(* be told when the memo comes for the first time.                         *)
(***************************************************************************)
\* Slab t has a copy for ever.
Keeps(only, t) == t # only /\ ptr[t] = "resident"

KnowsKeeper(only, s) == \E t \in Listed(s) : Keeps(only, t)

\* What a thread has read from the sender's memoref names a slab that keeps
\* the memo, unless nobody need know one yet.
Offers(only, p) ==
  IF p[1] # only THEN Keeps(only, p[1]) /\ list[p][p[1]] # "none"
  ELSE NobodyLetGo \/ \E t \in Slab : /\ Keeps(only, t)
                                      /\ t = p[2] \/ list[p][t] # "none"

KeepersInv(only) ==
  /\ \A s \in Slab \ {only} : remotized[s] = 0
  /\ ~NobodyLetGo => KnowsKeeper(only, only)
  /\ \A p \in Pair :
       /\ stage[p] = "assert" => Offers(only, p)
       /\ stage[p] \in {"emit", "settle", "reassert"}
            => p[2] = only \/ ptr[p[2]] = "resident"

\* Who reads does so after a copy was let go, and knows whom to ask once its
\* own slab has the memo; who asked is on the list until it is answered.
ReadersInv(only) ==
  \A r \in Task :
    /\ pc[r] # "idle" => ~NobodyLetGo
    /\ pc[r] # "idle" /\ Keeps(only, SlabOf[r]) => KnowsKeeper(only, SlabOf[r])
    /\ pc[r] \in {"asking", "waiting"} => r \in answered \cup waiters[SlabOf[r]]

\* The memo is on its way to s from a slab that keeps it, or will be, ...
Asked(s, t) ==
  \/ Request \in Range(queue[<<s, t>>])
  \/ Memo \in Range(queue[<<t, s>>])
  \/ stage[<<t, s>>] = "assert"

\* ... or is there, and those who wait are to be told.
Telling(s) ==
  /\ ptr[s] = "resident"
  /\ \E p \in Pair : p[2] = s /\ stage[p] \in {"emit", "settle"}

Awaited(only, s) ==
  \/ remotized[s] >= 2
  \/ s # only /\ ptr[s] # "resident"
  \/ Telling(s)
  \/ \E t \in Slab \ {s} : Keeps(only, t) /\ Asked(s, t)

WaitingInv(only) ==
  \A r \in Task :
    pc[r] = "waiting" /\ r \notin answered => Awaited(only, SlabOf[r])

WaitInv(only) == KeepersInv(only) /\ ReadersInv(only) /\ WaitingInv(only)

-----------------------------------------------------------------------------
(***************************************************************************)
(* What a step does, whichever it is.                                      *)
(***************************************************************************)
\* The thread of a pair goes on, or stays where it is.
LEMMA StageSteps ==
  ASSUME TypeInv, NEW p \in Pair, [Next]_vars
  PROVE  \/ stage'[p] = stage[p] /\ list'[p] = list[p]
         \/ ReceiveMemo(p) \/ AssertMemo(p) \/ EmitMemo(p) \/ Settle(p) \/ Reassert(p)
<1>1. ASSUME NEW o \in Pair, o # p, Deliver(o)
      PROVE  stage'[p] = stage[p] /\ list'[p] = list[p]
  <2>1. /\ stage' = stage \/ \E v : stage' = [stage EXCEPT ![o] = v]
        /\ list' = list \/ \E v : list' = [list EXCEPT ![o] = v]
    <3>1. CASE ReceiveRemote(o) \/ ReceivePeering(o) \/ ReceiveRequest(o)
      BY <3>1 DEF ReceiveRemote, ReceivePeering, ReceiveRequest
    <3>2. CASE ReceiveMemo(o) \/ Reassert(o)
      BY <3>2 DEF ReceiveMemo, Reassert
    <3>3. CASE AssertMemo(o) \/ EmitMemo(o) \/ Settle(o)
      BY <3>3 DEF AssertMemo, EmitMemo, Settle
    <3> QED  BY <1>1, <3>1, <3>2, <3>3 DEF Deliver
  <2>2. stage \in [Pair -> {"idle", "assert", "emit", "settle", "reassert"}]
        /\ list \in [Pair -> [Slab -> Status]]
    BY DEF TypeInv, TypeOK
  <2> QED  BY <1>1, <2>1, <2>2
<1>2. CASE ReceiveRemote(p) \/ ReceivePeering(p) \/ ReceiveRequest(p)
  BY <1>2 DEF ReceiveRemote, ReceivePeering, ReceiveRequest
<1>3. CASE UNCHANGED vars
  BY <1>3 DEF vars
<1>4. ASSUME NEW r \in Task, GetMemo(r) \/ Fetch(r) \/ Timeout(r)
      PROVE  stage' = stage /\ list' = list
  BY <1>4, TaskStepFrame DEF Fetch, Ask, TaskStep
<1>5. CASE NewMemo \/ \E s \in Slab : Remotize(s) \/ TellPeers(s)
  BY <1>5 DEF NewMemo, Remotize, TellPeers
<1> QED  BY <1>1, <1>2, <1>3, <1>4, <1>5 DEF Next, Deliver

\* How a slab comes to have the memo.
LEMMA Gained ==
  ASSUME TypeInv, NEW s \in Slab, [Next]_vars,
         ptr[s] # "resident", ptr'[s] = "resident"
  PROVE  \/ NewMemo /\ s = Origin
         \/ \E p \in Pair : p[2] = s /\ (AssertMemo(p) \/ Reassert(p))
<1>1. ASSUME NEW p \in Pair, Deliver(p) PROVE p[2] = s /\ (AssertMemo(p) \/ Reassert(p))
  <2>0. p[2] \in Slab /\ ptr \in [Slab -> {"unknown", "remote", "resident"}]
    BY PairOf DEF TypeInv, TypeOK
  <2>1. CASE AssertMemo(p) \/ Reassert(p)
    <3>1. ptr' = [ptr EXCEPT ![p[2]] = "resident"]
      BY <2>1 DEF AssertMemo, Reassert, Resident
    <3> QED  BY <2>0, <2>1, <3>1
  <2>2. CASE ReceiveRemote(p) \/ ReceivePeering(p)
    BY <2>0, <2>2 DEF ReceiveRemote, ReceivePeering
  <2>3. CASE ReceiveMemo(p) \/ ReceiveRequest(p) \/ EmitMemo(p) \/ Settle(p)
    BY <2>3 DEF ReceiveMemo, ReceiveRequest, EmitMemo, Settle
  <2> QED  BY <1>1, <2>1, <2>2, <2>3 DEF Deliver
<1>2. ASSUME NEW o \in Slab, Remotize(o) \/ TellPeers(o) PROVE FALSE
  BY <1>2 DEF Remotize, TellPeers, TypeInv, TypeOK
<1>3. CASE NewMemo
  BY <1>3 DEF NewMemo, TypeInv, TypeOK
<1>4. ASSUME NEW r \in Task, Ask(r) \/ TaskStep(r) PROVE FALSE
  BY <1>4, TaskStepFrame DEF Ask
<1>5. ~ UNCHANGED vars
  BY DEF vars
<1> QED  BY <1>1, <1>2, <1>3, <1>4, <1>5 DEF Next, Fetch, TaskStep

\* A peer that was heard of stays on the list.
LEMMA HeardOf ==
  ASSUME NEW s, NEW known, NEW said, NEW t \in Slab
  PROVE  /\ known[t] # "none" => AppliedTo(s, known, said)[t] # "none"
         /\ t # s /\ said[t] # "none" => AppliedTo(s, known, said)[t] # "none"
BY DEF AppliedTo

LEMMA ListedStays ==
  ASSUME TypeInv, NEW s \in Slab, [Next]_vars
  PROVE  Listed(s) \subseteq Listed(s)'
<1> SUFFICES ASSUME NEW t \in Slab, peers[s][t] # "none" PROVE peers'[s][t] # "none"
  BY DEF Listed
<1>1. ASSUME NEW p \in Pair, Deliver(p) PROVE peers'[s][t] # "none"
  <2>1. p[2] \in Slab
    BY PairOf
  <2>2. \/ peers' = peers
        \/ \E said : peers' = [peers EXCEPT ![p[2]] = AppliedTo(p[2], peers[p[2]], said)]
        \/ \E one, two : peers' = [peers EXCEPT ![p[2]] =
                                    AppliedTo(p[2], AppliedTo(p[2], peers[p[2]], one), two)]
    BY <1>1
    DEF Deliver, ReceiveRemote, ReceiveMemo, ReceivePeering, ReceiveRequest,
        AssertMemo, EmitMemo, Settle, Reassert, Resident
  <2>3. \/ peers'[s] = peers[s]
        \/ \E said : peers'[s] = AppliedTo(s, peers[s], said)
        \/ \E one, two : peers'[s] = AppliedTo(s, AppliedTo(s, peers[s], one), two)
    BY <2>1, <2>2 DEF TypeInv, TypeOK
  <2> QED  BY <2>3, HeardOf
<1>2. CASE ~ \E p \in Pair : Deliver(p)
  <2>1. peers' = peers
    BY <1>2, TaskStepFrame
    DEF Next, vars, NewMemo, Remotize, TellPeers, Fetch, Ask, TaskStep
  <2> QED  BY <2>1
<1> QED  BY <1>1, <1>2

\* No slab takes back that it let go of the memo.
LEMMA LetGoStays ==
  ASSUME TypeInv, [Next]_vars
  PROVE  \/ remotized' = remotized
         \/ \E s \in Slab : /\ Remotize(s)
                            /\ remotized' = [remotized EXCEPT ![s] = remotized[s] + 1]
BY TaskStepFrame
DEF Next, vars, NewMemo, Deliver, ReceiveRemote, ReceiveMemo, ReceivePeering,
    ReceiveRequest, AssertMemo, EmitMemo, Settle, Reassert, Remotize, TellPeers,
    Fetch, Ask, TaskStep

-----------------------------------------------------------------------------
(***************************************************************************)
(* The queues, again: what was sent arrives.                               *)
(***************************************************************************)
\* The queue of p is read.
Received(p) ==
  ReceiveRemote(p) \/ ReceiveMemo(p) \/ ReceivePeering(p) \/ ReceiveRequest(p)

\* What is on its way after a message was answered.
LEMMA Answered ==
  ASSUME NEW p \in Pair, NEW m \in Message, NEW to, queue \in Queues,
         queue[p] # << >>, Reply(p, m, to)
  PROVE  /\ Range(queue[p]) = {Head(queue[p])} \cup Range(queue'[p])
         /\ \A o \in Pair : o # p => Range(queue[o]) \subseteq Range(queue'[o])
         /\ \A o \in Pair : o # p /\ o[1] = p[2] /\ o[2] \in to
                              => m \in Range(queue'[o])
<1>1. /\ Tail(queue[p]) \in Seq(Message)
      /\ Range(queue[p]) = {Head(queue[p])} \cup Range(Tail(queue[p]))
  BY RangeOfTail DEF Queues
<1>2. ASSUME NEW o \in Pair
      PROVE  Range(Append(queue[o], m)) = Range(queue[o]) \cup {m}
  <2>1. queue[o] \in Seq(Message)
    BY DEF Queues
  <2> QED  BY <2>1, RangeOfAppend
<1> QED  BY <1>1, <1>2 DEF Reply

\* Whoever is told, is told with a message.
LEMMA TellingIsMessage ==
  ASSUME TypeInv
  PROVE  /\ \A p \in Pair : Peering(PeerlistFor(p[2], p[1]), TRUE) \in Message
         /\ \A s \in Slab, status \in Status, citing \in BOOLEAN :
              Peering([Nobody EXCEPT ![s] = status], citing) \in Message
<1>1. ASSUME NEW p \in Pair PROVE Peering(PeerlistFor(p[2], p[1]), TRUE) \in Message
  BY PairOf, PeerlistForType, PeeringIsMessage DEF TypeInv
<1>2. ASSUME NEW s \in Slab, NEW status \in Status, NEW citing \in BOOLEAN
      PROVE  Peering([Nobody EXCEPT ![s] = status], citing) \in Message
  <2>1. [Nobody EXCEPT ![s] = status] \in PeerList
    BY DEF Nobody, PeerList, Status
  <2> QED  BY <2>1, PeeringIsMessage
<1> QED  BY <1>1, <1>2

\* What a step that reads no queue does to them.
LEMMA Sends ==
  ASSUME TypeInv, [Next]_vars, ~ \E p \in Pair : Received(p)
  PROVE  queue' = queue \/ \E m \in Message : \E from, to : Send(m, from, to)
<1>1. Memo \in Message /\ Request \in Message
  BY DEF Message
<1>2. CASE NewMemo
  BY <1>1, <1>2 DEF NewMemo
<1>3. ASSUME NEW p \in Pair, Deliver(p)
      PROVE  queue' = queue \/ \E m \in Message : \E from, to : Send(m, from, to)
  <2>1. CASE AssertMemo(p) \/ Reassert(p)
    BY <2>1 DEF AssertMemo, Reassert
  <2>2. CASE EmitMemo(p)
    BY <1>1, <2>2 DEF EmitMemo
  <2>3. CASE Settle(p)
    <3>1. Peering(PeerlistFor(p[2], p[1]), TRUE) \in Message
      BY TellingIsMessage
    <3>2. \/ queue' = queue
          \/ Send(Peering(PeerlistFor(p[2], p[1]), TRUE), p[2], {p[1]})
      BY <2>3 DEF Settle
    <3> QED  BY <3>1, <3>2
  <2> QED  BY <1>3, <2>1, <2>2, <2>3 DEF Deliver, Received
<1>4. ASSUME NEW s \in Slab, TellPeers(s)
      PROVE  \E m \in Message : \E from, to : Send(m, from, to)
  <2>1. Peering([Nobody EXCEPT ![s] = "Participating"], TRUE) \in Message
    BY TellingIsMessage DEF Status
  <2>2. Send(Peering([Nobody EXCEPT ![s] = "Participating"], TRUE), s, telling[s])
    BY <1>4 DEF TellPeers
  <2> QED  BY <2>1, <2>2
<1>5. ASSUME NEW s \in Slab, Remotize(s) PROVE queue' = queue
  BY <1>5 DEF Remotize
<1>6. ASSUME NEW r \in Task, Ask(r)
      PROVE  \E m \in Message : \E from, to : Send(m, from, to)
  BY <1>1, <1>6 DEF Ask
<1>7. ASSUME NEW r \in Task, TaskStep(r) PROVE queue' = queue
  BY <1>7, TaskStepFrame
<1>8. CASE UNCHANGED vars
  BY <1>8 DEF vars
<1> QED  BY <1>2, <1>3, <1>4, <1>5, <1>6, <1>7, <1>8 DEF Next, Fetch, TaskStep

\* A message stays in its queue until it is read.
LEMMA MessageStays ==
  ASSUME TypeInv, NEW p \in Pair, NEW m \in Range(queue[p]), [Next]_vars
  PROVE  \/ m \in Range(queue'[p])
         \/ Received(p) /\ m = Head(queue[p])
<1>0. queue \in Queues
  BY DEF TypeInv, TypeOK, Queues
<1>1. CASE ~ \E o \in Pair : Received(o)
  <2>1. CASE queue' = queue
    BY <2>1
  <2>2. ASSUME NEW n \in Message, NEW from, NEW to, Send(n, from, to)
        PROVE  m \in Range(queue'[p])
    BY <1>0, <2>2, Sent
  <2> QED  BY <1>1, <2>1, <2>2, Sends
<1>2. ASSUME NEW o \in Pair, ReceiveRemote(o) \/ ReceiveMemo(o) \/ ReceivePeering(o)
      PROVE  \/ m \in Range(queue'[p])
             \/ Received(p) /\ m = Head(queue[p])
  <2>1. queue[o] # << >> /\ queue' = [queue EXCEPT ![o] = Tail(@)]
    BY <1>2 DEF ReceiveRemote, ReceiveMemo, ReceivePeering, Arrived
  <2>2. /\ Range(queue[o]) = {Head(queue[o])} \cup Range(queue'[o])
        /\ \A q \in Pair : q # o => queue'[q] = queue[q]
    BY <1>0, <2>1, Taken
  <2> QED  BY <1>2, <2>2 DEF Received
<1>3. ASSUME NEW o \in Pair, ReceiveRequest(o)
      PROVE  \/ m \in Range(queue'[p])
             \/ Received(p) /\ m = Head(queue[p])
  <2>1. queue[o] # << >> /\ \E n \in Message : \E to : Reply(o, n, to)
    <3>1. Memo \in Message
      BY DEF Message
    <3>2. Peering([Nobody EXCEPT ![o[2]] = "NonParticipating"], FALSE) \in Message
      BY TellingIsMessage, PairOf DEF Status
    <3>3. ptr[o[2]] \in {"unknown", "remote", "resident"}
      BY PairOf DEF TypeInv, TypeOK
    <3> QED  BY <1>3, <3>1, <3>2, <3>3 DEF ReceiveRequest, Arrived
  <2>2. /\ Range(queue[o]) = {Head(queue[o])} \cup Range(queue'[o])
        /\ \A q \in Pair : q # o => Range(queue[q]) \subseteq Range(queue'[q])
    BY <1>0, <2>1, Answered
  <2> QED  BY <1>3, <2>2 DEF Received
<1> QED  BY <1>1, <1>2, <1>3 DEF Received

-----------------------------------------------------------------------------
(***************************************************************************)
(* The steps.                                                              *)
(***************************************************************************)
\* What the steps may use, besides the invariant itself.
Before(only) ==
  /\ TypeInv /\ FirstCopy /\ (NobodyLetGo => MeshInv)
  /\ only \in Slab /\ Remotizer \subseteq {only}

LEMMA KeeperStays ==
  ASSUME NEW only, Before(only), [Next]_vars
  PROVE  /\ \A t \in Slab : Keeps(only, t) => Keeps(only, t)'
         /\ \A s \in Slab : KnowsKeeper(only, s) => KnowsKeeper(only, s)'
<1>1. ASSUME NEW t \in Slab, Keeps(only, t) PROVE Keeps(only, t)'
  <2>1. t \in Slab \ Remotizer /\ ptr[t] = "resident"
    BY <1>1 DEF Before, Keeps
  <2> QED  BY <1>1, <2>1, CopyStays DEF Before, Keeps
<1>2. ASSUME NEW s \in Slab, NEW t \in Listed(s), Keeps(only, t)
      PROVE  t \in Listed(s)' /\ Keeps(only, t)'
  BY <1>1, <1>2, ListedStays DEF Before, Listed
<1> QED  BY <1>1, <1>2 DEF KnowsKeeper

LEMMA CountStays ==
  ASSUME NEW only, Before(only), KeepersInv(only), [Next]_vars
  PROVE  /\ \A s \in Slab \ {only} : remotized'[s] = 0
         /\ remotized[only] \in Nat /\ remotized'[only] >= remotized[only]
         /\ remotized' # remotized
              => Remotize(only) /\ remotized'[only] = remotized[only] + 1
         /\ ~NobodyLetGo => remotized[only] >= 1
         /\ ~NobodyLetGo => (~NobodyLetGo)'
<1>1. /\ only \in Slab /\ remotized \in [Slab -> 0 .. MaxRemotize]
      /\ \A s \in Slab \ {only} : remotized[s] = 0
      /\ remotized[only] \in Nat
  BY SlabsAssumption DEF Before, TypeInv, TypeOK, KeepersInv
<1>2. \/ remotized' = remotized
      \/ /\ Remotize(only)
         /\ remotized' = [remotized EXCEPT ![only] = remotized[only] + 1]
  BY LetGoStays DEF Before, Remotize
<1>3. ~NobodyLetGo => remotized[only] # 0
  BY <1>1 DEF NobodyLetGo
<1>4. remotized'[only] >= 1 => (~NobodyLetGo)'
  BY <1>1 DEF NobodyLetGo
<1>5. CASE remotized' = remotized
  BY <1>1, <1>3, <1>4, <1>5
<1>6. CASE /\ Remotize(only)
           /\ remotized' = [remotized EXCEPT ![only] = remotized[only] + 1]
  <2>1. /\ remotized'[only] = remotized[only] + 1
        /\ \A s \in Slab \ {only} : remotized'[s] = remotized[s]
    BY <1>1, <1>6
  <2> QED  BY <1>1, <1>3, <1>4, <1>6, <2>1
<1> QED  BY <1>2, <1>5, <1>6

LEMMA KeepersStep ==
  ASSUME NEW only, Before(only), KeepersInv(only), [Next]_vars
  PROVE  KeepersInv(only)'
<1>0. only \in Slab /\ TypeInv
  BY DEF Before
<1>1. ASSUME (~NobodyLetGo)' PROVE KnowsKeeper(only, only)'
  <2>1. CASE ~NobodyLetGo
    BY <1>0, <2>1, KeeperStays DEF KeepersInv
  <2>2. CASE NobodyLetGo
    <3>1. Remotize(only)
      BY <1>1, <2>2, CountStays DEF NobodyLetGo
    <3>2. PICK t \in Slab : peers[only][t] # "none"
      BY <3>1 DEF Remotize, Listed
    <3>3. t # only /\ ptr[t] = "resident"
      BY <1>0, <2>2, <3>2
      DEF Before, MeshInv, SlabsInv, Truthful, TypeInv, TypeOK
    <3>4. t \in Listed(only) /\ Keeps(only, t)
      BY <3>2, <3>3 DEF Listed, Keeps
    <3> QED  BY <1>0, <3>4, KeeperStays DEF KnowsKeeper
  <2> QED  BY <2>1, <2>2
<1>2. ASSUME NEW p \in Pair, stage'[p] = "assert" PROVE Offers(only, p)'
  <2>0. p[1] \in Slab /\ p[2] \in Slab /\ p[1] # p[2]
    BY PairOf
  <2>1. CASE stage[p] = "assert" /\ list'[p] = list[p]
    <3>1. Offers(only, p)
      BY <2>1 DEF KeepersInv
    <3>2. p[1] = only /\ NobodyLetGo => NobodyLetGo'
      <4>1. p[1] = only => Reading(only)
        BY <2>1 DEF Reading
      <4>2. p[1] = only => ~Remotize(only)
        BY <4>1 DEF Remotize
      <4> QED  BY <4>2, CountStays DEF NobodyLetGo
    <3> QED  BY <2>0, <2>1, <3>1, <3>2, KeeperStays DEF Offers
  <2>2. CASE ReceiveMemo(p)
    <3>1. /\ ptr[p[1]] = "resident" /\ ptr' = ptr /\ remotized' = remotized
          /\ list'[p] = PeerlistFor(p[1], p[2])
      BY <1>0, <2>2 DEF ReceiveMemo, TypeInv, TypeOK
    <3>2. CASE p[1] # only
      <4>1. list'[p][p[1]] # "none"
        BY <2>0, <3>1 DEF PeerlistFor, StatusOf
      <4> QED  BY <3>1, <3>2, <4>1 DEF Offers, Keeps
    <3>3. CASE p[1] = only /\ ~NobodyLetGo
      <4>1. PICK t \in Slab : peers[only][t] # "none" /\ Keeps(only, t)
        BY <3>3 DEF KeepersInv, KnowsKeeper, Listed
      <4>2. t = p[2] \/ list'[p][t] # "none"
        BY <2>0, <3>1, <3>3, <4>1 DEF PeerlistFor, Keeps
      <4> QED  BY <3>1, <3>3, <4>1, <4>2 DEF Offers, Keeps
    <3>4. CASE p[1] = only /\ NobodyLetGo
      BY <3>1, <3>4 DEF Offers, NobodyLetGo
    <3> QED  BY <3>2, <3>3, <3>4
  <2>3. ~AssertMemo(p) /\ ~EmitMemo(p) /\ ~Settle(p) /\ ~Reassert(p)
    BY <1>0, <1>2 DEF AssertMemo, EmitMemo, Settle, Reassert, TypeInv, TypeOK
  <2> QED  BY <1>0, <1>2, <2>1, <2>2, <2>3, StageSteps
<1>3. ASSUME NEW p \in Pair, stage'[p] \in {"emit", "settle", "reassert"}, p[2] # only
      PROVE  ptr'[p[2]] = "resident"
  <2>0. p[2] \in Slab /\ p[2] \notin Remotizer
    BY <1>3, PairOf DEF Before
  <2>1. CASE AssertMemo(p)
    BY <1>0, <2>0, <2>1 DEF AssertMemo, Resident, TypeInv, TypeOK
  <2>2. CASE stage[p] \in {"emit", "settle", "reassert"}
    <3>1. ptr[p[2]] = "resident"
      BY <1>3, <2>2 DEF KeepersInv
    <3> QED  BY <1>0, <2>0, <3>1, CopyStays
  <2>3. CASE ReceiveMemo(p)
    BY <1>0, <1>3, <2>3 DEF ReceiveMemo, TypeInv, TypeOK
  <2> QED  BY <1>0, <1>3, <2>1, <2>2, <2>3, StageSteps DEF EmitMemo, Settle, Reassert
<1>4. \A s \in Slab \ {only} : remotized'[s] = 0
  BY CountStays
<1> QED  BY <1>1, <1>2, <1>3, <1>4 DEF KeepersInv

\* Only letting go of a copy loses it.
LEMMA CopyLost ==
  ASSUME TypeInv, NEW s \in Slab, [Next]_vars, ptr[s] = "resident",
         ptr'[s] # "resident"
  PROVE  \E o \in Slab : Remotize(o)
<1>1. ASSUME NEW p \in Pair, Deliver(p) PROVE FALSE
  BY <1>1
  DEF Deliver, ReceiveRemote, ReceiveMemo, ReceivePeering, ReceiveRequest,
      AssertMemo, EmitMemo, Settle, Reassert, Resident, TypeInv, TypeOK
<1>2. ~ \E o \in Slab : TellPeers(o)
  BY DEF TellPeers
<1>3. ~NewMemo
  BY DEF NewMemo, TypeInv, TypeOK
<1>4. ~ \E r \in Task : Ask(r) \/ TaskStep(r)
  BY TaskStepFrame DEF Ask
<1>5. ~ UNCHANGED vars
  BY DEF vars
<1> QED  BY <1>1, <1>2, <1>3, <1>4, <1>5 DEF Next, Fetch, TaskStep

\* Nobody reads before the memo is issued.
LEMMA ReadersAfter ==
  ASSUME NEW only, Before(only), KeepersInv(only), ReadersInv(only),
         NEW r \in Task, pc[r] # "idle"
  PROVE  ~NewMemo
<1>1. only \in Slab /\ FirstCopy /\ KnowsKeeper(only, only)
  BY DEF Before, KeepersInv, ReadersInv
<1> QED  BY <1>1 DEF NewMemo, FirstCopy, Untouched, KnowsKeeper

\* How a slab that does not let go of the memo comes to have it.
LEMMA TakesIn ==
  ASSUME NEW only, Before(only), KeepersInv(only), ReadersInv(only),
         NEW r \in Task, pc[r] # "idle", [Next]_vars, SlabOf[r] # only,
         ptr[SlabOf[r]] # "resident", ptr'[SlabOf[r]] = "resident"
  PROVE  \E p \in Pair : p[2] = SlabOf[r] /\ AssertMemo(p)
<1>1. TypeInv /\ SlabOf[r] \in Slab
  BY SlabsAssumption DEF Before
<1>2. ~NewMemo
  BY ReadersAfter
<1>3. ASSUME NEW p \in Pair, p[2] = SlabOf[r], Reassert(p) PROVE FALSE
  BY <1>3 DEF KeepersInv, Reassert
<1> QED  BY <1>1, <1>2, <1>3, Gained

\* How far a task gets in a step, and who is still on the list.
LEMMA TaskSteps ==
  ASSUME TypeInv, NEW r \in Task, [Next]_vars
  PROVE  /\ pc'[r] # pc[r] => GetMemo(r) \/ Fetch(r) \/ Timeout(r)
         /\ r \in answered => r \in answered'
         /\ r \in answered \cup waiters[SlabOf[r]]
              => r \in answered' \cup waiters'[SlabOf[r]]
<1>0. SlabOf[r] \in Slab
  BY SlabsAssumption
<1>1. ASSUME NEW t \in Task, t # r, GetMemo(t) \/ Fetch(t) \/ Timeout(t)
      PROVE  pc'[r] = pc[r]
  BY <1>1
  DEF GetMemo, Fetch, Timeout, Register, Ask, Return, TypeInv, TypeOK
<1>2. ASSUME NEW t \in Task, GetMemo(t) \/ Fetch(t) \/ Timeout(t)
      PROVE  /\ answered' = answered
             /\ waiters[SlabOf[r]] \subseteq waiters'[SlabOf[r]]
  <2>1. answered' = answered
    BY <1>2 DEF GetMemo, Fetch, Timeout, Register, Ask, Return
  <2>2. CASE Register(t)
    <3>1. waiters' = [waiters EXCEPT ![SlabOf[t]] = @ \cup {t}]
      BY <2>2 DEF Register
    <3>2. waiters \in [Slab -> SUBSET Task] /\ SlabOf[t] \in Slab
      BY SlabsAssumption DEF TypeInv, TypeOK
    <3> QED  BY <1>0, <2>1, <3>1, <3>2
  <2>3. CASE ~Register(t)
    <3>1. waiters' = waiters
      BY <1>2, <2>3 DEF GetMemo, Fetch, Timeout, Ask, Return
    <3> QED  BY <2>1, <3>1
  <2> QED  BY <2>2, <2>3
<1>3. ASSUME NEW p \in Pair, Settle(p)
      PROVE  /\ pc' = pc /\ answered \subseteq answered'
             /\ waiters[SlabOf[r]] \subseteq answered' \cup waiters'[SlabOf[r]]
  <2>1. pc' = pc
    BY <1>3 DEF Settle
  <2>2. \/ /\ answered' = answered \cup waiters[p[2]]
           /\ waiters' = [waiters EXCEPT ![p[2]] = {}]
        \/ answered' = answered /\ waiters' = waiters
    BY <1>3 DEF Settle
  <2>3. waiters \in [Slab -> SUBSET Task]
    BY DEF TypeInv, TypeOK
  <2>4. CASE SlabOf[r] = p[2]
    BY <1>0, <2>1, <2>2, <2>3, <2>4
  <2>5. CASE SlabOf[r] # p[2]
    BY <1>0, <2>1, <2>2, <2>3, <2>5
  <2> QED  BY <2>4, <2>5
<1>4. CASE /\ ~ \E p \in Pair : Settle(p)
           /\ ~ \E t \in Task : GetMemo(t) \/ Fetch(t) \/ Timeout(t)
  <2>1. UNCHANGED <<pc, answered, waiters>>
    BY <1>4
    DEF Next, vars, NewMemo, Deliver, ReceiveRemote, ReceiveMemo, ReceivePeering,
        ReceiveRequest, AssertMemo, EmitMemo, Reassert, Remotize, TellPeers
  <2> QED  BY <2>1
<1> QED  BY <1>1, <1>2, <1>3, <1>4

LEMMA ReadersStep ==
  ASSUME NEW only, Before(only), KeepersInv(only), ReadersInv(only), [Next]_vars
  PROVE  ReadersInv(only)'
<1>0. only \in Slab /\ TypeInv
  BY DEF Before
<1> SUFFICES ASSUME NEW r \in Task
             PROVE  /\ pc'[r] # "idle" => (~NobodyLetGo)'
                    /\ pc'[r] # "idle" /\ Keeps(only, SlabOf[r])'
                         => KnowsKeeper(only, SlabOf[r])'
                    /\ pc'[r] \in {"asking", "waiting"}
                         => r \in answered' \cup waiters'[SlabOf[r]]
  BY DEF ReadersInv
<1> DEFINE s == SlabOf[r]
<1>1. s \in Slab
  BY SlabsAssumption
<1> HIDE DEF s
<1>2. pc[r] = "idle" /\ pc'[r] # "idle" => ptr[s] = "remote" /\ ptr' = ptr /\ GetMemo(r)
  BY <1>0, TaskSteps DEF GetMemo, Fetch, Register, Ask, Return, Timeout, s
<1>3. ASSUME pc'[r] # "idle" PROVE (~NobodyLetGo)'
  <2>1. CASE pc[r] # "idle"
    BY <2>1, CountStays DEF ReadersInv
  <2>2. CASE pc[r] = "idle"
    <3>1. ~NobodyLetGo
      BY <1>1, <1>2, <1>3, <2>2 DEF Before, MeshInv, SlabsInv
    <3> QED  BY <3>1, CountStays
  <2> QED  BY <2>1, <2>2
<1>4. ASSUME pc'[r] # "idle", Keeps(only, s)' PROVE KnowsKeeper(only, s)'
  <2>1. pc[r] # "idle"
    BY <1>2, <1>4 DEF Keeps
  <2>2. CASE Keeps(only, s)
    <3>1. KnowsKeeper(only, s)
      BY <2>1, <2>2 DEF ReadersInv, s
    <3> QED  BY <1>1, <3>1, KeeperStays
  <2>3. CASE ~Keeps(only, s)
    <3>1. s # only /\ ptr[s] # "resident" /\ ptr'[s] = "resident"
      BY <1>4, <2>3 DEF Keeps
    <3>2. PICK p \in Pair : p[2] = s /\ AssertMemo(p)
      BY <2>1, <3>1, TakesIn DEF s
    <3>3. Offers(only, p) /\ ~NobodyLetGo
      BY <2>1, <3>2 DEF KeepersInv, ReadersInv, AssertMemo
    <3>4. PICK t \in Slab : Keeps(only, t) /\ (t = s \/ list[p][t] # "none")
      BY <3>2, <3>3, PairOf DEF Offers
    <3>5. t # s /\ list[p][t] # "none"
      BY <3>1, <3>4 DEF Keeps
    <3>6. AppliedTo(s, peers[s], list[p])[t] # "none"
      BY <3>5, HeardOf
    <3>7. peers'[s] = AppliedTo(s, peers[s], list[p])
      BY <1>0, <1>1, <3>2 DEF AssertMemo, Resident, TypeInv, TypeOK
    <3>8. t \in Listed(s)' /\ Keeps(only, t)'
      BY <3>4, <3>6, <3>7, KeeperStays DEF Listed
    <3> QED  BY <3>8 DEF KnowsKeeper
  <2> QED  BY <2>2, <2>3
<1>5. ASSUME pc'[r] \in {"asking", "waiting"}
      PROVE  r \in answered' \cup waiters'[s]
  <2>1. CASE pc[r] \in {"asking", "waiting"}
    BY <1>0, <2>1, TaskSteps DEF ReadersInv, s
  <2>2. CASE pc[r] \notin {"asking", "waiting"}
    <3>1. Register(r)
      BY <1>0, <1>5, <2>2, TaskSteps
      DEF GetMemo, Fetch, Register, Ask, Return, Timeout, TypeInv, TypeOK
    <3> QED  BY <1>0, <1>1, <3>1 DEF Register, TypeInv, TypeOK, s
  <2> QED  BY <2>1, <2>2
<1> QED  BY <1>3, <1>4, <1>5 DEF s

\* Who asks will be answered.
LEMMA AskAwaits ==
  ASSUME NEW only, Before(only), KeepersInv(only), ReadersInv(only),
         NEW r \in Task, Ask(r)
  PROVE  Awaited(only, SlabOf[r])'
<1> DEFINE s == SlabOf[r]
<1>0. only \in Slab /\ TypeInv /\ s \in Slab
  BY SlabsAssumption DEF Before
<1>1. ptr' = ptr /\ stage' = stage /\ pc[r] = "asking" /\ Send(Request, s, Listed(s))
  BY DEF Ask
<1> HIDE DEF s
<1>2. CASE s # only /\ ptr[s] # "resident"
  BY <1>1, <1>2 DEF Awaited, s
<1>3. CASE s = only \/ ptr[s] = "resident"
  <2>1. KnowsKeeper(only, s)
    BY <1>1, <1>3 DEF KeepersInv, ReadersInv, Keeps, s
  <2>2. PICK t \in Listed(s) : Keeps(only, t)
    BY <2>1 DEF KnowsKeeper
  <2>3. t \in Slab \ {s} /\ <<s, t>> \in Pair
    BY <1>0, <2>2, PairOf DEF Listed, TypeInv, TypeOK
  <2>4. Request \in Range(queue'[<<s, t>>])
    <3>1. Request \in Message /\ queue \in Queues
      BY <1>0 DEF Message, TypeInv, TypeOK, Queues
    <3> DEFINE asked == Listed(s)
    <3>2. Send(Request, s, asked) /\ t \in asked
      BY <1>1, <2>2
    <3> HIDE DEF asked
    <3>3. \A p \in Pair : p[1] = s /\ p[2] \in asked => Request \in Range(queue'[p])
      BY <3>1, <3>2, Sent
    <3> QED  BY <2>3, <3>2, <3>3
  <2> QED  BY <1>1, <2>2, <2>3, <2>4 DEF Awaited, Asked, Keeps, s
<1> QED  BY <1>2, <1>3

\* What was asked of a slab that has the memo is answered.
LEMMA AskedStep ==
  ASSUME TypeInv, NEW s \in Slab, NEW t \in Slab \ {s}, ptr[t] = "resident",
         Asked(s, t), [Next]_vars
  PROVE  Asked(s, t)' \/ Telling(s)'
<1>0. /\ <<s, t>> \in Pair /\ <<t, s>> \in Pair /\ queue \in Queues
      /\ <<s, t>>[1] = s /\ <<s, t>>[2] = t /\ <<t, s>>[1] = t /\ <<t, s>>[2] = s
      /\ <<s, t>> # <<t, s>>
  BY PairOf DEF TypeInv, TypeOK, Queues
<1> DEFINE there == <<s, t>>
           back  == <<t, s>>
<1>1. CASE Request \in Range(queue[there])
  <2>1. CASE Request \in Range(queue'[there])
    BY <2>1 DEF Asked
  <2>2. CASE Received(there) /\ Request = Head(queue[there])
    <3>1. Head(queue[there]).kind = "request"
      BY <2>2 DEF Request
    <3>2. ReceiveRequest(there)
      BY <2>2, <3>1 DEF Received, ReceiveRemote, ReceiveMemo, ReceivePeering, Arrived
    <3>3. Reply(there, Memo, {s}) /\ queue[there] # << >>
      BY <1>0, <3>2 DEF ReceiveRequest, Arrived
    <3>4. Memo \in Message
      BY DEF Message
    <3>5. Memo \in Range(queue'[back])
      <4>1. \A o \in Pair : o # there /\ o[1] = there[2] /\ o[2] \in {s}
                              => Memo \in Range(queue'[o])
        BY <1>0, <3>3, <3>4, Answered
      <4> QED  BY <1>0, <4>1
    <3> QED  BY <3>5 DEF Asked
  <2> QED  BY <1>0, <1>1, <2>1, <2>2, MessageStays
<1>2. CASE Memo \in Range(queue[back])
  <2>1. CASE Memo \in Range(queue'[back])
    BY <2>1 DEF Asked
  <2>2. CASE Received(back) /\ Memo = Head(queue[back])
    <3>1. Head(queue[back]).kind = "memo"
      BY <2>2 DEF Memo
    <3>2. ReceiveMemo(back)
      BY <1>0, <2>2, <3>1 DEF Received, ReceiveRemote, ReceiveRequest, ReceivePeering,
                              Arrived
    <3>3. stage'[back] = "assert"
      BY <1>0, <3>2 DEF ReceiveMemo, TypeInv, TypeOK
    <3> QED  BY <3>3 DEF Asked
  <2> QED  BY <1>0, <1>2, <2>1, <2>2, MessageStays
<1>3. CASE stage[back] = "assert"
  <2>1. CASE stage'[back] = stage[back]
    BY <1>3, <2>1 DEF Asked
  <2>2. CASE AssertMemo(back)
    <3>1. ptr'[s] = "resident" /\ stage'[back] = "emit"
      BY <1>0, <2>2 DEF AssertMemo, Resident, TypeInv, TypeOK
    <3> QED  BY <1>0, <3>1 DEF Telling
  <2> QED
    BY <1>0, <1>3, <2>1, <2>2, StageSteps
    DEF ReceiveMemo, Arrived, EmitMemo, Settle, Reassert
<1> QED  BY <1>1, <1>2, <1>3 DEF Asked

LEMMA WaitingStep ==
  ASSUME NEW only, Before(only), KeepersInv(only), ReadersInv(only),
         WaitingInv(only), [Next]_vars
  PROVE  WaitingInv(only)'
<1>0. only \in Slab /\ TypeInv
  BY DEF Before
<1> SUFFICES ASSUME NEW r \in Task, pc'[r] = "waiting", r \notin answered'
             PROVE  Awaited(only, SlabOf[r])'
  BY DEF WaitingInv
<1>1. CASE pc[r] # "waiting"
  <2>1. Ask(r)
    BY <1>0, <1>1, TaskSteps
    DEF GetMemo, Fetch, Register, Ask, Return, Timeout, TypeInv, TypeOK
  <2> QED  BY <2>1, AskAwaits
<1>2. CASE pc[r] = "waiting"
  <2> DEFINE s == SlabOf[r]
  <2>1. /\ s \in Slab /\ r \notin answered /\ Awaited(only, s)
        /\ ~NobodyLetGo /\ r \in waiters[s]
    BY <1>0, <1>2, SlabsAssumption, TaskSteps DEF WaitingInv, ReadersInv
  <2> HIDE DEF s
  <2>2. CASE remotized[s] >= 2
    <3>1. s = only
      BY <2>1, <2>2 DEF KeepersInv
    <3>2. remotized'[s] >= 2
      BY <1>0, <2>2, <3>1, CountStays, NextType, SlabsAssumption DEF TypeInv, TypeOK
    <3> QED  BY <3>2 DEF Awaited, s
  <2>3. CASE s # only /\ ptr[s] # "resident"
    <3>1. CASE ptr'[s] # "resident"
      BY <2>3, <3>1 DEF Awaited, s
    <3>2. CASE ptr'[s] = "resident"
      <4>1. PICK p \in Pair : p[2] = s /\ AssertMemo(p)
        BY <1>2, <2>3, <3>2, TakesIn DEF s
      <4>2. stage'[p] = "emit"
        BY <1>0, <4>1 DEF AssertMemo, TypeInv, TypeOK
      <4> QED  BY <3>2, <4>1, <4>2 DEF Awaited, Telling, s
    <3> QED  BY <3>1, <3>2
  <2>4. CASE Telling(s)
    <3>1. PICK p \in Pair : p[2] = s /\ stage[p] \in {"emit", "settle"}
      BY <2>4 DEF Telling
    <3>2. CASE ptr'[s] = "resident"
      <4>1. ~Settle(p)
        <5> SUFFICES ASSUME Settle(p) PROVE FALSE  OBVIOUS
        <5>1. answered' = answered \cup waiters[s]
          BY <2>4, <3>1 DEF Settle, Telling
        <5> QED  BY <2>1, <5>1
      <4>2. stage'[p] \in {"emit", "settle"}
        BY <1>0, <3>1, <4>1, StageSteps
        DEF ReceiveMemo, Arrived, AssertMemo, EmitMemo, Reassert, TypeInv, TypeOK
      <4> QED  BY <3>1, <3>2, <4>2 DEF Awaited, Telling, s
    <3>3. CASE ptr'[s] # "resident"
      <4>1. s = only
        BY <1>0, <2>1, <2>4, <3>3, CopyStays DEF Before, Telling
      <4>2. remotized' # remotized
        <5>1. ptr[s] = "resident"
          BY <2>4 DEF Telling
        <5>2. \E o \in Slab : Remotize(o)
          BY <1>0, <2>1, <3>3, <5>1, CopyLost
        <5> QED  BY <1>0, <5>2, SlabsAssumption DEF Remotize, TypeInv, TypeOK
      <4>3. remotized[s] >= 1 /\ remotized'[s] = remotized[s] + 1 /\ remotized[s] \in Nat
        BY <2>1, <4>1, <4>2, CountStays
      <4> QED  BY <4>3 DEF Awaited, s
    <3> QED  BY <3>2, <3>3
  <2>5. ASSUME NEW t \in Slab \ {s}, Keeps(only, t), Asked(s, t)
        PROVE  Awaited(only, s)'
    <3>1. Asked(s, t)' \/ Telling(s)'
      BY <1>0, <2>1, <2>5, AskedStep DEF Keeps
    <3>2. Keeps(only, t)'
      BY <2>5, KeeperStays
    <3> QED  BY <3>1, <3>2 DEF Awaited, s
  <2> QED  BY <2>1, <2>2, <2>3, <2>4, <2>5 DEF Awaited, s
<1> QED  BY <1>1, <1>2

\* Whichever slab it is that may let go of the memo.
WaitsInv == \A only \in Slab : Remotizer \subseteq {only} => WaitInv(only)

LEMMA InitWaits == Init => WaitsInv
<1> SUFFICES ASSUME Init, NEW only \in Slab, Remotizer \subseteq {only}
             PROVE  WaitInv(only)
  BY DEF WaitsInv
<1>1. NobodyLetGo
  BY DEF Init, NobodyLetGo
<1>2. KeepersInv(only)
  BY <1>1 DEF Init, KeepersInv
<1>3. ReadersInv(only) /\ WaitingInv(only)
  BY DEF Init, ReadersInv, WaitingInv
<1> QED  BY <1>2, <1>3 DEF WaitInv

LEMMA NextWaits ==
  TypeInv /\ FirstCopy /\ (NobodyLetGo => MeshInv) /\ WaitsInv /\ [Next]_vars
    => WaitsInv'
<1> SUFFICES ASSUME TypeInv, FirstCopy, NobodyLetGo => MeshInv, WaitsInv, [Next]_vars,
                    NEW only \in Slab, Remotizer \subseteq {only}
             PROVE  WaitInv(only)'
  BY DEF WaitsInv
<1>1. Before(only) /\ WaitInv(only)
  BY DEF Before, WaitsInv
<1> QED  BY <1>1, KeepersStep, ReadersStep, WaitingStep DEF WaitInv

(***************************************************************************)
(* When at most one slab may let go of the memo, no task is left waiting   *)
(* for a memo that its slab has, in whatever order messages are delivered  *)
(* and however many tasks read on whichever slabs, a slab that let go of   *)
(* its copy twice excepted (request_memo, check_memo_waiters).             *)
(***************************************************************************)
THEOREM MemoExchangeNobodyWaitsInVain ==
  ASSUME NEW only \in Slab, Remotizer \subseteq {only}
  PROVE  Spec => []NobodyWaitsInVain
<1>1. Spec => [](NobodyLetGo => MeshInv)
  <2>1. Init => (NobodyLetGo => MeshInv)
    BY InitMesh
  <2>2. TypeInv /\ (NobodyLetGo => MeshInv) /\ [Next]_vars
          => (NobodyLetGo => MeshInv)'
    BY NextMesh
  <2> QED  BY <2>1, <2>2, InitType, NextType, PTL DEF Spec
<1>2. Spec => []FirstCopy
  <2>1. Init => FirstCopy
    BY InitTouched DEF FirstCopy
  <2> QED  BY <2>1, FirstCopyStep, InitType, NextType, PTL DEF Spec
<1>3. Spec => []WaitsInv
  BY <1>1, <1>2, InitWaits, NextWaits, SpecType, PTL DEF Spec
<1>4. TypeInv /\ WaitsInv => NobodyWaitsInVain
  <2> SUFFICES ASSUME TypeInv, WaitInv(only), Quiescent, NEW r \in Task,
                      pc[r] = "waiting", r \notin answered,
                      remotized[SlabOf[r]] <= 1
               PROVE  ptr[SlabOf[r]] # "resident"
    BY DEF NobodyWaitsInVain, WaitsInv
  <2> DEFINE s == SlabOf[r]
  <2>1. Awaited(only, s) /\ s \in Slab /\ remotized[s] \in Nat
    BY SlabsAssumption DEF WaitInv, WaitingInv, TypeInv, TypeOK
  <2> HIDE DEF s
  <2>2. \A p \in Pair : Range(queue[p]) = {} /\ stage[p] = "idle"
    BY RangeOfEmpty DEF Quiescent, TypeInv, TypeOK
  <2>3. ~Telling(s) /\ \A t \in Slab \ {s} : ~Asked(s, t)
    BY <2>1, <2>2, PairOf DEF Telling, Asked
  <2>4. ~ (remotized[s] >= 2)
    BY <2>1 DEF s
  <2> QED  BY <2>1, <2>3, <2>4 DEF Awaited, s
<1> QED  BY <1>3, <1>4, SpecType, PTL

-----------------------------------------------------------------------------
(***************************************************************************)
(* PeersHaveHadIt, whoever lets go of the memo.  Every peer list, in a     *)
(* memoref, in a message or in the hands of a thread, names only slabs     *)
(* that have had the memo; it is sent by such slabs, and asked of them.    *)
(***************************************************************************)
\* A peer list names only slabs of a set.
Names(said, slabs) == \A t \in Slab : said[t] # "none" => t \in slabs

\* What message m from slab p[1] to p[2] says of the slabs that have had it.
Carries(m, p, slabs) ==
  /\ m.kind = "memo" => p[1] \in slabs
  /\ m.kind = "request" => p[2] \in slabs
  /\ m.kind = "peering" => Names(m.said, slabs) /\ (m.citing => p[1] \in slabs)

\* A slab that has had the memo has a memoref, and only such a slab tells
\* others that it let go.
HadKnown == \A s \in Slab : /\ s \in Had => ptr[s] # "unknown"
                            /\ telling[s] # {} => s \in Had
                            /\ remotized[s] > 0 => Listed(s) # {}

HadLists == /\ \A s \in Slab : Names(peers[s], Had)
            /\ \A p \in Pair : Names(list[p], Had)

HadQueues == \A p \in Pair : \A m \in Range(queue[p]) : Carries(m, p, Had)

HadInv == HadKnown /\ HadLists /\ HadQueues

LEMMA InitHad == Init => HadInv
<1> SUFFICES ASSUME Init PROVE HadInv  OBVIOUS
<1>1. Untouched /\ (\A s \in Slab : ptr[s] = "unknown") /\ Had = {}
  BY InitTouched DEF Init, Had
<1>2. Names(Nobody, Had)
  BY DEF Names, Nobody
<1>3. HadKnown
  BY <1>1 DEF HadKnown, Untouched, Init
<1>4. HadLists
  BY <1>2 DEF HadLists, Init
<1>5. HadQueues
  BY <1>1 DEF HadQueues, Untouched
<1> QED  BY <1>3, <1>4, <1>5 DEF HadInv

\* A copy is let go of by its slab, which then has peers to tell.
LEMMA LetsGo ==
  ASSUME TypeInv, NEW s \in Slab, [Next]_vars, ptr[s] = "resident",
         ptr'[s] # "resident"
  PROVE  Remotize(s)
<1>1. PICK o \in Slab : Remotize(o)
  BY CopyLost
<1>2. ptr' = [ptr EXCEPT ![o] = "remote"]
  BY <1>1 DEF Remotize
<1> QED  BY <1>1, <1>2 DEF TypeInv, TypeOK

LEMMA TellingStays ==
  ASSUME TypeInv, NEW s \in Slab, [Next]_vars, ~Remotize(s)
  PROVE  telling'[s] \subseteq telling[s]
<1>1. ASSUME NEW o \in Slab, Remotize(o) \/ TellPeers(o)
      PROVE  telling'[s] \subseteq telling[s]
  BY <1>1 DEF Remotize, TellPeers, TypeInv, TypeOK
<1>2. CASE telling' = telling
  BY <1>2
<1>3. telling' = telling \/ \E o \in Slab : Remotize(o) \/ TellPeers(o)
  BY TaskStepFrame
  DEF Next, vars, NewMemo, Deliver, ReceiveRemote, ReceiveMemo, ReceivePeering,
      ReceiveRequest, AssertMemo, EmitMemo, Settle, Reassert, Fetch, Ask, TaskStep
<1> QED  BY <1>1, <1>2, <1>3

\* Who has had the memo has had it for ever.
LEMMA HadStays ==
  ASSUME TypeInv, [Next]_vars
  PROVE  Had \subseteq Had'
<1> SUFFICES ASSUME NEW s \in Had PROVE s \in Had'  OBVIOUS
<1>1. s \in Slab /\ remotized[s] \in Nat /\ remotized \in [Slab -> 0 .. MaxRemotize]
  BY SlabsAssumption DEF Had, TypeInv, TypeOK
<1>2. CASE remotized[s] > 0
  <2>1. remotized'[s] >= remotized[s]
    BY <1>1, LetGoStays
  <2> QED  BY <1>1, <1>2, <2>1, LetGoStays DEF Had
<1>3. CASE ptr[s] = "resident" /\ ptr'[s] # "resident"
  <2>1. Remotize(s)
    BY <1>1, <1>3, LetsGo
  <2>2. remotized'[s] = remotized[s] + 1
    BY <1>1, <2>1 DEF Remotize
  <2> QED  BY <1>1, <2>2 DEF Had
<1> QED  BY <1>1, <1>2, <1>3 DEF Had

\* What is said of more slabs is said of them still.
LEMMA CarriesStays ==
  ASSUME NEW S, NEW T, S \subseteq T
  PROVE  /\ \A said : Names(said, S) => Names(said, T)
         /\ \A m, p : Carries(m, p, S) => Carries(m, p, T)
BY DEF Names, Carries

LEMMA ListNames ==
  ASSUME NEW s \in Had, NEW dest \in Slab, Names(peers[s], Had)
  PROVE  Names(PeerlistFor(s, dest), Had)
BY DEF Names, PeerlistFor

LEMMA AppliedNames ==
  ASSUME NEW s, NEW known, NEW said, NEW S, Names(known, S), Names(said, S)
  PROVE  Names(AppliedTo(s, known, said), S)
BY DEF Names, AppliedTo

LEMMA KnownStep ==
  ASSUME TypeInv, HadKnown, [Next]_vars
  PROVE  HadKnown'
<1> SUFFICES ASSUME NEW s \in Slab
             PROVE  /\ s \in Had' => ptr'[s] # "unknown"
                    /\ telling'[s] # {} => s \in Had'
                    /\ remotized'[s] > 0 => Listed(s)' # {}
  BY DEF HadKnown
<1>1. /\ remotized[s] \in Nat /\ remotized \in [Slab -> 0 .. MaxRemotize]
      /\ telling \in [Slab -> SUBSET Slab]
      /\ ptr \in [Slab -> {"unknown", "remote", "resident"}]
  BY SlabsAssumption DEF TypeInv, TypeOK
<1>2. CASE Remotize(s)
  <2>1. ptr'[s] = "remote" /\ remotized'[s] = remotized[s] + 1
    BY <1>1, <1>2 DEF Remotize
  <2>2. s \in Had'
    BY <1>1, <2>1 DEF Had
  <2>3. Listed(s)' # {}
    BY <1>2, ListedStays DEF Remotize
  <2> QED  BY <2>1, <2>2, <2>3
<1>3. CASE ~Remotize(s)
  <2>1. remotized'[s] = remotized[s]
    BY <1>1, <1>3, LetGoStays
  <2>2. telling'[s] \subseteq telling[s]
    BY <1>1, <1>3, TellingStays
  <2>3. s \in Had' => ptr'[s] = "resident" \/ s \in Had
    BY <2>1 DEF Had
  <2>4. s \in Had => ptr'[s] # "unknown"
    BY KnownStays DEF HadKnown
  <2>5. telling'[s] # {} => s \in Had'
    BY <2>2, HadStays DEF HadKnown
  <2>6. remotized'[s] > 0 => Listed(s)' # {}
    BY <2>1, ListedStays DEF HadKnown
  <2> QED  BY <2>3, <2>4, <2>5, <2>6
<1> QED  BY <1>2, <1>3

\* The lists of memorefs and threads.
LEMMA ListsStep ==
  ASSUME TypeInv, HadInv, [Next]_vars
  PROVE  HadLists'
<1> USE DEF HadInv
<1>0. /\ Had \subseteq Slab
      /\ peers \in [Slab -> [Slab -> Status]] /\ list \in [Pair -> [Slab -> Status]]
      /\ \A s \in Slab : Names(peers[s], Had)
      /\ \A p \in Pair : Names(list[p], Had)
  BY DEF Had, TypeInv, TypeOK, HadLists
<1>1. /\ \A said : Names(said, Had) => Names(said, Had')
      /\ \A m, p : Carries(m, p, Had) => Carries(m, p, Had')
  BY HadStays, CarriesStays
<1>2. ASSUME NEW p \in Pair, NEW kind, Arrived(p, kind)
      PROVE  Head(queue[p]).kind = kind /\ Carries(Head(queue[p]), p, Had)
  BY <1>2, ArrivedInRange DEF HadQueues
<1>3. ASSUME NEW p \in Pair, Deliver(p)
      PROVE  \E new : Names(new, Had) /\ peers' \in {peers, [peers EXCEPT ![p[2]] = new]}
  <2>1. p[1] \in Slab /\ p[2] \in Slab
    BY PairOf
  <2>2. p[1] \in Had => Names(PeerlistFor(p[1], p[2]), Had)
    BY <1>0, <2>1, ListNames
  <2>3. Names(peers[p[2]], Had)
    BY <1>0, <2>1
  <2>4. CASE ReceiveRemote(p)
    <3> DEFINE new == AppliedTo(p[2], peers[p[2]], PeerlistFor(p[1], p[2]))
    <3>1. p[1] \in Had
      BY <1>2, <2>4 DEF ReceiveRemote, Carries
    <3>2. Names(new, Had) /\ peers' = [peers EXCEPT ![p[2]] = new]
      BY <2>2, <2>3, <2>4, <3>1, AppliedNames DEF ReceiveRemote
    <3> HIDE DEF new
    <3> QED  BY <3>2
  <2>5. CASE ReceivePeering(p)
    <3> DEFINE message == Head(queue[p])
               cited == IF message.citing
                        THEN AppliedTo(p[2], peers[p[2]], PeerlistFor(p[1], p[2]))
                        ELSE peers[p[2]]
               new == AppliedTo(p[2], cited, message.said)
    <3>1. Names(message.said, Had) /\ (message.citing => p[1] \in Had)
      BY <1>2, <2>5 DEF ReceivePeering, Carries
    <3>2. peers' = [peers EXCEPT ![p[2]] = new]
      BY <2>5 DEF ReceivePeering
    <3> HIDE DEF message
    <3>3. Names(cited, Had)
      BY <2>2, <2>3, <3>1, AppliedNames
    <3> HIDE DEF cited
    <3>4. Names(new, Had)
      BY <3>1, <3>3, AppliedNames
    <3> HIDE DEF new
    <3> QED  BY <3>2, <3>4
  <2>6. CASE AssertMemo(p) \/ Reassert(p)
    <3> DEFINE new == AppliedTo(p[2], peers[p[2]], list[p])
    <3>1. Names(new, Had)
      BY <1>0, <2>3, AppliedNames
    <3>2. peers' = [peers EXCEPT ![p[2]] = new]
      BY <2>6 DEF AssertMemo, Reassert, Resident
    <3> HIDE DEF new
    <3> QED  BY <3>1, <3>2
  <2>7. CASE ReceiveMemo(p) \/ ReceiveRequest(p) \/ EmitMemo(p) \/ Settle(p)
    BY <2>3, <2>7 DEF ReceiveMemo, ReceiveRequest, EmitMemo, Settle
  <2> QED  BY <1>3, <2>4, <2>5, <2>6, <2>7 DEF Deliver
<1>4. \A s \in Slab : Names(peers'[s], Had)
  <2>1. ASSUME NEW p \in Pair, Deliver(p), NEW s \in Slab PROVE Names(peers'[s], Had)
    <3>1. PICK new : Names(new, Had) /\ peers' \in {peers, [peers EXCEPT ![p[2]] = new]}
      BY <1>3, <2>1
    <3> QED  BY <1>0, <3>1
  <2>2. CASE ~ \E p \in Pair : Deliver(p)
    <3>1. peers' = peers
      BY <2>2, TaskStepFrame
      DEF Next, vars, NewMemo, Remotize, TellPeers, Fetch, Ask, TaskStep
    <3> QED  BY <1>0, <3>1
  <2> QED  BY <2>1, <2>2
<1>5. ASSUME NEW p \in Pair PROVE Names(list'[p], Had)
  <2>1. CASE ReceiveMemo(p)
    <3>1. p[1] \in Had /\ p[2] \in Slab /\ list'[p] = PeerlistFor(p[1], p[2])
      BY <1>0, <2>1, PairOf DEF ReceiveMemo, Had
    <3>2. Names(peers[p[1]], Had)
      BY <1>0, <3>1
    <3> QED  BY <3>1, <3>2, ListNames
  <2>2. CASE Reassert(p)
    <3>1. list'[p] = Nobody
      BY <1>0, <2>2 DEF Reassert
    <3> QED  BY <3>1 DEF Names, Nobody
  <2>3. CASE list'[p] = list[p]
    BY <1>0, <2>3
  <2>4. CASE AssertMemo(p) \/ EmitMemo(p) \/ Settle(p)
    BY <1>0, <2>4 DEF AssertMemo, EmitMemo, Settle
  <2> QED  BY <2>1, <2>2, <2>3, <2>4, StageSteps
<1> QED  BY <1>1, <1>4, <1>5 DEF HadLists

\* A message that was sent in answer to one is of the slab that answered.
LEMMA AnsweredWith ==
  ASSUME NEW p \in Pair, NEW m \in Message, NEW to, queue \in Queues,
         queue[p] # << >>, Reply(p, m, to), NEW o \in Pair, NEW n \in Range(queue'[o])
  PROVE  \/ n \in Range(queue[o])
         \/ n = m /\ o[1] = p[2] /\ o[2] \in to
<1>1. Range(Tail(queue[p])) \subseteq Range(queue[p])
  BY RangeOfTail DEF Queues
<1>2. Range(Append(queue[o], m)) = Range(queue[o]) \cup {m}
  BY RangeOfAppend DEF Queues
<1> QED  BY <1>1, <1>2 DEF Reply

\* What is on its way.
LEMMA QueuesStep ==
  ASSUME TypeInv, HadInv, [Next]_vars
  PROVE  HadQueues'
<1> USE DEF HadInv
<1> DEFINE Good == \A o \in Pair : \A n \in Range(queue'[o]) :
                     n \in Range(queue[o]) \/ Carries(n, o, Had')
<1>0. /\ queue \in Queues /\ Had \subseteq Had' /\ Had \subseteq Slab
      /\ Memo \in Message /\ Request \in Message
      /\ \A s \in Slab : Names(peers[s], Had)
  BY HadStays DEF TypeInv, TypeOK, Queues, Message, Had, HadLists
<1>1. Good => HadQueues'
  <2>1. \A m, p : Carries(m, p, Had) => Carries(m, p, Had')
    BY HadStays, CarriesStays
  <2> QED  BY <2>1 DEF HadQueues
<1>2. ASSUME NEW m \in Message, NEW from, NEW to, Send(m, from, to),
             \A o \in Pair : o[1] = from /\ o[2] \in to => Carries(m, o, Had')
      PROVE  Good
  <2>1. \A p \in Pair :
          Range(queue'[p]) = IF p[1] = from /\ p[2] \in to
                             THEN Range(queue[p]) \cup {m}
                             ELSE Range(queue[p])
    BY <1>0, <1>2, Sent
  <2> QED  BY <1>2, <2>1
<1>3. \A o \in Pair : /\ o[1] \in Had' => Carries(Memo, o, Had')
                      /\ o[2] \in Had' => Carries(Request, o, Had')
  BY DEF Memo, Request, Carries
<1>4. ASSUME NEW said \in PeerList, NEW s \in Had, Names(said, Had)
      PROVE  /\ Peering(said, TRUE) \in Message
             /\ \A o \in Pair : o[1] = s => Carries(Peering(said, TRUE), o, Had')
  <2>1. Names(said, Had')
    BY <1>0, <1>4, CarriesStays
  <2>2. Peering(said, TRUE).kind = "peering" /\ Peering(said, TRUE).said = said
    BY DEF Peering
  <2>3. Peering(said, TRUE) \in Message
    BY <1>4, PeeringIsMessage
  <2> QED  BY <1>0, <1>4, <2>1, <2>2, <2>3 DEF Carries
<1>5. ASSUME queue' = queue PROVE Good
  BY <1>5
<1>6. CASE NewMemo
  <2>1. ptr'[Origin] = "resident"
    BY <1>6, SlabsAssumption DEF NewMemo, TypeInv, TypeOK
  <2>2. Origin \in Had'
    BY <2>1, SlabsAssumption DEF Had
  <2>3. Send(Memo, Origin, EmitTo(Origin))
    BY <1>6 DEF NewMemo
  <2> HIDE DEF Good
  <2> QED  BY <1>0, <1>1, <1>2, <1>3, <2>2, <2>3
<1>7. ASSUME NEW p \in Pair, Deliver(p) PROVE Good
  <2>1. p[1] \in Slab /\ p[2] \in Slab
    BY PairOf
  <2>2. CASE ReceiveRemote(p) \/ ReceiveMemo(p) \/ ReceivePeering(p)
    <3>1. queue[p] # << >> /\ queue' = [queue EXCEPT ![p] = Tail(@)]
      BY <2>2 DEF ReceiveRemote, ReceiveMemo, ReceivePeering, Arrived
    <3>2. /\ Range(queue[p]) = {Head(queue[p])} \cup Range(queue'[p])
          /\ \A o \in Pair : o # p => queue'[o] = queue[o]
      BY <1>0, <3>1, Taken
    <3> QED  BY <3>2
  <2>3. CASE AssertMemo(p) \/ Reassert(p)
    BY <1>5, <2>3 DEF AssertMemo, Reassert
  <2>4. CASE EmitMemo(p)
    <3>1. CASE ptr[p[2]] = "resident"
      <4>1. p[2] \in Had' /\ Send(Memo, p[2], EmitTo(p[2]))
        BY <1>0, <2>1, <2>4, <3>1 DEF EmitMemo, Had
      <4> HIDE DEF Good
      <4> QED  BY <1>0, <1>2, <1>3, <4>1
    <3>2. CASE ptr[p[2]] # "resident"
      <4>1. Send(Memo, p[2], {})
        BY <2>4, <3>2 DEF EmitMemo
      <4> HIDE DEF Good
      <4> QED  BY <1>0, <1>2, <4>1
    <3> QED  BY <3>1, <3>2
  <2>5. CASE Settle(p)
    <3>1. CASE ptr[p[2]] = "resident"
      <4> DEFINE said == PeerlistFor(p[2], p[1])
      <4>1. p[2] \in Had
        BY <2>1, <3>1 DEF Had
      <4>2. said \in PeerList
        BY <2>1, PeerlistForType DEF TypeInv
      <4>3. Names(said, Had)
        BY <1>0, <2>1, <4>1, ListNames
      <4>4. Send(Peering(said, TRUE), p[2], {p[1]})
        BY <2>5, <3>1 DEF Settle
      <4> HIDE DEF Good, said
      <4>5. /\ Peering(said, TRUE) \in Message
            /\ \A o \in Pair : o[1] = p[2] => Carries(Peering(said, TRUE), o, Had')
        BY <1>4, <4>1, <4>2, <4>3
      <4> QED  BY <1>2, <4>4, <4>5
    <3>2. CASE ptr[p[2]] # "resident"
      BY <1>5, <2>5, <3>2 DEF Settle
    <3> QED  BY <3>1, <3>2
  <2>6. CASE ReceiveRequest(p)
    <3>1. queue[p] # << >> /\ p[2] \in Had
      BY <2>6, ArrivedInRange DEF ReceiveRequest, Carries, HadQueues
    <3>2. ptr[p[2]] \in {"resident", "remote"}
      BY <2>1, <3>1 DEF HadKnown, TypeInv, TypeOK
    <3>3. Reply(p, Memo, {p[1]}) \/ Reply(p, Memo, {})
      BY <2>6, <3>2 DEF ReceiveRequest
    <3>4. ASSUME NEW to, Reply(p, Memo, to),
                 NEW o \in Pair, NEW n \in Range(queue'[o])
          PROVE  n \in Range(queue[o]) \/ (n = Memo /\ o[1] = p[2])
      BY <1>0, <3>1, <3>4, AnsweredWith
    <3>5. \A o \in Pair : \A n \in Range(queue'[o]) :
            n \in Range(queue[o]) \/ (n = Memo /\ o[1] = p[2])
      BY <3>3, <3>4
    <3> QED  BY <1>0, <1>3, <3>1, <3>5
  <2> QED  BY <1>7, <2>2, <2>3, <2>4, <2>5, <2>6 DEF Deliver
<1>8. ASSUME NEW s \in Slab, TellPeers(s) PROVE Good
  <2> DEFINE said == [Nobody EXCEPT ![s] = "Participating"]
  <2>1. s \in Had
    BY <1>8 DEF TellPeers, HadKnown
  <2>2. said \in PeerList /\ Names(said, Had)
    BY <2>1 DEF Nobody, PeerList, Status, Names
  <2>3. Send(Peering(said, TRUE), s, telling[s])
    BY <1>8 DEF TellPeers
  <2> HIDE DEF Good, said
  <2>4. /\ Peering(said, TRUE) \in Message
        /\ \A o \in Pair : o[1] = s => Carries(Peering(said, TRUE), o, Had')
    BY <1>4, <2>1, <2>2
  <2> QED  BY <1>2, <2>3, <2>4
<1>9. ASSUME NEW s \in Slab, Remotize(s) PROVE Good
  BY <1>5, <1>9 DEF Remotize
<1>10. ASSUME NEW r \in Task, Ask(r) PROVE Good
  <2>1. SlabOf[r] \in Slab /\ Send(Request, SlabOf[r], Listed(SlabOf[r]))
    BY <1>10, SlabsAssumption DEF Ask
  <2>2. Listed(SlabOf[r]) \subseteq Had'
    BY <1>0, <2>1 DEF Listed, Names
  <2> HIDE DEF Good
  <2> QED  BY <1>0, <1>2, <1>3, <2>1, <2>2
<1>11. ASSUME NEW r \in Task, TaskStep(r) PROVE Good
  BY <1>5, <1>11, TaskStepFrame
<1>12. CASE UNCHANGED vars
  BY <1>1, <1>5, <1>12 DEF vars
<1> HIDE DEF Good
<1> QED
  BY <1>1, <1>6, <1>7, <1>8, <1>9, <1>10, <1>11, <1>12 DEF Next, Fetch, TaskStep

(***************************************************************************)
(* Whichever slabs let go of the memo, and however often they request it   *)
(* again, a slab that let go of it knows a peer, and every peer it knows   *)
(* has had the memo itself, as long as peer lists are passed on            *)
(* (remotize_memoref, get_peerlist_for_peer, apply_peers, do_peering).     *)
(***************************************************************************)
THEOREM MemoExchangePeersHaveHadIt == Spec => []PeersHaveHadIt
<1>1. TypeInv /\ HadInv /\ [Next]_vars => HadInv'
  BY KnownStep, ListsStep, QueuesStep DEF HadInv
<1>2. HadInv => PeersHaveHadIt
  BY DEF HadInv, HadKnown, HadLists, Names, Listed, PeersHaveHadIt
<1> QED  BY <1>1, <1>2, InitHad, SpecType, PTL DEF Spec
=============================================================================
