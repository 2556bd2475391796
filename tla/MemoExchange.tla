---------------------------- MODULE MemoExchange ----------------------------
(***************************************************************************)
(* How the slabs of a system share one memo: SlabAgent (slab/agent.rs),    *)
(* SlabHandle::request_memo (slab/handle.rs) and MemoRef                   *)
(* (slab/memoref/mod.rs), over the LocalDirect transport                   *)
(* (network/transport/local_direct.rs).                                    *)
(*                                                                         *)
(* A slab that issues or receives the memo sends it to the peers that are  *)
(* not known to have it, and tells whoever sent it that it has it too.     *)
(* With enough peers it may let go of its copy and request it again later. *)
(*                                                                         *)
(* A message is a reference to the memoref of its sender, which the        *)
(* receiver reads when the message arrives.  Each pair of slabs has a      *)
(* queue and a thread that delivers its messages in order.  While it takes *)
(* in the memo the thread holds the sender's memoref locked for reading;   *)
(* letting go of a copy, and taking one in, need the memoref of the slab   *)
(* locked for writing.                                                     *)
(***************************************************************************)
EXTENDS Naturals, Sequences, FiniteSets, SequencesExt

CONSTANTS
  Slab,         \* the slabs, which all know each other
  Origin,       \* the slab that issues the memo
  Remotizer,    \* the slabs that let go of it
  Task,         \* the tasks that read it
  SlabOf,       \* SlabOf[r]: the slab of task r
  MaxRemotize,  \* bound on how often one slab lets go of it
  MaxTries      \* how often a request is sent: 3 in the code

\* The limit of five peers, for emitting and for asking, is never reached.
ASSUME SlabsAssumption ==
  /\ IsFiniteSet(Slab) /\ Cardinality(Slab) <= 6
  /\ Origin \in Slab
  /\ Remotizer \subseteq Slab
  /\ SlabOf \in [Task -> Slab]
  /\ MaxTries \in Nat \ {0}
  /\ MaxRemotize \in Nat

Pair == {p \in Slab \X Slab : p[1] # p[2]}

VARIABLES
  ptr,        \* ptr[s]: the memoref of s: "unknown", "remote" or "resident"
  peers,      \* peers[s][t]: what the memoref of s says of slab t, or "none"
  queue,      \* queue[<<s, t>>]: the messages on their way from s to t
  stage,      \* how far the thread of a pair is with a memo
  list,       \* the peer list it has read from the sender's memoref
  telling,    \* telling[s]: peers to be told that s let go of its copy
  remotized,  \* how often s has let go of it
  pc,         \* where task r is
  tries,      \* how often its request was sent
  waiters,    \* waiters[s]: tasks that registered for the memo
  answered    \* the tasks that were given it

vars == <<ptr, peers, queue, stage, list, telling, remotized, pc, tries,
          waiters, answered>>

Nobody == [t \in Slab |-> "none"]

Init ==
  /\ ptr = [s \in Slab |-> "unknown"]
  /\ peers = [s \in Slab |-> Nobody]
  /\ queue = [p \in Pair |-> << >>]
  /\ stage = [p \in Pair |-> "idle"]
  /\ list = [p \in Pair |-> Nobody]
  /\ telling = [s \in Slab |-> {}]
  /\ remotized = [s \in Slab |-> 0]
  /\ pc = [r \in Task |-> "idle"]
  /\ tries = [r \in Task |-> 0]
  /\ waiters = [s \in Slab |-> {}]
  /\ answered = {}

Memo == [kind |-> "memo"]
Request == [kind |-> "request"]

\* A Peering memo; citing: whether its parent is the memo it is about.
Peering(said, citing) == [kind |-> "peering", said |-> said, citing |-> citing]

Send(message, from, to) ==
  queue' = [p \in Pair |-> IF p[1] = from /\ p[2] \in to
                           THEN Append(queue[p], message) ELSE queue[p]]

\* The queue of p loses its first message, and its receiver may send others.
Reply(p, message, to) ==
  queue' = [q \in Pair |->
              IF q = p THEN Tail(queue[p])
              ELSE IF q[1] = p[2] /\ q[2] \in to THEN Append(queue[q], message)
              ELSE queue[q]]

-----------------------------------------------------------------------------
\* MemoRefPtr::to_peering_status.
StatusOf(s) == IF ptr[s] = "resident" THEN "Resident" ELSE "Participating"

\* MemoRef::get_peerlist_for_peer.
PeerlistFor(s, dest) ==
  [t \in Slab |-> IF t = s THEN StatusOf(s)
                  ELSE IF t = dest THEN "none" ELSE peers[s][t]]

\* What slab s makes of a peer list: MemoRef::apply_peers, update_peer.
AppliedTo(s, known, said) ==
  [t \in Slab |-> IF t = s \/ said[t] = "none" THEN known[t] ELSE said[t]]

Listed(s) == {t \in Slab : peers[s][t] # "none"}

\* The peers consider_emit_memo sends to.
EmitTo(s) ==
  {t \in Slab \ {s} : peers[s][t] \in {"none", "NonParticipating"}}

\* A thread delivers from s and holds its memoref.
Reading(s) == \E p \in Pair : p[1] = s /\ stage[p] \in {"assert", "emit", "settle"}

-----------------------------------------------------------------------------
\* SlabAgent::new_memo.
NewMemo ==
  /\ ptr[Origin] = "unknown"
  /\ ptr' = [ptr EXCEPT ![Origin] = "resident"]
  /\ Send(Memo, Origin, EmitTo(Origin))
  /\ UNCHANGED <<peers, stage, list, telling, remotized, pc, tries, waiters,
                 answered>>

(***************************************************************************)
(* SlabAgent::localize_memoref, for a message that is the memo.            *)
(***************************************************************************)
Arrived(p, kind) ==
  /\ stage[p] = "idle"
  /\ queue[p] # << >>
  /\ Head(queue[p]).kind = kind

\* The sender no longer has it: only its peer list is of use.
ReceiveRemote(p) ==
  /\ Arrived(p, "memo")
  /\ ptr[p[1]] # "resident"
  /\ ptr' = [ptr EXCEPT ![p[2]] = IF @ = "unknown" THEN "remote" ELSE @]
  /\ peers' = [peers EXCEPT ![p[2]] =
                 AppliedTo(p[2], @, PeerlistFor(p[1], p[2]))]
  /\ queue' = [queue EXCEPT ![p] = Tail(@)]
  /\ UNCHANGED <<stage, list, telling, remotized, pc, tries, waiters, answered>>

ReceiveMemo(p) ==
  /\ Arrived(p, "memo")
  /\ ptr[p[1]] = "resident"
  /\ list' = [list EXCEPT ![p] = PeerlistFor(p[1], p[2])]
  /\ stage' = [stage EXCEPT ![p] = "assert"]
  /\ queue' = [queue EXCEPT ![p] = Tail(@)]
  /\ UNCHANGED <<ptr, peers, telling, remotized, pc, tries, waiters, answered>>

Writable(s) == ptr[s] = "unknown" \/ ~Reading(s)

\* Faulty: a memoref that exists is not made resident again.
ResidentOnce(p) ==
  /\ Writable(p[2])
  /\ ptr' = [ptr EXCEPT ![p[2]] = IF @ = "unknown" THEN "resident" ELSE @]
  /\ peers' = [peers EXCEPT ![p[2]] = AppliedTo(p[2], @, list[p])]

\* assert_memoref with the memo: the memoref becomes resident.
Resident(p) ==
  /\ Writable(p[2])
  /\ ptr' = [ptr EXCEPT ![p[2]] = "resident"]
  /\ peers' = [peers EXCEPT ![p[2]] = AppliedTo(p[2], @, list[p])]

AssertMemo(p) ==
  /\ stage[p] = "assert"
  /\ Resident(p)
  /\ stage' = [stage EXCEPT ![p] = "emit"]
  /\ UNCHANGED <<queue, list, telling, remotized, pc, tries, waiters, answered>>

\* Faulty: whoever is sent the memo is taken for a peer that has it.
EmitMemoTrusting(p) ==
  /\ stage[p] = "emit"
  /\ Send(Memo, p[2], IF ptr[p[2]] = "resident" THEN EmitTo(p[2]) ELSE {})
  /\ peers' = [peers EXCEPT ![p[2]] =
                 [t \in Slab |-> IF t \in EmitTo(p[2]) THEN "Resident" ELSE @[t]]]
  /\ stage' = [stage EXCEPT ![p] = "settle"]
  /\ UNCHANGED <<ptr, list, telling, remotized, pc, tries, waiters, answered>>

\* consider_emit_memo.
EmitMemo(p) ==
  /\ stage[p] = "emit"
  /\ Send(Memo, p[2], IF ptr[p[2]] = "resident" THEN EmitTo(p[2]) ELSE {})
  /\ stage' = [stage EXCEPT ![p] = "settle"]
  /\ UNCHANGED <<ptr, peers, list, telling, remotized, pc, tries, waiters,
                 answered>>

\* Faulty: the sender is told only that the memo came, not who else has it.
SettleBriefly(p) ==
  /\ stage[p] = "settle"
  /\ IF ptr[p[2]] = "resident"
     THEN /\ answered' = answered \cup waiters[p[2]]
          /\ waiters' = [waiters EXCEPT ![p[2]] = {}]
          /\ UNCHANGED queue
     ELSE UNCHANGED <<answered, waiters, queue>>
  /\ stage' = [stage EXCEPT ![p] = "reassert"]
  /\ UNCHANGED <<ptr, peers, list, telling, remotized, pc, tries>>

\* check_memo_waiters and do_peering, if the memo is still there.
Settle(p) ==
  /\ stage[p] = "settle"
  /\ IF ptr[p[2]] = "resident"
     THEN /\ answered' = answered \cup waiters[p[2]]
          /\ waiters' = [waiters EXCEPT ![p[2]] = {}]
          /\ Send(Peering(PeerlistFor(p[2], p[1]), TRUE), p[2], {p[1]})
     ELSE UNCHANGED <<answered, waiters, queue>>
  /\ stage' = [stage EXCEPT ![p] = "reassert"]
  /\ UNCHANGED <<ptr, peers, list, telling, remotized, pc, tries>>

\* localize_memoref asserts what localize_memo has asserted once more.
Reassert(p) ==
  /\ stage[p] = "reassert"
  /\ Resident(p)
  /\ stage' = [stage EXCEPT ![p] = "idle"]
  /\ list' = [list EXCEPT ![p] = Nobody]
  /\ UNCHANGED <<queue, telling, remotized, pc, tries, waiters, answered>>

(***************************************************************************)
(* handle_memo_from_other_slab, for the other messages.  The parent of a   *)
(* Peering memo is localized first, and its peers are those the sender's   *)
(* memoref has by then; what the memo itself says comes on top.            *)
(***************************************************************************)
ReceivePeering(p) ==
  /\ Arrived(p, "peering")
  /\ LET message == Head(queue[p])
         cited   == IF message.citing
                    THEN AppliedTo(p[2], peers[p[2]], PeerlistFor(p[1], p[2]))
                    ELSE peers[p[2]]
     IN  peers' = [peers EXCEPT ![p[2]] = AppliedTo(p[2], cited, message.said)]
  /\ ptr' = [ptr EXCEPT ![p[2]] = IF @ = "unknown" THEN "remote" ELSE @]
  /\ queue' = [queue EXCEPT ![p] = Tail(@)]
  /\ UNCHANGED <<stage, list, telling, remotized, pc, tries, waiters, answered>>

\* To a request for a memo it knows and does not have, a slab says nothing:
\* do_peering is called with the request, which does no peering.
ReceiveRequest(p) ==
  /\ Arrived(p, "request")
  /\ CASE ptr[p[2]] = "resident" -> Reply(p, Memo, {p[1]})
       [] ptr[p[2]] = "remote"   -> Reply(p, Memo, {})
       [] ptr[p[2]] = "unknown"  ->
            Reply(p, Peering([Nobody EXCEPT ![p[2]] = "NonParticipating"], FALSE),
                  {p[1]})
  /\ UNCHANGED <<ptr, peers, stage, list, telling, remotized, pc, tries,
                 waiters, answered>>

-----------------------------------------------------------------------------
\* SlabAgent::remotize_memoref, which remotize_memos repeats until there are
\* peers.
Remotize(s) ==
  /\ s \in Remotizer
  /\ remotized[s] < MaxRemotize
  /\ telling[s] = {}
  /\ ptr[s] = "resident"
  /\ ~Reading(s)
  /\ Listed(s) # {}
  /\ ptr' = [ptr EXCEPT ![s] = "remote"]
  /\ telling' = [telling EXCEPT ![s] = Listed(s)]
  /\ remotized' = [remotized EXCEPT ![s] = @ + 1]
  /\ UNCHANGED <<peers, queue, stage, list, pc, tries, waiters, answered>>

TellPeers(s) ==
  /\ telling[s] # {}
  /\ Send(Peering([Nobody EXCEPT ![s] = "Participating"], TRUE), s, telling[s])
  /\ telling' = [telling EXCEPT ![s] = {}]
  /\ UNCHANGED <<ptr, peers, stage, list, remotized, pc, tries, waiters,
                 answered>>

-----------------------------------------------------------------------------
(***************************************************************************)
(* MemoRef::get_memo and SlabHandle::request_memo.                         *)
(***************************************************************************)
\* The memoref is remote; a request will be made.
GetMemo(r) ==
  /\ pc[r] = "idle"
  /\ ptr[SlabOf[r]] = "remote"
  /\ pc' = [pc EXCEPT ![r] = "missed"]
  /\ UNCHANGED <<ptr, peers, queue, stage, list, telling, remotized, tries,
                 waiters, answered>>

\* Faulty: the task takes the place of whoever waits already.
RegisterOver(r) ==
  /\ pc[r] = "missed"
  /\ waiters' = [waiters EXCEPT ![SlabOf[r]] = {r}]
  /\ pc' = [pc EXCEPT ![r] = "asking"]
  /\ UNCHANGED <<ptr, peers, queue, stage, list, telling, remotized, tries,
                 answered>>

\* memo_wait_channel.
Register(r) ==
  /\ pc[r] = "missed"
  /\ waiters' = [waiters EXCEPT ![SlabOf[r]] = @ \cup {r}]
  /\ pc' = [pc EXCEPT ![r] = "asking"]
  /\ UNCHANGED <<ptr, peers, queue, stage, list, telling, remotized, tries,
                 answered>>

\* Every peer on the list is asked, whatever its status.
Ask(r) ==
  /\ pc[r] = "asking"
  /\ Send(Request, SlabOf[r], Listed(SlabOf[r]))
  /\ tries' = [tries EXCEPT ![r] = @ + 1]
  /\ pc' = [pc EXCEPT ![r] = IF Listed(SlabOf[r]) = {} THEN "failed" ELSE "waiting"]
  /\ UNCHANGED <<ptr, peers, stage, list, telling, remotized, waiters, answered>>

\* The timer runs out before the memo comes; the wait channel stays.
Timeout(r) ==
  /\ pc[r] = "waiting"
  /\ r \notin answered
  /\ pc' = [pc EXCEPT ![r] = IF tries[r] < MaxTries THEN "asking" ELSE "failed"]
  /\ UNCHANGED <<ptr, peers, queue, stage, list, telling, remotized, tries,
                 waiters, answered>>

Return(r) ==
  /\ pc[r] = "waiting"
  /\ r \in answered
  /\ pc' = [pc EXCEPT ![r] = "found"]
  /\ UNCHANGED <<ptr, peers, queue, stage, list, telling, remotized, tries,
                 waiters, answered>>

-----------------------------------------------------------------------------
Deliver(p) ==
  \/ ReceiveRemote(p) \/ ReceiveMemo(p) \/ ReceivePeering(p) \/ ReceiveRequest(p)
  \/ AssertMemo(p) \/ EmitMemo(p) \/ Settle(p) \/ Reassert(p)

Fetch(r) == Register(r) \/ Ask(r) \/ Return(r)

Next ==
  \/ NewMemo
  \/ \E p \in Pair : Deliver(p)
  \/ \E s \in Slab : Remotize(s) \/ TellPeers(s)
  \/ \E r \in Task : GetMemo(r) \/ Fetch(r) \/ Timeout(r)

Spec == Init /\ [][Next]_vars

\* The threads of the transport and the tasks are scheduled; no slab has to
\* let go of anything, no timer has to run out.
FairSpec ==
  /\ Spec
  /\ \A p \in Pair : WF_vars(Deliver(p))
  /\ \A s \in Slab : WF_vars(TellPeers(s))
  /\ \A r \in Task : WF_vars(Fetch(r))

-----------------------------------------------------------------------------
Status == {"none", "Resident", "Participating", "NonParticipating"}

Message ==
  {Memo, Request}
    \cup [kind : {"peering"}, said : [Slab -> Status], citing : BOOLEAN]

TypeOK ==
  /\ ptr \in [Slab -> {"unknown", "remote", "resident"}]
  /\ peers \in [Slab -> [Slab -> Status]]
  /\ queue \in [Pair -> Seq(Message)]
  /\ stage \in [Pair -> {"idle", "assert", "emit", "settle", "reassert"}]
  /\ list \in [Pair -> [Slab -> Status]]
  /\ telling \in [Slab -> SUBSET Slab]
  /\ remotized \in [Slab -> 0 .. MaxRemotize]
  /\ pc \in [Task -> {"idle", "missed", "asking", "waiting", "found", "failed"}]
  /\ tries \in [Task -> 0 .. MaxTries]
  /\ waiters \in [Slab -> SUBSET Task]
  /\ answered \in SUBSET Task
  /\ \A s \in Slab : peers[s][s] = "none"

Quiescent ==
  /\ \A p \in Pair : stage[p] = "idle" /\ queue[p] = << >>
  /\ telling = [s \in Slab |-> {}]

(***************************************************************************)
(* "Each Memo participating in a peering may only be aware of a small      *)
(* subset of all copies, but in aggregate, this is sufficient to create a  *)
(* fully-connected mesh" (docs/design/glossary.md:58).  When everything    *)
(* was delivered, in any order, and nobody let go of the memo, every slab  *)
(* has it and knows that every other one has.                              *)
(***************************************************************************)
MeshIsComplete ==
  Quiescent /\ ptr[Origin] # "unknown" /\ remotized = [s \in Slab |-> 0]
    => \A s, t \in Slab : /\ ptr[s] = "resident"
                          /\ s # t => peers[s][t] = "Resident"

\* The slabs that have a copy, or had one until they let go of it.
Had == {s \in Slab : ptr[s] = "resident" \/ remotized[s] > 0}

(***************************************************************************)
(* A slab lets go of its copy only while it knows peers                    *)
(* (remotize_memoref declines with InsufficientPeering), and whatever      *)
(* peer lists say, in whatever order they are passed on while copies are   *)
(* taken in, let go of and requested again, they name only slabs that have *)
(* had the memo (get_peerlist_for_peer, apply_peers, do_peering): whoever  *)
(* let go of it knows whom to ask for it, and never asks a slab that has   *)
(* yet to hear of it.  So it takes two that let go, relying on one         *)
(* another, for the memo to be lost: see MemoSurvives.                     *)
(***************************************************************************)
PeersHaveHadIt ==
  \A s \in Slab : /\ remotized[s] > 0 => Listed(s) # {}
                  /\ Listed(s) \subseteq Had

(***************************************************************************)
(* The memo, once issued, is never lost, though copies are taken in and    *)
(* let go of concurrently.  The code does not guarantee it: a peer counts  *)
(* for remotize_memoref whether or not it still has its copy.              *)
(***************************************************************************)
MemoSurvives ==
  ptr[Origin] # "unknown" => \E s \in Slab : ptr[s] = "resident"

(***************************************************************************)
(* No task is left waiting for a memo that is there, not even one that     *)
(* looked before the memo came and registered after the waiters had been   *)
(* told (get_memo, request_memo): once everything was delivered, it has    *)
(* been answered.  Only when the slab lets go of its copy a second time,   *)
(* between taking it in and telling the waiters, is the memo there again   *)
(* without them being told (reconstitute_memo); their timer is to help.    *)
(***************************************************************************)
NobodyWaitsInVain ==
  Quiescent
    => \A r \in Task :
         pc[r] = "waiting" /\ r \notin answered /\ remotized[SlabOf[r]] <= 1
           => ptr[SlabOf[r]] # "resident"

(***************************************************************************)
(* A request that was sent brings the memo back to the slab, or the task   *)
(* has got it before, whether or not its timer ran out (request_memo).     *)
(***************************************************************************)
RequestBringsMemo ==
  \A r \in Task :
    pc[r] = "waiting" ~> ptr[SlabOf[r]] = "resident" \/ r \in answered

(***************************************************************************)
(* "This will be used in production for slabs that cohabitate the same     *)
(* process" (tests/remote_traversal.rs:62): the threads of LocalDirect     *)
(* never all wait for one another's memorefs.                              *)
(***************************************************************************)
ThreadsProceed ==
  (\E p \in Pair : stage[p] # "idle")
    => \E p \in Pair : /\ stage[p] # "idle"
                       /\ stage[p] \in {"assert", "reassert"} => Writable(p[2])

(***************************************************************************)
(* "Update peering ... to indicate that it is available, tracked, or       *)
(* neither by a given Slab" (code_structure.md:50): once everything was    *)
(* delivered, no slab takes a copy for available that was let go.          *)
(***************************************************************************)
PeersAreTruthful ==
  Quiescent
    => \A s, t \in Slab : peers[s][t] = "Resident" => ptr[t] = "resident"
=============================================================================
