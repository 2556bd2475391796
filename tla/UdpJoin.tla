------------------------------ MODULE UdpJoin -------------------------------
(***************************************************************************)
(* How a process joins a system over UDP: TransportUDP                     *)
(* (network/transport/udp.rs), packets (network/packet/serde.rs), and what *)
(* a slab does with the presence of another, a request, a memo and a       *)
(* peering status (slab/agent.rs, slab/handle.rs), for one memo: the root  *)
(* of the index.                                                           *)
(*                                                                         *)
(* Every process has a Network, with one UDP address, by which it is named *)
(* here.  A slab says hello to an address without knowing who is there;    *)
(* whoever answers passes on the seed of the root index if it has one.  A  *)
(* context of the slab then requests the root memo from the peers that     *)
(* came with the seed.                                                     *)
(*                                                                         *)
(* Datagrams are lost, repeated and reordered.  A slab takes in a packet   *)
(* in one step (MemoExchange has the steps), and a packet says what its    *)
(* sender knew when it was sent.  A slab stays until the end.              *)
(***************************************************************************)
EXTENDS Naturals, Sequences, FiniteSets, Bags, SequencesExt

CONSTANTS
  Net,        \* the networks, one of each process
  Creator,    \* the one that creates the system
  Slab,
  NetOf,      \* NetOf[s]: the network of slab s
  IdOf,       \* IdOf[s]: its slab id
  Hello,      \* <<n, m>>: network n is told the address of m
  Reader,     \* the slabs that have a context, which reads the root
  MaxTries,   \* how often a request is sent: 3 in the code
  MaxFaults,  \* bound on the datagrams that are lost or delivered twice
  Local,      \* the address of a slab of the same process
  None

\* The limit of five peers, for emitting and for asking, is never reached.
ASSUME JoinAssumption ==
  /\ IsFiniteSet(Slab) /\ Cardinality(Slab) <= 6
  /\ Creator \in Net
  /\ NetOf \in [Slab -> Net] /\ IdOf \in [Slab -> Nat]
  /\ Hello \subseteq Net \X Net
  /\ Reader \subseteq Slab
  /\ MaxTries \in Nat \ {0} /\ MaxFaults \in Nat

\* A slab id is its slab's alone, if every process numbers its slabs from
\* somewhere else (Network::hack_set_next_slab_id).
ASSUME IdAssumption == \A s, t \in Slab : IdOf[s] = IdOf[t] => s = t

Id == {IdOf[s] : s \in Slab}

VARIABLES
  slabs,    \* slabs[n]: the slabs of a network, the newest first
  seed,     \* seed[n]: the slab that holds its root index seed, or None
  refs,     \* refs[s][i]: the addresses of slab i that s was told, in order
  ptr,      \* ptr[s]: the root memo on s: "unknown", "remote" or "resident"
  peers,    \* peers[s][i]: what its memoref says of slab i, and by whose
            \* reference i is reached
  wire,     \* the bag of packets on their way
  said,     \* the hellos that were sent
  pc,       \* pc[s]: where the context of s is
  tries,    \* how often its request was sent
  lost, repeated,
  late      \* timers that ran out while packets were on their way

vars == <<slabs, seed, refs, ptr, peers, wire, said, pc, tries, lost, repeated,
          late>>

Init ==
  /\ slabs = [n \in Net |-> << >>]
  /\ seed = [n \in Net |-> None]
  /\ refs = [s \in Slab |-> [i \in Id |-> << >>]]
  /\ ptr = [s \in Slab |-> "unknown"]
  /\ peers = [s \in Slab |-> [i \in Id |-> None]]
  /\ wire = EmptyBag
  /\ said = {}
  /\ pc = [s \in Slab |-> "idle"]
  /\ tries = [s \in Slab |-> 0]
  /\ lost = 0 /\ repeated = 0 /\ late = 0

\* What a handler works on, call by call.
World == [slabs |-> slabs, seed |-> seed, refs |-> refs, ptr |-> ptr,
          peers |-> peers, wire |-> wire, pc |-> pc]

\* (\E, for the model checker to compute it only once.)
Becomes(world) ==
  \E w \in {world} :
    /\ slabs' = w.slabs /\ seed' = w.seed /\ refs' = w.refs /\ ptr' = w.ptr
    /\ peers' = w.peers /\ wire' = w.wire /\ pc' = w.pc

-----------------------------------------------------------------------------
(***************************************************************************)
(* References to other slabs.                                              *)
(***************************************************************************)
\* Network::get_slabhandle.
SlabWith(w, n, i) ==
  LET here == {s \in ToSet(w.slabs[n]) : IdOf[s] = i}
  IN  IF here = {} THEN None ELSE CHOOSE s \in here : TRUE

\* SlabAgent::assert_slabref: an address that is new replaces the
\* transmitter; one of a slab of this process must be here.
AssertSlabref(w, s, i, addresses) ==
  LET Usable(a) == a = Local => SlabWith(w, NetOf[s], i) # None
      With(list, a) ==
        IF Usable(a) /\ ~Contains(list, a) THEN Append(list, a) ELSE list
  IN  IF i = IdOf[s] THEN w
      ELSE [w EXCEPT !.refs[s][i] = FoldLeft(With, @, addresses)]

\* The address a reference of slab s sends to: none if it is to itself, or
\* if it has no presence.
Route(w, s, i) ==
  IF i = IdOf[s] \/ w.refs[s][i] = << >> THEN None ELSE Last(w.refs[s][i])

\* SlabRef::send from slab s, by a reference that slab "by" owns.
Send(w, s, by, i, body) ==
  LET a == Route(w, by, i)
  IN  IF a = None THEN w
      ELSE [w EXCEPT !.wire = @ (+) SetToBag(
              {[net |-> IF a = Local THEN NetOf[s] ELSE a, local |-> a = Local,
                to |-> i, from |-> IdOf[s], src |-> NetOf[s], body |-> body]})]

-----------------------------------------------------------------------------
(***************************************************************************)
(* The memoref of the root memo and its peers.                             *)
(***************************************************************************)
StatusOf(w, s) == IF w.ptr[s] = "resident" THEN "Resident" ELSE "Participating"

\* Faulty: a slab passes on what it knows of itself only.
PeerlistForOwn(w, s, dest) ==
  [i \in Id |->
     IF i = IdOf[s]
     THEN [status |-> StatusOf(w, s), by |-> s, via |-> <<NetOf[s]>>]
     ELSE None]

\* MemoRef::get_peerlist_for_peer, and what a packet makes of it: each peer
\* with the addresses it is known by, the sender with its own.
PeerlistFor(w, s, dest) ==
  [i \in Id |->
     IF i = IdOf[s]
     THEN [status |-> StatusOf(w, s), by |-> s, via |-> <<NetOf[s]>>]
     ELSE IF i = dest \/ w.peers[s][i] = None THEN None
     ELSE [status |-> w.peers[s][i].status, by |-> w.peers[s][i].by,
           via |-> w.refs[w.peers[s][i].by][i]]]

\* The peers of a list become references of slab s.
AssertPeers(w, s, list) ==
  FoldSet(LAMBDA i, x : AssertSlabref(x, s, i, list[i].via), w,
          {i \in Id : list[i] # None})

\* SlabAgent::assert_memoref: a known peer keeps its reference, and a slab
\* that has the memoref is not told about itself.
AssertMemoref(w, s, list, state) ==
  LET known == w.peers[s]
      news  == {i \in Id : /\ list[i] # None
                           /\ i = IdOf[s] => w.ptr[s] = "unknown"}
      With(i) == [status |-> list[i].status,
                  by     |-> IF known[i] = None THEN list[i].by ELSE known[i].by]
  IN  [w EXCEPT
         !.peers[s] = [i \in Id |-> IF i \in news THEN With(i) ELSE known[i]],
         !.ptr[s] = IF "resident" \in {@, state} THEN "resident" ELSE "remote"]

Request == [kind |-> "request"]
Memo(w, s, dest) == [kind |-> "memo", list |-> PeerlistFor(w, s, dest)]
Peering(list) == [kind |-> "peering", list |-> list]

\* SlabAgent::consider_emit_memo.
Emit(w, s) ==
  FoldSet(LAMBDA i, x : Send(x, s, s, i, Memo(x, s, i)), w,
          {i \in Id : \/ w.peers[s][i] = None
                      \/ w.peers[s][i].status = "NonParticipating"})

\* Faulty: the memo is not kept.
ReconstituteRemote(w, s, i, list) ==
  LET taken == Emit(AssertMemoref(w, s, list, "remote"), s)
      told  == [taken EXCEPT !.pc[s] = IF @ = "waiting" THEN "found" ELSE @]
  IN  Send(told, s, s, i, Peering(PeerlistFor(told, s, i)))

\* SlabAgent::reconstitute_memo with the root memo, which came from slab i:
\* it is passed on, whoever waits for it is told, and so is slab i.
Reconstitute(w, s, i, list) ==
  LET taken == Emit(AssertMemoref(w, s, list, "resident"), s)
      told  == [taken EXCEPT !.pc[s] = IF @ = "waiting" THEN "found" ELSE @]
  IN  Send(told, s, s, i, Peering(PeerlistFor(told, s, i)))

\* Network::get_root_index_seed: the seed, localized to slab s.
LocalizeSeed(w, s) ==
  LET holder == w.seed[NetOf[s]]
      list   == [PeerlistFor(w, holder, IdOf[s]) EXCEPT ![IdOf[holder]].by = s]
  IN  IF holder \in {None, s} THEN w
      ELSE IF w.ptr[holder] = "resident"
           THEN Reconstitute(w, s, IdOf[holder], list)
           ELSE AssertMemoref(w, s, list, "remote")

\* A SlabPresence with the seed, or with Head::Null.
Presence(w, s, address, dest) ==
  [kind |-> "presence", address |-> address,
   seed |-> IF w.seed[NetOf[s]] = None THEN None ELSE PeerlistFor(w, s, dest)]

-----------------------------------------------------------------------------
\* Slab::new, which numbers the slabs of a network: they know each other, and
\* the first one of a new system generates the root.
Start(s) ==
  LET n     == NetOf[s]
      Meet(w, t) == AssertSlabref(AssertSlabref(w, t, IdOf[s], <<Local>>),
                                  s, IdOf[t], <<Local>>)
      met   == FoldLeft(Meet, [World EXCEPT !.slabs[n] = <<s>> \o @], slabs[n])
  IN  /\ ~Contains(slabs[n], s)
      /\ \A t \in Slab : NetOf[t] = n /\ IdOf[t] < IdOf[s] => Contains(slabs[n], t)
      /\ Becomes(IF n = Creator /\ seed[n] = None
                 THEN [met EXCEPT !.seed[n] = s, !.ptr[s] = "resident"]
                 ELSE met)
      /\ UNCHANGED <<said, tries, lost, repeated, late>>

\* TransportUDP::seed_address_from_string: every slab of network n says
\* hello to whoever is at the address m.
SayHello(n, m) ==
  LET Greet(w, s) ==
        LET knowing == LocalizeSeed(w, s)
        IN  [knowing EXCEPT !.wire = @ (+) SetToBag(
               {[net |-> m, local |-> FALSE, to |-> 0, from |-> IdOf[s],
                 src |-> n, body |-> Presence(knowing, s, n, 0)]})]
  IN  /\ <<n, m>> \in Hello \ said
      /\ slabs[n] # << >>
      /\ said' = said \cup {<<n, m>>}
      /\ Becomes(FoldLeft(Greet, World, slabs[n]))
      /\ UNCHANGED <<tries, lost, repeated, late>>

-----------------------------------------------------------------------------
(***************************************************************************)
(* A packet arrives.                                                       *)
(***************************************************************************)
\* Packets for slab 0 go to the representative of the network.
Destination(p) ==
  IF p.to = 0 /\ ~p.local
  THEN IF slabs[p.net] = << >> THEN None ELSE slabs[p.net][1]
  ELSE SlabWith(World, p.net, p.to)

\* A list as slab s has it: in a packet its peers come with their addresses,
\* in the same process with the references of the sender.
Heard(p, s, list) ==
  [i \in Id |->
     IF list[i] = None THEN None
     ELSE [list[i] EXCEPT !.by = IF p.local /\ i # p.from THEN @ ELSE s]]

\* Faulty: a reply says where the other one is.
ReturnAddressOther(w, s, i) ==
  IF Route(w, s, i) \in Net THEN Route(w, s, i) ELSE Local

\* SlabRef::get_return_address.
ReturnAddress(w, s, i) == IF Route(w, s, i) \in Net THEN NetOf[s] ELSE Local

\* A presence with a seed makes a network join that has none.
ApplySeed(w, s, p) ==
  LET list  == p.body.seed
      heard == AssertMemoref(AssertPeers(w, s, list), s, Heard(p, s, list), "remote")
      hack  == [heard EXCEPT !.peers[s][p.from] =
                  [status |-> "Resident", by |-> IF @ = None THEN s ELSE @.by]]
  IN  [hack EXCEPT !.seed[NetOf[s]] = IF @ = None THEN s ELSE @]

\* Faulty: a slab that has nothing to tell does not answer.
AnswerPresenceSeeded(w, s, p) ==
  LET knowing == LocalizeSeed(AssertSlabref(w, s, p.from, <<p.body.address>>), s)
  IN  IF p.body.address = Local \/ w.seed[NetOf[s]] = None THEN w
      ELSE Send(knowing, s, s, p.from,
                Presence(knowing, s, ReturnAddress(w, s, p.from), p.from))

\* One without a seed is answered with a presence.
AnswerPresence(w, s, p) ==
  LET knowing == LocalizeSeed(AssertSlabref(w, s, p.from, <<p.body.address>>), s)
  IN  IF p.body.address = Local THEN w
      ELSE Send(knowing, s, s, p.from,
                Presence(knowing, s, ReturnAddress(w, s, p.from), p.from))

\* A slab that knows the memo and does not have it says nothing.
AnswerRequest(w, s, p) ==
  CASE p.from = IdOf[s] -> w
    [] p.from # IdOf[s] /\ w.ptr[s] = "resident" ->
         Send(w, s, s, p.from, Memo(w, s, p.from))
    [] p.from # IdOf[s] /\ w.ptr[s] = "remote" -> w
    [] p.from # IdOf[s] /\ w.ptr[s] = "unknown" ->
         Send(w, s, s, p.from,
              Peering([i \in Id |->
                 IF i = IdOf[s]
                 THEN [status |-> "NonParticipating", by |-> s, via |-> <<NetOf[s]>>]
                 ELSE None]))

\* The list of a packet, or of a Peering memo, names slabs to refer to.
Introduced(w, s, p) ==
  IF p.local THEN AssertPeers(w, s, [p.body.list EXCEPT ![p.from] = None])
  ELSE AssertPeers(w, s, p.body.list)

\* Faulty: every presence is answered.
HandledPolitely(w, s, p) ==
  CASE p.body.kind = "presence" /\ p.body.seed # None ->
         AnswerPresence(ApplySeed(w, s, p), s, p)
    [] p.body.kind = "presence" /\ p.body.seed = None -> AnswerPresence(w, s, p)
    [] p.body.kind = "request" -> AnswerRequest(w, s, p)
    [] p.body.kind = "memo" ->
         Reconstitute(IF p.local THEN w ELSE Introduced(w, s, p), s, p.from,
                      Heard(p, s, p.body.list))
    [] p.body.kind = "peering" ->
         AssertMemoref(Introduced(w, s, p), s, Heard(p, s, p.body.list), "remote")

\* SlabAgent::handle_memo_from_other_slab.
Handled(w, s, p) ==
  CASE p.body.kind = "presence" /\ p.body.seed # None -> ApplySeed(w, s, p)
    [] p.body.kind = "presence" /\ p.body.seed = None -> AnswerPresence(w, s, p)
    [] p.body.kind = "request" -> AnswerRequest(w, s, p)
    [] p.body.kind = "memo" ->
         Reconstitute(IF p.local THEN w ELSE Introduced(w, s, p), s, p.from,
                      Heard(p, s, p.body.list))
    [] p.body.kind = "peering" ->
         AssertMemoref(Introduced(w, s, p), s, Heard(p, s, p.body.list), "remote")

\* PacketSeed: the sender becomes known by the address the packet came from.
Receive(p) ==
  LET s == Destination(p)
      w == [World EXCEPT !.wire = @ (-) SetToBag({p})]
  IN  /\ s # None
      /\ Becomes(Handled(IF p.local THEN w ELSE AssertSlabref(w, s, p.from, <<p.src>>),
                         s, p))
      /\ UNCHANGED <<said, tries, lost, repeated, late>>

\* There is no slab to take it: an error, and the packet is gone.
Refuse(p) ==
  /\ Destination(p) = None
  /\ wire' = wire (-) SetToBag({p})
  /\ lost' = lost + 1
  /\ UNCHANGED <<slabs, seed, refs, ptr, peers, said, pc, tries, repeated, late>>

\* The datagrams of network m for network n are taken one by one.
Arrive(m, n) ==
  \E p \in BagToSet(wire) :
    p.src = m /\ p.net = n /\ (Receive(p) \/ Refuse(p))

Lose ==
  /\ lost + repeated < MaxFaults
  /\ \E p \in BagToSet(wire) :
       ~p.local /\ wire' = wire (-) SetToBag({p})
  /\ lost' = lost + 1
  /\ UNCHANGED <<slabs, seed, refs, ptr, peers, said, pc, tries, repeated, late>>

Repeat ==
  /\ lost + repeated < MaxFaults
  /\ \E p \in BagToSet(wire) :
       ~p.local /\ wire' = wire (+) SetToBag({p})
  /\ repeated' = repeated + 1
  /\ UNCHANGED <<slabs, seed, refs, ptr, peers, said, pc, tries, lost, late>>

-----------------------------------------------------------------------------
(***************************************************************************)
(* A context reads the root: Context::root_index, MemoRef::get_memo and    *)
(* SlabHandle::request_memo.                                               *)
(***************************************************************************)
\* Every peer on the list is asked, whatever its status.
Ask(w, s) ==
  FoldSet(LAMBDA i, x : Send(x, s, w.peers[s][i].by, i, Request),
          [w EXCEPT !.pc[s] = "waiting"], {i \in Id : w.peers[s][i] # None})

ReadEnabled(s) ==
  pc[s] = "idle" /\ Contains(slabs[NetOf[s]], s) /\ seed[NetOf[s]] # None

Read(s) ==
  /\ ReadEnabled(s)
  /\ LET w == LocalizeSeed(World, s)
     IN  Becomes(IF w.ptr[s] = "resident" THEN [w EXCEPT !.pc[s] = "found"]
                 ELSE Ask(w, s))
  /\ tries' = [tries EXCEPT ![s] = 1]
  /\ UNCHANGED <<said, lost, repeated, late>>

InFlight(kinds) == \E p \in BagToSet(wire) : p.body.kind \in kinds

\* Faulty: the last try is not made.
TimeoutOnceLess(s) ==
  /\ pc[s] = "waiting"
  /\ Becomes(IF tries[s] < MaxTries - 1 THEN Ask(World, s)
             ELSE [World EXCEPT !.pc[s] = "failed"])
  /\ tries' = [tries EXCEPT ![s] = IF @ < MaxTries - 1 THEN @ + 1 ELSE @]
  /\ late' = late + (IF InFlight({"request", "memo"}) THEN 1 ELSE 0)
  /\ UNCHANGED <<said, lost, repeated>>

\* The timer of the request runs out; after the last try it has failed.
Timeout(s) ==
  /\ pc[s] = "waiting"
  /\ Becomes(IF tries[s] < MaxTries THEN Ask(World, s)
             ELSE [World EXCEPT !.pc[s] = "failed"])
  /\ tries' = [tries EXCEPT ![s] = IF @ < MaxTries THEN @ + 1 ELSE @]
  /\ late' = late + (IF InFlight({"request", "memo"}) THEN 1 ELSE 0)
  /\ UNCHANGED <<said, lost, repeated>>

-----------------------------------------------------------------------------
Next ==
  \/ \E s \in Slab : Start(s)
  \/ \E n, m \in Net : SayHello(n, m) \/ Arrive(m, n)
  \/ Lose \/ Repeat
  \/ \E s \in Reader : Read(s) \/ Timeout(s)

Spec == Init /\ [][Next]_vars

\* Network m took a datagram of network n out of the wire: a step of
\* Arrive(m, n), which never sends the same again, or one of Lose, of which
\* there are not many.
Taken(m, n) ==
  \E p \in BagToSet(wire) :
    /\ p.src = m /\ p.net = n
    /\ p \in BagToSet(wire') => wire'[p] < wire[p]

\* Every process starts its slabs and says its hellos, contexts are read, and
\* every datagram that is not lost arrives; no timer has to run out.  This is
\* weak fairness of Start, SayHello, Read and Arrive, with the guards written
\* out for ENABLED, which the model checker is slow to evaluate; the first
\* three of them disable themselves for good.
FairSpec ==
  /\ Spec
  /\ []<>(\A s \in Slab : Contains(slabs[NetOf[s]], s))
  /\ []<>(\A h \in Hello : h \in said \/ slabs[h[1]] = << >>)
  /\ []<>(\A s \in Reader : ~ReadEnabled(s))
  /\ \A n, m \in Net : \/ []<>(~\E p \in BagToSet(wire) : p.src = m /\ p.net = n)
                       \/ []<><<Taken(m, n)>>_wire

-----------------------------------------------------------------------------
Status == {"Resident", "Participating", "NonParticipating"}

\* A peer of a memoref, and a peer as it is listed.
Peer  == [status : Status, by : Slab]
Entry == [status : Status, by : Slab, via : Seq(Net \cup {Local})]

\* Local is the address of no network, and None is nothing else.
ASSUME NoneAssumption ==
  /\ Local \notin Net
  /\ None \notin Net \cup {Local} \cup Slab
  /\ None \notin Peer
  /\ None \notin Entry
  /\ None \notin [Id -> Entry \cup {None}]

TypeOK ==
  /\ seed \in [Net -> Slab \cup {None}]
  /\ refs \in [Slab -> [Id -> Seq(Net \cup {Local})]]
  /\ ptr \in [Slab -> {"unknown", "remote", "resident"}]
  /\ peers \in [Slab -> [Id -> Peer \cup {None}]]
  /\ IsABag(wire)
  /\ \A p \in BagToSet(wire) : p.from \in Id /\ p.to \in Id \cup {0}
  /\ pc \in [Slab -> {"idle", "waiting", "found", "failed"}]
  /\ tries \in [Slab -> 0 .. MaxTries]

\* Where slab i is, seen from slab s.
Home(s, i) ==
  LET n == NetOf[CHOOSE t \in Slab : IdOf[t] = i]
  IN  IF n = NetOf[s] THEN {Local, n} ELSE {n}

(***************************************************************************)
(* A reference sends to where its slab is, though slabs are introduced by  *)
(* others, in packets of any order and age (assert_slabref).               *)
(***************************************************************************)
RoutesLead ==
  \A s \in Slab, i \in Id :
    Route(World, s, i) # None => Route(World, s, i) \in Home(s, i)

(***************************************************************************)
(* A network that has joined can fetch the root, in one step, wherever it  *)
(* got its seed: the slab that holds the seed has the memo, or lists a     *)
(* slab that has it and that it can reach (apply_root_index_seed,          *)
(* get_peerlist_for_peer).                                                 *)
(***************************************************************************)
SeedCanBeFetched ==
  \A n \in Net : LET s == seed[n] IN
    s # None /\ ptr[s] # "resident"
      => \E t \in Slab : /\ ptr[t] = "resident"
                         /\ peers[s][IdOf[t]] # None
                         /\ Route(World, peers[s][IdOf[t]].by, IdOf[t]) # None

(***************************************************************************)
(* A request fails only if each of its tries was foiled, by a datagram     *)
(* that was lost or by a timer that did not wait for one on its way        *)
(* (request_memo).                                                         *)
(***************************************************************************)
DeadlineMeansLoss ==
  \A s \in Reader : pc[s] = "failed" => lost + late >= MaxTries

(***************************************************************************)
(* "This represents your joining an existing unbase system"                *)
(* (network/mod.rs:66): unless a datagram is lost, a network that was      *)
(* given the address of another has the seed in the end, though it may     *)
(* have said hello to one that had none yet.                               *)
(***************************************************************************)
JoinCompletes ==
  said = Hello ~> lost > 0 \/ \A h \in Hello : seed[h[1]] # None

(***************************************************************************)
(* A request that nothing was lost of brings the root memo, whether or not *)
(* its timers ran out (request_memo).                                      *)
(***************************************************************************)
RequestBringsRoot ==
  \A s \in Reader : pc[s] = "waiting" ~> lost > 0 \/ ptr[s] = "resident"

(***************************************************************************)
(* Slabs tell each other of their presence until they have a seed, and no  *)
(* longer (handle_memo_from_other_slab).                                   *)
(***************************************************************************)
PresenceSettles ==
  (\A n \in Net : seed[n] # None) ~> ~InFlight({"presence"})
=============================================================================
