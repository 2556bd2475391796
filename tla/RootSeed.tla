------------------------------ MODULE RootSeed ------------------------------
(***************************************************************************)
(* How slabs join and leave a Network (network/mod.rs): Slab::new and      *)
(* Slab::drop (slab.rs), the references slabs have to one another          *)
(* (SlabAgent::assert_slabref, slab/agent.rs), and the root index seed,    *)
(* which makes them one system: generated by a slab of a new system, or    *)
(* received from another process, kept on behalf of one slab, moved when   *)
(* that slab leaves, and remembered by every context (context/mod.rs).     *)
(*                                                                         *)
(* Slabs are created and dropped by the threads of the program, and each   *)
(* transport that was added receives in a thread of its own.  A step is    *)
(* what a thread does under one lock.                                      *)
(***************************************************************************)
EXTENDS Naturals, Sequences, FiniteSets, SequencesExt

CONSTANTS
  Slab,         \* the slabs of this process, each created once
  ThreadOf,     \* ThreadOf[s]: the thread that creates and drops slab s
  Transport,    \* the transports that receive from other processes
  ForeignRoot,  \* roots of systems whose slabs send a presence to us
  Nothing       \* no seed, no root, no slab

\* A root that was generated here is named by the slab that did it.
Root == Slab \cup ForeignRoot

ASSUME NetworkAssumption ==
  /\ DOMAIN ThreadOf = Slab
  /\ Slab \cap ForeignRoot = {}
  /\ Nothing \notin Root \cup [root : Root, holder : Slab]

VARIABLES
  createNewSystem,  \* whether the network may generate a seed
  slabs,    \* the registered slabs, the newest first
  running,  \* the slabs whose agent runs
  peers,    \* peers[s]: the references slab s has to others
  seed,     \* the root index seed and the slab that holds it, or Nothing
  pc,       \* where the thread is with slab s
  todo,     \* the references it has yet to assert, as <<owner, to>>
  at,       \* the reference it is working on, by its place in the list
  rx,       \* rx[x]: the seed transport x is about to apply, or Nothing
  root,     \* root[s]: what a context of slab s takes for the root
  certain   \* history: the slabs whose context took it while no seed was in
            \* hand, looked for but not yet stored

vars == <<createNewSystem, slabs, running, peers, seed, pc, todo, at, rx,
          root, certain>>

Ref(s) == [to |-> s, present |-> FALSE, wired |-> FALSE]

Init ==
  /\ createNewSystem \in BOOLEAN
  /\ slabs = << >>
  /\ running = Slab
  /\ peers = [s \in Slab |-> << >>]
  /\ seed = Nothing
  /\ pc = [s \in Slab |-> "new"]
  /\ todo = [s \in Slab |-> << >>]
  /\ at = [s \in Slab |-> 0]
  /\ rx = [x \in Transport |-> Nothing]
  /\ root = [s \in Slab |-> Nothing]
  /\ certain = {}

\* get_all_local_slabs: the places in the list of the slabs that run.
LocalSlabs == {i \in DOMAIN slabs : slabs[i] \in running}

\* get_representative_slab: the newest one that runs.
Representative == IF LocalSlabs = {} THEN Nothing ELSE slabs[Min(LocalSlabs)]

-----------------------------------------------------------------------------
\* A thread is with one slab at a time.
Free(s) ==
  \A t \in Slab \ {s} :
    ThreadOf[t] = ThreadOf[s] => pc[t] \in {"new", "up", "gone"}

\* register_local_slab: the slab is listed before the list is read.
Register(s) ==
  /\ pc[s] = "new"
  /\ Free(s)
  /\ slabs' = <<s>> \o slabs
  /\ pc' = [pc EXCEPT ![s] = "listed"]
  /\ UNCHANGED <<running, peers, seed, todo, at, rx, root, certain>>

\* The k-th of a set of places in the list.
Nth(places, k) == CHOOSE i \in places : Cardinality({j \in places : j <= i}) = k

Others(s) == {i \in LocalSlabs : slabs[i] # s}

\* Faulty: only the new slab is told of the others.
LinksOneWay(s) ==
  [k \in 1 .. Cardinality(Others(s)) |-> <<s, slabs[Nth(Others(s), k)]>>]

\* Each slab of the list is told of the new one, and the new one of it.
Links(s) ==
  [k \in 1 .. 2 * Cardinality(Others(s)) |->
     LET t == slabs[Nth(Others(s), (k + 1) \div 2)]
     IN  IF k % 2 = 1 THEN <<t, s>> ELSE <<s, t>>]

ReadList(s) ==
  /\ pc[s] = "listed"
  /\ todo' = [todo EXCEPT ![s] = Links(s)]
  /\ pc' = [pc EXCEPT ![s] = "linking"]
  /\ UNCHANGED <<slabs, running, peers, seed, at, rx, root, certain>>

(***************************************************************************)
(* SlabAgent::assert_slabref for the first pair of todo[s].                *)
(***************************************************************************)
Owner(s) == todo[s][1][1]
To(s) == todo[s][1][2]

Places(owner, to) == {i \in DOMAIN peers[owner] : peers[owner][i].to = to}

\* The list is searched under one lock ...
FindRef(s) ==
  /\ pc[s] = "linking"
  /\ todo[s] # << >>
  /\ LET places == Places(Owner(s), To(s))
     IN  IF places = {}
         THEN /\ pc' = [pc EXCEPT ![s] = "absent"]
              /\ UNCHANGED at
         ELSE /\ pc' = [pc EXCEPT ![s] = "presence"]
              /\ at' = [at EXCEPT ![s] = Min(places)]
  /\ UNCHANGED <<slabs, running, peers, seed, todo, rx, root, certain>>

\* ... and extended under another.
PushRef(s) ==
  /\ pc[s] = "absent"
  /\ peers' = [peers EXCEPT ![Owner(s)] = Append(@, Ref(To(s)))]
  /\ at' = [at EXCEPT ![s] = Len(peers[Owner(s)]) + 1]
  /\ pc' = [pc EXCEPT ![s] = "presence"]
  /\ UNCHANGED <<slabs, running, seed, todo, rx, root, certain>>

Linked(s, then) ==
  /\ todo' = [todo EXCEPT ![s] = Tail(@)]
  /\ at' = [at EXCEPT ![s] = 0]
  /\ pc' = [pc EXCEPT ![s] = then]

\* A slab that stopped, or whose presence is known, is left as it is.
ApplyPresence(s) ==
  /\ pc[s] = "presence"
  /\ LET fresh == /\ To(s) \in running
                  /\ \E i \in DOMAIN slabs : slabs[i] = To(s)
                  /\ ~peers[Owner(s)][at[s]].present
     IN  IF fresh
         THEN /\ peers' = [peers EXCEPT ![Owner(s)][at[s]].present = TRUE]
              /\ pc' = [pc EXCEPT ![s] = "wiring"]
              /\ UNCHANGED <<todo, at>>
         ELSE /\ Linked(s, "linking")
              /\ UNCHANGED peers
  /\ UNCHANGED <<slabs, running, seed, rx, root, certain>>

\* The transmitter of the reference replaces its black hole.
Wire(s) ==
  /\ pc[s] = "wiring"
  /\ peers' = [peers EXCEPT ![Owner(s)][at[s]].wired = TRUE]
  /\ Linked(s, "linking")
  /\ UNCHANGED <<slabs, running, seed, rx, root, certain>>

-----------------------------------------------------------------------------
\* conditionally_generate_root_index_seed: the seed is looked at under one
\* lock ...
CheckSeed(s) ==
  /\ pc[s] = "linking"
  /\ todo[s] = << >>
  /\ pc' = [pc EXCEPT ![s] = IF seed = Nothing /\ createNewSystem
                             THEN "generate" ELSE "up"]
  /\ UNCHANGED <<slabs, running, peers, seed, todo, at, rx, root, certain>>

\* ... and set under another.
GenerateSeed(s) ==
  /\ pc[s] = "generate"
  /\ seed' = [root |-> s, holder |-> s]
  /\ pc' = [pc EXCEPT ![s] = "up"]
  /\ UNCHANGED <<slabs, running, peers, todo, at, rx, root, certain>>

\* Faulty: the seed that is there is not looked at.
ReceiveSeedAlways(x) ==
  /\ rx[x] = Nothing
  /\ \E r \in ForeignRoot, s \in Slab :
       /\ pc[s] # "new"
       /\ rx' = [rx EXCEPT ![x] = [root |-> r, holder |-> s]]
  /\ UNCHANGED <<slabs, running, peers, seed, pc, todo, at, root, certain>>

\* A presence with a seed has arrived for a slab that was listed when the
\* packet was read: apply_root_index_seed looks whether there is one already...
ReceiveSeed(x) ==
  /\ rx[x] = Nothing
  /\ seed = Nothing
  /\ \E r \in ForeignRoot, s \in Slab :
       /\ pc[s] # "new"
       /\ rx' = [rx EXCEPT ![x] = [root |-> r, holder |-> s]]
  /\ UNCHANGED <<slabs, running, peers, seed, pc, todo, at, root, certain>>

\* ... and sets it, whatever another transport or a new slab has set meanwhile.
ApplySeed(x) ==
  /\ rx[x] # Nothing
  /\ seed' = rx[x]
  /\ rx' = [rx EXCEPT ![x] = Nothing]
  /\ UNCHANGED <<slabs, running, peers, pc, todo, at, root, certain>>

\* Nobody is between looking for a seed and storing one.
NoneInHand ==
  /\ \A x \in Transport : rx[x] = Nothing
  /\ \A s \in Slab : pc[s] # "generate"

\* A context of the slab asks for the root for the first time, and keeps it:
\* Context::try_root_index_node, get_root_index_seed.
OpenRoot(s) ==
  /\ pc[s] = "up"
  /\ root[s] = Nothing
  /\ seed # Nothing
  /\ root' = [root EXCEPT ![s] = seed.root]
  /\ certain' = IF NoneInHand THEN certain \cup {s} ELSE certain
  /\ UNCHANGED <<slabs, running, peers, seed, pc, todo, at, rx>>

-----------------------------------------------------------------------------
\* Slab::drop.  The contexts of the slab are left out from here on.
Stop(s) ==
  /\ pc[s] = "up"
  /\ Free(s)
  /\ running' = running \ {s}
  /\ pc' = [pc EXCEPT ![s] = "stopped"]
  /\ root' = [root EXCEPT ![s] = Nothing]
  /\ certain' = certain \ {s}
  /\ UNCHANGED <<slabs, peers, seed, todo, at, rx>>

\* deregister_local_slab: first the list, in which the slab has one place ...
Delist(s) ==
  /\ pc[s] = "stopped"
  /\ \E i \in DOMAIN slabs : slabs[i] = s /\ slabs' = RemoveAt(slabs, i)
  /\ pc' = [pc EXCEPT ![s] = "delisted"]
  /\ UNCHANGED <<running, peers, seed, todo, at, rx, root, certain>>

\* Faulty: a seed without a slab that could hold it stays.
MoveSeedOrKeep(s) ==
  /\ pc[s] = "delisted"
  /\ seed' = IF seed # Nothing /\ seed.holder = s /\ Representative # Nothing
             THEN [seed EXCEPT !.holder = Representative]
             ELSE seed
  /\ pc' = [pc EXCEPT ![s] = "gone"]
  /\ UNCHANGED <<slabs, running, peers, todo, at, rx, root, certain>>

\* Faulty: the seed leaves with the slab that holds it.
TakeSeed(s) ==
  /\ pc[s] = "delisted"
  /\ seed' = IF seed # Nothing /\ seed.holder = s THEN Nothing ELSE seed
  /\ pc' = [pc EXCEPT ![s] = "gone"]
  /\ UNCHANGED <<slabs, running, peers, todo, at, rx, root, certain>>

\* ... then the seed, which moves to another slab if there is one.
MoveSeed(s) ==
  /\ pc[s] = "delisted"
  /\ seed' = IF seed = Nothing \/ seed.holder # s THEN seed
             ELSE IF Representative = Nothing THEN Nothing
             ELSE [seed EXCEPT !.holder = Representative]
  /\ pc' = [pc EXCEPT ![s] = "gone"]
  /\ UNCHANGED <<slabs, running, peers, todo, at, rx, root, certain>>

-----------------------------------------------------------------------------
Join(s) ==
  \/ Register(s) \/ ReadList(s) \/ FindRef(s) \/ PushRef(s)
  \/ ApplyPresence(s) \/ Wire(s) \/ CheckSeed(s) \/ GenerateSeed(s)

Leave(s) == Stop(s) \/ Delist(s) \/ MoveSeed(s)

Next ==
  /\ \/ \E s \in Slab : Join(s) \/ Leave(s) \/ OpenRoot(s)
     \/ \E x \in Transport : ReceiveSeed(x) \/ ApplySeed(x)
  /\ UNCHANGED createNewSystem

Spec == Init /\ [][Next]_vars

-----------------------------------------------------------------------------
Seed == [root : Root, holder : Slab] \cup {Nothing}

TypeOK ==
  /\ createNewSystem \in BOOLEAN
  /\ slabs \in Seq(Slab)
  /\ running \subseteq Slab
  /\ peers \in [Slab -> Seq([to : Slab, present : BOOLEAN, wired : BOOLEAN])]
  /\ seed \in Seed
  /\ pc \in [Slab -> {"new", "listed", "linking", "absent", "presence", "wiring",
                      "generate", "up", "stopped", "delisted", "gone"}]
  /\ todo \in [Slab -> Seq(Slab \X Slab)]
  /\ at \in [Slab -> Nat]
  /\ \A s \in Slab : at[s] \in IF pc[s] \in {"presence", "wiring"}
                               THEN DOMAIN peers[Owner(s)] ELSE {0}
  /\ rx \in [Transport -> Seed]
  /\ root \in [Slab -> Root \cup {Nothing}]
  /\ certain \subseteq Slab
  /\ IsInjective(slabs)

Up == {s \in Slab : pc[s] = "up"}

Settled ==
  /\ \A x \in Transport : rx[x] = Nothing
  /\ \A s \in Slab : pc[s] \in {"new", "up", "gone"}

(***************************************************************************)
(* Slabs that join at once, in any interleaving, end up with references to *)
(* one another, and the one a slab would use leads to the other slab and   *)
(* not into the black hole it starts with (register_local_slab: "Question: *)
(* does this have to be done first?", network/mod.rs:182).                 *)
(***************************************************************************)
EveryoneIsWired ==
  Settled
    => \A s, t \in Up :
         s # t => \E i \in Places(s, t) :
                    /\ peers[s][i].wired
                    /\ \A j \in Places(s, t) : i <= j

(***************************************************************************)
(* "Slab A Should know two peers" (tests/init.rs:60): a slab has one       *)
(* reference to each other slab.                                           *)
(***************************************************************************)
PeersAreKnownOnce ==
  \A s, t \in Slab : Cardinality(Places(s, t)) <= 1

(***************************************************************************)
(* "If the deregistered slab is the one that's holding the root_index_seed *)
(* then we need to move it to a different slab" (network/mod.rs:208-209):  *)
(* when nobody is joining or leaving, the seed is held by a slab that is   *)
(* there.  The code does not guarantee it of a seed that was received: see *)
(* OwnSeedHolderIsUp.                                                      *)
(***************************************************************************)
SeedHolderIsUp ==
  Settled /\ seed # Nothing => seed.holder \in Up

(***************************************************************************)
(* The same of a seed that was generated here: whichever slabs leave at    *)
(* once, and whatever is received meanwhile, it moves on to one that       *)
(* stays, or is gone with the last of them (deregister_local_slab).        *)
(***************************************************************************)
OwnSeedHolderIsUp ==
  Settled /\ seed # Nothing /\ seed.root \in Slab => seed.holder \in Up

(***************************************************************************)
(* A new system is never without its root while it has a slab: slabs that  *)
(* join while the last ones leave either inherit the seed or generate one  *)
(* (conditionally_generate_root_index_seed, deregister_local_slab).        *)
(***************************************************************************)
SystemHasSeed ==
  Settled /\ createNewSystem /\ Up # {} => seed # Nothing

(***************************************************************************)
(* A slab applies a received seed "in order to 'join' the same system"     *)
(* (network/mod.rs:267-268): the contexts of the slabs that are there all  *)
(* index their entities under the same root.  The code does not guarantee  *)
(* it, not even in a network that only joins: two transports that receive, *)
(* and two slabs that are created at once, can each find no seed, and the  *)
(* second to store one replaces the first.  See CertainRootsStay.          *)
(***************************************************************************)
RootsAgree ==
  \A s, t \in Up : root[s] # Nothing /\ root[t] # Nothing => root[s] = root[t]

JoinedRootsAgree == ~createNewSystem => RootsAgree

(***************************************************************************)
(* That is the only way: a context that took the root at a moment when no  *)
(* seed, received or generated, was on its way from look to store, has the *)
(* root of the network for as long as its slab is there, so that all later *)
(* contexts have the same, whatever is received by how many transports and *)
(* whichever slabs come and go (apply_root_index_seed,                     *)
(* conditionally_generate_root_index_seed, deregister_local_slab).         *)
(***************************************************************************)
CertainRootsStay ==
  \A s \in certain : seed # Nothing /\ seed.root = root[s]
=============================================================================
