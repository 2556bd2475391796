# Verification of unbase

A TLA+ development kept beside the unbase source (`src/crates/unbase/src`; paths
below are relative to it). It models the parts of the system that decide *what is
known, where, and how it is found*: causal heads, the stash of a context, the index,
the exchange of memos between slabs, the root of a system, how a process joins one
over UDP, who is told of what arrives, the simulator the tests run on, and the entry
of the browser binding. TLC checks every module on small instances. TLAPS proves the
safety of heads, stash, memo exchange, root seed, joining over UDP, subscriptions,
simulator and web entry for every size; section 5 says what of it and from what.

- [1. The system](#1-the-system)
- [2. Modules](#2-modules)
- [3. Runs, bounds and fairness](#3-runs-bounds-and-fairness)
- [4. Disagreements between code and documentation](#4-disagreements-between-code-and-documentation)
- [5. Proofs](#5-proofs)
- [6. What is not modelled](#6-what-is-not-modelled)
- [7. Plan](#7-plan)

Definitions marked *Faulty* in the modules are variants that no specification uses:
each is a plausible bug in the definition after it, and replacing the one by the
other makes TLC find the property that guards against it violated. `PROJECT.json`
lists which one belongs to which property, the source lines of every definition, and
the hazards the properties are for.

## 1. The system

unbase is a distributed store without owners. State is a graph of immutable
**memos** that name their parents; a **head** is the set of youngest memos one holds
of an entity. A **slab** stores memos and exchanges them with other slabs. A
**context** is an observer: what it has seen once it must account for ever after. It
keeps that promise with a **stash** of heads, from which a head can be dropped
("pruned") when an edge of another head in the stash implies it. Records are found
through an **index**: a tree of entities whose edges are heads.

| component | state | operations | talks to |
|---|---|---|---|
| Head (`head/mod.rs`) | the memos of a head, in order | apply a memo or a head, compare, project values and edges, stream the memos causally | memos, wherever they are |
| Memo, MemoRef (`slab/memo`, `slab/memoref`) | body and parents; resident or remote; peer list | descends, get_memo, apply_peers, update_peer | slab handle (requests) |
| Stash (`context/stash.rs`) | items with head, edit counter, reference count, relations; index by entity; vacancies; one mutex | apply_head, prune_head, get_head, iterate | Head; memo fetches between two uses of the mutex |
| Context (`context/mod.rs`) | a stash, the root index node, an applier task | update_indices, get_entity_by_id, fetch_kv, compact, mut_update_index_head_for_consistency | stash, index, slab subscriptions |
| IndexFixed (`index/fixed.rs`) | its root head | insert, get, scan | context, node by node |
| Entity (`entity.rs`) | its own head | create, set_value, get_value, observe | context |
| SlabAgent, SlabHandle (`slab/agent.rs`, `handle.rs`) | memorefs, peer references, waiters, subscriptions, behind one lock | new_memo, reconstitute_memo, request_memo, remotize_memoref, assert_slabref, peering | transports, network |
| Network, Slab (`network/mod.rs`, `slab.rs`) | local slabs, transports, root index seed, each behind its own lock | Slab::new, Slab::drop, seed generation, application, transfer | slab agents |
| Transports (`network/transport`) | queues and threads | deliver a memoref or a packet | slab agents |
| Packets (`network/packet`, the `serde.rs` files) | none | what a packet says of slabs and peers becomes references of the slab that reads it | slab agents, network |
| Web entry (`crates/unbase_web`) | a bundle, pages | build, import the crate, greet or report | browser, bundler |
| Simulator (`util/simulator.rs`) | clock, event queue, one runner, two mutexes | add_event, start, quiesce, quiesce_and_stop | simulated transport |

What is hard about it, per component, and what makes the component correct:

- **Head**: memos arrive in any order and repeatedly. A head must remain the exact
  frontier of what was applied, and comparing, merging and projecting must not lose
  knowledge. The causal stream mixes branches of different length.
- **Stash**: the mutex is never held across an `await`; heads are computed from
  copies and saved if the edit counter did not move. Items are reference counted,
  their places are reused, calls fail or are dropped halfway. Counts, index,
  vacancies and relations must agree, the protocol must be atomic, pruning must not
  forget, retries must end.
- **Context, IndexFixed, Entity**: walks go down the tree one await at a time while
  the applier merges and prunes; handles and branch nodes become stale. What was
  inserted or delivered must be found.
- **Slab agent**: the same memo arrives over several threads; slabs let go of copies
  relying on others; requests time out and are answered late or twice; locks of two
  slabs are taken together. A memo must survive, everyone must learn where it is, no
  waiter may be forgotten, threads must not wait for one another.
- **Network**: registration, seed and removal each take several locks, and every
  transport receives in a thread of its own. Slabs must know one another, the seed
  must exist and be held by a live slab, and there should be one root: the code sees
  to it except between a look for the seed and the store that follows.
- **Joining**: two processes that know an address at most find each other with
  datagrams that are lost, repeated and reordered. Addresses are learnt at second
  hand, slab id 0 stands for whoever answers, and a presence is answered with a
  presence. A network must join, references must lead to their slabs, the root must
  be within reach, a request must fail only for a reason, and the talk must end.
- **Subscriptions**: channels are bounded, and a thread that cannot send panics with
  the slab's state locked; subscribers come, fail and leave while several threads
  notify them. Everyone must be told once, and one that left must not harm others.
- **Web entry**: the compiled crate is loaded after the page, may not have been
  built and may not arrive. A page must greet or say why not.
- **Simulator**: events are added while others are delivered, and runners are
  stopped and started. Nothing may be lost or late, and quiescence must mean that
  everything was delivered, and must be announced.

Most of the code's hazards are at its awaits and between its locks, which is why
every module takes as a step what the code does between two awaits, or under one
lock, unless it says otherwise.

## 2. Modules

```
Head <-- EntityHead                  heads of one entity, several holders
Head <-- MCStash --> Stash --> AtomicStash      (Stash implements AtomicStash)
                     Stash <-- StashProofs      (theorems)
Head <-- EntityIndex <-- MCEntityIndex          contexts, index, entities
MemoExchange <-- MCMemoExchange                 slabs and one memo
RootSeed <-- MCRootSeed                         slabs joining and leaving
UdpJoin <-- MCUdpJoin                           processes joining over UDP
Subscriptions <-- MCSubscriptions               who is told of what arrives
WebEntry                                        the browser binding
Simulator

X <-- XProofs            theorems about X, for EntityHead, Stash, MemoExchange,
                         RootSeed, UdpJoin, Subscriptions, WebEntry and Simulator
```

**Head.** The functions of `head/mod.rs`, on a graph `Memos` given as a constant or
by the instantiating module: `MutApplyMemoref` (the backwards scan that replaces,
drops or keeps each memo of the head), `MutApply`, `DescendsOrContains`,
`CausalMemoStream`, `GetValue`, `GetEdge`, `ProjectAllEdgeLinks`. A memo has
parents, a flag for "fully materialized", the keys it sets and the edges it has.
`History` is the reference definition they are compared with: a head's memos and all
their ancestors. Recursion is written as recursive functions. `Streams` is the set
of all the orders in which the causal stream can yield the history of a head when
memos have to be fetched: `poll_next` polls every queued memo, appends the parents
of each as its load finishes, and yields the front.

**EntityHead.** Three holders of one entity edit it (`Edit`), are told of any memo
in any order and repeatedly (`ApplyMemo`), and merge each other's heads
(`ApplyHead`), so that the functions of Head meet every graph of four memos and
every head that can arise over it, rather than arbitrary ones.

**Stash.** `context/stash.rs`. `inner` is `StashInner` (items, index, vacancies);
`guard[t]` is the `ItemEditGuard` of task t, with the copies of head and edit
counter it was made with. `Begin`/`OpenGuard` take a guard under the mutex;
`EditApply` and `EditPrune` compute without it; `SaveConflict`/`BeginSave` compare
the counter; `StoreLink` sets one relation per step while the mutex is held (`lock`,
`cursor`); `StoreHead` stores the head; `DropGuard` gives the reference back; `Fail`
is a call that ends early with an error or is dropped at an await. After a save, an
apply goes on to prune the entities of its new edges one by one (`todo`), as the
code does. Heads are opaque: `ApplyHead`, `Covers` and `Links` are constant
operators with the assumptions in `HeadAssumption`, so that the proofs do not depend
on Head; MCStash instantiates them with the operators of Head over three graphs of
memos.

**AtomicStash.** What the stash promises: a map from entities to heads in which
applying and pruning are single steps.

**EntityIndex.** `entity.rs`, `index/fixed.rs` and `context/mod.rs` over
AtomicStash's steps: each access to the stash is one step. A client reads records
(`GetEntity`), creates (`NewEntity`) and edits them (`SetValue`) if it is a `Writer`,
and compacts the stash (`Compact` to `EndCompact`, head by head in the order of
`StashIterator`) if it is a `Compactor`. `insert` and `get` walk the tiers: `Here` is
the node after merging with the stash (`Consistent`), `Descend` takes the edge,
`NewBranch` and `LinkBranch` create a missing node, `SetLeaf` sets the record's edge;
`Apply` and `Prune` are the calls to the stash. `Observe` is the applier taking an
index memo of another slab: in any order, any number of times, which covers every
transport. `assured`, `floor` and `told` are history variables for the properties.

**MemoExchange.** One memo on several slabs over LocalDirect. `ptr[s]` and `peers[s]`
are the memoref of slab s, `queue[<<s, t>>]` the channel from s to t, `stage` the
position of the thread that delivers it: `ReceiveMemo` reads the sender's peer list
and keeps the sender's memoref locked, `AssertMemo`, `EmitMemo`, `Settle` are the
parts of `reconstitute_memo`, `Reassert` the second assertion in `localize_memoref`.
Messages are references, as in LocalDirect: what is read is the sender's state at
delivery. `Remotize`/`TellPeers` is `remotize_memoref`; `GetMemo`, `Register`, `Ask`,
`Timeout`, `Return` are a task in `get_memo` and `request_memo`. Peering and request
messages are handled in one step, and the peers a memo is sent to are chosen in one
step. `remotized[s]` counts how often s has let go, so that `Had` are the slabs that
have the memo or once had it. A queue is first in, first out per ordered pair of
slabs; in the code a slab may also answer through a reference that another slab
handed it, which has a queue of its own.

**RootSeed.** `Slab::new` (`Register` to `GenerateSeed`), `Slab::drop` (`Stop`,
`Delist`, `MoveSeed`), `assert_slabref` in its four parts (`FindRef`, `PushRef`,
`ApplyPresence`, `Wire`), seeds that arrive from other processes (`ReceiveSeed`,
`ApplySeed`) and contexts that remember the root (`OpenRoot`). Each slab belongs to
a thread, which works on one slab at a time, and each transport has a thread that
receives: `rx[x]` is the seed that the one of transport x is about to store, having
found that there was none. It stores it for whichever slab the packet was addressed
to, one that was listed when the packet was read and may be gone by now
(`packet/serde.rs:68-84`). `createNewSystem` is a field of the network that no step
changes, either way from the start. Roots are identified by who made them. `certain`
is a history variable: the slabs whose context took the root while no seed was in
anybody's hand, looked for but not yet stored (`NoneInHand`). The contexts of a slab
that was dropped are left out.

**UdpJoin.** Processes, each with a Network and an address, and the root memo.
`SayHello` is `seed_address_from_string`; `Receive` reads a packet: the destination
(`Destination`, slab id 0 is the newest slab of the network), the sender's address
and the peers as references (`AssertSlabref`, `AssertPeers`), the memorefs
(`AssertMemoref`), and then the handler of its kind (`Handled`: `ApplySeed`,
`AnswerPresence`, `AnswerRequest`, `Reconstitute`). `Read`, `Ask` and `Timeout` are
a context that waits for the root index and requests it. A handler is computed call
by call on a record of the state (`World`) and is one step; MemoExchange has the
steps. A packet holds what its sender knew when it was sent, with the addresses a
peer has then; packets between slabs of one process travel in the same bag, but are
neither lost nor repeated. `Lose` and `Repeat` are the network.

**Subscriptions.** `list` is the two subscription lists of SlabState, `chan` the
bounded channels, `poisoned` its lock after a panic. `Receive` and `Notify` are the
two ends of `reconstitute_memo`: what is stored, and who is told, which other
threads can come between. `Tell` is the loop over the senders from last to first,
`Send` its body. `Apply` and `ApplierFails` are the applier of a context, `Find`,
`OpenChannel`, `ObserveEntity` the steps by which a client comes to observe a
record, `Take` its loop, `Stop` the drop of a receiver. The memos are edits by one
writer on another slab, so that a head is how far it got.

**WebEntry.** `Build` is a run of webpack by `webpack.config.js`, with or without
the compiled package `./pkg/unbase`; `Open`, `Then` and `Catch` are `index.js`,
`Start` and `Log` are `src/lib.rs`. Each page has the bundle it was opened with;
`Cut` is a chunk that does not arrive, `Close` the end of a page. `Log` drops what is
written before there is a logger; `start` installs it first, so that this does not
happen. As the files are, only builds without the package can come about (section
4); the properties are about both kinds.

**Simulator.** The event queue holds arrival times, which is all that matters of an
event. `Fetch` and `Park` are the two outcomes of `TickStream::poll_next`; `Deliver`
and `Exit` belong to the runner, `Start`, `Quiesce`, `QuiesceAndStop`,
`CheckQuiescence`, `Return` to the callers. A runner that was replaced keeps running
until it is next polled, as a dropped `RemoteHandle` does.

## 3. Runs, bounds and fairness

All runs pass:

| run | question | instance |
|---|---|---|
| `entity_head` | Is a head always the exact frontier of what its holder was told; are `applied`, containment, values and merging right; is the causal stream complete in whatever order memos load? | 3 holders, graphs of up to 4 memos: the smallest size with a fork, a join and a chain at once |
| `stash` | Do index, vacancies, counts and relations stay exact at every lock boundary, with failures, and do applies and prunes together never account for less? | 2 tasks, 2 applies each, a branch of 3 nodes, each created and then edited once; two slots |
| `stash_atomic` | Does the optimistic protocol implement single-step applies and prunes, and does every call return? | 2 tasks, 2 applies, heads of two concurrent memos, one slot, failures, weak fairness of the tasks together |
| `entity_index` | Is what was inserted, found or delivered, found with all its edits? | depth 2, one key; a writer (a record and an edit of it) in one context, a client that reads and compacts and an applier in the other |
| `entity_index_reads` | Does a read see what its context knew when it began? | depth 2, 2 keys that share a branch; the writer in one context, a reader and an applier in the other, no compaction |
| `memo_exchange` | Does everyone learn where the memo is, and is everyone who is listed as a peer one who has had it? | 3 slabs, each of which may let go of its copy once |
| `memo_exchange_request` | Is every request answered, and no waiter forgotten? | 2 slabs, 2 tasks, the copy is let go of twice, 2 tries, weak fairness |
| `root_seed` | Do slabs end up connected, is there a root, held by a live slab, and does a root taken at a quiet moment stay that of the network? | 3 slabs, created and dropped by 2 threads, 2 transports that receive, any number of times, seeds of 2 other systems, a network of either kind |
| `udp_join` | Do processes join by way of one another; do references lead where they should; can the root be fetched; what does a failed request mean; does the talk end? | 3 networks in a chain, the last with 2 slabs, the second of which reads; 2 tries, one datagram lost or repeated; fairness of delivery per pair of networks |
| `subscriptions` | Is everyone told once, who can stop a slab, and does everyone learn? | a context, 2 observers, 2 threads, 2 edits (4 memos), a buffer of 1, weak fairness of threads, applier and observers |
| `web_entry` | Does every page greet or report, whatever the build and the network? | 2 pages, any number of builds, weak fairness of the browser |
| `simulator` | Is nothing lost or late, does quiescence mean delivery, and is it announced? | 2 callers, 4 events, distances 0 to 2, 2 runners, weak fairness |

Section 4 has the properties that do not hold.

Why the bounds are enough to be interesting: two tasks suffice for every race on one
item, because a save compares one counter; three levels make a prune release an item
another item refers to, which releases a third; two applies per task let a place be
freed and reused under a guard. Two keys below one branch make inserts meet at a
node; one record and one edit of it are the least that has an older and a newer index
memo to arrive in either order, and give a compaction an edge to bring up to date;
depth 2 (the code uses 5) has a root, an inner node and a leaf edge, and the code
does the same at every inner tier. Three slabs give news that arrives by two routes;
the limit of five peers is not reached with at most six slabs (`SlabsAssumption`).
Requests are sent up to three times in the code; two have a first, and a last that
repeats it. A chain of three networks is the smallest in which a seed, and the
addresses in it, are heard at second hand; two slabs in the last one make the slab
that answers, the slab that holds the seed and the slab that reads three different
ones in turn. One fault can meet every packet of the protocol. A buffer of 1 makes
channels full after two messages (a sender has a place of its own), which four memos
can do to anybody; two observers are what a loop over one list can get wrong.
Counters that only grow (applies, writes, edits, events, starts) are capped by
constants named `Max...`.

Every module that models the code states its type invariant (`TypeOK`) with its
properties. The run `stash` checks it; it holds on the instances of the other runs
too, where `INVARIANT TypeOK` in the configuration checks it, but those runs are
about more than what kind of values the variables have. It is proved for Stash,
EntityHead, MemoExchange, RootSeed, UdpJoin, Subscriptions and Simulator.

Symmetry is used in one run, `root_seed`, which has no liveness property: transports
are alike, and so are the roots of other systems, as no definition tells one from
another. The others use none. Deadlock checking is on for the stash, whose tasks end
in the explicit step `Finished`, and for WebEntry, which can always go on; elsewhere
a bounded system comes to rest when its bound is used up, or, in MemoExchange, its
threads may block for ever, which `ThreadsProceed` is about.

Fairness is weak fairness of one task, runner, thread or delivery at a time; in
Stash only that some task that can go on does. The code justifies it: tasks run on
an executor that polls whatever was woken, transports and LocalDirect have threads
of their own, and a mutex is released by every holder. Nothing is assumed of what
the environment may or may not do: no fairness for new calls, timeouts, for adding
events, or for letting go of copies. In UdpJoin the processes do start, say hello
and read: the properties are about what comes of it. It writes the fairness of its
actions out with their guards in place of ENABLED, and the fairness of delivery as:
of the datagrams from one network to another, either there are none again and again,
or one is taken again and again. `PageSettles` and `EveryoneLearns` do not ask that
a page stays open, or a subscriber stays. `CallsReturn` rests on tasks making
finitely many calls, since a save can only collide with another task's save.

Two conditions stated in the properties: `NobodyWaitsInVain` excludes a slab that
let go of its copy a second time, because `reconstitute_memo` looks for waiters only
if the memo is still resident, and `localize_memoref` then makes it resident again
without telling anyone: those waiters depend on the next try of their request, or
time out. `RequestBringsMemo` asks that the slab gets the memo, not that a task
whose last try has run out is told.

## 4. Disagreements between code and documentation

These properties are stated by a comment, a document or a test of the repository,
and do not hold. Each shows, with the modules as they are, when the property is
checked on the instance given here. They bound what the runs claim, which is why
they are listed; the properties are in the modules, with comments that cite the
line.

| property | instance | what happens |
|---|---|---|
| `ValueIsCurrent` (EntityHead) | as `entity_head` | The causal stream appends parents generation by generation, so that an ancestor on a short branch comes before a descendant on a long one; `get_value` then answers an overwritten value (`head/mod.rs:728`, against 701 and `docs/design/consistency-model.md:18`). When memos load in other orders the same head may answer differently again. |
| `AssuredIsFound` (EntityIndex) | one context, two writers with 1 write, `TwoKeys`, no applier, `Compactor = {}` | Two inserts create the same missing branch; the later edge hides the other and a record becomes unreachable (`index/fixed.rs:85`, against `entity.rs:107-108`). |
| `ThreadsProceed` (MemoExchange) | 3 slabs, `Remotizer = {}`, no task | Two LocalDirect threads that pass the same memo to one another wait for each other's memoref, for ever (`slab/agent.rs:483` and 716, against `slab/state.rs:40` and `tests/remote_traversal.rs:62`). |
| `HeadContainsItself` (EntityHead) | as `entity_head` | `descends_or_contains` denies that a head of two concurrent memos contains itself, so an equal head is never pruned (`head/mod.rs:249`, against `context/stash.rs:70-72`). |
| `NothingForgotten` (MCStash) | `Memos <- Fork`, `MaxSlots = 1`, one task with 4 applies, no failures | With concurrent edits of a node, an older edge can hide the one that justified a prune, and the stash forgets (`head/mod.rs:552`, against `context/stash.rs:281-282`). |
| `CoveredHeadsArePruned` (MCStash) | as `stash`, no failures | A child applied after the parent whose edge covers it is never pruned (`context/stash.rs:246`, against 70-72). |
| `AssuredIsFound` (EntityIndex) | one context, two writers with 2 writes, `OneKey`, no applier, `Compactor = {}` | Two handles of one record in one context: the second edit hides the first from the index (`entity.rs:104`). |
| `AssuredIsFound` (EntityIndex) | two contexts, each with a writer and an applier, `Depth = 1`, `LeafKey`, 2 writes, `Compactor = {}` | Both edit one record at once. When the index memo of the other arrives, the leaf has two concurrent edges, of which the one that comes first in the head is followed: a context can lose sight of its own edit (`head/mod.rs:552`, against `entity.rs:107-108`). |
| `ReadsAreCurrent` (EntityIndex) | as `entity_index_reads`, `OneKey`, `Compactor = {"a"}`, `MaxCompact = 1` | The writer's context compacts; the applier of the other takes in the new edges and prunes a node between two steps of a reader, which goes on with an older edge to it and misses what its context knows (`context/mod.rs:356`). Without a compaction an inner edge is set once, and no prune covers more than the edge a reader took. |
| `ContextsAgree` (EntityIndex) | two contexts, each with a writer and an applier, `Depth = 1`, `LeafKey`, 2 writes | Contexts with the same memos, received in different orders, look a key up in different places (`head/mod.rs:552`). |
| `MemoSurvives` (MemoExchange) | as `memo_exchange`, 2 slabs | Two slabs that list one another as peers both let go of the last copies (`slab/agent.rs:664`). What `remotize_memoref` asks for, a peer in the list, says only that the peer once had the memo (`PeersHaveHadIt`). |
| `PeersAreTruthful` (MemoExchange) | as `memo_exchange` | An old peer list that arrives late overwrites the news that a copy was let go (`slab/common_structs.rs:123`). |
| `RootsAgree` (RootSeed) | 2 slabs, `EachItsOwn`, `Transport = {}` | Two slabs created at once generate two roots (`network/mod.rs:260`, against 73); or, with `OneThread` and one transport, a seed is received while one is generated. Contexts that are opened between the two stores keep another root than the later ones. |
| `JoinedRootsAgree` (RootSeed) | 2 slabs, `EachItsOwn`, two transports and two foreign roots | The same in a network that only joins: two transports each receive a seed, both find that there is none yet, and the second to store its own replaces the first (`network/mod.rs:275` and 293, against 267-268). With one transport it does not happen. `CertainRootsStay` has what is left: only contexts opened during such a race can be wrong. |
| `PeersAreKnownOnce` (RootSeed) | 2 slabs, `EachItsOwn`, `Transport = {}` | Two slabs that register at once are listed twice (`slab/agent.rs:761`, against `tests/init.rs:60`). |
| `SeedHolderIsUp` (RootSeed) | 1 slab, one transport, one foreign root | A seed that arrives while its slab is dropped belongs to a slab that is gone (`network/mod.rs:293`, against 208-209). |
| `SeedCanBeFetched` (UdpJoin) | a slab in each of 3 networks, `Hello = {<<"B", "A">>, <<"B", "C">>}`, no faults | A network that has joined and then says hello gives its seed to slab id 0, which stands for whoever it greets; the peer with that id is left out of the list, "They know they have it" (`slab/memoref/serde.rs:15`). It is the creator's slab 0, the only one to have the root: the greeted network joins with a seed it cannot fetch. |
| `AnyRunnerReleases` (Simulator) | as `simulator` | A runner started again after `quiesce_and_stop` is never woken (`util/simulator.rs:305`). |

Others were met for which no property is kept:

- Asked for a memo it knows but does not have, a slab calls `do_peering` with the
  request instead of the memo, which sends nothing, though "it would be neighborly
  to tell them" (`slab/agent.rs:273-275`). `ReceiveRequest` and `AnswerRequest`
  model the silence.
- A presence with a seed marks its sender as having the root memo, "HACK", also if
  the sender only passes it on (`slab/agent.rs:214-217`); `ApplySeed` has it. The
  sender then cannot answer the request, silently; the other peers in the seed can
  (`SeedCanBeFetched`).
- Slab ids start at 0 in every network, and 0 is "whoever represents you" in a
  packet. Two processes as in the example of `udp.rs:79-88`, without
  `hack_set_next_slab_id`, both have slab 0, take each other's presence for their
  own, and never join. `JoinCompletes` is checked for networks with ids of their
  own, as in the tests. If the creator has several slabs, packets for its slab 0 go
  to the newest (`packet/serde.rs:69-72`), which answers a request for the root that
  it does not have it: the request fails though nothing was lost (`DeadlineMeansLoss`,
  with two slabs in `A`).
- An observer that is woken by a record's memo reads the record through the index,
  whose memo may not have been applied, gets the old value, and is not woken again
  (`entity.rs:128`; `tests/eventual_consistency.rs` waits for the value to come). An
  observer also misses what arrives between getting its Entity and subscribing
  (`entity.rs:131-136`).
- `index.js` of the browser binding imports `./pkg/unbase`, the name from
  `package.json`. wasm-pack takes the name from `Cargo.toml`, where the crate is
  `unbase_web`; nor does that file have the crate type `cdylib`, which wasm-pack asks
  for. As the files are, no build puts the package where the page looks for it, and
  every page ends with the error that `Catch` reports (`index.js:4`,
  `unbase_web/Cargo.toml:2`). WebEntry has builds with and without the package.

## 5. Proofs

The theorems hold for every value of the constants that satisfies the assumptions
of the module. Each component's are in a module `...Proofs` that extends it, and
that begins with the facts about sequences, folds and numbers it needs.

| module | theorem | property, or what it says |
|---|---|---|
| StashProofs | `StashTypeOK` | `TypeOK` |
| | `StashIndexExact` | `IndexExact`: the index, the items and the vacancies agree |
| | `StashRefCountExact` | `RefCountExact`: counts are the number of guards and relations |
| | `StashGuardPinsItem` | `GuardPinsItem`: a task's item is still that of its entity |
| | `StashRelationsMatchHead` | `RelationsMatchHead`: relations are those the head projects |
| | `StashAppliesAtomically` | `AppliesAtomically`: Stash implements AtomicStash |
| EntityHeadProofs | `EntityHeadTypeOK` | `TypeOK` |
| | `EntityHeadIsFrontier` | `HeadIsFrontier`: a head is the youngest of what was told, in any order |
| | `EntityHeadAppliedMeansChanged` | `AppliedMeansChanged` |
| | `EntityHeadContainmentIsSound` | `ContainmentIsSound` of `descends_or_contains` |
| | `EntityHeadValueWins` | `HeadValueWins`: a value in the head hides all older ones |
| | `EntityHeadNeverForgets` | `NeverForgets`, of every step |
| | `EntityHeadStreamIsComplete` | `StreamIsComplete`: the causal stream yields the history of a head, in whatever order memos load |
| MemoExchangeProofs | `MemoExchangeTypeOK` | `TypeOK` |
| | `MemoExchangeMeshIsComplete` | `MeshIsComplete` |
| | `MemoExchangePeersHaveHadIt` | `PeersHaveHadIt`: peer lists name slabs that have or had the memo, whoever lets go of it |
| | `MemoExchangeNobodyWaitsInVain` | `NobodyWaitsInVain`, if at most one slab lets go of copies |
| RootSeedProofs | `RootSeedTypeOK` | `TypeOK` |
| | `RootSeedCertainRootsStay` | `CertainRootsStay`: a root taken while no seed was in hand stays that of the network |
| | `RootSeedHolderIsUp` | `OwnSeedHolderIsUp` |
| | `RootSeedSystemHasSeed` | `SystemHasSeed` |
| | `RootSeedEveryoneIsWired` | `EveryoneIsWired` |
| UdpJoinProofs | `UdpJoinTypeOK` | `TypeOK` |
| | `UdpJoinRoutesLead` | `RoutesLead`: a reference leads to where its slab is |
| | `UdpJoinSeedCanBeFetched` | `SeedCanBeFetched`, if networks say hello before they join, and 0 is at most the creator's id |
| | `UdpJoinDeadlineMeansLoss` | `DeadlineMeansLoss`, if also a slab 0 is the creator's only slab |
| SimulatorProofs | `SimulatorTypeOK` | `TypeOK` |
| | `SimulatorEventsAhead` | `EventsAhead`: the queue is sorted, and later than the clock |
| | `SimulatorNothingLost` | `NothingLost` |
| | `SimulatorQuiescenceIsComplete` | `QuiescenceIsComplete`, of every step |
| | `SimulatorTimeAdvances` | the clock never goes back |
| SubscriptionsProofs | `SubscriptionsTypeOK` | `TypeOK`: bounds of channels and no duplicates included |
| | `SubscriptionsToldOnce` | `EveryoneIsToldOnce` |
| | `SubscriptionsOnlyTheSlow` | `OnlyTheSlowStopIt`, of every step |
| WebEntryProofs | `WebConsoleTells` | the console of a page says what became of its import |

**Assumptions.** Bounds are natural numbers (`BoundAssumption` and others); the
operators Stash is given behave as heads (`HeadAssumption`: a head names an entity,
applying one to another of the same entity gives a third, Null has no edges), which
TLC evaluates for those of Head in the runs. `NetworkAssumption` keeps the roots of
foreign systems apart from those generated here. `IdAssumption` of UdpJoin has no id
for two slabs: the processes of the tests see to it with `hack_set_next_slab_id`,
and what happens otherwise is in section 4; `NoneAssumption` keeps `None` and
`Local` apart from what they are not. `SlabsAssumption` has at most six slabs, the
limit up to which MemoExchange is the code, since `consider_emit_memo` and
`request_memo` address five peers; no step of a proof uses how many there are. That
at most one slab lets go of the memo is a hypothesis of one theorem,
`MemoExchangeNobodyWaitsInVain`, and not an assumption: with two the memo may be lost
(`MemoSurvives`, section 4), and who waits may then wait for a copy that is nowhere.
So is when networks say hello in
`UdpJoinSeedCanBeFetched` and `UdpJoinDeadlineMeansLoss`, and whose slab 0 is
(`ZeroIsCreators`, `ZeroIsAlone`): without them the properties are false (section 4).
The instance of `udp_join` satisfies these hypotheses, the first in every step,
without being told to.

**Recursion.** The code's loops over sequences are recursive functions in the
models. The library's induction theorems take an operator as parameter and cannot be
instantiated here, so what such a function computes is not proved by induction.
Instead, that a function satisfying the equation exists follows from a least
counterexample (`Least`): were there none up to length n, take the
smallest such n and extend the function for n - 1 by one point. The equation then
gives the invariant of the loop one turn at a time (`ScanTurn`, `SendTurn`), again
by least counterexample. `ScanExists`, `MergeExists`, `FlatExists`, `StreamExists`,
`AncestryExists`, `ToldExists`, `CostExists` and `StreamsExist` are lemmas of the
first kind. The folds of the community modules are such functions as well, on the
subsets of a finite set: `FoldExists` says that there is one, whatever the order in
which it takes the elements, and `FoldKeeps` and `FoldStays` that it does not leave a
set that no turn leaves. Sums (`TotalExists`) are folds.

### Stash

The first layer is about `StashInner` alone. A store is well formed with respect to
a set of references (`Store(st, refs)`: `Indexed` and `Counted`), and each operator
of StashInner (`AssertItem`, `IncrementItem`, `DecrementItem`, `PointRelation`,
`SetRelation`) keeps it so for that set with one reference more or less. Sets of
references instead of counts are what makes this work: a count is the cardinality of
the references to an item, and a step adds or removes one named element. The second
layer follows the tasks: `References` is the set of all guards and relations, and
each action changes it as the operators it calls say.

The inductive invariant `Inv` adds to the properties what they need of each other:
`NoGarbage` (an item without references has a head), `LockInv` (who is in the middle
of a save), `RelationsInv` (during a save, relations below the cursor are those of
the new head and the others those of the old one), and for each task that a copy it
works on is older than the item's edit counter or equal to the item (`CopyInv`).
Without `CopyInv` a save could not be shown to be computed from the head it
replaces. `Inv` has one lemma per action (`BeginInv` to `StoreHeadInv`), joined in
`NextInv`.

The refinement maps the abstract map of heads to `HeadOf`. `StoreHead` is the only
action that changes it; `CopyInv` at equal counters says that what it stores was
computed from the present head, hence it is an abstract apply or prune; everything
else stutters.

### EntityHead

`IInv` is `MemosInv` (parents were issued before) and `HeadsInv` (each head holds
the youngest of the memos its holder was told of, each once). The first makes
`Ancestors` a strict order that does not look at later memos (`AncestryIsDag`,
`AncestryExtends`): memos can be issued without disturbing what is known of old
ones. The heart is `ScanTurn`, one turn of the loop of `mut_apply_memoref` over the
head: what was visited so far is replaced, dropped or kept, with a single place for
the new memo, whichever of descends, descended and concurrent come first. `ScanEnd`
turns that into `IsHead` of what was told and the new memo, and `MutApplyTold` goes
through the memos of another head one by one. Most properties are then read off
`IInv`: the history of a head is what its holder was told (`HistoryIsSeen`).

`HeadValueWins` says what `get_value` finds first in the causal stream. The stream
begins with the head (`StreamBegins`), so a memo of the head that assigns the key
comes first unless a whole materialization does, and `RootedInv` says that only the
first memo of the entity is whole. It is an ancestor of every other
(`RootIsAncestor`), and so in a head only when it is alone there.

`StreamIsComplete` is about every order in which memos can load. `Streams` is
recursive on queues without a bound on their length, so that it is a function is
shown from above (`StreamsExist`): of all functions that yield at least what the
equation asks for (`Yields`), the intersection satisfies it. That a stream ends is
not obvious either, since a memo is queued again for each of its children. A memo
costs two turns, its load and its yield, and those of all its parents (`CostExists`,
because parents are older), and each turn takes one from what the queue still costs
(`PopTakesOne`, `PollTakesOne`). A least counterexample over that cost gives
`StreamsAreWhole`: a stream begins with its queue, its memos are those of the queue
and the ancestors of what is not loaded yet, and what comes after the queue is a
parent of something before it (`IsWhole`). For the head itself, with nothing loaded,
that is its history, each memo after one that leads to it.

### MemoExchange

`MeshInv` holds as long as nobody has let go of the memo: what is said of peers, in
memorefs, in the hands of a thread and in messages, is true (`Truthful`), and of any
two slabs one of which has the memo, that one either knows of the other or is about
to be told (`Meets`: a memo on its way there, a thread at work with it, or a peering
on its way back). At rest only "knows" is left.

`PeersHaveHadIt` asks nothing of who lets go. That a slab has the memo may end; that
it has or once had it may not (`HadStays`), so news of it stays true whatever its age
and order. `HadInv` says of every peer list, in a memoref, in the hands of a thread
or in a message, that it names such slabs only, and that whoever sends the memo or a
peering is one: `EmitMemo` passes a memo on only after it was stored.

`NobodyWaitsInVain` goes on from `Truthful`. `KeepersInv`: whoever lets go knows a
slab that keeps the memo, because peer lists were true until then, and what threads
offer names one too. `ReadersInv`: a task reads only after a copy was let go, its
slab knows whom to ask as soon as it has the memo, and it is on the list of waiters
from `Register` until it is answered. `WaitingInv`: a task that asked and has no
answer is `Awaited`: its slab lets go a second time, or has no copy yet, or is about
to tell the waiters, or a request, the memo or a thread with it is under way between
it and a slab that keeps the memo (`AskedStep` follows these from one to the next, in
front of whatever else is in the queues). At rest only the first two are left, and
they are what the property allows.

### RootSeed

`TypeInv` includes that a slab is listed and works on a place that exists
(`Membership`, `Working`). `CertainInv`: the roots taken at a quiet moment are those
of the seed, and as long as there is one of them nobody has a seed in hand
(`NoneInHand`), since whoever looks for one finds it; only a slab that leaves without
finding another (`SomebodyTakesIt`) takes the seed along, and then no such context is
left. `HolderInv`: who holds a seed that was generated here has not tried to hand it
over. `SeededInv`: a system with a slab has a seed, because a slab that leaves finds
another that can take it (`SomebodyTakesIt`), or none is up. For `EveryoneIsWired`,
`LinkedInv` says that of two slabs that read the list one has a reference to the
other or has it still to make, whichever read first; `PlacesInv` that a reference to
a running slab leads there or somebody works on it; and `PresentInv` that the
presence of a slab, which makes a second thread pass by, is only ever set by one that
is about to wire it.

### UdpJoin

A packet is handled by a composition of calls, each of which maps a record of the
state to another, most of them as folds over what a packet lists. The proofs follow
that shape: there is a set of good states that no call leaves (`Worlds` for the
types, `Sound` for the seed), one lemma per call, and one per fold that cites
`FoldKeeps` for that set. The properties of the whole handler are then a chain of
memberships (`HandledIn`, `HandledAfter`).

`RoutesLead` is part of being in `Worlds`: a reference of s to slab i only ever holds
addresses at which i can be found from s. What is put into a packet is rewritten with
the address of the sender, which is where all slabs of its network are (`Referred`,
`Sent`), and `Local` stays within a process. Since an id is one slab's alone, no
packet from another network can name a slab of this one and bring an address of its
own for it.

`SeedCanBeFetched` relates slabs that never exchange a packet: a network that hears
of the seed at second hand must have an address of a slab that has the memo.
`Witnessed` is what is to be shown of a slab s: it has the memo, or lists a slab
that has it and to which the references the list was made with lead (`Reaches`).
`Sound` says it of every slab that knows of the memo, and adds who that is: a
network's seed is held by such a slab, the creator's has it, and nobody waits in the
creator's network. That is inductive only with what may be on the wire (`Good`): a
memo is sent by a slab that has it, a request by one that is `Witnessed`, and the
list of a presence or a peering names a slab that has the memo, with its address
(`Named`), or is for a slab that needs no such news (`Expected`). Packets may be of
any age, so that what they say must stay true: a slab that has the memo keeps it,
and references only grow (`Grown`, `After`). The third part (`Seeded`) is that the
creator has a seed as soon as it has a slab, so that it never takes one from a
packet. A peer is left out of a list that is made for slab 0, which costs the seed
its only witness if that peer is the creator's slab 0: `HelloBeforeJoining` is there
because a hello is the only presence with a seed that is sent to 0, and section 4
has what happens without it.

`DeadlineMeansLoss` counts: as long as slab s waits, its tries are at most the
packets lost and the timers that were early, and one more if there is hope for it
(`HopeInv`). There is hope (`Hopeful`) while the memo is on its way to s, or a
request of s to a slab that has it. Asking again brings hope, since s is `Witnessed`
(`AskHopes`); if there was hope when the timer ran out, the timer is counted. What
takes hope away is a loss, or s gets the memo. In between a request turns into the
memo, for which the slab that is asked needs a reference to s: from the packet itself
if it came from another network, and otherwise because the slabs of a network know
each other (`Meshed`). All other packets leave hope as it is: a handler keeps what is
on the wire, who has the memo, and that there is an address, and ends nobody's wait
but by the memo (`Moved`, one lemma per call as before). That the slab that gets the
request is the one that was meant needs `ZeroIsAlone`: packets for slab 0 go to
whichever slab of a network is newest.

### Simulator, Subscriptions, WebEntry

For the simulator, `EventsAhead`, `NothingLost` and `BatchInv` (only a runner that
delivers has a batch) are inductive together. `NothingLost` counts events by the
cardinality of the set of pairs of a runner and a number up to the size of its batch
(`BatchCounts`), so that a sum over runners needs no recursion.

For subscriptions, `ToldInv` says that what a subscriber took and what is in its
channel, in this order, are what was due; `ListInv` that everyone who listens is on
its list once. `SendTurn` is one turn of the loop of `notify`, which swaps those who
have left with the last: who is before the cursor was told, who is behind it will be.

For the web entry, `Shown` (what a page has written so far) is inductive.

### Only model-checked

- Liveness: `CallsReturn`, `QuiesceReturns`, `RequestBringsMemo`, `EveryoneLearns`,
  `JoinCompletes`, `RequestBringsRoot`, `PresenceSettles`, `PageSettles`. The prover
  has no rules for fairness and ENABLED.
- `NothingForgotten` (Stash) needs what heads mean, hence Head, whose functions are
  given to Stash as constants; and it holds only for some orders of edits
  (section 4).
- `AssuredIsFound`, `DeliveredIsFound` and `ReadsAreCurrent` (EntityIndex): lookups
  are recursive over the tiers of the index, and the first and the last hold only
  with one writer and without compaction under a reader (section 4).

## 6. What is not modelled

- Heads without an entity (`Head::Anonymous`), relations between entities,
  topological iteration for tests (`project_all_relation_links`, `SubjectHeadIter`).
- The loading of memos by the causal stream while heads change: `Streams` has the
  orders for one head; the projections in EntityIndex and Stash use the order of
  resident memos.
- The channels of subscriptions in EntityIndex, where the applier takes any memo at
  any time.
- The format of packets, the fields of messages that no decision reads, sockets and
  threads of UDP and their shutdown, datagrams over 64k.
- Joining with other memos than the root's on their way, and with slabs that are
  dropped.
- `docs/simulation/beacon-clock-1/index.js`: a minified bundle of an animation in
  the documentation, libraries included and without its source; no part of the
  program.
- `scan_first_kv`, `fetch_kv` polling, `hack_send_context`, `query.rs`.
- The failure of a process. Nothing is persisted, so a process that dies takes its
  slabs with it; dropping a slab is modelled in RootSeed.
- A client that drops the future of `quiesce` before it is released, and the panic of
  the runner that then cannot send (`check_quiescence`, `util/simulator.rs`): the
  callers of module Simulator wait.
- Wording of errors, logging, timing of delays.

## 7. Plan

1. *Composition*: the applier of EntityIndex fed by the deliveries of MemoExchange
   instead of by any memo at any time.
2. *Proofs*: for EntityIndex, that the stash of a context is only changed by
   AtomicStash's steps; for AtomicStash, that a prune is always covered by an edge of
   the parent.
