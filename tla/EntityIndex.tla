----------------------------- MODULE EntityIndex ----------------------------
(***************************************************************************)
(* Records and the index that finds them: Entity (entity.rs), IndexFixed   *)
(* (index/fixed.rs) and Context (context/mod.rs) on the slabs of a system. *)
(*                                                                         *)
(* The index is a tree of nodes of a fixed depth that branches on the      *)
(* digits of a key.  Nodes and records are entities, edited by issuing     *)
(* memos; nobody owns them.  A context knows the index by its root and by  *)
(* its stash, and brings every node it visits up to date with the stash.   *)
(* Its clients create, edit and read records and compact the stash; its    *)
(* applier applies the memos of index nodes that reach its slab, in any    *)
(* order, any number of times.                                             *)
(*                                                                         *)
(* The stash is the abstract one, AtomicStash: each access to it is one    *)
(* step here, and so is the code between two accesses.  Memos are read     *)
(* wherever they are.                                                      *)
(***************************************************************************)
EXTENDS Naturals, Sequences, FiniteSets, SequencesExt

CONSTANTS
  Context,    \* the contexts, each on a slab of its own
  Client,     \* the tasks that use contexts
  Writer,     \* the clients that also write
  Compactor,  \* the clients that also compact
  Applier,    \* the background tasks of the contexts
  ContextOf,  \* ContextOf[t]: the context of task t
  Slot,       \* the slots of an index node, as numbers
  Depth,      \* the depth of the index
  Key,        \* keys of records, as sequences of Depth slots
  MaxWrites,  \* bound on the records one client creates or edits
  MaxCompact  \* bound on the compactions of one client

Task == Client \cup Applier

ASSUME ShapeAssumption ==
  /\ Depth \in Nat \ {0}
  /\ Key \subseteq [1 .. Depth -> Slot]
  /\ ContextOf \in [Task -> Context]
  /\ Client \cap Applier = {}
  /\ Writer \subseteq Client /\ Compactor \subseteq Client

VARIABLES
  memos,     \* the memos issued, in order of issue
  stash,     \* stash[c][e]: the head of index node e in the stash of c
  handle,    \* handle[t]: the Entity client t holds
  pc,        \* where task t is
  doing,     \* the call it is making
  node,      \* the head of the index node it works on
  tier,      \* its tier, from 1
  child,     \* the branch it is adding below, if any
  todo,      \* the links it has still to prune, or to look at
  fresh,     \* the edges compact has found to update
  visited,   \* the entities compact has visited
  writes,    \* how many records it has created or edited
  compacts,  \* how many compactions it has begun
  assured,   \* history: the memos for a key that calls in a context inserted
             \* or found, once they have returned
  floor,     \* history: what was assured when the call of a task began
  told       \* history: the memos the applier of a context was told of

vars == <<memos, stash, handle, pc, doing, node, tier, child, todo, fresh,
          visited, writes, compacts, assured, floor, told>>

H == INSTANCE Head WITH Memos <- memos

None == H!NullHead

\* An entity is named by its first memo; the root of the index is entity 1.
Root == <<1>>

MaxMemos ==
  1 + Cardinality(Writer) * MaxWrites * 2 * Depth
  + Cardinality(Compactor) * MaxCompact * Depth

IndexMemo(entity, parents, full, edges) ==
  [entity |-> entity, key |-> << >>, parents |-> parents, full |-> full,
   edges |-> edges]

RecordMemo(entity, key, parents) ==
  [entity |-> entity, key |-> key, parents |-> parents,
   full |-> (parents = None), edges |-> << >>]

IsIndex(m) == memos[m].key = << >>

NewId == Len(memos) + 1

EntityOf(head) == memos[head[1]].entity

NoHandle == [key |-> << >>, head |-> None]

-----------------------------------------------------------------------------
\* The system was created with a root index node.
Init ==
  /\ memos = <<IndexMemo(1, None, TRUE, << >>)>>
  /\ stash = [c \in Context |-> [e \in 1 .. MaxMemos |-> None]]
  /\ handle = [t \in Task |-> NoHandle]
  /\ pc = [t \in Task |-> "idle"]
  /\ doing = [t \in Task |-> "nothing"]
  /\ node = [t \in Task |-> None]
  /\ tier = [t \in Task |-> 0]
  /\ child = [t \in Task |-> None]
  /\ todo = [t \in Task |-> << >>]
  /\ fresh = [t \in Task |-> << >>]
  /\ visited = [t \in Task |-> {}]
  /\ writes = [t \in Task |-> 0]
  /\ compacts = [t \in Task |-> 0]
  /\ assured = [c \in Context |-> [k \in Key |-> {}]]
  /\ floor = [t \in Task |-> {}]
  /\ told = [c \in Context |-> {}]

\* Context::mut_update_index_head_for_consistency.
Consistent(c, head) == H!MutApply(head, stash[c][EntityOf(head)]).head

\* The occupied edges of a node, in the order of their slots.
Links(head) ==
  LET links == H!ProjectAllEdgeLinks(head)
  IN  SetToSortSeq({[slot |-> s, head |-> links[s]] :
                      s \in {r \in Slot : links[r] # None}},
                   LAMBDA x, y : x.slot < y.slot)

-----------------------------------------------------------------------------
(***************************************************************************)
(* Calls on the index.  A walk starts at the root seed and goes down one   *)
(* tier at a time, by insert or by get.                                    *)
(***************************************************************************)
StartWalk(t, call) ==
  /\ pc' = [pc EXCEPT ![t] = "walk"]
  /\ doing' = [doing EXCEPT ![t] = call]
  /\ node' = [node EXCEPT ![t] = Root]
  /\ tier' = [tier EXCEPT ![t] = 1]
  /\ UNCHANGED <<stash, child, todo, fresh, visited, compacts, assured, told>>

EndCall(t) ==
  /\ pc' = [pc EXCEPT ![t] = "idle"]
  /\ doing' = [doing EXCEPT ![t] = "nothing"]
  /\ node' = [node EXCEPT ![t] = None]
  /\ tier' = [tier EXCEPT ![t] = 0]
  /\ UNCHANGED child

\* Entity::new: an entity's key is generated, and nobody else's.
NewEntity(t, key) ==
  /\ pc[t] = "idle"
  /\ writes[t] < MaxWrites
  /\ \A m \in DOMAIN memos : memos[m].key # key
  /\ memos' = Append(memos, RecordMemo(NewId, key, None))
  /\ handle' = [handle EXCEPT ![t] = [key |-> key, head |-> <<NewId>>]]
  /\ writes' = [writes EXCEPT ![t] = @ + 1]
  /\ StartWalk(t, "insert")
  /\ UNCHANGED floor

\* Entity::set_value: the edit goes on top of the head the handle has.
SetValue(t) ==
  /\ pc[t] = "idle"
  /\ writes[t] < MaxWrites
  /\ handle[t] # NoHandle
  /\ memos' = Append(memos, RecordMemo(EntityOf(handle[t].head), handle[t].key,
                                       handle[t].head))
  /\ handle' = [handle EXCEPT ![t].head = <<NewId>>]
  /\ writes' = [writes EXCEPT ![t] = @ + 1]
  /\ StartWalk(t, "insert")
  /\ UNCHANGED floor

\* Context::get_entity_by_id, and the update that precedes every read.
GetEntity(t, key) ==
  /\ pc[t] = "idle"
  /\ handle' = [handle EXCEPT ![t] =
                  IF @.key = key THEN @ ELSE [key |-> key, head |-> None]]
  /\ floor' = [floor EXCEPT ![t] = assured[ContextOf[t]][key]]
  /\ StartWalk(t, "get")
  /\ UNCHANGED <<memos, writes>>

Digit(t) == handle[t].key[tier[t]]

\* The node where the walk is, with what the stash knows of it.
Here(t) == Consistent(ContextOf[t], node[t])

Branch(t) == H!GetEdge(Here(t), Digit(t))

Walking(t) == pc[t] = "walk"

\* A call for the key of t returns, and has inserted or found the head.
Assure(t, head) ==
  assured' = [assured EXCEPT ![ContextOf[t]][handle[t].key] =
                @ \cup H!History(head)]

Descend(t) ==
  /\ Walking(t)
  /\ tier[t] < Depth
  /\ Branch(t) # None
  /\ node' = [node EXCEPT ![t] = Branch(t)]
  /\ tier' = [tier EXCEPT ![t] = @ + 1]
  /\ UNCHANGED <<memos, stash, handle, pc, doing, child, todo, fresh, visited,
                 writes, compacts, assured, floor, told>>

\* get finds no branch: the handle that was asked for is not made.
Miss(t) ==
  /\ Walking(t)
  /\ doing[t] = "get"
  /\ Branch(t) = None
  /\ handle' = [handle EXCEPT ![t] = IF @.head = None THEN NoHandle ELSE @]
  /\ floor' = [floor EXCEPT ![t] = {}]
  /\ EndCall(t)
  /\ UNCHANGED <<memos, stash, todo, fresh, visited, writes, compacts,
                 assured, told>>

\* get returns a head: it makes the handle, or is applied to the handle's.
Hit(t) ==
  /\ Walking(t)
  /\ doing[t] = "get"
  /\ tier[t] = Depth
  /\ Branch(t) # None
  /\ handle' = [handle EXCEPT ![t].head = H!MutApply(@, Branch(t)).head]
  /\ Assure(t, Branch(t))
  /\ floor' = [floor EXCEPT ![t] = {}]
  /\ EndCall(t)
  /\ UNCHANGED <<memos, stash, todo, fresh, visited, writes, compacts, told>>

\* insert finds no branch and makes a node for it.
NewBranch(t) ==
  /\ Walking(t)
  /\ doing[t] = "insert"
  /\ tier[t] < Depth
  /\ Branch(t) = None
  /\ memos' = Append(memos, IndexMemo(NewId, None, TRUE, << >>))
  /\ child' = [child EXCEPT ![t] = <<NewId>>]
  /\ node' = [node EXCEPT ![t] = Here(t)]
  /\ pc' = [pc EXCEPT ![t] = "child"]
  /\ UNCHANGED <<stash, handle, doing, tier, todo, fresh, visited, writes,
                 compacts, assured, floor, told>>

SetEdges(t, head, edges) ==
  /\ memos' = Append(memos, IndexMemo(EntityOf(head), head, FALSE, edges))
  /\ node' = [node EXCEPT ![t] = <<NewId>>]
  /\ pc' = [pc EXCEPT ![t] = "apply"]

\* insert applies the new node and links it: Head::set_edge.
LinkBranch(t) ==
  /\ pc[t] = "child"
  /\ stash' = [stash EXCEPT ![ContextOf[t]][EntityOf(child[t])] =
                 H!MutApply(@, child[t]).head]
  /\ SetEdges(t, node[t], [s \in {Digit(t)} |-> child[t]])
  /\ UNCHANGED <<handle, doing, tier, child, todo, fresh, visited, writes,
                 compacts, assured, floor, told>>

\* insert reaches the leaf and sets its edge to the head of the record.
SetLeaf(t) ==
  /\ Walking(t)
  /\ doing[t] = "insert"
  /\ tier[t] = Depth
  /\ SetEdges(t, Here(t), [s \in {Digit(t)} |-> handle[t].head])
  /\ UNCHANGED <<stash, handle, doing, tier, child, todo, fresh, visited,
                 writes, compacts, assured, floor, told>>

-----------------------------------------------------------------------------
(***************************************************************************)
(* Context::apply_head: the stash applies the head, and if that changes    *)
(* it, prunes what each edge of the result covers.                         *)
(***************************************************************************)
\* Faulty: the last head to come takes the place of what was there.
AppliedLatest(c, head) == [head |-> head, applied |-> TRUE]

Applied(c, head) == H!MutApply(stash[c][EntityOf(head)], head)

Apply(t) ==
  /\ pc[t] = "apply"
  /\ LET c      == ContextOf[t]
         entity == EntityOf(node[t])
         result == Applied(c, node[t])
     IN  /\ stash' = IF result.applied
                     THEN [stash EXCEPT ![c][entity] = result.head]
                     ELSE stash
         /\ todo' = [todo EXCEPT ![t] = IF result.applied
                                        THEN Links(result.head) ELSE << >>]
         /\ told' = IF doing[t] = "observe"
                    THEN [told EXCEPT ![c] = @ \cup ToSet(node[t])]
                    ELSE told
  /\ pc' = [pc EXCEPT ![t] = "prune"]
  /\ UNCHANGED <<memos, handle, doing, node, tier, child, fresh, visited,
                 writes, compacts, assured, floor>>

\* Faulty: what the stash has goes whether the edge accounts for it or not.
CoversAny(edge, head) == TRUE

\* Stash::prune_head: an edge that accounts for all the stash has replaces it.
Covers(edge, head) == H!DescendsOrContains(edge, head)

Prune(t) ==
  /\ pc[t] = "prune"
  /\ todo[t] # << >>
  /\ LET c    == ContextOf[t]
         edge == Head(todo[t]).head
     IN  stash' = IF Covers(edge, stash[c][EntityOf(edge)])
                  THEN [stash EXCEPT ![c][EntityOf(edge)] = None]
                  ELSE stash
  /\ todo' = [todo EXCEPT ![t] = Tail(@)]
  /\ UNCHANGED <<memos, handle, pc, doing, node, tier, child, fresh, visited,
                 writes, compacts, assured, floor, told>>

Pruned(t) == pc[t] = "prune" /\ todo[t] = << >>

\* insert goes on below the branch it has linked.
EnterBranch(t) ==
  /\ Pruned(t)
  /\ doing[t] = "insert"
  /\ child[t] # None
  /\ node' = [node EXCEPT ![t] = child[t]]
  /\ child' = [child EXCEPT ![t] = None]
  /\ tier' = [tier EXCEPT ![t] = @ + 1]
  /\ pc' = [pc EXCEPT ![t] = "walk"]
  /\ UNCHANGED <<memos, stash, handle, doing, todo, fresh, visited, writes,
                 compacts, assured, floor, told>>

\* insert, or the application of an observed memo, is done.
Return(t) ==
  /\ Pruned(t)
  /\ \/ doing[t] = "observe"
     \/ doing[t] = "insert" /\ child[t] = None
  /\ IF doing[t] = "insert" THEN Assure(t, handle[t].head)
     ELSE UNCHANGED assured
  /\ EndCall(t)
  /\ UNCHANGED <<memos, stash, handle, todo, fresh, visited, writes, compacts,
                 floor, told>>

\* The applier takes a memo of an index node that reached its slab.
Observe(t, m) ==
  /\ pc[t] = "idle"
  /\ IsIndex(m)
  /\ node' = [node EXCEPT ![t] = <<m>>]
  /\ doing' = [doing EXCEPT ![t] = "observe"]
  /\ pc' = [pc EXCEPT ![t] = "apply"]
  /\ UNCHANGED <<memos, stash, handle, tier, child, todo, fresh, visited,
                 writes, compacts, assured, floor, told>>

-----------------------------------------------------------------------------
(***************************************************************************)
(* Context::compact visits the heads of the stash, and has the edges that  *)
(* are older than the stash point to what the stash holds.                 *)
(***************************************************************************)
Compact(t) ==
  /\ pc[t] = "idle"
  /\ compacts[t] < MaxCompact
  /\ compacts' = [compacts EXCEPT ![t] = @ + 1]
  /\ visited' = [visited EXCEPT ![t] = {}]
  /\ doing' = [doing EXCEPT ![t] = "compact"]
  /\ pc' = [pc EXCEPT ![t] = "scan"]
  /\ UNCHANGED <<memos, stash, handle, node, tier, child, todo, fresh, writes,
                 assured, floor, told>>

Unvisited(t) ==
  {e \in DOMAIN memos : stash[ContextOf[t]][e] # None /\ e \notin visited[t]}

\* StashIterator::next.
Visit(t) ==
  /\ pc[t] = "scan"
  /\ \E e \in Unvisited(t) :
       /\ visited' = [visited EXCEPT ![t] = @ \cup {e}]
       /\ node' = [node EXCEPT ![t] = stash[ContextOf[t]][e]]
       /\ todo' = [todo EXCEPT ![t] = Links(stash[ContextOf[t]][e])]
  /\ fresh' = [fresh EXCEPT ![t] = << >>]
  /\ pc' = [pc EXCEPT ![t] = "compare"]
  /\ UNCHANGED <<memos, stash, handle, doing, tier, child, writes, compacts,
                 assured, floor, told>>

\* One edge is compared with what the stash has for the entity it names.
Compare(t) ==
  /\ pc[t] = "compare"
  /\ todo[t] # << >>
  /\ LET link  == Head(todo[t])
         known == stash[ContextOf[t]][EntityOf(link.head)]
     IN  fresh' = IF known # None /\ H!DescendsOrContains(known, link.head)
                  THEN [fresh EXCEPT ![t] =
                          [s \in DOMAIN @ \cup {link.slot} |->
                             IF s = link.slot THEN known ELSE @[s]]]
                  ELSE fresh
  /\ todo' = [todo EXCEPT ![t] = Tail(@)]
  /\ UNCHANGED <<memos, stash, handle, pc, doing, node, tier, child, visited,
                 writes, compacts, assured, floor, told>>

\* The edges that were found are issued as a memo, which is applied.
UpdateEdges(t) ==
  /\ pc[t] = "compare"
  /\ todo[t] = << >>
  /\ fresh[t] # << >>
  /\ SetEdges(t, node[t], fresh[t])
  /\ fresh' = [fresh EXCEPT ![t] = << >>]
  /\ UNCHANGED <<stash, handle, doing, tier, child, todo, visited, writes,
                 compacts, assured, floor, told>>

\* On to the next head.
NextHead(t) ==
  /\ doing[t] = "compact"
  /\ \/ Pruned(t)
     \/ pc[t] = "compare" /\ todo[t] = << >> /\ fresh[t] = << >>
  /\ node' = [node EXCEPT ![t] = None]
  /\ pc' = [pc EXCEPT ![t] = "scan"]
  /\ UNCHANGED <<memos, stash, handle, doing, tier, child, todo, fresh,
                 visited, writes, compacts, assured, floor, told>>

EndCompact(t) ==
  /\ pc[t] = "scan"
  /\ Unvisited(t) = {}
  /\ visited' = [visited EXCEPT ![t] = {}]
  /\ EndCall(t)
  /\ UNCHANGED <<memos, stash, handle, todo, fresh, writes, compacts, assured,
                 floor, told>>

-----------------------------------------------------------------------------
IndexStep(t) ==
  \/ Descend(t) \/ Miss(t) \/ Hit(t)
  \/ NewBranch(t) \/ LinkBranch(t) \/ SetLeaf(t) \/ EnterBranch(t)
  \/ Apply(t) \/ Prune(t) \/ Return(t)
  \/ Visit(t) \/ Compare(t) \/ UpdateEdges(t) \/ NextHead(t) \/ EndCompact(t)

Next ==
  \/ \E t \in Writer :
       \/ \E k \in Key : NewEntity(t, k)
       \/ SetValue(t)
  \/ \E t \in Compactor : Compact(t)
  \/ \E t \in Client, k \in Key : GetEntity(t, k)
  \/ \E t \in Applier, m \in DOMAIN memos : Observe(t, m)
  \/ \E t \in Task : IndexStep(t)

Spec == Init /\ [][Next]_vars

-----------------------------------------------------------------------------
HeadType == Seq(1 .. MaxMemos)

TypeOK ==
  /\ Len(memos) \in 1 .. MaxMemos
  /\ stash \in [Context -> [1 .. MaxMemos -> HeadType]]
  /\ handle \in [Task -> [key : Key \cup {<< >>}, head : HeadType]]
  /\ pc \in [Task -> {"idle", "walk", "child", "apply", "prune", "scan",
                      "compare"}]
  /\ doing \in [Task -> {"nothing", "insert", "get", "observe", "compact"}]
  /\ node \in [Task -> HeadType]
  /\ tier \in [Task -> 0 .. Depth]
  /\ child \in [Task -> HeadType]
  /\ todo \in [Task -> Seq([slot : Slot, head : HeadType])]
  /\ writes \in [Task -> 0 .. MaxWrites]
  /\ compacts \in [Task -> 0 .. MaxCompact]
  /\ assured \in [Context -> [Key -> SUBSET DOMAIN memos]]
  /\ floor \in [Task -> SUBSET DOMAIN memos]
  /\ told \in [Context -> SUBSET DOMAIN memos]

\* What a query for a key would find in a context now: IndexFixed::get.
Lookup(c, key) ==
  LET Reached[n \in 0 .. Depth] ==
        IF n = 0 THEN Root
        ELSE IF Reached[n - 1] = None THEN None
        ELSE H!GetEdge(Consistent(c, Reached[n - 1]), key[n])
  IN  Reached[Depth]

Found(c, key) == H!History(Lookup(c, key))

(***************************************************************************)
(* "There is no un-ringing that bell - ALL of that party's subsequent      *)
(* state projections must consider the accumulated context information up  *)
(* to that point" (docs/design/core-concepts.md:104), and "subsequence     *)
(* queries against this context are self-consistent" (entity.rs:107-108):  *)
(* once Entity::new or set_value has inserted a memo, or a query has found *)
(* it, a query in the same context would find it at every moment, while    *)
(* its applier takes in memos of the index in any order, older ones        *)
(* included (context/mod.rs:99), and prunes what their edges cover, and    *)
(* while its clients read and compact.                                     *)
(* The code guarantees it only where one client writes.                    *)
(***************************************************************************)
AssuredIsFound ==
  \A c \in Context, k \in Key : assured[c][k] \subseteq Found(c, k)

(***************************************************************************)
(* The same of a query that takes its steps one by one, while heads are    *)
(* applied and pruned in the same stash: it returns what had been inserted *)
(* or found in its context when it began.                                  *)
(* The code guarantees it only as long as nothing is compacted.            *)
(***************************************************************************)
ReadsAreCurrent ==
  \A t \in Client :
    Walking(t) /\ doing[t] = "get" =>
      /\ Branch(t) = None => floor[t] = {}
      /\ Branch(t) # None /\ tier[t] = Depth
           => floor[t] \subseteq H!History(Branch(t))

(***************************************************************************)
(* A context that was told of every memo of the index, in whatever order,  *)
(* finds all that was inserted or found anywhere.                          *)
(***************************************************************************)
DeliveredIsFound ==
  \A c \in Context :
    /\ \A t \in Task : ContextOf[t] = c => pc[t] = "idle"
    /\ \A m \in DOMAIN memos : IsIndex(m) => m \in told[c]
    => \A d \in Context, k \in Key : assured[d][k] \subseteq Found(c, k)

(***************************************************************************)
(* "Assuming their contexts are the same, they will each arrive at the     *)
(* same value" (docs/design/core-concepts.md:83): two contexts whose       *)
(* stashes hold the same memos find the same for every key.                *)
(***************************************************************************)
ContextsAgree ==
  \A c, d \in Context :
    (\A e \in DOMAIN memos : ToSet(stash[c][e]) = ToSet(stash[d][e]))
      => \A k \in Key : Found(c, k) = Found(d, k)
=============================================================================
