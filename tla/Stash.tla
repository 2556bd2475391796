------------------------------- MODULE Stash --------------------------------
(***************************************************************************)
(* The stash of a context (context/stash.rs): the heads of the index nodes *)
(* the context must account for, in a slab of reference-counted items that *)
(* every task of the context shares.                                       *)
(*                                                                         *)
(* One mutex guards the items, and it is never held across an await: a     *)
(* task that applies or prunes a head takes an ItemEditGuard (a reference  *)
(* on the item and a copy of its head and edit counter), computes the new  *)
(* head without the mutex, where it may wait for remote memos, and saves   *)
(* it only if the edit counter did not move.  The guard's reference must   *)
(* keep the item from being removed and its place reused meanwhile.        *)
(*                                                                         *)
(* Heads are opaque here: what applying, comparing and projecting them     *)
(* compute is module Head's subject, and this module takes them as         *)
(* constant operators.                                                     *)
(***************************************************************************)
EXTENDS Integers, Sequences, FiniteSets

CONSTANTS
  EntityId,        \* entities: index nodes, and the records their edges name
  MaxSlots,        \* relation slots of an item (MAX_SLOTS)
  HeadSet,         \* every head, Null included
  Null,            \* Head::Null
  None,            \* Option::None
  EntityOf(_),     \* the entity of a head other than Null
  ApplyHead(_, _),  \* Head::mut_apply: [head, applied]
  Covers(_, _),    \* Head::descends_or_contains
  Links(_),        \* project_all_edge_links_including_empties, Vacant = Null
  Input,           \* the heads that tasks apply: heads of index nodes
  Task,            \* the tasks that share the stash, its background applier too
  MaxApply,        \* bound on the heads one task applies
  MayFail          \* whether calls may fail or be abandoned halfway

Slot == 0 .. MaxSlots - 1

ASSUME BoundAssumption == MaxSlots \in Nat \ {0} /\ MaxApply \in Nat

ASSUME TaskAssumption == IsFiniteSet(Task) /\ None \notin Task

(***************************************************************************)
(* What the stash relies on from heads: they name an entity, applying one  *)
(* to a head of the same entity gives such a head again, and Null has no   *)
(* edges.                                                                  *)
(***************************************************************************)
ASSUME HeadAssumption ==
  /\ Null \in HeadSet
  /\ Input \subseteq HeadSet \ {Null}
  /\ \A h \in HeadSet \ {Null} : EntityOf(h) \in EntityId
  /\ \A h \in HeadSet : Links(h) \in [Slot -> HeadSet]
  /\ Links(Null) = [s \in Slot |-> Null]
  /\ \A h \in HeadSet, i \in Input :
       (h # Null => EntityOf(h) = EntityOf(i))
         => /\ ApplyHead(h, i) \in [head : HeadSet \ {Null}, applied : BOOLEAN]
            /\ EntityOf(ApplyHead(h, i).head) = EntityOf(i)

VARIABLES
  inner,    \* StashInner: items, index and vacancies
  lock,     \* who holds the mutex between two steps: a saving task, or None
  cursor,   \* the slot the saving task has reached
  pc,       \* where each task is
  arg,      \* the head it applies
  todo,     \* the links of the saved head it has still to prune
  guard,    \* its ItemEditGuard, or None
  after,    \* where it goes once it has dropped the guard
  applies   \* how many heads it has begun to apply

vars == <<inner, lock, cursor, pc, arg, todo, guard, after, applies>>

NoLinks == [s \in Slot |-> Null]

\* Item ids are positions in items, from 1; 0 stands for Option::None.
Item == [entity : EntityId, head : HeadSet, relations : [Slot -> Nat],
         edit_counter : Nat, ref_count : Nat]

Contents == [items : Seq(Item \cup {None}), index : [EntityId -> Nat],
             vacancies : Seq(Nat)]

Guard == [item : Nat, head : HeadSet, links : [Slot -> HeadSet],
          edit_counter : Nat]

ASSUME NoneAssumption == None \notin Item \cup Guard

-----------------------------------------------------------------------------
(***************************************************************************)
(* StashInner.  Every operator maps the contents to the contents; the      *)
(* caller holds the mutex.                                                 *)
(***************************************************************************)

\* StashItem::new with Head::Null.
NewItem(entity) ==
  [entity |-> entity, head |-> Null, relations |-> [s \in Slot |-> 0],
   edit_counter |-> 1, ref_count |-> 0]

\* inner.items[id] is assigned.
PutItem(st, id, item) ==
  [items |-> [st.items EXCEPT ![id] = item], index |-> st.index,
   vacancies |-> st.vacancies]

\* The item of an entity, created in the last vacancy or at the end if absent.
AssertItem(st, entity) ==
  LET last == Len(st.vacancies)
      id   == IF last > 0 THEN st.vacancies[last] ELSE Len(st.items) + 1
  IN  IF st.index[entity] # 0
      THEN st
      ELSE [items     |-> IF last > 0
                          THEN [st.items EXCEPT ![id] = NewItem(entity)]
                          ELSE Append(st.items, NewItem(entity)),
            index     |-> [st.index EXCEPT ![entity] = id],
            vacancies |-> IF last > 0
                          THEN SubSeq(st.vacancies, 1, last - 1)
                          ELSE st.vacancies]

IncrementItem(st, id) ==
  PutItem(st, id, [st.items[id] EXCEPT !.ref_count = @ + 1])

\* Faulty: the index still names the place.
RemoveItemKeepingIndex(st, id) ==
  [items |-> [st.items EXCEPT ![id] = None], index |-> st.index,
   vacancies |-> Append(st.vacancies, id)]

\* conditional_remove_item when there is neither a reference nor a head.
RemoveItem(st, id) ==
  [items     |-> [st.items EXCEPT ![id] = None],
   index     |-> [st.index EXCEPT ![st.items[id].entity] = 0],
   vacancies |-> Append(st.vacancies, id)]

\* Faulty: an item without a head goes whoever else refers to it.
DecrementItemEagerly(st, id) ==
  IF st.items[id].head = Null
  THEN RemoveItem(st, id)
  ELSE PutItem(st, id, [st.items[id] EXCEPT !.ref_count = @ - 1])

DecrementItem(st, id) ==
  IF st.items[id].ref_count = 1 /\ st.items[id].head = Null
  THEN RemoveItem(st, id)
  ELSE PutItem(st, id, [st.items[id] EXCEPT !.ref_count = @ - 1])

PointRelation(st, id, slot, rel) ==
  PutItem(st, id, [st.items[id] EXCEPT !.relations[slot] = rel])

\* Faulty: the previous relation is not released.
SetRelationLeaking(st, id, slot, rel) ==
  IF st.items[id].relations[slot] = rel
  THEN st
  ELSE PointRelation(IF rel # 0 THEN IncrementItem(st, rel) ELSE st,
                     id, slot, rel)

\* rel is 0 to vacate the slot.
SetRelation(st, id, slot, rel) ==
  LET previous  == st.items[id].relations[slot]
      released  == IF previous # 0 THEN DecrementItem(st, previous) ELSE st
      retained  == IF rel # 0 THEN IncrementItem(released, rel) ELSE released
  IN  IF previous # 0 /\ previous = rel
      THEN st
      ELSE PointRelation(retained, id, slot, rel)

\* Stash::get_head.
HeadOf(entity) ==
  IF inner.index[entity] = 0
  THEN Null
  ELSE inner.items[inner.index[entity]].head

-----------------------------------------------------------------------------
(***************************************************************************)
(* The tasks.  A task is between two heads ("idle"), about to take a guard *)
(* ("open"), computing without the mutex ("edit"), about to save ("save"), *)
(* saving under the mutex ("store") or about to drop its guard ("drop").   *)
(* While todo holds links it prunes the entity of the first one, otherwise *)
(* it applies arg.                                                         *)
(***************************************************************************)
Occupied(links) == {s \in Slot : links[s] # Null}

FirstOccupied(links) ==
  CHOOSE s \in Occupied(links) : \A r \in Occupied(links) : s <= r

Pruning(t) == Occupied(todo[t]) # {}

Target(t) ==
  IF Pruning(t) THEN todo[t][FirstOccupied(todo[t])] ELSE arg[t]

\* The links left once the first one is dealt with.
RestOf(links) == [links EXCEPT ![FirstOccupied(links)] = Null]

\* The guard is dropped next, and then the task opens another or returns.
ThenDrop(t, next) ==
  /\ pc' = [pc EXCEPT ![t] = "drop"]
  /\ after' = [after EXCEPT ![t] = next]

WhenLeft(links) == IF Occupied(links) = {} THEN "idle" ELSE "open"

Init ==
  /\ inner = [items |-> << >>, index |-> [e \in EntityId |-> 0],
              vacancies |-> << >>]
  /\ lock = None
  /\ cursor = 0
  /\ pc = [t \in Task |-> "idle"]
  /\ arg = [t \in Task |-> Null]
  /\ todo = [t \in Task |-> NoLinks]
  /\ guard = [t \in Task |-> None]
  /\ after = [t \in Task |-> "idle"]
  /\ applies = [t \in Task |-> 0]

\* Stash::apply_head is called (only with heads of index nodes).
Begin(t, head) ==
  /\ pc[t] = "idle"
  /\ applies[t] < MaxApply
  /\ applies' = [applies EXCEPT ![t] = @ + 1]
  /\ arg' = [arg EXCEPT ![t] = head]
  /\ pc' = [pc EXCEPT ![t] = "open"]
  /\ UNCHANGED <<inner, lock, cursor, todo, guard, after>>

\* Faulty: the guard takes no reference.
OpenGuardUncounted(t) ==
  /\ pc[t] = "open"
  /\ lock = None
  /\ LET st   == AssertItem(inner, EntityOf(Target(t)))
         id   == st.index[EntityOf(Target(t))]
     IN  /\ inner' = st
         /\ guard' = [guard EXCEPT ![t] =
                        [item |-> id, head |-> st.items[id].head,
                         links |-> NoLinks,
                         edit_counter |-> st.items[id].edit_counter]]
  /\ pc' = [pc EXCEPT ![t] = "edit"]
  /\ UNCHANGED <<lock, cursor, arg, todo, after, applies>>

\* ItemEditGuard::new: find or create the item, reference it and copy it.
OpenGuard(t) ==
  /\ pc[t] = "open"
  /\ lock = None
  /\ LET st   == AssertItem(inner, EntityOf(Target(t)))
         id   == st.index[EntityOf(Target(t))]
     IN  /\ inner' = IncrementItem(st, id)
         /\ guard' = [guard EXCEPT ![t] =
                        [item |-> id, head |-> st.items[id].head,
                         links |-> NoLinks,
                         edit_counter |-> st.items[id].edit_counter]]
  /\ pc' = [pc EXCEPT ![t] = "edit"]
  /\ UNCHANGED <<lock, cursor, arg, todo, after, applies>>

Holding(g, head, links) ==
  [item |-> g.item, head |-> head, links |-> links,
   edit_counter |-> g.edit_counter]

\* The guard holds its edit and the links projected from it.
Edited(t, head) ==
  /\ guard' = [guard EXCEPT ![t] = Holding(@, head, Links(head))]
  /\ pc' = [pc EXCEPT ![t] = "save"]

(***************************************************************************)
(* ItemEditGuard::apply_head: nothing is saved if the head was not         *)
(* applied, and Stash::apply_head returns.                                 *)
(***************************************************************************)
EditApply(t) ==
  /\ pc[t] = "edit"
  /\ ~Pruning(t)
  /\ LET result == ApplyHead(guard[t].head, arg[t])
     IN  \/ /\ result.applied
            /\ Edited(t, result.head)
            /\ UNCHANGED after
         \/ /\ ~result.applied
            /\ ThenDrop(t, "idle")
            /\ UNCHANGED guard
  /\ UNCHANGED <<inner, lock, cursor, arg, todo, applies>>

\* Faulty: the head goes whether the edge covers it or not.
EditPruneAlways(t) ==
  /\ pc[t] = "edit"
  /\ Pruning(t)
  /\ Edited(t, Null)
  /\ UNCHANGED <<inner, lock, cursor, arg, todo, after, applies>>

(***************************************************************************)
(* Stash::prune_head: the head goes if the edge covers it, otherwise this  *)
(* link is done with.                                                      *)
(***************************************************************************)
EditPrune(t) ==
  /\ pc[t] = "edit"
  /\ Pruning(t)
  /\ \/ /\ Covers(Target(t), guard[t].head)
        /\ Edited(t, Null)
        /\ UNCHANGED <<todo, after>>
     \/ /\ ~Covers(Target(t), guard[t].head)
        /\ todo' = [todo EXCEPT ![t] = RestOf(@)]
        /\ ThenDrop(t, WhenLeft(RestOf(todo[t])))
        /\ UNCHANGED guard
  /\ UNCHANGED <<inner, lock, cursor, arg, applies>>

\* A memo could not be retrieved, or the future was dropped while waiting.
Fail(t) ==
  /\ MayFail
  /\ pc[t] = "edit"
  /\ todo' = [todo EXCEPT ![t] = NoLinks]
  /\ ThenDrop(t, "idle")
  /\ UNCHANGED <<inner, lock, cursor, arg, guard, applies>>

\* Faulty: the task saves again what could not be saved.
SaveConflictAgain(t) ==
  /\ pc[t] = "save"
  /\ lock = None
  /\ inner.items[guard[t].item].edit_counter # guard[t].edit_counter
  /\ UNCHANGED vars

\* ItemEditGuard::try_save finds that somebody else saved first.
SaveConflict(t) ==
  /\ pc[t] = "save"
  /\ lock = None
  /\ inner.items[guard[t].item].edit_counter # guard[t].edit_counter
  /\ ThenDrop(t, "open")
  /\ UNCHANGED <<inner, lock, cursor, arg, todo, guard, applies>>

\* Faulty: the edit counter is not compared.
BeginSaveUnchecked(t) ==
  /\ pc[t] = "save"
  /\ lock = None
  /\ lock' = t
  /\ pc' = [pc EXCEPT ![t] = "store"]
  /\ UNCHANGED <<inner, cursor, arg, todo, guard, after, applies>>

\* ItemEditGuard::try_save goes ahead, keeping the mutex.
BeginSave(t) ==
  /\ pc[t] = "save"
  /\ lock = None
  /\ inner.items[guard[t].item].edit_counter = guard[t].edit_counter
  /\ lock' = t
  /\ pc' = [pc EXCEPT ![t] = "store"]
  /\ UNCHANGED <<inner, cursor, arg, todo, guard, after, applies>>

\* Faulty: the slots that became vacant are skipped.
StoreLinkOccupied(t) ==
  /\ pc[t] = "store"
  /\ cursor < MaxSlots
  /\ LET link == guard[t].links[cursor]
         st   == AssertItem(inner, EntityOf(link))
     IN  inner' = IF link = Null THEN inner
                  ELSE SetRelation(st, guard[t].item, cursor,
                                   st.index[EntityOf(link)])
  /\ cursor' = cursor + 1
  /\ UNCHANGED <<lock, pc, arg, todo, guard, after, applies>>

\* One link of the new head is recorded as the relation of its slot.
StoreLink(t) ==
  /\ pc[t] = "store"
  /\ cursor < MaxSlots
  /\ LET link == guard[t].links[cursor]
         st   == IF link = Null THEN inner
                 ELSE AssertItem(inner, EntityOf(link))
         rel  == IF link = Null THEN 0 ELSE st.index[EntityOf(link)]
     IN  inner' = SetRelation(st, guard[t].item, cursor, rel)
  /\ cursor' = cursor + 1
  /\ UNCHANGED <<lock, pc, arg, todo, guard, after, applies>>

\* try_save replaces the head of the item and counts the edit.
Saved(item, head) ==
  [entity |-> item.entity, head |-> head, relations |-> item.relations,
   edit_counter |-> item.edit_counter + 1, ref_count |-> item.ref_count]

\* The head itself is set, the edit counted and the mutex released.
StoreHead(t) ==
  /\ pc[t] = "store"
  /\ cursor = MaxSlots
  /\ LET id == guard[t].item
     IN  inner' = PutItem(inner, id, Saved(inner.items[id], guard[t].head))
  /\ lock' = None
  /\ cursor' = 0
  /\ guard' = [guard EXCEPT ![t] = Holding(@, Null, NoLinks)]
  /\ LET left == IF Pruning(t) THEN RestOf(todo[t]) ELSE guard[t].links
     IN  /\ todo' = [todo EXCEPT ![t] = left]
         /\ ThenDrop(t, WhenLeft(left))
  /\ UNCHANGED <<arg, applies>>

\* ItemEditGuard::drop takes the mutex again to give the reference back.
DropGuard(t) ==
  /\ pc[t] = "drop"
  /\ lock = None
  /\ inner' = DecrementItem(inner, guard[t].item)
  /\ guard' = [guard EXCEPT ![t] = None]
  /\ pc' = [pc EXCEPT ![t] = after[t]]
  /\ after' = [after EXCEPT ![t] = "idle"]
  /\ arg' = [arg EXCEPT ![t] = IF after[t] = "idle" THEN Null ELSE @]
  /\ UNCHANGED <<lock, cursor, todo, applies>>

\* What the executor makes a task do once it is called.
Progress(t) ==
  \/ OpenGuard(t)
  \/ EditApply(t)
  \/ EditPrune(t)
  \/ SaveConflict(t)
  \/ BeginSave(t)
  \/ StoreLink(t)
  \/ StoreHead(t)
  \/ DropGuard(t)

\* Every task has applied its heads (a bound of the model, not of the code).
Finished ==
  /\ \A t \in Task : pc[t] = "idle" /\ applies[t] = MaxApply
  /\ UNCHANGED vars

Next ==
  \/ \E t \in Task :
       \/ \E head \in Input : Begin(t, head)
       \/ Progress(t)
       \/ Fail(t)
  \/ Finished

Spec == Init /\ [][Next]_vars

\* Of the tasks that can go on, some one does.
FairSpec == Spec /\ WF_vars(\E t \in Task : Progress(t))

-----------------------------------------------------------------------------
(***************************************************************************)
(* Properties.                                                             *)
(***************************************************************************)
TypeOK ==
  /\ inner \in Contents
  /\ lock \in Task \cup {None}
  /\ cursor \in 0 .. MaxSlots
  /\ pc \in [Task -> {"idle", "open", "edit", "save", "store", "drop"}]
  /\ arg \in [Task -> Input \cup {Null}]
  /\ todo \in [Task -> [Slot -> HeadSet]]
  /\ guard \in [Task -> Guard \cup {None}]
  /\ after \in [Task -> {"idle", "open"}]
  /\ applies \in [Task -> 0 .. MaxApply]

\* The ids of the items that are not None.
Live(st) == {id \in DOMAIN st.items : st.items[id] # None}

(***************************************************************************)
(* The index finds every item and only items: an entity has at most one,   *)
(* and the vacancies are the empty places, each listed once, so that no    *)
(* place is handed out twice (assert_item, conditional_remove_item).       *)
(***************************************************************************)
IndexExact ==
  /\ \A e \in EntityId :
       inner.index[e] # 0 => /\ inner.index[e] \in Live(inner)
                             /\ inner.items[inner.index[e]].entity = e
  /\ \A id \in Live(inner) : inner.index[inner.items[id].entity] = id
  /\ \A id \in DOMAIN inner.items :
       inner.items[id] = None
         <=> \E k \in DOMAIN inner.vacancies : inner.vacancies[k] = id
  /\ \A k \in DOMAIN inner.vacancies :
       inner.vacancies[k] \in DOMAIN inner.items
  /\ \A k, l \in DOMAIN inner.vacancies :
       inner.vacancies[k] = inner.vacancies[l] => k = l

(***************************************************************************)
(* Who refers to an item: <<t, -1, id>> is the guard of task t, and        *)
(* <<i, s, id>> the relation in slot s of item i.                          *)
(***************************************************************************)
GuardRefs(gs) == {<<t, -1, gs[t].item>> : t \in {u \in Task : gs[u] # None}}

RelationRefs(st) ==
  {<<r[1], r[2], st.items[r[1]].relations[r[2]]>> :
     r \in {r \in Live(st) \X Slot : st.items[r[1]].relations[r[2]] # 0}}

References == GuardRefs(guard) \cup RelationRefs(inner)

RefsTo(refs, id) == {r \in refs : r[3] = id}

(***************************************************************************)
(* The reference count of an item is the number of guards and relations    *)
(* that refer to it, and an item is there as long as it has a head or a    *)
(* reference: none is removed under a guard, none is leaked.               *)
(***************************************************************************)
RefCountExact ==
  /\ \A r \in References : r[3] \in Live(inner)
  /\ \A id \in Live(inner) :
       /\ inner.items[id].ref_count = Cardinality(RefsTo(References, id))
       /\ inner.items[id].ref_count = 0 => inner.items[id].head # Null

(***************************************************************************)
(* The item a task works on between two uses of the mutex is still the     *)
(* item of the entity it took it for: its place is not reused, and so the  *)
(* task cannot save one entity's head in the item of another.              *)
(***************************************************************************)
GuardPinsItem ==
  \A t \in Task :
    /\ guard[t] # None <=> pc[t] \in {"edit", "save", "store", "drop"}
    /\ guard[t] # None => guard[t].item \in Live(inner)
    /\ pc[t] \in {"edit", "save", "store"}
         => inner.items[guard[t].item].entity = EntityOf(Target(t))

(***************************************************************************)
(* Once it is saved, an item's relations are those its head projects: they *)
(* name the items of the linked entities, and a pruned item has none.      *)
(***************************************************************************)
RelationsMatchHead ==
  \A id \in Live(inner), s \in Slot :
    (lock # None => id # guard[lock].item) =>
      LET link == Links(inner.items[id].head)[s]
      IN  inner.items[id].relations[s] =
            IF link = Null THEN 0 ELSE inner.index[EntityOf(link)]

(***************************************************************************)
(* The optimistic protocol is atomic: whatever the interleaving, the heads *)
(* in the stash only change as if every apply and prune took one step.     *)
(***************************************************************************)
Atomic == INSTANCE AtomicStash WITH heads <- [e \in EntityId |-> HeadOf(e)]

AppliesAtomically == Atomic!Spec

(***************************************************************************)
(* A call that was made returns: no retry loop of apply_head or prune_head *)
(* goes on for ever, and no task waits for ever for the mutex, provided    *)
(* others make finitely many calls (MaxApply).                             *)
(***************************************************************************)
CallsReturn == \A t \in Task : pc[t] # "idle" ~> pc[t] = "idle"
=============================================================================
