----------------------------- MODULE StashProofs -----------------------------
(***************************************************************************)
(* Proofs about the stash of a context (module Stash).                     *)
(*                                                                         *)
(* The argument has two layers.  The first is about StashInner alone: a    *)
(* store is well formed with respect to the set of references that others  *)
(* hold to its items, and each operator of StashInner keeps it so for that *)
(* set with a reference more or a reference less.  The second follows the  *)
(* tasks: the references a step adds or drops are those of References.     *)
(***************************************************************************)
EXTENDS Stash, FiniteSetTheorems, SequenceTheorems,
        WellFoundedInduction, TLAPS

-----------------------------------------------------------------------------
(***************************************************************************)
(* Well-formed stores.                                                     *)
(***************************************************************************)
\* IndexExact, of any store.
Indexed(st) ==
  /\ \A e \in EntityId :
       st.index[e] # 0 => /\ st.index[e] \in Live(st)
                          /\ st.items[st.index[e]].entity = e
  /\ \A id \in Live(st) : st.index[st.items[id].entity] = id
  /\ \A id \in DOMAIN st.items :
       st.items[id] = None
         <=> \E k \in DOMAIN st.vacancies : st.vacancies[k] = id
  /\ \A k \in DOMAIN st.vacancies : st.vacancies[k] \in DOMAIN st.items
  /\ \A k, l \in DOMAIN st.vacancies :
       st.vacancies[k] = st.vacancies[l] => k = l

\* The reference counts of a store are those of the references refs.
Counted(st, refs) ==
  /\ IsFiniteSet(refs)
  /\ \A r \in refs : r[3] \in Live(st)
  /\ \A id \in Live(st) :
       st.items[id].ref_count = Cardinality(RefsTo(refs, id))

Store(st, refs) == st \in Contents /\ Indexed(st) /\ Counted(st, refs)

\* Every item has a reference or a head.
NoGarbage(st) ==
  \A id \in Live(st) : st.items[id].ref_count = 0 => st.items[id].head # Null

\* The items agree on everything but their reference counts.
SameItem(a, b) ==
  /\ a.entity = b.entity
  /\ a.head = b.head
  /\ a.relations = b.relations
  /\ a.edit_counter = b.edit_counter

-----------------------------------------------------------------------------
\* A live item is an Item: its id is a position of items.
LEMMA LiveItem ==
  ASSUME NEW st \in Contents, NEW id \in Live(st)
  PROVE  /\ id \in Nat /\ id # 0
         /\ id \in 1 .. Len(st.items)
         /\ st.items[id] \in Item
BY LenProperties DEF Live, Contents

\* A new item is an Item, never None, and nobody refers to it.
LEMMA NewItemType ==
  ASSUME NEW e \in EntityId
  PROVE  /\ NewItem(e) \in Item
         /\ NewItem(e) # None
         /\ NewItem(e).entity = e
         /\ NewItem(e).head = Null
         /\ NewItem(e).ref_count = 0
         /\ NewItem(e).relations = [s \in Slot |-> 0]
<1>1. Null \in HeadSet  BY HeadAssumption
<1>2. NewItem(e) \in Item  BY <1>1 DEF NewItem, Item
<1> QED  BY <1>2, NoneAssumption DEF NewItem
(***************************************************************************)
(* Replacing an item by another of the same entity keeps the index exact.  *)
(***************************************************************************)
LEMMA ReplaceItem ==
  ASSUME NEW st \in Contents, Indexed(st),
         NEW id \in Live(st), NEW item \in Item,
         item.entity = st.items[id].entity,
         NEW new, new = PutItem(st, id, item)
  PROVE  /\ new \in Contents
         /\ Indexed(new)
         /\ Live(new) = Live(st)
         /\ new.index = st.index
         /\ new.items[id] = item
         /\ \A j \in Live(st) : j # id => new.items[j] = st.items[j]
<1>1. /\ id \in 1 .. Len(st.items)
      /\ item \in Item \cup {None}
      /\ st.items \in Seq(Item \cup {None})
  BY LiveItem DEF Contents
<1>2. /\ [st.items EXCEPT ![id] = item] \in Seq(Item \cup {None})
      /\ Len([st.items EXCEPT ![id] = item]) = Len(st.items)
      /\ \A j \in 1 .. Len(st.items) :
           [st.items EXCEPT ![id] = item][j]
             = IF j = id THEN item ELSE st.items[j]
  BY ONLY <1>1, ExceptSeq
<1>3. /\ new.items = [st.items EXCEPT ![id] = item]
      /\ new.index = st.index
      /\ new.vacancies = st.vacancies
      /\ new \in Contents
  BY <1>2 DEF Contents, PutItem
<1>4. /\ DOMAIN new.items = 1 .. Len(st.items)
      /\ DOMAIN st.items = 1 .. Len(st.items)
      /\ DOMAIN new.vacancies = DOMAIN st.vacancies
  BY <1>1, <1>2, <1>3, LenProperties
<1>5. \A j \in 1 .. Len(st.items) :
         new.items[j] = IF j = id THEN item ELSE st.items[j]
  BY <1>2, <1>3
<1>6. st.items[id] # None /\ item # None
  BY NoneAssumption DEF Live
<1>7. Live(new) = Live(st)
  BY <1>4, <1>5, <1>6 DEF Live
<1>8. \A j \in Live(st) : j # id => new.items[j] = st.items[j]
  BY <1>4, <1>5 DEF Live
<1>9. \A j \in Live(st) : new.items[j].entity = st.items[j].entity
  BY <1>1, <1>5, <1>8
<1>10. Indexed(new)
  <2>1. \A e \in EntityId :
          new.index[e] # 0 => /\ new.index[e] \in Live(new)
                              /\ new.items[new.index[e]].entity = e
    BY <1>3, <1>7, <1>9 DEF Indexed
  <2>2. \A j \in Live(new) : new.index[new.items[j].entity] = j
    BY <1>3, <1>7, <1>9 DEF Indexed
  <2>3. \A j \in DOMAIN new.items : new.items[j] = None <=> st.items[j] = None
    BY <1>1, <1>4, <1>5, <1>6
  <2> QED  BY <2>1, <2>2, <2>3, <1>3, <1>4 DEF Indexed
<1> QED  BY <1>1, <1>3, <1>5, <1>7, <1>8, <1>10

-----------------------------------------------------------------------------
(***************************************************************************)
(* References: one more, one less.                                         *)
(***************************************************************************)
LEMMA AddReference ==
  ASSUME NEW refs, IsFiniteSet(refs), NEW x, x \notin refs, NEW id
  PROVE  /\ Cardinality(RefsTo(refs, id)) \in Nat
         /\ x[3] = id => Cardinality(RefsTo(refs \cup {x}, id))
                          = Cardinality(RefsTo(refs, id)) + 1
         /\ x[3] # id => RefsTo(refs \cup {x}, id) = RefsTo(refs, id)
<1>1. IsFiniteSet(RefsTo(refs, id))
  BY FS_Subset DEF RefsTo
<1>2. Cardinality(RefsTo(refs, id)) \in Nat
  BY <1>1, FS_CardinalityType
<1>3. CASE x[3] = id
  <2>1. RefsTo(refs \cup {x}, id) = RefsTo(refs, id) \cup {x}
    BY <1>3 DEF RefsTo
  <2>2. x \notin RefsTo(refs, id)
    BY DEF RefsTo
  <2> QED  BY <2>1, <2>2, <1>1, <1>2, <1>3, FS_AddElement
<1>4. CASE x[3] # id
  <2>1. RefsTo(refs \cup {x}, id) = RefsTo(refs, id)
    BY <1>4 DEF RefsTo
  <2> QED  BY <2>1, <1>2, <1>4
<1> QED  BY <1>3, <1>4

\* What is true of the references to id when x goes.
DroppedFrom(refs, x, id) ==
  /\ Cardinality(RefsTo(refs, id)) \in Nat
  /\ x[3] = id =>
       /\ Cardinality(RefsTo(refs \ {x}, id)) = Cardinality(RefsTo(refs, id)) - 1
       /\ Cardinality(RefsTo(refs, id)) # 0
       /\ Cardinality(RefsTo(refs, id)) = 1 => RefsTo(refs, id) = {x}
  /\ x[3] # id => RefsTo(refs \ {x}, id) = RefsTo(refs, id)

LEMMA DropReference ==
  ASSUME NEW refs, IsFiniteSet(refs), NEW x \in refs, NEW id
  PROVE  DroppedFrom(refs, x, id)
<1>1. IsFiniteSet(RefsTo(refs, id))
  BY FS_Subset DEF RefsTo
<1>2. Cardinality(RefsTo(refs, id)) \in Nat
  BY <1>1, FS_CardinalityType
<1>3. CASE x[3] = id
  <2>1. RefsTo(refs \ {x}, id) = RefsTo(refs, id) \ {x}
    BY <1>3 DEF RefsTo
  <2>2. x \in RefsTo(refs, id)
    BY <1>3 DEF RefsTo
  <2>3. Cardinality(RefsTo(refs, id)) = 1 => RefsTo(refs, id) = {x}
    BY <2>2, <1>1, FS_Singleton
  <2>4. Cardinality(RefsTo(refs, id)) # 0
    BY <2>2, <1>1, FS_EmptySet
  <2>5. Cardinality(RefsTo(refs, id) \ {x}) = Cardinality(RefsTo(refs, id)) - 1
    BY <2>2, <1>1, FS_RemoveElement
  <2> QED  BY <2>1, <2>3, <2>4, <2>5, <1>2, <1>3 DEF DroppedFrom
<1>4. CASE x[3] # id
  <2>1. RefsTo(refs \ {x}, id) = RefsTo(refs, id)
    BY <1>4 DEF RefsTo
  <2> QED  BY <2>1, <1>2, <1>4 DEF DroppedFrom
<1> QED  BY <1>3, <1>4

-----------------------------------------------------------------------------
(***************************************************************************)
(* The operators of StashInner.                                            *)
(***************************************************************************)

(***************************************************************************)
(* new is st with a new item for e in the empty place id.                  *)
(***************************************************************************)
PlaceTaken(st, e, new, id) ==
  /\ id \in Nat \ {0}
  /\ id \notin Live(st)
  /\ id \in DOMAIN new.items
  /\ new.items[id] = NewItem(e)
  /\ \A j \in DOMAIN new.items : j # id => j \in DOMAIN st.items
  /\ \A j \in DOMAIN st.items :
       j # id => j \in DOMAIN new.items /\ new.items[j] = st.items[j]
  /\ new.index = [st.index EXCEPT ![e] = id]

(***************************************************************************)
(* Wherever a new item goes: the index finds it, and nobody refers to it.  *)
(***************************************************************************)
LEMMA OccupyPlace ==
  ASSUME NEW st, NEW refs, Store(st, refs), NEW e \in EntityId,
         st.index[e] = 0, NEW new, NEW id, PlaceTaken(st, e, new, id)
  PROVE  /\ Live(new) = Live(st) \cup {id}
         /\ \A j \in Live(st) : new.items[j] = st.items[j]
         /\ Counted(new, refs)
         /\ new.index[e] = id
         /\ \A d \in EntityId :
              new.index[d] # 0 => /\ new.index[d] \in Live(new)
                                  /\ new.items[new.index[d]].entity = d
         /\ \A j \in Live(new) : new.index[new.items[j].entity] = j
<1> USE DEF Store, PlaceTaken
<1>1. /\ NewItem(e) # None
      /\ NewItem(e).entity = e
      /\ NewItem(e).ref_count = 0
  BY NewItemType
<1>2. Live(new) = Live(st) \cup {id}
  BY <1>1 DEF Live
<1>3. \A j \in Live(st) : new.items[j] = st.items[j] /\ j # id
  BY DEF Live
<1>4. /\ st.index \in [EntityId -> Nat]
      /\ new.index[e] = id
      /\ \A d \in EntityId : d # e => new.index[d] = st.index[d]
  BY DEF Contents
<1>5. \A d \in EntityId :
        new.index[d] # 0 => /\ new.index[d] \in Live(new)
                            /\ new.items[new.index[d]].entity = d
  BY <1>1, <1>2, <1>3, <1>4 DEF Indexed
<1>6. ASSUME NEW j \in Live(new)
      PROVE  new.index[new.items[j].entity] = j
  <2>1. CASE j = id  BY <2>1, <1>1, <1>4
  <2>2. CASE j # id
    <3>1. j \in Live(st) /\ new.items[j] = st.items[j] /\ j # 0
      BY <2>2, <1>2, <1>3, LiveItem
    <3>2. st.items[j].entity \in EntityId
      BY <3>1, LiveItem DEF Item
    <3>3. st.index[st.items[j].entity] = j
      BY <3>1 DEF Indexed
    <3>4. st.items[j].entity # e
      BY <3>1, <3>3
    <3> QED  BY <3>1, <3>2, <3>3, <3>4, <1>4
  <2> QED  BY <2>1, <2>2
<1>7. Counted(new, refs)
  <2>1. IsFiniteSet(refs) /\ \A r \in refs : r[3] \in Live(new)
    BY <1>2 DEF Counted
  <2>2. RefsTo(refs, id) = {}
    BY DEF RefsTo, Counted
  <2>3. Cardinality(RefsTo(refs, id)) = 0
    BY <2>2, FS_EmptySet
  <2>4. ASSUME NEW j \in Live(new)
        PROVE  new.items[j].ref_count = Cardinality(RefsTo(refs, j))
    <3>1. CASE j = id  BY <3>1, <2>3, <1>1
    <3>2. CASE j # id  BY <3>2, <1>2, <1>3 DEF Counted
    <3> QED  BY <3>1, <3>2
  <2> QED  BY <2>1, <2>4 DEF Counted
<1> QED  BY <1>2, <1>3, <1>4, <1>5, <1>6, <1>7

(***************************************************************************)
(* new is st once the entity has an item: if there was none, it is a new   *)
(* one in a place that was empty, and no other item is touched.            *)
(***************************************************************************)
Asserted(st, refs, e, new) ==
  /\ Store(new, refs)
  /\ new.index[e] \in Live(new)
  /\ new.items[new.index[e]].entity = e
  /\ Live(new) = Live(st) \cup {new.index[e]}
  /\ \A j \in Live(st) : new.items[j] = st.items[j]
  /\ new.index[e] \notin Live(st) => new.items[new.index[e]] = NewItem(e)

\* assert_item.
LEMMA AssertItemStore ==
  ASSUME NEW st, NEW refs, Store(st, refs), NEW e \in EntityId,
         NEW new, new = AssertItem(st, e)
  PROVE  Asserted(st, refs, e, new)
<1> DEFINE last == Len(st.vacancies)
           S == Item \cup {None}
<1>1. /\ st \in Contents /\ Indexed(st) /\ Counted(st, refs)
      /\ st.items \in Seq(S) /\ st.index \in [EntityId -> Nat]
      /\ st.vacancies \in Seq(Nat)
      /\ last \in Nat
      /\ DOMAIN st.vacancies = 1 .. last
      /\ DOMAIN st.items = 1 .. Len(st.items)
      /\ Len(st.items) \in Nat
  BY LenProperties DEF Store, Contents
<1>2. NewItem(e) \in S  BY NewItemType
<1>3. CASE st.index[e] # 0
  <2>1. new = st  BY <1>3 DEF AssertItem
  <2> QED  BY <2>1, <1>3, <1>1 DEF Asserted, Store, Indexed
<1>4. CASE st.index[e] = 0 /\ last > 0
  <2> DEFINE id == st.vacancies[last]
             vac == SubSeq(st.vacancies, 1, last - 1)
  <2>1. last \in 1 .. last  BY <1>1, <1>4
  <2>2. id \in 1 .. Len(st.items)  BY <2>1, <1>1 DEF Indexed
  <2>3. st.items[id] = None  BY <2>1, <2>2, <1>1 DEF Indexed
  <2>4. id \notin Live(st) /\ id \in Nat \ {0}
    BY <2>2, <2>3, <1>1 DEF Live
  <2>5. /\ [st.items EXCEPT ![id] = NewItem(e)] \in Seq(S)
        /\ Len([st.items EXCEPT ![id] = NewItem(e)]) = Len(st.items)
        /\ \A j \in 1 .. Len(st.items) :
             [st.items EXCEPT ![id] = NewItem(e)][j]
               = IF j = id THEN NewItem(e) ELSE st.items[j]
    BY ONLY <1>1, <1>2, <2>2, ExceptSeq
  <2>6. /\ vac \in Seq(Nat)
        /\ Len(vac) = last - 1
        /\ \A i \in 1 .. last - 1 : vac[i] = st.vacancies[i]
    <3>1. \A i \in 1 .. last - 1 : st.vacancies[i] \in Nat
      BY <1>1, ElementOfSeq
    <3>2. /\ SubSeq(st.vacancies, 1, last - 1) \in Seq(Nat)
          /\ Len(SubSeq(st.vacancies, 1, last - 1))
               = IF 1 <= last - 1 THEN last - 1 - 1 + 1 ELSE 0
          /\ \A i \in 1 .. last - 1 - 1 + 1 :
               SubSeq(st.vacancies, 1, last - 1)[i] = st.vacancies[1 + i - 1]
      <4>1. 1 \in Int /\ last - 1 \in Int  BY <1>1
      <4> HIDE DEF last
      <4> QED  BY ONLY <3>1, <4>1, SubSeqProperties
    <3> HIDE DEF last
    <3> QED  BY <3>2, <1>1, <1>4
  <2>7. /\ new.items = [st.items EXCEPT ![id] = NewItem(e)]
        /\ new.index = [st.index EXCEPT ![e] = id]
        /\ new.vacancies = vac
        /\ new \in Contents
    BY <1>1, <1>4, <2>4, <2>5, <2>6 DEF AssertItem, Contents
  <2>8. /\ DOMAIN new.items = 1 .. Len(st.items)
        /\ DOMAIN new.vacancies = 1 .. last - 1
    BY <2>5, <2>6, <2>7, LenProperties
  <2>9. /\ new.items[id] = NewItem(e)
        /\ \A j \in 1 .. Len(st.items) : j # id => new.items[j] = st.items[j]
    BY <2>2, <2>5, <2>7
  <2> HIDE DEF id, vac, last, S
  <2>taken. PlaceTaken(st, e, new, id)
    BY <1>1, <2>2, <2>4, <2>7, <2>8, <2>9 DEF PlaceTaken
  <2>10. /\ Live(new) = Live(st) \cup {id}
         /\ \A j \in Live(st) : new.items[j] = st.items[j]
         /\ Counted(new, refs)
         /\ new.index[e] = id
         /\ \A d \in EntityId :
              new.index[d] # 0 => /\ new.index[d] \in Live(new)
                                  /\ new.items[new.index[d]].entity = d
         /\ \A j \in Live(new) : new.index[new.items[j].entity] = j
    BY <1>4, <2>taken, OccupyPlace
  <2>11. \A k \in 1 .. last - 1 :
            /\ new.vacancies[k] = st.vacancies[k]
            /\ k \in 1 .. last
            /\ st.vacancies[k] # id
    <3>1. \A k, l \in 1 .. last : st.vacancies[k] = st.vacancies[l] => k = l
      BY <1>1 DEF Indexed
    <3>2. \A k \in 1 .. last - 1 : k \in 1 .. last /\ k # last
      BY <1>1
    <3> QED  BY <3>1, <3>2, <2>1, <2>6, <2>7 DEF id
  <2>12. /\ \A k \in DOMAIN new.vacancies :
              new.vacancies[k] \in DOMAIN new.items
         /\ \A k, l \in DOMAIN new.vacancies :
              new.vacancies[k] = new.vacancies[l] => k = l
    <3>1. /\ \A k \in 1 .. last : st.vacancies[k] \in 1 .. Len(st.items)
          /\ \A k, l \in 1 .. last :
               st.vacancies[k] = st.vacancies[l] => k = l
      BY <1>1 DEF Indexed
    <3> QED  BY <3>1, <2>8, <2>11
  <2>13. ASSUME NEW j \in DOMAIN new.items
         PROVE  new.items[j] = None
                  <=> \E k \in DOMAIN new.vacancies : new.vacancies[k] = j
    <3>1. CASE j = id
      BY <3>1, <2>8, <2>9, <2>11, NewItemType
    <3>2. CASE j # id
      <4>1. new.items[j] = st.items[j] /\ j \in DOMAIN st.items
        BY <3>2, <2>8, <2>9, <1>1
      <4>2. ASSUME NEW k \in 1 .. last, st.vacancies[k] = j
            PROVE  k \in 1 .. last - 1
        BY <4>2, <3>2, <1>1 DEF id
      <4>3. st.items[j] = None
              <=> \E k \in 1 .. last : st.vacancies[k] = j
        BY <4>1, <1>1 DEF Indexed
      <4>4. (\E k \in 1 .. last : st.vacancies[k] = j)
              <=> \E k \in 1 .. last - 1 : new.vacancies[k] = j
        BY <4>2, <2>11
      <4> QED  BY <4>1, <4>3, <4>4, <2>8
    <3> QED  BY <3>1, <3>2
  <2>14. Indexed(new)
    BY <2>10, <2>12, <2>13 DEF Indexed
  <2> QED  BY <2>4, <2>7, <2>9, <2>10, <2>14, NewItemType
        DEF Asserted, Store
<1>5. CASE st.index[e] = 0 /\ last = 0
  <2> DEFINE id == Len(st.items) + 1
  <2>1. /\ Append(st.items, NewItem(e)) \in Seq(S)
        /\ Len(Append(st.items, NewItem(e))) = id
        /\ \A j \in 1 .. Len(st.items) :
             Append(st.items, NewItem(e))[j] = st.items[j]
        /\ Append(st.items, NewItem(e))[id] = NewItem(e)
    BY ONLY <1>1, <1>2, AppendProperties
  <2>2. /\ new.items = Append(st.items, NewItem(e))
        /\ new.index = [st.index EXCEPT ![e] = id]
        /\ new.vacancies = st.vacancies
        /\ new \in Contents
    BY <1>1, <1>5, <2>1 DEF AssertItem, Contents
  <2>3. id \notin Live(st) /\ id \in Nat \ {0}
    BY <1>1 DEF Live
  <2>4. DOMAIN new.items = 1 .. id
    BY <2>1, <2>2, LenProperties
  <2>5. /\ new.items[id] = NewItem(e)
        /\ \A j \in 1 .. Len(st.items) : new.items[j] = st.items[j]
        /\ \A j \in 1 .. id : j # id => j \in 1 .. Len(st.items)
        /\ \A j \in 1 .. Len(st.items) : j \in 1 .. id
        /\ id \in 1 .. id
    BY <1>1, <2>1, <2>2
  <2> HIDE DEF id, S
  <2>taken. PlaceTaken(st, e, new, id)
    BY <1>1, <2>2, <2>3, <2>4, <2>5 DEF PlaceTaken
  <2>6. /\ Live(new) = Live(st) \cup {id}
        /\ \A j \in Live(st) : new.items[j] = st.items[j]
        /\ Counted(new, refs)
        /\ new.index[e] = id
        /\ \A d \in EntityId :
             new.index[d] # 0 => /\ new.index[d] \in Live(new)
                                 /\ new.items[new.index[d]].entity = d
        /\ \A j \in Live(new) : new.index[new.items[j].entity] = j
    BY <1>5, <2>taken, OccupyPlace
  <2>7. DOMAIN new.vacancies = {}
    BY <1>1, <1>5, <2>2
  <2>8. \A j \in DOMAIN st.items : st.items[j] # None
    BY <1>1, <1>5 DEF Indexed
  <2>9. \A j \in DOMAIN new.items : new.items[j] # None
    BY <1>1, <2>4, <2>5, <2>8, NewItemType
  <2>10. Indexed(new)
    BY <2>6, <2>7, <2>9 DEF Indexed
  <2> QED  BY <2>2, <2>3, <2>5, <2>6, <2>10, NewItemType
        DEF Asserted, Store
<1> QED  BY <1>1, <1>3, <1>4, <1>5

(***************************************************************************)
(* increment_item accounts for one more reference to a live item.          *)
(***************************************************************************)
LEMMA IncrementStore ==
  ASSUME NEW st, NEW refs, Store(st, refs), NEW id \in Live(st),
         NEW x, x \notin refs, x[3] = id,
         NEW new, new = IncrementItem(st, id)
  PROVE  /\ Store(new, refs \cup {x})
         /\ Live(new) = Live(st)
         /\ new.index = st.index
         /\ \A j \in Live(st) : j # id => new.items[j] = st.items[j]
         /\ SameItem(new.items[id], st.items[id])
         /\ new.items[id].ref_count # 0
<1> DEFINE item == [st.items[id] EXCEPT !.ref_count = @ + 1]
<1>1. st \in Contents /\ Indexed(st) /\ Counted(st, refs)
  BY DEF Store
<1>2. st.items[id] \in Item  BY <1>1, LiveItem
<1>3. /\ item \in Item
      /\ item.entity = st.items[id].entity
      /\ item.ref_count = st.items[id].ref_count + 1
      /\ item.ref_count # 0
      /\ SameItem(item, st.items[id])
  BY <1>2 DEF Item, SameItem
<1>4. new = PutItem(st, id, item)  BY DEF IncrementItem
<1> HIDE DEF item
<1>5. /\ new \in Contents
      /\ Indexed(new)
      /\ Live(new) = Live(st)
      /\ new.index = st.index
      /\ new.items[id] = item
      /\ \A j \in Live(st) : j # id => new.items[j] = st.items[j]
  BY <1>1, <1>3, <1>4, ReplaceItem
<1>6. Counted(new, refs \cup {x})
  <2>1. IsFiniteSet(refs)  BY <1>1 DEF Counted
  <2>2. IsFiniteSet(refs \cup {x})  BY <2>1, FS_AddElement
  <2>3. \A r \in refs \cup {x} : r[3] \in Live(new)
    BY <1>1, <1>5 DEF Counted
  <2>4. ASSUME NEW j \in Live(new)
        PROVE  new.items[j].ref_count = Cardinality(RefsTo(refs \cup {x}, j))
    <3>1. /\ x[3] = j => Cardinality(RefsTo(refs \cup {x}, j))
                          = Cardinality(RefsTo(refs, j)) + 1
          /\ x[3] # j => RefsTo(refs \cup {x}, j) = RefsTo(refs, j)
      BY <2>1, AddReference
    <3>2. st.items[j].ref_count = Cardinality(RefsTo(refs, j))
      BY <1>1, <1>5 DEF Counted
    <3>3. CASE j = id  BY <3>1, <3>2, <3>3, <1>3, <1>5
    <3>4. CASE j # id  BY <3>1, <3>2, <3>4, <1>5
    <3> QED  BY <3>3, <3>4
  <2> QED  BY <2>2, <2>3, <2>4 DEF Counted
<1> QED  BY <1>3, <1>5, <1>6 DEF Store

(***************************************************************************)
(* new is st after the reference x was given back: its item goes if x was  *)
(* the only reference and it has no head, and never otherwise; every other *)
(* item stays as it is.                                                    *)
(***************************************************************************)
Dropped(st, refs, x, new) ==
  /\ Store(new, refs \ {x})
  /\ Live(new) \subseteq Live(st)
  /\ \A j \in Live(st) \ Live(new) : /\ j = x[3]
                                     /\ st.items[j].head = Null
                                     /\ \A r \in refs : r[3] = j => r = x
  /\ \A j \in Live(st) : j # x[3] => new.items[j] = st.items[j]
  /\ x[3] \in Live(new) =>
       /\ SameItem(new.items[x[3]], st.items[x[3]])
       /\ new.items[x[3]].ref_count = 0 => new.items[x[3]].head # Null

\* decrement_item accounts for one reference less.
LEMMA DecrementStore ==
  ASSUME NEW st, NEW refs, Store(st, refs), NEW x \in refs,
         NEW id, x[3] = id, NEW new, new = DecrementItem(st, id)
  PROVE  Dropped(st, refs, x, new)
<1>1. st \in Contents /\ Indexed(st) /\ Counted(st, refs)
  BY DEF Store
<1>2. IsFiniteSet(refs) /\ id \in Live(st)  BY <1>1 DEF Counted
<1>3. st.items[id] \in Item /\ id \in 1 .. Len(st.items) /\ id # 0
  BY <1>1, <1>2, LiveItem
<1>4. IsFiniteSet(refs \ {x})  BY <1>2, FS_RemoveElement
<1>5. /\ Cardinality(RefsTo(refs, id)) \in Nat
      /\ Cardinality(RefsTo(refs \ {x}, id)) = Cardinality(RefsTo(refs, id)) - 1
      /\ Cardinality(RefsTo(refs, id)) # 0
      /\ Cardinality(RefsTo(refs, id)) = 1 => RefsTo(refs, id) = {x}
      /\ \A j : j # id => RefsTo(refs \ {x}, j) = RefsTo(refs, j)
  <2>1. ASSUME NEW j
        PROVE  DroppedFrom(refs, x, j)
    BY <1>2, DropReference
  <2> QED  BY <2>1 DEF DroppedFrom
<1>6. \A j \in Live(st) :
        st.items[j].ref_count = Cardinality(RefsTo(refs, j))
  BY <1>1 DEF Counted
<1>7. CASE st.items[id].ref_count = 1 /\ st.items[id].head = Null
  <2>1. \A r \in refs : r[3] = id => r = x
    <3>1. RefsTo(refs, id) = {x}  BY <1>2, <1>5, <1>6, <1>7
    <3> QED  BY <3>1 DEF RefsTo
  <2>2. new = RemoveItem(st, id)  BY <1>7 DEF DecrementItem
  <2>3. st.items \in Seq(Item \cup {None}) /\ st.vacancies \in Seq(Nat)
    BY <1>1 DEF Contents
  <2>4. /\ [st.items EXCEPT ![id] = None] \in Seq(Item \cup {None})
        /\ Len([st.items EXCEPT ![id] = None]) = Len(st.items)
        /\ \A j \in 1 .. Len(st.items) :
             [st.items EXCEPT ![id] = None][j]
               = IF j = id THEN None ELSE st.items[j]
    <3>1. None \in Item \cup {None}  OBVIOUS
    <3> QED  BY ONLY <3>1, <1>3, <2>3, ExceptSeq
  <2>5. /\ Append(st.vacancies, id) \in Seq(Nat)
        /\ Len(Append(st.vacancies, id)) = Len(st.vacancies) + 1
        /\ \A k \in 1 .. Len(st.vacancies) :
             Append(st.vacancies, id)[k] = st.vacancies[k]
        /\ Append(st.vacancies, id)[Len(st.vacancies) + 1] = id
    <3>1. id \in Nat  BY <1>3
    <3> QED  BY ONLY <3>1, <2>3, AppendProperties
  <2>6. /\ new.items = [st.items EXCEPT ![id] = None]
        /\ new.index = [st.index EXCEPT ![st.items[id].entity] = 0]
        /\ new.vacancies = Append(st.vacancies, id)
    BY <2>2 DEF RemoveItem
  <2>7. new \in Contents
    <3>1. [st.index EXCEPT ![st.items[id].entity] = 0] \in [EntityId -> Nat]
      BY <1>1 DEF Contents
    <3> QED  BY <3>1, <2>2, <2>4, <2>5 DEF RemoveItem, Contents
  <2> DEFINE n == Len(st.vacancies)
  <2>8. /\ DOMAIN new.items = 1 .. Len(st.items)
        /\ DOMAIN st.items = 1 .. Len(st.items)
        /\ DOMAIN st.vacancies = 1 .. n
        /\ DOMAIN new.vacancies = 1 .. n + 1
        /\ n \in Nat
    BY <2>3, <2>4, <2>5, <2>6, LenProperties
  <2>9. /\ new.items[id] = None
        /\ \A j \in 1 .. Len(st.items) : j # id => new.items[j] = st.items[j]
        /\ \A k \in 1 .. n : new.vacancies[k] = st.vacancies[k]
        /\ new.vacancies[n + 1] = id
    BY <2>4, <2>5, <2>6, <1>3
  <2> HIDE DEF n
  <2>10. Live(new) = Live(st) \ {id}
    BY <1>3, <2>8, <2>9 DEF Live
  <2>11. \A j \in Live(st) : j # id => new.items[j] = st.items[j]
    BY <2>8, <2>9 DEF Live
  <2>12. Indexed(new)
    <3>1. /\ st.items[id].entity \in EntityId
          /\ st.index[st.items[id].entity] = id
          /\ st.index \in [EntityId -> Nat]
      BY <1>1, <1>2, <1>3 DEF Indexed, Contents, Item
    <3>2. \A d \in EntityId :
            new.index[d] = IF d = st.items[id].entity THEN 0 ELSE st.index[d]
      BY <3>1, <2>6
    <3>3. ASSUME NEW d \in EntityId, new.index[d] # 0
          PROVE  new.index[d] \in Live(new) /\ new.items[new.index[d]].entity = d
      BY <3>1, <3>2, <3>3, <2>10, <2>11, <1>1 DEF Indexed
    <3>4. ASSUME NEW j \in Live(new)
          PROVE  new.index[new.items[j].entity] = j
      <4>1. j \in Live(st) /\ j # id /\ new.items[j] = st.items[j]
        BY <2>10, <2>11
      <4>2. st.items[j].entity \in EntityId /\ st.index[st.items[j].entity] = j
        BY <4>1, <1>1, LiveItem DEF Indexed, Item
      <4> QED  BY <4>1, <4>2, <3>1, <3>2
    <3>5. \A k \in 1 .. n : st.vacancies[k] \in 1 .. Len(st.items)
                            /\ st.items[st.vacancies[k]] = None
      BY <1>1, <2>8 DEF Indexed
    <3>6. \A k \in 1 .. n : st.vacancies[k] # id
      BY <3>5, <1>2, <1>3, NoneAssumption
    <3>7. \A k \in 1 .. n + 1 : k # n + 1 => k \in 1 .. n
      BY <2>8
    <3>8. \A k \in DOMAIN new.vacancies : new.vacancies[k] \in DOMAIN new.items
      BY <3>5, <3>7, <2>8, <2>9, <1>3
    <3>9. \A k, l \in DOMAIN new.vacancies :
            new.vacancies[k] = new.vacancies[l] => k = l
      <4>1. \A k, l \in 1 .. n : st.vacancies[k] = st.vacancies[l] => k = l
        BY <1>1, <2>8 DEF Indexed
      <4> QED  BY <4>1, <3>6, <3>7, <2>8, <2>9
    <3>10. ASSUME NEW j \in DOMAIN new.items
           PROVE  new.items[j] = None
                    <=> \E k \in DOMAIN new.vacancies : new.vacancies[k] = j
      <4>1. CASE j = id
        <5>1. n + 1 \in DOMAIN new.vacancies  BY <2>8
        <5> QED  BY <4>1, <5>1, <2>9
      <4>2. CASE j # id
        <5>1. j \in DOMAIN st.items /\ new.items[j] = st.items[j]
          BY <4>2, <2>8, <2>9
        <5>2. st.items[j] = None <=> \E k \in 1 .. n : st.vacancies[k] = j
          BY <5>1, <1>1, <2>8 DEF Indexed
        <5>3. (\E k \in 1 .. n : st.vacancies[k] = j)
                <=> \E k \in 1 .. n + 1 : new.vacancies[k] = j
          <6>1. \A k \in 1 .. n : k \in 1 .. n + 1  BY <2>8
          <6>2. \A k \in 1 .. n + 1 : new.vacancies[k] = j => k # n + 1
            BY <4>2, <2>9
          <6> QED  BY <6>1, <6>2, <3>7, <2>9
        <5> QED  BY <5>1, <5>2, <5>3, <2>8
      <4> QED  BY <4>1, <4>2
    <3> QED  BY <3>3, <3>4, <3>8, <3>9, <3>10 DEF Indexed
  <2>13. Counted(new, refs \ {x})
    <3>1. \A r \in refs \ {x} : r[3] \in Live(new)
      <4>1. ASSUME NEW r \in refs \ {x} PROVE r[3] # id
        BY <2>1
      <4> QED  BY <4>1, <2>10, <1>1 DEF Counted
    <3>2. ASSUME NEW j \in Live(new)
          PROVE  new.items[j].ref_count = Cardinality(RefsTo(refs \ {x}, j))
      <4>1. j \in Live(st) /\ j # id  BY <2>10
      <4> QED  BY <4>1, <1>5, <2>11, <1>6
    <3> QED  BY <3>1, <3>2, <1>4 DEF Counted
  <2> QED  BY <1>7, <2>1, <2>7, <2>10, <2>11, <2>12, <2>13 DEF Store, Dropped
<1>8. CASE ~(st.items[id].ref_count = 1 /\ st.items[id].head = Null)
  <2> DEFINE item == [st.items[id] EXCEPT !.ref_count = @ - 1]
  <2>1. st.items[id].ref_count \in Nat /\ st.items[id].ref_count # 0
    BY <1>2, <1>5, <1>6
  <2>2. /\ item \in Item
        /\ item.entity = st.items[id].entity
        /\ item.head = st.items[id].head
        /\ item.ref_count = st.items[id].ref_count - 1
        /\ SameItem(item, st.items[id])
    BY <1>3, <2>1 DEF Item, SameItem
  <2>3. new = PutItem(st, id, item)  BY <1>8 DEF DecrementItem
  <2> HIDE DEF item
  <2>4. /\ new \in Contents
        /\ Indexed(new)
        /\ Live(new) = Live(st)
        /\ new.index = st.index
        /\ new.items[id] = item
        /\ \A j \in Live(st) : j # id => new.items[j] = st.items[j]
    BY <1>1, <1>2, <2>2, <2>3, ReplaceItem
  <2>5. Counted(new, refs \ {x})
    <3>1. \A r \in refs \ {x} : r[3] \in Live(new)
      BY <1>1, <2>4 DEF Counted
    <3>2. ASSUME NEW j \in Live(new)
          PROVE  new.items[j].ref_count = Cardinality(RefsTo(refs \ {x}, j))
      <4>1. CASE j = id
        <5>1. new.items[j].ref_count = st.items[id].ref_count - 1
          BY <4>1, <2>2, <2>4
        <5>2. st.items[id].ref_count = Cardinality(RefsTo(refs, id))
          BY <1>2, <1>6
        <5> QED  BY <4>1, <5>1, <5>2, <1>5
      <4>2. CASE j # id
        <5>1. RefsTo(refs \ {x}, j) = RefsTo(refs, j)  BY <4>2, <1>5
        <5>2. new.items[j] = st.items[j]  BY <4>2, <2>4
        <5>3. st.items[j].ref_count = Cardinality(RefsTo(refs, j))
          BY <2>4, <1>6
        <5> QED  BY ONLY <5>1, <5>2, <5>3
      <4> QED  BY <4>1, <4>2
    <3> QED  BY <3>1, <3>2, <1>4 DEF Counted
  <2>6. item.ref_count = 0 => item.head # Null
    BY <1>8, <2>1, <2>2
  <2> QED  BY <1>2, <2>2, <2>4, <2>5, <2>6 DEF Store, Dropped
<1> QED  BY <1>7, <1>8

(***************************************************************************)
(* Assigning a relation slot changes no other item and no count.           *)
(***************************************************************************)
LEMMA PointStore ==
  ASSUME NEW st, NEW refs, Store(st, refs), NEW id \in Live(st),
         NEW slot \in Slot, NEW rel \in Nat,
         NEW new, new = PointRelation(st, id, slot, rel)
  PROVE  /\ Store(new, refs)
         /\ Live(new) = Live(st)
         /\ \A j \in Live(st) : j # id => new.items[j] = st.items[j]
         /\ new.items[id].entity = st.items[id].entity
         /\ new.items[id].head = st.items[id].head
         /\ new.items[id].edit_counter = st.items[id].edit_counter
         /\ new.items[id].ref_count = st.items[id].ref_count
         /\ new.items[id].relations
              = [st.items[id].relations EXCEPT ![slot] = rel]
<1> DEFINE item == [st.items[id] EXCEPT !.relations[slot] = rel]
<1>1. st \in Contents /\ Indexed(st) /\ Counted(st, refs)
  BY DEF Store
<1>2. st.items[id] \in Item  BY <1>1, LiveItem
<1>3. /\ item \in Item
      /\ item.entity = st.items[id].entity
      /\ item.head = st.items[id].head
      /\ item.edit_counter = st.items[id].edit_counter
      /\ item.ref_count = st.items[id].ref_count
      /\ item.relations = [st.items[id].relations EXCEPT ![slot] = rel]
  BY <1>2 DEF Item
<1>4. new = PutItem(st, id, item)  BY DEF PointRelation
<1> HIDE DEF item
<1>5. /\ new \in Contents
      /\ Indexed(new)
      /\ Live(new) = Live(st)
      /\ new.items[id] = item
      /\ \A j \in Live(st) : j # id => new.items[j] = st.items[j]
  BY <1>1, <1>3, <1>4, ReplaceItem
<1>6. Counted(new, refs)
  BY <1>1, <1>3, <1>5 DEF Counted
<1> QED  BY <1>3, <1>5, <1>6 DEF Store

-----------------------------------------------------------------------------
(***************************************************************************)
(* The references that relations hold.                                     *)
(***************************************************************************)

\* The relation in a slot of an item, 0 if there is no such item.
RelationOf(st, id, slot) ==
  IF id \in Live(st) THEN st.items[id].relations[slot] ELSE 0

LEMMA RelationRefsMember ==
  ASSUME NEW st, NEW r
  PROVE  r \in RelationRefs(st)
           <=> \E i \in Live(st), s \in Slot :
                 /\ RelationOf(st, i, s) # 0
                 /\ r = <<i, s, RelationOf(st, i, s)>>
<1> DEFINE P == {p \in Live(st) \X Slot : st.items[p[1]].relations[p[2]] # 0}
<1>1. \A p : p \in P <=> \E i \in Live(st), s \in Slot :
                            p = <<i, s>> /\ RelationOf(st, i, s) # 0
  BY DEF RelationOf
<1>2. r \in RelationRefs(st)
        <=> \E p \in P : r = <<p[1], p[2], st.items[p[1]].relations[p[2]]>>
  BY DEF RelationRefs
<1>3. \A i \in Live(st), s \in Slot :
        st.items[i].relations[s] = RelationOf(st, i, s)
  BY DEF RelationOf
<1>4. ASSUME NEW i \in Live(st), NEW s \in Slot, RelationOf(st, i, s) # 0,
             r = <<i, s, RelationOf(st, i, s)>>
      PROVE  r \in RelationRefs(st)
  <2>1. <<i, s>> \in P  BY <1>1, <1>4
  <2>2. r = <<<<i, s>>[1], <<i, s>>[2],
              st.items[<<i, s>>[1]].relations[<<i, s>>[2]]>>
    BY <1>3, <1>4
  <2> QED  BY <1>2, <2>1, <2>2
<1>5. ASSUME r \in RelationRefs(st)
      PROVE  \E i \in Live(st), s \in Slot :
               /\ RelationOf(st, i, s) # 0
               /\ r = <<i, s, RelationOf(st, i, s)>>
  <2>1. PICK p \in P : r = <<p[1], p[2], st.items[p[1]].relations[p[2]]>>
    BY <1>2, <1>5
  <2>2. PICK i \in Live(st), s \in Slot : p = <<i, s>> /\ RelationOf(st, i, s) # 0
    BY <1>1, <2>1
  <2> QED  BY <1>3, <2>1, <2>2
<1> QED  BY <1>4, <1>5

\* Relations that are the same refer to the same items.
LEMMA SameRelations ==
  ASSUME NEW st, NEW new,
         \A i \in Live(st) \cup Live(new), s \in Slot :
           RelationOf(new, i, s) = RelationOf(st, i, s)
  PROVE  RelationRefs(new) = RelationRefs(st)
<1>1. ASSUME NEW r PROVE r \in RelationRefs(new) <=> r \in RelationRefs(st)
  <2>1. ASSUME NEW i \in Live(new), NEW s \in Slot, RelationOf(new, i, s) # 0
        PROVE  i \in Live(st)
    BY <2>1 DEF RelationOf
  <2>2. ASSUME NEW i \in Live(st), NEW s \in Slot, RelationOf(st, i, s) # 0
        PROVE  i \in Live(new)
    BY <2>2 DEF RelationOf
  <2> QED  BY <2>1, <2>2, RelationRefsMember
<1> QED  BY <1>1

\* One relation that is assigned is one reference less and one more.
LEMMA OneRelation ==
  ASSUME NEW st, NEW new, NEW id \in Live(new), NEW slot \in Slot, NEW rel,
         id \in Live(st), RelationOf(new, id, slot) = rel,
         \A i \in Live(st) \cup Live(new), s \in Slot :
           ~(i = id /\ s = slot) => RelationOf(new, i, s) = RelationOf(st, i, s)
  PROVE  RelationRefs(new)
           = (RelationRefs(st) \ {<<id, slot, RelationOf(st, id, slot)>>})
               \cup IF rel # 0 THEN {<<id, slot, rel>>} ELSE {}
<1> DEFINE old == <<id, slot, RelationOf(st, id, slot)>>
           fresh == IF rel # 0 THEN {<<id, slot, rel>>} ELSE {}
<1>1. ASSUME NEW r \in RelationRefs(new)
      PROVE  r \in (RelationRefs(st) \ {old}) \cup fresh
  <2>1. PICK i \in Live(new), s \in Slot :
          RelationOf(new, i, s) # 0 /\ r = <<i, s, RelationOf(new, i, s)>>
    BY RelationRefsMember
  <2>2. CASE i = id /\ s = slot  BY <2>1, <2>2
  <2>3. CASE ~(i = id /\ s = slot)
    <3>1. RelationOf(st, i, s) = RelationOf(new, i, s)  BY <2>3
    <3>2. i \in Live(st)  BY <2>1, <3>1 DEF RelationOf
    <3>3. r \in RelationRefs(st)  BY <2>1, <3>1, <3>2, RelationRefsMember
    <3>4. r # old  BY <2>1, <2>3
    <3> QED  BY <3>3, <3>4
  <2> QED  BY <2>2, <2>3
<1>2. ASSUME NEW r \in RelationRefs(st), r # old
      PROVE  r \in RelationRefs(new)
  <2>1. PICK i \in Live(st), s \in Slot :
          RelationOf(st, i, s) # 0 /\ r = <<i, s, RelationOf(st, i, s)>>
    BY RelationRefsMember
  <2>2. ~(i = id /\ s = slot)  BY <1>2, <2>1
  <2>3. RelationOf(new, i, s) = RelationOf(st, i, s)  BY <2>2
  <2>4. i \in Live(new)  BY <2>1, <2>3 DEF RelationOf
  <2> QED  BY <2>1, <2>3, <2>4, RelationRefsMember
<1>3. ASSUME NEW r \in fresh
      PROVE  r \in RelationRefs(new)
  <2>1. rel # 0 /\ r = <<id, slot, rel>>  OBVIOUS
  <2> QED  BY <2>1, RelationRefsMember
<1> QED  BY <1>1, <1>2, <1>3

-----------------------------------------------------------------------------
(***************************************************************************)
(* set_relation.                                                           *)
(***************************************************************************)

\* Pins are references that are not relations: those of the guards.
Pins(refs) == \A r \in refs : r[2] = -1

Pinned(refs, id) == \E r \in refs : r[3] = id

LEMMA PinsAreNoRelations ==
  ASSUME NEW G, Pins(G), NEW i, NEW s \in Slot, NEW k
  PROVE  <<i, s, k>> \notin G
<1>1. s # -1  BY BoundAssumption DEF Slot
<1>2. <<i, s, k>>[2] = s  OBVIOUS
<1> QED  BY <1>1, <1>2 DEF Pins

(***************************************************************************)
(* new is st after item id gave back the relation old of a slot: the item  *)
(* of that relation may go, but neither item id nor any other.             *)
(***************************************************************************)
Released(st, refs, id, slot, old, new) ==
  /\ Store(new, refs \ {<<id, slot, old>>})
  /\ id \in Live(new)
  /\ Live(new) \subseteq Live(st)
  /\ \A j \in Live(st) \ Live(new) : j = old /\ st.items[j].head = Null
  /\ \A j \in Live(new) :
       /\ SameItem(new.items[j], st.items[j])
       /\ j # old => new.items[j] = st.items[j]
       /\ j = old /\ new.items[j].ref_count = 0 => new.items[j].head # Null

\* An item that is pinned survives the release of its relations.
LEMMA ReleaseRelation ==
  ASSUME NEW st, NEW G, Pins(G), Store(st, G \cup RelationRefs(st)),
         NEW id \in Live(st), Pinned(G, id),
         NEW slot \in Slot, NEW old, old = st.items[id].relations[slot],
         old # 0,
         NEW new, new = DecrementItem(st, old)
  PROVE  Released(st, G \cup RelationRefs(st), id, slot, old, new)
<1> DEFINE x == <<id, slot, old>>
           refs == G \cup RelationRefs(st)
<1>1. x \in RelationRefs(st)
  <2>1. RelationOf(st, id, slot) = old  BY DEF RelationOf
  <2> QED  BY <2>1, RelationRefsMember
<1>2. x \in refs /\ x[3] = old  BY <1>1
<1>3. PICK pin \in refs : pin[3] = id /\ pin # x
  BY PinsAreNoRelations DEF Pinned
<1>4. Store(st, refs)  OBVIOUS
<1> HIDE DEF x, refs
<1>5. Dropped(st, refs, x, new)
  BY <1>2, <1>4, DecrementStore
<1>6. id \in Live(new)
  BY <1>2, <1>3, <1>5 DEF Dropped
<1>7. ASSUME NEW j \in Live(new)
      PROVE  /\ SameItem(new.items[j], st.items[j])
             /\ j # old => new.items[j] = st.items[j]
             /\ j = old /\ new.items[j].ref_count = 0
                  => new.items[j].head # Null
  <2>1. j \in Live(st)  BY <1>5 DEF Dropped
  <2>2. CASE j # old  BY <2>1, <2>2, <1>2, <1>5 DEF SameItem, Dropped
  <2>3. CASE j = old  BY <2>3, <1>2, <1>5 DEF Dropped
  <2> QED  BY <2>2, <2>3
<1> QED  BY <1>2, <1>5, <1>6, <1>7 DEF x, refs, Dropped, Released

(***************************************************************************)
(* When set_relation is called: only the item being saved may have         *)
(* relations and no head, and only the item asserted for the relation may  *)
(* have neither a reference nor a head.                                    *)
(***************************************************************************)
Relatable(st, id, rel) ==
  /\ rel # 0 => rel \in Live(st)
  /\ \A j \in Live(st), s \in Slot :
       j # id /\ st.items[j].head = Null => st.items[j].relations[s] = 0
  /\ \A j \in Live(st) :
       j # rel /\ st.items[j].ref_count = 0 => st.items[j].head # Null

\* new is st once slot of item id holds rel, the previous item released.
Related(st, G, id, slot, rel, new) ==
  /\ Store(new, G \cup RelationRefs(new))
  /\ NoGarbage(new)
  /\ id \in Live(new)
  /\ Live(new) \subseteq Live(st)
  /\ rel # 0 => rel \in Live(new)
  /\ \A j \in Live(st) \ Live(new) : st.items[j].head = Null
  /\ \A j \in Live(new) : j # id => SameItem(new.items[j], st.items[j])
  /\ new.items[id].entity = st.items[id].entity
  /\ new.items[id].head = st.items[id].head
  /\ new.items[id].edit_counter = st.items[id].edit_counter
  /\ new.items[id].relations = [st.items[id].relations EXCEPT ![slot] = rel]

\* set_relation.
LEMMA SetRelationStore ==
  ASSUME NEW st, NEW G, Pins(G), Store(st, G \cup RelationRefs(st)),
         NEW id \in Live(st), Pinned(G, id),
         NEW slot \in Slot, NEW rel \in Nat, Relatable(st, id, rel),
         NEW new, new = SetRelation(st, id, slot, rel)
  PROVE  Related(st, G, id, slot, rel, new)
<1> DEFINE old == st.items[id].relations[slot]
           refs == G \cup RelationRefs(st)
           x == <<id, slot, old>>
           y == <<id, slot, rel>>
<1>1. st.items[id] \in Item /\ st.items[id].relations \in [Slot -> Nat]
  BY LiveItem DEF Store, Item
<1>2. RelationOf(st, id, slot) = old  BY DEF RelationOf
<1>3. IsFiniteSet(refs) /\ id # 0  BY LiveItem DEF Store, Counted
<1>4. CASE old # 0 /\ old = rel
  <2>1. new = st  BY <1>4 DEF SetRelation
  <2>2. x \in refs  BY <1>2, <1>4, RelationRefsMember
  <2>3. st.items[rel].ref_count # 0
    <3>1. x \in RefsTo(refs, rel) /\ IsFiniteSet(RefsTo(refs, rel))
      BY <1>3, <1>4, <2>2, FS_Subset DEF RefsTo
    <3>2. Cardinality(RefsTo(refs, rel)) # 0  BY <3>1, FS_EmptySet
    <3> QED  BY <3>2, <1>4 DEF Store, Counted, Relatable
  <2>4. NoGarbage(st)  BY <2>3, <1>4 DEF NoGarbage, Relatable
  <2>5. [st.items[id].relations EXCEPT ![slot] = rel] = st.items[id].relations
    BY <1>1, <1>4
  <2> QED  BY <1>4, <2>1, <2>4, <2>5 DEF SameItem, Related, Relatable
<1>5. CASE ~(old # 0 /\ old = rel)
  <2> DEFINE released == IF old # 0 THEN DecrementItem(st, old) ELSE st
             retained == IF rel # 0 THEN IncrementItem(released, rel)
                         ELSE released
             refs1 == refs \ {x}
             refs2 == refs1 \cup IF rel # 0 THEN {y} ELSE {}
  <2>1. new = PointRelation(retained, id, slot, rel)
    BY <1>5 DEF SetRelation
  <2>2. /\ Store(released, refs1)
        /\ id \in Live(released)
        /\ Live(released) \subseteq Live(st)
        /\ \A j \in Live(st) \ Live(released) :
             j = old /\ st.items[j].head = Null
        /\ \A j \in Live(released) :
             /\ SameItem(released.items[j], st.items[j])
             /\ j # rel /\ released.items[j].ref_count = 0
                  => released.items[j].head # Null
    <3>1. CASE old # 0
      <4>1. Released(st, refs, id, slot, old, released)
        <5>1. released = DecrementItem(st, old)  BY <3>1
        <5>2. old = st.items[id].relations[slot]  OBVIOUS
        <5> HIDE DEF released, old
        <5> QED  BY <3>1, <5>1, <5>2, ReleaseRelation
      <4> HIDE DEF released, old, refs
      <4> QED  BY <4>1 DEF Released, Relatable
    <3>2. CASE old = 0
      <4>1. x \notin refs
        <5>1. x \notin G  BY PinsAreNoRelations
        <5>2. x \notin RelationRefs(st)
          BY <3>2, RelationRefsMember
        <5> QED  BY <5>1, <5>2
      <4>2. refs1 = refs /\ released = st  BY <3>2, <4>1
      <4> QED  BY <4>2 DEF SameItem, Relatable
    <3> QED  BY <3>1, <3>2
  <2>3. rel # 0 => rel \in Live(released)
    BY <2>2, <1>5 DEF Relatable
  <2>4. y \notin refs1
    <3>1. y \notin G  BY PinsAreNoRelations
    <3>2. CASE y = x  BY <3>2
    <3>3. CASE y # x
      <4>1. rel # old  BY <3>3
      <4>2. y \notin RelationRefs(st)
        BY <4>1, <1>2, RelationRefsMember
      <4> QED  BY <3>1, <4>2
    <3> QED  BY <3>2, <3>3
  <2>5. /\ Store(retained, refs2)
        /\ Live(retained) = Live(released)
        /\ \A j \in Live(retained) :
             /\ SameItem(retained.items[j], st.items[j])
             /\ retained.items[j].ref_count = 0
                  => retained.items[j].head # Null
    <3> HIDE DEF released, refs1, x
    <3>1. CASE rel # 0
      <4>1. retained = IncrementItem(released, rel)  BY <3>1
      <4>2. refs2 = refs1 \cup {y}  BY <3>1
      <4>3. y[3] = rel  OBVIOUS
      <4> HIDE DEF retained, refs2, y
      <4>4. /\ Store(retained, refs1 \cup {y})
            /\ Live(retained) = Live(released)
            /\ \A j \in Live(released) :
                 j # rel => retained.items[j] = released.items[j]
            /\ SameItem(retained.items[rel], released.items[rel])
            /\ retained.items[rel].ref_count # 0
        BY <2>2, <2>3, <2>4, <3>1, <4>1, <4>3, IncrementStore
      <4>5. ASSUME NEW j \in Live(retained)
            PROVE  /\ SameItem(retained.items[j], st.items[j])
                   /\ retained.items[j].ref_count = 0
                        => retained.items[j].head # Null
        <5>1. CASE j # rel  BY <5>1, <4>4, <2>2
        <5>2. CASE j = rel
          <6>1. SameItem(released.items[j], st.items[j])
            BY <4>4, <2>2
          <6> QED  BY <5>2, <6>1, <4>4 DEF SameItem
        <5> QED  BY <5>1, <5>2
      <4> QED  BY <4>2, <4>4, <4>5
    <3>2. CASE rel = 0
      <4>1. retained = released /\ refs2 = refs1  BY <3>2
      <4>2. \A j \in Live(released) : j # 0
        BY <2>2, LiveItem DEF Store
      <4> QED  BY <4>1, <4>2, <2>2, <3>2
    <3> QED  BY <3>1, <3>2
  <2> HIDE DEF released, retained, refs1, refs2, old, refs, x, y
  <2>6. /\ Store(new, refs2)
        /\ Live(new) = Live(retained)
        /\ \A j \in Live(retained) :
             j # id => new.items[j] = retained.items[j]
        /\ new.items[id].entity = retained.items[id].entity
        /\ new.items[id].head = retained.items[id].head
        /\ new.items[id].edit_counter = retained.items[id].edit_counter
        /\ new.items[id].ref_count = retained.items[id].ref_count
        /\ new.items[id].relations
             = [retained.items[id].relations EXCEPT ![slot] = rel]
    BY <2>1, <2>2, <2>5, PointStore
  <2>9. SameItem(retained.items[id], st.items[id])
    BY <2>2, <2>5
  <2>10. \A j \in Live(new) : j # id => SameItem(new.items[j], st.items[j])
    BY <2>5, <2>6
  <2>11. NoGarbage(new)
    BY <2>2, <2>5, <2>6 DEF NoGarbage
  <2>12. RelationRefs(new) = (RelationRefs(st) \ {x}) \cup
                                IF rel # 0 THEN {y} ELSE {}
    <3>1. RelationOf(new, id, slot) = rel
      BY <2>2, <2>5, <2>6, <2>9, <1>1 DEF RelationOf, SameItem
    <3>2. ASSUME NEW i \in Live(st) \cup Live(new), NEW s \in Slot,
                 ~(i = id /\ s = slot)
          PROVE  RelationOf(new, i, s) = RelationOf(st, i, s)
      <4>1. i \in Live(st)  BY <2>2, <2>5, <2>6
      <4>2. CASE i \notin Live(new)
        <5>1. i # id /\ st.items[i].head = Null
          BY <4>1, <4>2, <2>2, <2>5, <2>6
        <5> QED  BY <4>1, <4>2, <5>1 DEF RelationOf, Relatable
      <4>3. CASE i \in Live(new) /\ i # id
        BY <4>1, <4>3, <2>10 DEF RelationOf, SameItem
      <4>4. CASE i = id
        <5>1. s # slot  BY <3>2, <4>4
        <5> QED  BY <4>1, <4>4, <5>1, <2>2, <2>5, <2>6, <2>9, <1>1
              DEF RelationOf, SameItem
      <4> QED  BY <4>2, <4>3, <4>4
    <3>3. x = <<id, slot, RelationOf(st, id, slot)>>  BY <1>2 DEF x
    <3>4. id \in Live(new)  BY <2>2, <2>5, <2>6
    <3> QED  BY <3>1, <3>2, <3>3, <3>4, OneRelation DEF y
  <2>13. refs2 = G \cup RelationRefs(new)
    <3>1. x \notin G  BY PinsAreNoRelations DEF x
    <3> QED  BY <3>1, <2>12 DEF refs2, refs1, refs
  <2>14. Store(new, G \cup RelationRefs(new))
    BY <2>6, <2>13
  <2> QED  BY <2>2, <2>3, <2>5, <2>6, <2>9, <2>10, <2>11, <2>14
        DEF SameItem, Related
<1> QED  BY <1>4, <1>5

-----------------------------------------------------------------------------
(***************************************************************************)
(* What the invariant says of single tasks.                                *)
(***************************************************************************)

\* A set of slots that is not empty has a first element.
LEMMA FirstSlot ==
  ASSUME NEW links \in [Slot -> HeadSet], Occupied(links) # {}
  PROVE  FirstOccupied(links) \in Occupied(links)
<1> DEFINE R == OpToRel(<, Nat)
<1>1. Occupied(links) \subseteq Nat
  BY BoundAssumption DEF Occupied, Slot
<1>2. \E s \in Occupied(links) : \A r \in Occupied(links) : ~ (<<r, s>> \in R)
  <2> HIDE DEF R
  <2>1. IsWellFoundedOn(R, Nat)  BY NatLessThanWellFounded DEF R
  <2> QED  BY <2>1, <1>1, WFMin
<1>3. \A r, s \in Nat : r < s => <<r, s>> \in R
  BY DEF OpToRel
<1>4. \E s \in Occupied(links) : \A r \in Occupied(links) : s <= r
  <2>1. PICK s \in Occupied(links) :
          \A r \in Occupied(links) : ~ (<<r, s>> \in R)
    BY <1>2
  <2>2. ASSUME NEW r \in Occupied(links) PROVE s <= r
    <3>1. r \in Nat /\ s \in Nat  BY <1>1
    <3>2. ~ (r < s)
      <4> HIDE DEF R
      <4> QED  BY <3>1, <2>1, <1>3
    <3> QED  BY <3>1, <3>2
  <2> QED  BY <2>2
<1> QED  BY <1>4 DEF FirstOccupied

\* A task that works has a target: a head, of some entity.
LEMMA TargetType ==
  ASSUME NEW t \in Task, todo[t] \in [Slot -> HeadSet], arg[t] \in Input
  PROVE  Target(t) \in HeadSet \ {Null} /\ EntityOf(Target(t)) \in EntityId
<1>1. CASE Pruning(t)
  <2>1. FirstOccupied(todo[t]) \in Occupied(todo[t])
    BY <1>1, FirstSlot DEF Pruning
  <2> QED  BY <1>1, <2>1, HeadAssumption DEF Target, Occupied
<1>2. CASE ~Pruning(t)
  BY <1>2, HeadAssumption DEF Target
<1> QED  BY <1>1, <1>2

LEMMA RestType ==
  ASSUME NEW links \in [Slot -> HeadSet]
  PROVE  RestOf(links) \in [Slot -> HeadSet]
<1>1. Null \in HeadSet  BY HeadAssumption
<1> QED  BY <1>1 DEF RestOf

LEMMA NoLinksType == NoLinks \in [Slot -> HeadSet]
BY HeadAssumption DEF NoLinks

\* Guards on the same items are the same references.
LEMMA SameGuards ==
  ASSUME NEW gs, NEW hs,
         \A t \in Task : /\ gs[t] = None <=> hs[t] = None
                         /\ gs[t] # None => gs[t].item = hs[t].item
  PROVE  GuardRefs(gs) = GuardRefs(hs)
BY DEF GuardRefs

LEMMA GuardRefsMember ==
  ASSUME NEW gs, NEW r
  PROVE  r \in GuardRefs(gs)
           <=> \E t \in Task : gs[t] # None /\ r = <<t, -1, gs[t].item>>
BY DEF GuardRefs

LEMMA GuardsArePins ==
  ASSUME NEW gs
  PROVE  Pins(GuardRefs(gs))
BY DEF GuardRefs, Pins

-----------------------------------------------------------------------------
(***************************************************************************)
(* The inductive invariant.                                                *)
(***************************************************************************)

\* The counts are those of the references that guards and relations hold.
StoreInv == Store(inner, References) /\ NoGarbage(inner)

\* Every head belongs to the entity it is kept for.
ItemsInv ==
  \A id \in Live(inner) :
    inner.items[id].head # Null
      => EntityOf(inner.items[id].head) = inner.items[id].entity

\* Whoever holds the mutex between two steps is saving.
LockInv == IF lock = None THEN cursor = 0 ELSE pc[lock] = "store"

\* The relation rel of an item is the one its link asks for.
PointsTo(st, rel, link) ==
  IF link = Null THEN rel = 0
  ELSE rel # 0 /\ st.items[rel].entity = EntityOf(link)

(***************************************************************************)
(* RelationsMatchHead, told without the index, and for the item that is    *)
(* being saved: the slots before the cursor have their new relations.      *)
(***************************************************************************)
RelationsInv ==
  \A id \in Live(inner), s \in Slot :
    /\ (lock # None => id # guard[lock].item)
         => PointsTo(inner, inner.items[id].relations[s],
                     Links(inner.items[id].head)[s])
    /\ lock # None /\ id = guard[lock].item /\ s < cursor
         => PointsTo(inner, inner.items[id].relations[s],
                     guard[lock].links[s])

\* The tasks that work on the copy of a head.
Working(t) == pc[t] \in {"edit", "save", "store"}

\* What t is about to save is computed from the head current.
ComputedFrom(t, current) ==
  IF Pruning(t)
  THEN Covers(Target(t), current) /\ guard[t].head = Null
  ELSE /\ ApplyHead(current, arg[t]).applied
       /\ guard[t].head = ApplyHead(current, arg[t]).head

(***************************************************************************)
(* A working task has a copy of the item of its target.  Why the edit      *)
(* counter suffices: as long as it has not moved, the copy is the head of  *)
(* the item, and what the task is about to save is computed from it.       *)
(***************************************************************************)
CopyInv(t, item) ==
  /\ item.entity = EntityOf(Target(t))
  /\ guard[t].head # Null => EntityOf(guard[t].head) = EntityOf(Target(t))
  /\ pc[t] # "edit" => guard[t].links = Links(guard[t].head)
  /\ guard[t].edit_counter <= item.edit_counter
  /\ pc[t] = "store" => guard[t].edit_counter = item.edit_counter
  /\ guard[t].edit_counter = item.edit_counter =>
       IF pc[t] = "edit" THEN guard[t].head = item.head
       ELSE ComputedFrom(t, item.head)

TaskInv(t) ==
  /\ guard[t] # None <=> pc[t] \in {"edit", "save", "store", "drop"}
  /\ pc[t] # "idle" => arg[t] \in Input
  /\ pc[t] = "store" => lock = t
  /\ Working(t) => CopyInv(t, inner.items[guard[t].item])

Inv ==
  /\ TypeOK
  /\ StoreInv
  /\ ItemsInv
  /\ LockInv
  /\ RelationsInv
  /\ \A t \in Task : TaskInv(t)

-----------------------------------------------------------------------------
(***************************************************************************)
(* Consequences of the invariant.                                          *)
(***************************************************************************)

LEMMA GuardLive ==
  ASSUME NEW st, NEW gs, Store(st, GuardRefs(gs) \cup RelationRefs(st)),
         NEW t \in Task, gs[t] # None
  PROVE  gs[t].item \in Live(st) /\ Pinned(GuardRefs(gs), gs[t].item)
<1> DEFINE r == <<t, -1, gs[t].item>>
<1>1. r \in GuardRefs(gs)  BY GuardRefsMember
<1>2. r[3] = gs[t].item  OBVIOUS
<1> HIDE DEF r
<1> QED  BY <1>1, <1>2 DEF Store, Counted, Pinned

LEMMA RelationLive ==
  ASSUME NEW st, NEW G, Store(st, G \cup RelationRefs(st)),
         NEW id \in Live(st), NEW s \in Slot, st.items[id].relations[s] # 0
  PROVE  st.items[id].relations[s] \in Live(st)
<1> DEFINE r == <<id, s, st.items[id].relations[s]>>
<1>1. r \in RelationRefs(st)
  <2>1. RelationOf(st, id, s) = st.items[id].relations[s]  BY DEF RelationOf
  <2> QED  BY <2>1, RelationRefsMember
<1>2. r[3] = st.items[id].relations[s]  OBVIOUS
<1> HIDE DEF r
<1> QED  BY <1>1, <1>2 DEF Store, Counted

LEMMA GuardType ==
  ASSUME TypeOK, NEW t \in Task, guard[t] # None
  PROVE  /\ guard[t] \in Guard
         /\ guard[t].item \in Nat
         /\ guard[t].head \in HeadSet
         /\ guard[t].links \in [Slot -> HeadSet]
         /\ guard[t].edit_counter \in Nat
<1>1. guard[t] \in Guard  BY DEF TypeOK
<1> QED  BY <1>1 DEF Guard

\* The properties that the runs check follow from the invariant.
LEMMA InvConsequences ==
  Inv => IndexExact /\ RefCountExact /\ GuardPinsItem /\ RelationsMatchHead
<1> SUFFICES ASSUME Inv
             PROVE  IndexExact /\ RefCountExact /\ GuardPinsItem
                      /\ RelationsMatchHead
  OBVIOUS
<1>1. IndexExact
  BY DEF Inv, StoreInv, Store, Indexed, IndexExact
<1>2. RefCountExact
  BY DEF Inv, StoreInv, Store, Counted, NoGarbage, RefCountExact
<1>3. GuardPinsItem
  BY GuardLive
  DEF Inv, StoreInv, References, TaskInv, CopyInv, Working, GuardPinsItem
<1>4. RelationsMatchHead
  <2> SUFFICES ASSUME NEW id \in Live(inner), NEW s \in Slot,
                      lock # None => id # guard[lock].item
               PROVE  inner.items[id].relations[s]
                        = IF Links(inner.items[id].head)[s] = Null THEN 0
                          ELSE inner.index[EntityOf(
                                 Links(inner.items[id].head)[s])]
    BY DEF RelationsMatchHead
  <2> DEFINE rel == inner.items[id].relations[s]
             link == Links(inner.items[id].head)[s]
  <2>1. PointsTo(inner, rel, link)  BY DEF Inv, RelationsInv
  <2>2. rel # 0 => rel \in Live(inner)
    BY RelationLive DEF Inv, StoreInv, References
  <2>3. \A j \in Live(inner) : inner.index[inner.items[j].entity] = j
    BY <1>1 DEF IndexExact
  <2> HIDE DEF rel, link
  <2>4. rel = IF link = Null THEN 0 ELSE inner.index[EntityOf(link)]
    BY <2>1, <2>2, <2>3 DEF PointsTo
  <2> QED  BY <2>4 DEF rel, link
<1> QED  BY <1>1, <1>2, <1>3, <1>4

-----------------------------------------------------------------------------
(***************************************************************************)
(* The initial states.                                                     *)
(***************************************************************************)
LEMMA InitInv == Init => Inv
<1> SUFFICES ASSUME Init PROVE Inv  OBVIOUS
<1> USE DEF Init
<1>1. inner \in Contents
  BY EmptySeq DEF Contents
<1>2. TypeOK
  BY <1>1, NoLinksType, BoundAssumption DEF TypeOK
<1>3. Live(inner) = {} /\ DOMAIN inner.items = {} /\ DOMAIN inner.vacancies = {}
  BY DEF Live
<1>4. References = {}
  <2>1. GuardRefs(guard) = {}  BY DEF GuardRefs
  <2>2. RelationRefs(inner) = {}  BY <1>3, RelationRefsMember
  <2> QED  BY <2>1, <2>2 DEF References
<1>5. StoreInv
  <2>1. Indexed(inner)  BY <1>3 DEF Indexed
  <2>2. Counted(inner, References)
    BY <1>3, <1>4, FS_EmptySet DEF Counted
  <2> QED  BY <1>1, <1>3, <2>1, <2>2 DEF StoreInv, Store, NoGarbage
<1>6. ItemsInv /\ LockInv /\ RelationsInv
  BY <1>3 DEF ItemsInv, LockInv, RelationsInv
<1>7. ASSUME NEW t \in Task PROVE TaskInv(t)
  BY DEF TaskInv, Working
<1> QED  BY <1>2, <1>5, <1>6, <1>7 DEF Inv

-----------------------------------------------------------------------------
(***************************************************************************)
(* The steps.  Those of one task leave the others' variables alone.        *)
(***************************************************************************)
OthersSame(t) ==
  \A u \in Task \ {t} : /\ pc'[u] = pc[u]
                        /\ arg'[u] = arg[u]
                        /\ todo'[u] = todo[u]
                        /\ guard'[u] = guard[u]

SameItems ==
  \A u \in Task : /\ guard'[u] = None <=> guard[u] = None
                  /\ guard[u] # None => guard'[u].item = guard[u].item

\* The item task u works on, where new is what became of item old.
KeptFor(u, old, new) ==
  /\ new.entity = old.entity
  /\ \/ new.edit_counter = old.edit_counter /\ new.head = old.head
     \/ new.edit_counter = old.edit_counter + 1 /\ pc[u] # "store"

LEMMA OtherTask ==
  ASSUME NEW u \in Task, TaskInv(u),
         pc'[u] = pc[u], arg'[u] = arg[u], todo'[u] = todo[u],
         guard'[u] = guard[u], lock = u => lock' = u,
         Working(u) =>
           /\ guard[u].edit_counter \in Nat
           /\ inner.items[guard[u].item].edit_counter \in Nat
           /\ KeptFor(u, inner.items[guard[u].item],
                         inner'.items[guard[u].item])
  PROVE  TaskInv(u)'
<1>1. Working(u)' <=> Working(u)  BY DEF Working
<1>2. Target(u)' = Target(u) /\ (Pruning(u)' <=> Pruning(u))
  BY DEF Target, Pruning
<1>3. ASSUME Working(u) PROVE CopyInv(u, inner.items[guard[u].item])'
  <2> DEFINE old == inner.items[guard[u].item]
             new == inner'.items[guard[u].item]
  <2>1. CopyInv(u, old) /\ KeptFor(u, old, new)  BY <1>3 DEF TaskInv
  <2>2. /\ guard[u].edit_counter \in Nat /\ old.edit_counter \in Nat
        /\ inner'.items[guard'[u].item] = new
    BY <1>3
  <2> HIDE DEF old, new
  <2>3. /\ new.entity = EntityOf(Target(u))
        /\ guard[u].edit_counter <= new.edit_counter
        /\ pc[u] = "store" => guard[u].edit_counter = new.edit_counter
        /\ guard[u].edit_counter = new.edit_counter =>
             /\ guard[u].edit_counter = old.edit_counter
             /\ new.head = old.head
    BY <2>1, <2>2 DEF CopyInv, KeptFor
  <2> QED  BY <2>1, <2>2, <2>3, <1>2 DEF CopyInv, ComputedFrom
<1> QED  BY <1>1, <1>3 DEF TaskInv

\* A step that neither touches the stash nor saves.
LEMMA LocalStep ==
  ASSUME Inv, NEW t \in Task, TypeOK', UNCHANGED <<inner, lock, cursor>>,
         pc[t] # "store", OthersSame(t), SameItems, TaskInv(t)'
  PROVE  Inv'
<1>1. TypeOK /\ StoreInv /\ ItemsInv /\ LockInv /\ RelationsInv
      /\ \A u \in Task : TaskInv(u)
  BY DEF Inv
<1>2. StoreInv'
  <2>1. GuardRefs(guard') = GuardRefs(guard)
    BY SameGuards DEF SameItems
  <2> QED  BY <1>1, <2>1 DEF StoreInv, References
<1>3. ItemsInv'  BY <1>1 DEF ItemsInv
<1>4. lock # None => lock \in Task \ {t}
  BY <1>1 DEF TypeOK, LockInv
<1>5. LockInv'  BY <1>1, <1>4 DEF LockInv, OthersSame
<1>6. RelationsInv'
  <2>1. lock # None => guard'[lock] = guard[lock]
    BY <1>4 DEF OthersSame
  <2> QED  BY <1>1, <2>1 DEF RelationsInv
<1>7. ASSUME NEW u \in Task, u # t
      PROVE  TaskInv(u)'
  <2>1. ASSUME Working(u)
        PROVE  /\ guard[u].edit_counter \in Nat
               /\ inner.items[guard[u].item].edit_counter \in Nat
               /\ KeptFor(u, inner.items[guard[u].item],
                             inner'.items[guard[u].item])
    <3>1. guard[u] # None  BY <1>1, <2>1 DEF TaskInv, Working
    <3>2. inner.items[guard[u].item] \in Item
      BY <1>1, <3>1, GuardLive, LiveItem
      DEF StoreInv, Store, References
    <3> QED  BY <1>1, <3>1, <3>2, GuardType DEF KeptFor, Item
  <2> QED  BY <1>1, <1>7, <2>1, OtherTask DEF OthersSame
<1> QED  BY <1>2, <1>3, <1>5, <1>6, <1>7 DEF Inv

LEMMA BeginInv ==
  ASSUME Inv, NEW t \in Task, NEW head \in Input, Begin(t, head)
  PROVE  Inv'
<1> USE DEF Begin
<1>1. TypeOK /\ TaskInv(t)  BY DEF Inv
<1>2. applies'[t] \in 0 .. MaxApply
  BY <1>1, BoundAssumption DEF TypeOK
<1>3. TypeOK'  BY <1>1, <1>2 DEF TypeOK
<1>4. OthersSame(t) /\ SameItems
  BY <1>1 DEF TypeOK, OthersSame, SameItems
<1>5. TaskInv(t)'
  BY <1>1 DEF TypeOK, TaskInv, Working
<1> QED  BY <1>1, <1>3, <1>4, <1>5, LocalStep

\* What Edited and ThenDrop leave of a guard.
LEMMA HoldingType ==
  ASSUME NEW g \in Guard, NEW head \in HeadSet
  PROVE  /\ Holding(g, head, Links(head)) \in Guard
         /\ Holding(g, head, Links(head)) # None
         /\ Holding(g, head, Links(head)).item = g.item
         /\ Holding(g, head, Links(head)).head = head
         /\ Holding(g, head, Links(head)).links = Links(head)
         /\ Holding(g, head, Links(head)).edit_counter = g.edit_counter
<1>1. Links(head) \in [Slot -> HeadSet]  BY HeadAssumption
<1> QED  BY <1>1, NoneAssumption DEF Holding, Guard

LEMMA EditApplyInv ==
  ASSUME Inv, NEW t \in Task, EditApply(t)
  PROVE  Inv'
<1>1. /\ TypeOK /\ TaskInv(t) /\ pc[t] = "edit" /\ ~Pruning(t)
      /\ guard[t] # None /\ arg[t] \in Input
  BY DEF Inv, TaskInv, EditApply
<1>2. /\ guard[t] \in Guard /\ guard[t].head \in HeadSet
      /\ guard[t].edit_counter \in Nat
  BY <1>1, GuardType
<1> DEFINE item == inner.items[guard[t].item]
           result == ApplyHead(guard[t].head, arg[t])
<1>3. CopyInv(t, item)  BY <1>1 DEF TaskInv, Working
<1>4. Target(t) = arg[t]  BY <1>1 DEF Target
<1>5. /\ result \in [head : HeadSet \ {Null}, applied : BOOLEAN]
      /\ EntityOf(result.head) = EntityOf(arg[t])
  BY <1>1, <1>2, <1>3, <1>4, HeadAssumption DEF CopyInv
<1>6. CASE result.applied /\ Edited(t, result.head) /\ UNCHANGED after
  <2> DEFINE g == Holding(guard[t], result.head, Links(result.head))
  <2>1. /\ guard' = [guard EXCEPT ![t] = g]
        /\ pc' = [pc EXCEPT ![t] = "save"]
        /\ UNCHANGED <<inner, lock, cursor, arg, todo, after, applies>>
    BY <1>6 DEF EditApply, Edited
  <2>2. /\ g \in Guard /\ g # None
        /\ g.item = guard[t].item
        /\ g.head = result.head
        /\ g.links = Links(result.head)
        /\ g.edit_counter = guard[t].edit_counter
    <3>1. result.head \in HeadSet  BY <1>5
    <3> HIDE DEF result
    <3> QED  BY <3>1, <1>2, HoldingType
  <2> HIDE DEF g
  <2>3. TypeOK'  BY <1>1, <2>1, <2>2 DEF TypeOK
  <2>4. guard'[t] = g /\ pc'[t] = "save"
    BY <1>1, <2>1 DEF TypeOK
  <2>5. OthersSame(t) /\ SameItems
    BY <1>1, <2>1, <2>2 DEF TypeOK, OthersSame, SameItems
  <2>6. Target(t)' = Target(t) /\ ~Pruning(t)'
    BY <1>1, <2>1 DEF Target, Pruning
  <2> HIDE DEF result, item
  <2>7. CopyInv(t, item)'
    <3>1. inner'.items[guard'[t].item] = item
      BY <2>1, <2>2, <2>4 DEF item
    <3>2. guard[t].edit_counter = item.edit_counter
            => result = ApplyHead(item.head, arg[t])
      BY <1>1, <1>3 DEF CopyInv, result
    <3>3. guard[t].edit_counter = item.edit_counter
            => ComputedFrom(t, item.head)'
      <4>1. guard'[t].head = result.head /\ arg' = arg
        BY <2>1, <2>2, <2>4
      <4>2. item.head' = item.head  BY <2>1, <2>2, <2>4, <3>1 DEF item
      <4> QED  BY <1>6, <2>6, <3>2, <4>1, <4>2 DEF ComputedFrom
    <3>4. item' = item  BY <3>1 DEF item
    <3> QED  BY <1>3, <1>4, <1>5, <2>1, <2>2, <2>4, <2>6, <3>3, <3>4
             DEF CopyInv
  <2>8. TaskInv(t)'
    BY <1>1, <2>1, <2>2, <2>4, <2>7 DEF TaskInv, item
  <2> QED  BY <1>1, <2>1, <2>3, <2>5, <2>8, LocalStep
<1>7. CASE ~result.applied /\ ThenDrop(t, "idle") /\ UNCHANGED guard
  <2>1. /\ pc' = [pc EXCEPT ![t] = "drop"]
        /\ after' = [after EXCEPT ![t] = "idle"]
        /\ UNCHANGED <<inner, lock, cursor, arg, todo, guard, applies>>
    BY <1>7 DEF EditApply, ThenDrop
  <2>2. TypeOK'  BY <1>1, <2>1 DEF TypeOK
  <2>3. OthersSame(t) /\ SameItems
    BY <1>1, <2>1 DEF TypeOK, OthersSame, SameItems
  <2>4. TaskInv(t)'
    BY <1>1, <2>1 DEF TypeOK, TaskInv, Working
  <2> QED  BY <1>1, <2>1, <2>2, <2>3, <2>4, LocalStep
<1> QED  BY <1>6, <1>7 DEF EditApply

\* A step to "drop" that leaves the guard as it is.
LEMMA LeaveInv ==
  ASSUME Inv, NEW t \in Task, guard[t] # None,
         pc[t] \in {"edit", "save"},
         NEW next \in {"idle", "open"}, ThenDrop(t, next),
         todo' \in [Task -> [Slot -> HeadSet]],
         \A u \in Task \ {t} : todo'[u] = todo[u],
         UNCHANGED <<inner, lock, cursor, arg, guard, applies>>
  PROVE  Inv'
<1>1. TypeOK /\ TaskInv(t)  BY DEF Inv
<1>2. TypeOK'  BY <1>1 DEF TypeOK, ThenDrop
<1>3. OthersSame(t) /\ SameItems
  BY <1>1 DEF TypeOK, OthersSame, SameItems, ThenDrop
<1>4. TaskInv(t)'
  BY <1>1 DEF TypeOK, TaskInv, Working, ThenDrop
<1> QED  BY <1>1, <1>2, <1>3, <1>4, LocalStep

LEMMA EditPruneInv ==
  ASSUME Inv, NEW t \in Task, EditPrune(t)
  PROVE  Inv'
<1>1. /\ TypeOK /\ TaskInv(t) /\ pc[t] = "edit" /\ Pruning(t)
      /\ guard[t] # None /\ arg[t] \in Input
  BY DEF Inv, TaskInv, EditPrune
<1>2. /\ guard[t] \in Guard /\ guard[t].head \in HeadSet
      /\ guard[t].edit_counter \in Nat
  BY <1>1, GuardType
<1>3. CASE /\ Covers(Target(t), guard[t].head)
           /\ Edited(t, Null)
           /\ UNCHANGED <<todo, after>>
  <2> DEFINE g == Holding(guard[t], Null, Links(Null))
             item == inner.items[guard[t].item]
  <2>1. /\ guard' = [guard EXCEPT ![t] = g]
        /\ pc' = [pc EXCEPT ![t] = "save"]
        /\ UNCHANGED <<inner, lock, cursor, arg, todo, after, applies>>
    BY <1>3 DEF EditPrune, Edited
  <2>2. /\ g \in Guard /\ g # None
        /\ g.item = guard[t].item
        /\ g.head = Null
        /\ g.links = Links(Null)
        /\ g.edit_counter = guard[t].edit_counter
    <3>1. Null \in HeadSet  BY HeadAssumption
    <3> QED  BY <3>1, <1>2, HoldingType
  <2>3. CopyInv(t, item)  BY <1>1 DEF TaskInv, Working
  <2> HIDE DEF g
  <2>4. TypeOK'  BY <1>1, <2>1, <2>2 DEF TypeOK
  <2>5. guard'[t] = g /\ pc'[t] = "save"
    BY <1>1, <2>1 DEF TypeOK
  <2>6. OthersSame(t) /\ SameItems
    BY <1>1, <2>1, <2>2 DEF TypeOK, OthersSame, SameItems
  <2>7. Target(t)' = Target(t) /\ Pruning(t)'
    BY <1>1, <2>1 DEF Target, Pruning
  <2>8. CopyInv(t, item)'
    <3>1. inner'.items[guard'[t].item] = item
      BY <2>1, <2>2, <2>5
    <3>2. guard[t].edit_counter = item.edit_counter
            => Covers(Target(t), item.head)
      BY <1>1, <1>3, <2>3 DEF CopyInv
    <3>3. Covers(Target(t), item.head)' <=> Covers(Target(t), item.head)
      BY <2>7, <3>1
    <3> QED  BY <2>2, <2>3, <2>5, <2>7, <3>1, <3>2, <3>3
             DEF CopyInv, ComputedFrom
  <2>9. TaskInv(t)'
    BY <1>1, <2>1, <2>2, <2>5, <2>8 DEF TaskInv
  <2> QED  BY <1>1, <2>1, <2>4, <2>6, <2>9, LocalStep
<1>4. CASE /\ todo' = [todo EXCEPT ![t] = RestOf(@)]
           /\ ThenDrop(t, WhenLeft(RestOf(todo[t])))
           /\ UNCHANGED guard
  <2>1. RestOf(todo[t]) \in [Slot -> HeadSet]
    BY <1>1, RestType DEF TypeOK
  <2>2. /\ todo' \in [Task -> [Slot -> HeadSet]]
        /\ \A u \in Task \ {t} : todo'[u] = todo[u]
    BY <1>1, <1>4, <2>1 DEF TypeOK
  <2>3. WhenLeft(RestOf(todo[t])) \in {"idle", "open"}  BY DEF WhenLeft
  <2>4. UNCHANGED <<inner, lock, cursor, arg, guard, applies>>
    BY <1>4 DEF EditPrune
  <2> QED  BY <1>1, <1>4, <2>2, <2>3, <2>4, LeaveInv
<1> QED  BY <1>3, <1>4 DEF EditPrune

LEMMA FailInv ==
  ASSUME Inv, NEW t \in Task, Fail(t)
  PROVE  Inv'
<1>1. /\ TypeOK /\ TaskInv(t) /\ pc[t] = "edit" /\ guard[t] # None
  BY DEF Inv, TaskInv, Fail
<1>2. /\ todo' \in [Task -> [Slot -> HeadSet]]
      /\ \A u \in Task \ {t} : todo'[u] = todo[u]
  BY <1>1, NoLinksType DEF TypeOK, Fail
<1> QED  BY <1>1, <1>2, LeaveInv DEF Fail

LEMMA SaveConflictInv ==
  ASSUME Inv, NEW t \in Task, SaveConflict(t)
  PROVE  Inv'
<1>1. /\ TypeOK /\ TaskInv(t) /\ pc[t] = "save" /\ guard[t] # None
  BY DEF Inv, TaskInv, SaveConflict
<1>2. /\ todo' \in [Task -> [Slot -> HeadSet]]
      /\ \A u \in Task \ {t} : todo'[u] = todo[u]
  BY <1>1 DEF TypeOK, SaveConflict
<1> QED  BY <1>1, <1>2, LeaveInv DEF SaveConflict

LEMMA BeginSaveInv ==
  ASSUME Inv, NEW t \in Task, BeginSave(t)
  PROVE  Inv'
<1> USE DEF BeginSave
<1>1. /\ TypeOK /\ StoreInv /\ ItemsInv /\ LockInv /\ RelationsInv
      /\ \A u \in Task : TaskInv(u)
      /\ lock = None /\ cursor = 0 /\ pc[t] = "save"
  BY DEF Inv, LockInv
<1>2. TypeOK'  BY <1>1 DEF TypeOK
<1>3. pc'[t] = "store" /\ t # None
  BY <1>1, TaskAssumption DEF TypeOK
<1>4. StoreInv' /\ ItemsInv'
  BY <1>1 DEF StoreInv, References, ItemsInv
<1>5. LockInv'  BY <1>3 DEF LockInv
<1>6. RelationsInv'
  <2>1. \A s \in Slot : ~ (s < 0)  BY BoundAssumption DEF Slot
  <2> QED  BY <1>1, <2>1 DEF RelationsInv
<1>7. TaskInv(t)'
  <2>1. guard[t] # None  BY <1>1 DEF TaskInv
  <2>2. CopyInv(t, inner.items[guard[t].item])
    BY <1>1 DEF TaskInv, Working
  <2>3. CopyInv(t, inner.items[guard[t].item])'
    BY <1>1, <1>3, <2>2 DEF CopyInv, ComputedFrom, Target, Pruning
  <2> QED  BY <1>1, <1>3, <2>1, <2>3 DEF TaskInv, Working
<1>8. ASSUME NEW u \in Task, u # t
      PROVE  TaskInv(u)'
  <2>1. pc'[u] = pc[u]  BY <1>1, <1>8 DEF TypeOK
  <2>2. CopyInv(u, inner.items[guard[u].item])
          => CopyInv(u, inner.items[guard[u].item])'
    BY <2>1 DEF CopyInv, ComputedFrom, Target, Pruning
  <2>3. pc[u] # "store"  BY <1>1, TaskAssumption DEF TaskInv
  <2> QED  BY <1>1, <2>1, <2>2, <2>3 DEF TaskInv, Working
<1> QED  BY <1>2, <1>4, <1>5, <1>6, <1>7, <1>8 DEF Inv

\* What became of the items while nobody was saving: none but new ones.
ItemsKept ==
  \A j \in Live(inner') :
    IF j \in Live(inner) THEN SameItem(inner'.items[j], inner.items[j])
    ELSE /\ inner'.items[j].head = Null
         /\ inner'.items[j].relations = [s \in Slot |-> 0]

(***************************************************************************)
(* The heads in the stash are as they were: items are only created and     *)
(* removed without a head.                                                 *)
(***************************************************************************)
HeadsKept ==
  /\ \A j \in Live(inner') :
       IF j \in Live(inner)
       THEN /\ inner'.items[j].entity = inner.items[j].entity
            /\ inner'.items[j].head = inner.items[j].head
       ELSE inner'.items[j].head = Null
  /\ \A j \in Live(inner) \ Live(inner') : inner.items[j].head = Null

LEMMA FrameStep ==
  ASSUME Inv, NEW t \in Task, lock = None, UNCHANGED <<lock, cursor>>,
         TypeOK', StoreInv', OthersSame(t), ItemsKept, TaskInv(t)'
  PROVE  Inv'
<1>1. TypeOK /\ StoreInv /\ ItemsInv /\ LockInv /\ RelationsInv
      /\ \A u \in Task : TaskInv(u)
  BY DEF Inv
<1>2. /\ Store(inner, GuardRefs(guard) \cup RelationRefs(inner))
      /\ Store(inner', GuardRefs(guard') \cup RelationRefs(inner'))
  BY <1>1 DEF StoreInv, References
<1>3. ItemsInv'
  BY <1>1 DEF ItemsInv, ItemsKept, SameItem
<1>4. LockInv'  BY <1>1 DEF LockInv
<1>5. RelationsInv'
  <2> SUFFICES ASSUME NEW id \in Live(inner'), NEW s \in Slot
               PROVE  PointsTo(inner', inner'.items[id].relations[s],
                               Links(inner'.items[id].head)[s])
    BY DEF RelationsInv
  <2> DEFINE rel == inner'.items[id].relations[s]
             link == Links(inner'.items[id].head)[s]
  <2>1. CASE id \in Live(inner)
    <3>1. SameItem(inner'.items[id], inner.items[id])
      BY <2>1 DEF ItemsKept
    <3>2. rel = inner.items[id].relations[s] /\ link = Links(inner.items[id].head)[s]
      BY <3>1 DEF SameItem
    <3>3. PointsTo(inner, rel, link)
      BY <1>1, <2>1, <3>2 DEF RelationsInv
    <3>4. rel # 0 => rel \in Live(inner)
      BY <1>2, <2>1, <3>2, RelationLive
    <3>5. rel # 0 => rel \in Live(inner')
      BY <1>2, RelationLive
    <3> HIDE DEF rel, link
    <3>6. rel # 0 => inner'.items[rel].entity = inner.items[rel].entity
      BY <3>4, <3>5 DEF ItemsKept, SameItem
    <3>7. PointsTo(inner', rel, link)  BY <3>3, <3>6 DEF PointsTo
    <3> QED  BY <3>7 DEF rel, link
  <2>2. CASE id \notin Live(inner)
    <3>1. rel = 0 /\ link = Null
      BY <2>2, HeadAssumption DEF ItemsKept
    <3> QED  BY <3>1 DEF PointsTo
  <2> QED  BY <2>1, <2>2
<1>6. ASSUME NEW u \in Task, u # t
      PROVE  TaskInv(u)'
  <2>1. ASSUME Working(u)
        PROVE  /\ guard[u].edit_counter \in Nat
               /\ inner.items[guard[u].item].edit_counter \in Nat
               /\ KeptFor(u, inner.items[guard[u].item],
                             inner'.items[guard[u].item])
    <3>1. guard[u] # None /\ guard'[u] = guard[u]
      BY <1>1, <1>6, <2>1 DEF TaskInv, Working, OthersSame
    <3>2. guard[u].item \in Live(inner) /\ guard[u].item \in Live(inner')
      BY <1>2, <3>1, GuardLive
    <3>3. inner.items[guard[u].item] \in Item
      BY <1>2, <3>2, LiveItem DEF Store
    <3>4. SameItem(inner'.items[guard[u].item], inner.items[guard[u].item])
      BY <3>2 DEF ItemsKept
    <3> QED  BY <1>1, <3>1, <3>3, <3>4, GuardType DEF KeptFor, Item, SameItem
  <2> QED  BY <1>1, <1>6, <2>1, OtherTask DEF OthersSame
<1> QED  BY <1>3, <1>4, <1>5, <1>6 DEF Inv

LEMMA OpenGuardInv ==
  ASSUME Inv, NEW t \in Task, OpenGuard(t)
  PROVE  Inv' /\ HeadsKept
<1> DEFINE e == EntityOf(Target(t))
           st == AssertItem(inner, e)
           id == st.index[e]
           x == <<t, -1, id>>
           g == [item |-> id, head |-> st.items[id].head, links |-> NoLinks,
                 edit_counter |-> st.items[id].edit_counter]
<1>1. /\ TypeOK /\ StoreInv /\ ItemsInv /\ TaskInv(t)
      /\ pc[t] = "open" /\ lock = None
      /\ inner' = IncrementItem(st, id)
      /\ guard' = [guard EXCEPT ![t] = g]
      /\ pc' = [pc EXCEPT ![t] = "edit"]
      /\ UNCHANGED <<lock, cursor, arg, todo, after, applies>>
  BY DEF Inv, OpenGuard
<1>2. guard[t] = None /\ arg[t] \in Input  BY <1>1 DEF TaskInv
<1>3. e \in EntityId
  <2>1. todo[t] \in [Slot -> HeadSet]  BY <1>1 DEF TypeOK
  <2> QED  BY <1>2, <2>1, TargetType
<1>4. Store(inner, References) /\ NoGarbage(inner)  BY <1>1 DEF StoreInv
<1>5. Asserted(inner, References, e, st)
  <2> HIDE DEF e
  <2> QED  BY <1>3, <1>4, AssertItemStore
<1> HIDE DEF e, st
<1>6. x \notin References
  <2>1. x \notin GuardRefs(guard)  BY <1>2, GuardRefsMember
  <2>2. x \notin RelationRefs(inner)
    <3>1. \A s \in Slot : s # -1  BY BoundAssumption DEF Slot
    <3> QED  BY <3>1, RelationRefsMember
  <2> QED  BY <2>1, <2>2 DEF References
<1>7. Store(st, References) /\ id \in Live(st)  BY <1>5 DEF Asserted
<1>8. st.items[id] \in Item /\ id \in Nat  BY <1>7, LiveItem DEF Store
<1>9. /\ Store(inner', References \cup {x})
      /\ Live(inner') = Live(st)
      /\ \A j \in Live(st) : j # id => inner'.items[j] = st.items[j]
      /\ SameItem(inner'.items[id], st.items[id])
      /\ inner'.items[id].ref_count # 0
  <2>1. x[3] = id  OBVIOUS
  <2> HIDE DEF id, x
  <2> QED  BY <1>1, <1>6, <1>7, <2>1, IncrementStore
<1>10. \A j \in Live(st) : SameItem(inner'.items[j], st.items[j])
  BY <1>9 DEF SameItem
<1>11. \A j \in Live(inner) : j \in Live(inner') /\ SameItem(inner'.items[j], inner.items[j])
  BY <1>5, <1>9, <1>10 DEF Asserted
<1>12. \A j \in Live(inner') : j \notin Live(inner)
         => /\ inner'.items[j].head = Null
            /\ inner'.items[j].relations = [s \in Slot |-> 0]
  <2>1. id \notin Live(inner) => st.items[id] = NewItem(e)
    BY <1>5 DEF Asserted
  <2>2. /\ NewItem(e).head = Null
        /\ NewItem(e).relations = [s \in Slot |-> 0]
    BY <1>3, NewItemType
  <2>3. Live(inner') = Live(inner) \cup {id}
    BY <1>5, <1>9 DEF Asserted
  <2>4. SameItem(inner'.items[id], st.items[id])  BY <1>9
  <2> HIDE DEF id
  <2> QED  BY <2>1, <2>2, <2>3, <2>4 DEF SameItem
<1>13. ItemsKept  BY <1>11, <1>12 DEF ItemsKept
<1>14. References' = References \cup {x}
  <2>1. GuardRefs(guard') = GuardRefs(guard) \cup {x}
    <3>1. g.item = id /\ g # None
      <4>1. g \in Guard
        BY <1>8, NoLinksType DEF Guard, Item
      <4> QED  BY <4>1, NoneAssumption
    <3> HIDE DEF g, id
    <3>2. /\ guard'[t] = g
          /\ \A u \in Task \ {t} : guard'[u] = guard[u]
      BY <1>1 DEF TypeOK
    <3>3. ASSUME NEW r
          PROVE  r \in GuardRefs(guard') <=> r \in GuardRefs(guard) \cup {x}
      BY <1>2, <3>1, <3>2, GuardRefsMember
    <3> QED  BY <3>3
  <2>2. RelationRefs(inner') = RelationRefs(inner)
    <3>1. ASSUME NEW i \in Live(inner) \cup Live(inner'), NEW s \in Slot
          PROVE  RelationOf(inner', i, s) = RelationOf(inner, i, s)
      BY <1>11, <1>12 DEF RelationOf, SameItem
    <3> QED  BY <3>1, SameRelations
  <2> QED  BY <2>1, <2>2 DEF References
<1>15. NoGarbage(inner')
  <2>1. ASSUME NEW j \in Live(inner'), inner'.items[j].ref_count = 0
        PROVE  inner'.items[j].head # Null
    <3>1. j # id  BY <1>9, <2>1
    <3>2. j \in Live(inner)  BY <1>5, <1>9, <3>1 DEF Asserted
    <3>3. inner'.items[j] = inner.items[j]
      BY <1>5, <1>9, <3>1, <3>2 DEF Asserted
    <3> QED  BY <1>4, <2>1, <3>2, <3>3 DEF NoGarbage
  <2> QED  BY <2>1 DEF NoGarbage
<1>16. StoreInv'  BY <1>9, <1>14, <1>15 DEF StoreInv
<1>17. g \in Guard /\ g # None
  <2>1. g \in Guard  BY <1>8, NoLinksType DEF Guard, Item
  <2> QED  BY <2>1, NoneAssumption
<1>18. TypeOK'
  <2>1. inner' \in Contents  BY <1>9 DEF Store
  <2> HIDE DEF g
  <2> QED  BY <1>1, <1>17, <2>1 DEF TypeOK
<1>19. OthersSame(t)
  BY <1>1 DEF TypeOK, OthersSame
<1>20. guard'[t] = g /\ pc'[t] = "edit"
  BY <1>1 DEF TypeOK
<1>21. TaskInv(t)'
  <2>1. Target(t)' = Target(t)  BY <1>1 DEF Target, Pruning
  <2>2. inner'.items[id].entity = e /\ st.items[id].entity = e
    BY <1>5, <1>9 DEF Asserted, SameItem
  <2>3. /\ inner'.items[id].head = st.items[id].head
        /\ inner'.items[id].edit_counter = st.items[id].edit_counter
    BY <1>9 DEF SameItem
  <2>4. st.items[id].head # Null => EntityOf(st.items[id].head) = e
    <3>1. CASE id \in Live(inner)
      <4>1. st.items[id] = inner.items[id]  BY <1>5, <3>1 DEF Asserted
      <4> QED  BY <1>1, <2>2, <3>1, <4>1 DEF ItemsInv
    <3>2. CASE id \notin Live(inner)
      <4>1. st.items[id] = NewItem(e)  BY <1>5, <3>2 DEF Asserted
      <4> QED  BY <1>3, <4>1, NewItemType
    <3> QED  BY <3>1, <3>2
  <2>5. st.items[id].edit_counter \in Nat  BY <1>8 DEF Item
  <2>6. /\ g.item = id
        /\ g.head = st.items[id].head
        /\ g.edit_counter = st.items[id].edit_counter
    OBVIOUS
  <2> HIDE DEF g, id
  <2>7. CopyInv(t, inner.items[guard[t].item])'
    BY <1>20, <2>1, <2>2, <2>3, <2>4, <2>5, <2>6 DEF CopyInv, e
  <2> QED  BY <1>1, <1>2, <1>17, <1>20, <2>7 DEF TaskInv
<1>22. HeadsKept
  BY <1>5, <1>9, <1>11, <1>12 DEF Asserted, SameItem, HeadsKept
<1> QED  BY <1>1, <1>13, <1>16, <1>18, <1>19, <1>21, <1>22, FrameStep

LEMMA DropGuardInv ==
  ASSUME Inv, NEW t \in Task, DropGuard(t)
  PROVE  Inv' /\ HeadsKept
<1> DEFINE id == guard[t].item
           x == <<t, -1, id>>
<1>1. /\ TypeOK /\ StoreInv /\ RelationsInv /\ TaskInv(t)
      /\ pc[t] = "drop" /\ lock = None
      /\ inner' = DecrementItem(inner, id)
      /\ guard' = [guard EXCEPT ![t] = None]
      /\ pc' = [pc EXCEPT ![t] = after[t]]
      /\ after' = [after EXCEPT ![t] = "idle"]
      /\ arg' = [arg EXCEPT ![t] = IF after[t] = "idle" THEN Null ELSE arg[t]]
      /\ UNCHANGED <<lock, cursor, todo, applies>>
  BY DEF Inv, DropGuard
<1>2. guard[t] # None /\ arg[t] \in Input  BY <1>1 DEF TaskInv
<1>3. x \in References /\ x[3] = id
  BY <1>2, GuardRefsMember DEF References
<1>4. Store(inner, References) /\ NoGarbage(inner)  BY <1>1 DEF StoreInv
<1>5. Dropped(inner, References, x, inner')
  <2> HIDE DEF id, x
  <2> QED  BY <1>1, <1>3, <1>4, DecrementStore
<1>6. \A j \in Live(inner') :
        j \in Live(inner) /\ SameItem(inner'.items[j], inner.items[j])
  BY <1>5 DEF Dropped, SameItem
<1>7. ItemsKept  BY <1>6 DEF ItemsKept
<1>8. References' = References \ {x}
  <2>1. GuardRefs(guard') = GuardRefs(guard) \ {x}
    <3>1. /\ guard'[t] = None
          /\ \A u \in Task \ {t} : guard'[u] = guard[u]
      BY <1>1 DEF TypeOK
    <3>2. ASSUME NEW r
          PROVE  r \in GuardRefs(guard') <=> r \in GuardRefs(guard) \ {x}
      BY <1>2, <3>1, GuardRefsMember
    <3> QED  BY <3>2
  <2>2. RelationRefs(inner') = RelationRefs(inner)
    <3>1. ASSUME NEW i \in Live(inner) \cup Live(inner'), NEW s \in Slot
          PROVE  RelationOf(inner', i, s) = RelationOf(inner, i, s)
      <4>1. CASE i \in Live(inner')
        BY <4>1, <1>6 DEF RelationOf, SameItem
      <4>2. CASE i \in Live(inner) /\ i \notin Live(inner')
        <5>1. inner.items[i].head = Null  BY <4>2, <1>5 DEF Dropped
        <5>2. Links(inner.items[i].head)[s] = Null
          BY <5>1, HeadAssumption
        <5>3. inner.items[i].relations[s] = 0
          BY <1>1, <4>2, <5>2 DEF RelationsInv, PointsTo
        <5> QED  BY <4>2, <5>3 DEF RelationOf
      <4> QED  BY <4>1, <4>2
    <3> QED  BY <3>1, SameRelations
  <2>3. x \notin RelationRefs(inner)
    <3>1. \A s \in Slot : s # -1  BY BoundAssumption DEF Slot
    <3> QED  BY <3>1, RelationRefsMember
  <2> QED  BY <2>1, <2>2, <2>3 DEF References
<1>9. NoGarbage(inner')
  BY <1>4, <1>5 DEF NoGarbage, Dropped
<1>10. StoreInv'
  BY <1>5, <1>8, <1>9 DEF StoreInv, Dropped
<1>11. TypeOK'
  <2>1. inner' \in Contents  BY <1>5 DEF Dropped, Store
  <2>2. after[t] \in {"idle", "open"}  BY <1>1 DEF TypeOK
  <2> QED  BY <1>1, <2>1, <2>2 DEF TypeOK
<1>12. OthersSame(t)  BY <1>1 DEF TypeOK, OthersSame
<1>13. TaskInv(t)'
  <2>1. /\ guard'[t] = None
        /\ pc'[t] \in {"idle", "open"}
        /\ pc'[t] # "idle" => arg'[t] = arg[t]
    BY <1>1 DEF TypeOK
  <2> QED  BY <1>2, <2>1 DEF TaskInv, Working
<1>14. HeadsKept
  BY <1>5, <1>6 DEF Dropped, SameItem, HeadsKept
<1> QED  BY <1>1, <1>7, <1>10, <1>11, <1>12, <1>13, <1>14, FrameStep

LEMMA StoreLinkInv ==
  ASSUME Inv, NEW t \in Task, StoreLink(t)
  PROVE  Inv' /\ HeadsKept
<1> DEFINE id == guard[t].item
           link == guard[t].links[cursor]
           st == IF link = Null THEN inner ELSE AssertItem(inner, EntityOf(link))
           rel == IF link = Null THEN 0 ELSE st.index[EntityOf(link)]
           G == GuardRefs(guard)
<1>1. /\ TypeOK /\ StoreInv /\ ItemsInv /\ LockInv /\ RelationsInv
      /\ \A u \in Task : TaskInv(u)
  BY DEF Inv
<1>2. /\ pc[t] = "store" /\ cursor < MaxSlots
      /\ inner' = SetRelation(st, id, cursor, rel)
      /\ cursor' = cursor + 1
      /\ UNCHANGED <<lock, pc, arg, todo, guard, after, applies>>
  BY DEF StoreLink
<1>3. lock = t /\ lock # None /\ guard[t] # None
  BY <1>1, <1>2, TaskAssumption DEF TaskInv
<1>4. cursor \in Slot
  BY <1>1, <1>2, BoundAssumption DEF TypeOK, Slot
<1>5. link \in HeadSet  BY <1>1, <1>3, <1>4, GuardType
<1>6. /\ Store(inner, G \cup RelationRefs(inner)) /\ NoGarbage(inner)
      /\ Store(inner, References)
  BY <1>1 DEF StoreInv, References
<1>7. id \in Live(inner) /\ Pinned(G, id)
  BY <1>3, <1>6, GuardLive
<1>8. /\ Store(st, References)
      /\ \A j \in Live(inner) : j \in Live(st) /\ st.items[j] = inner.items[j]
      /\ \A j \in Live(st) \ Live(inner) :
           j = rel /\ \E e \in EntityId : st.items[j] = NewItem(e)
      /\ rel # 0 => rel \in Live(st)
      /\ link # Null => rel # 0 /\ st.items[rel].entity = EntityOf(link)
      /\ rel \in Nat
  <2>1. CASE link = Null
    <3>1. st = inner /\ rel = 0  BY <2>1
    <3> HIDE DEF st, rel
    <3> QED  BY <2>1, <3>1, <1>6
  <2>2. CASE link # Null
    <3> DEFINE e == EntityOf(link)
    <3>1. e \in EntityId  BY <1>5, <2>2, HeadAssumption
    <3>2. st = AssertItem(inner, e) /\ rel = st.index[e]  BY <2>2
    <3> HIDE DEF st, rel, e, link
    <3>3. Asserted(inner, References, e, st)
      BY <1>6, <3>1, <3>2, AssertItemStore
    <3>4. rel \in Live(st) /\ rel \in Nat /\ rel # 0
      BY <3>2, <3>3, LiveItem DEF Asserted, Store
    <3> QED  BY <3>1, <3>2, <3>3, <3>4 DEF Asserted, e
  <2> QED  BY <2>1, <2>2
<1> HIDE DEF st, rel
<1>9. RelationRefs(st) = RelationRefs(inner)
  <2>1. ASSUME NEW i \in Live(inner) \cup Live(st), NEW s \in Slot
        PROVE  RelationOf(st, i, s) = RelationOf(inner, i, s)
    BY <1>8, NewItemType DEF RelationOf
  <2> QED  BY <2>1, SameRelations
<1>10. Relatable(st, id, rel)
  <2>1. ASSUME NEW j \in Live(st), NEW s \in Slot,
               j # id, st.items[j].head = Null
        PROVE  st.items[j].relations[s] = 0
    <3>1. CASE j \in Live(inner)
      <4>1. Links(inner.items[j].head)[s] = Null
        BY <1>8, <2>1, <3>1, HeadAssumption
      <4>2. lock # None => j # guard[lock].item  BY <1>3, <2>1
      <4> QED  BY <1>1, <1>8, <3>1, <4>1, <4>2 DEF RelationsInv, PointsTo
    <3>2. CASE j \notin Live(inner)
      BY <1>8, <3>2, NewItemType
    <3> QED  BY <3>1, <3>2
  <2>2. ASSUME NEW j \in Live(st), j # rel, st.items[j].ref_count = 0
        PROVE  st.items[j].head # Null
    BY <1>6, <1>8, <2>2 DEF NoGarbage
  <2> QED  BY <1>8, <2>1, <2>2 DEF Relatable
<1>11. Related(st, G, id, cursor, rel, inner')
  <2>1. Store(st, G \cup RelationRefs(st)) /\ id \in Live(st)
    BY <1>7, <1>8, <1>9 DEF References
  <2>2. Pins(G)  BY GuardsArePins
  <2> HIDE DEF G, id
  <2> QED  BY <1>2, <1>4, <1>7, <1>8, <1>10, <2>1, <2>2, SetRelationStore
<1>12. st.items[id] \in Item /\ id \in Live(inner')
  <2>1. id \in Live(st) /\ st \in Contents  BY <1>7, <1>8 DEF Store
  <2> QED  BY <1>11, <2>1, LiveItem DEF Related
<1>13. \A j \in Live(inner') :
         /\ j \in Live(st)
         /\ inner'.items[j].entity = st.items[j].entity
         /\ inner'.items[j].head = st.items[j].head
         /\ inner'.items[j].edit_counter = st.items[j].edit_counter
         /\ j # id => inner'.items[j].relations = st.items[j].relations
  <2> HIDE DEF id
  <2> QED  BY <1>11 DEF Related, SameItem
<1>14. Store(inner', G \cup RelationRefs(inner')) /\ StoreInv'
  BY <1>2, <1>11 DEF Related, StoreInv, References
<1>15. TypeOK'
  <2>1. inner' \in Contents  BY <1>14 DEF Store
  <2>2. cursor' \in 0 .. MaxSlots  BY <1>2, <1>4, BoundAssumption DEF Slot
  <2> QED  BY <1>1, <1>2, <2>1, <2>2 DEF TypeOK
<1>16. ItemsInv'
  BY <1>1, <1>8, <1>13, NewItemType DEF ItemsInv
<1>17. LockInv'  BY <1>1, <1>2, <1>3 DEF LockInv
<1>18. RelationsInv'
  \* A relation that was right still is: its item is there, for its entity.
  <2>1. ASSUME NEW k, NEW l, k # 0 => k \in Live(inner) /\ k \in Live(inner'),
               PointsTo(inner, k, l)
        PROVE  PointsTo(inner', k, l)
    BY <1>8, <1>13, <2>1 DEF PointsTo
  <2>2. ASSUME NEW j \in Live(inner'), NEW s \in Slot, j # id
        PROVE  PointsTo(inner', inner'.items[j].relations[s],
                        Links(inner'.items[j].head)[s])
    <3>1. inner'.items[j].relations = st.items[j].relations
          /\ inner'.items[j].head = st.items[j].head /\ j \in Live(st)
      BY <1>13, <2>2
    <3>2. CASE j \in Live(inner)
      <4> DEFINE k == inner.items[j].relations[s]
                 l == Links(inner.items[j].head)[s]
      <4>1. PointsTo(inner, k, l)
        BY <1>1, <1>3, <2>2, <3>2 DEF RelationsInv
      <4>2. k # 0 => k \in Live(inner)  BY <1>6, <3>2, RelationLive
      <4>3. inner'.items[j].relations[s] = k /\ Links(inner'.items[j].head)[s] = l
        BY <1>8, <3>1, <3>2
      <4>4. k # 0 => k \in Live(inner')
        BY <1>14, <4>3, RelationLive
      <4> HIDE DEF k, l
      <4> QED  BY <2>1, <4>1, <4>2, <4>3, <4>4
    <3>3. CASE j \notin Live(inner)
      <4>1. st.items[j].head = Null /\ st.items[j].relations[s] = 0
        BY <1>8, <3>1, <3>3, NewItemType
      <4>2. Links(Null)[s] = Null  BY HeadAssumption
      <4> QED  BY <3>1, <4>1, <4>2 DEF PointsTo
    <3> QED  BY <3>2, <3>3
  <2>3. ASSUME NEW s \in Slot, s < cursor'
        PROVE  PointsTo(inner', inner'.items[id].relations[s],
                        guard[t].links[s])
    <3>1. /\ inner'.items[id].relations
               = [st.items[id].relations EXCEPT ![cursor] = rel]
          /\ st.items[id].relations \in [Slot -> Nat]
          /\ st.items[id] = inner.items[id]
      BY <1>7, <1>8, <1>11, <1>12 DEF Related, Item
    <3>2. CASE s = cursor
      <4>1. inner'.items[id].relations[s] = rel  BY <1>4, <3>1, <3>2
      <4>2. rel # 0 => rel \in Live(inner')  BY <1>11 DEF Related
      <4>3. link = Null => rel = 0  BY DEF rel
      <4>4. PointsTo(inner', rel, link)
        BY <1>8, <1>13, <4>2, <4>3 DEF PointsTo
      <4> QED  BY <3>2, <4>1, <4>4
    <3>3. CASE s # cursor
      <4> DEFINE k == inner.items[id].relations[s]
                 l == guard[t].links[s]
      <4>1. s < cursor  BY <1>2, <1>4, <2>3, <3>3, BoundAssumption DEF Slot
      <4>2. PointsTo(inner, k, l)
        BY <1>1, <1>3, <1>7, <4>1 DEF RelationsInv
      <4>3. k # 0 => k \in Live(inner)  BY <1>6, <1>7, RelationLive
      <4>4. inner'.items[id].relations[s] = k  BY <3>1, <3>3
      <4>5. k # 0 => k \in Live(inner')
        BY <1>12, <1>14, <4>4, RelationLive
      <4> HIDE DEF k
      <4> QED  BY <2>1, <4>2, <4>3, <4>4, <4>5
    <3> QED  BY <3>2, <3>3
  <2> QED  BY <1>2, <1>3, <2>2, <2>3 DEF RelationsInv
<1>19. ASSUME NEW u \in Task
       PROVE  TaskInv(u)'
  <2>1. ASSUME Working(u)
        PROVE  /\ guard[u].edit_counter \in Nat
               /\ inner.items[guard[u].item].edit_counter \in Nat
               /\ KeptFor(u, inner.items[guard[u].item],
                             inner'.items[guard[u].item])
    <3>1. guard[u] # None  BY <1>1, <2>1 DEF TaskInv, Working
    <3>2. guard[u].item \in Live(inner) /\ guard[u].item \in Live(inner')
      BY <1>2, <1>6, <1>14, <3>1, GuardLive
    <3>3. inner.items[guard[u].item] \in Item
      BY <1>6, <3>2, LiveItem DEF Store
    <3> QED  BY <1>1, <1>8, <1>13, <3>1, <3>2, <3>3, GuardType
             DEF KeptFor, Item
  <2> QED  BY <1>1, <1>2, <2>1, OtherTask
<1>20. HeadsKept
  <2>1. ASSUME NEW j \in Live(inner'), j \notin Live(inner)
        PROVE  inner'.items[j].head = Null
    BY <1>8, <1>13, <2>1, NewItemType
  <2>2. \A j \in Live(inner) \ Live(inner') : inner.items[j].head = Null
    BY <1>8, <1>11 DEF Related
  <2> QED  BY <1>8, <1>13, <2>1, <2>2 DEF HeadsKept
<1> QED  BY <1>14, <1>15, <1>16, <1>17, <1>18, <1>19, <1>20 DEF Inv

\* An item whose head is set.
LEMMA SavedItem ==
  ASSUME NEW i \in Item, NEW head \in HeadSet
  PROVE  /\ Saved(i, head) \in Item
         /\ Saved(i, head).entity = i.entity
         /\ Saved(i, head).relations = i.relations
         /\ Saved(i, head).ref_count = i.ref_count
         /\ Saved(i, head).head = head
         /\ Saved(i, head).edit_counter = i.edit_counter + 1
BY DEF Item, Saved

(***************************************************************************)
(* Task t saves: the head of its item, which is its target's, becomes the  *)
(* one it computed, and it computed it from the head the item had.         *)
(***************************************************************************)
HeadSaved(t) ==
  LET id == guard[t].item
  IN  /\ id \in Live(inner)
      /\ Live(inner') = Live(inner)
      /\ inner.items[id].entity = EntityOf(Target(t))
      /\ inner'.items[id].entity = EntityOf(Target(t))
      /\ inner'.items[id].head = guard[t].head
      /\ \A j \in Live(inner) : j # id => inner'.items[j] = inner.items[j]
      /\ ComputedFrom(t, inner.items[id].head)
      /\ arg[t] \in Input
      /\ EntityOf(Target(t)) \in EntityId /\ Target(t) \in HeadSet \ {Null}

LEMMA StoreHeadInv ==
  ASSUME Inv, NEW t \in Task, StoreHead(t)
  PROVE  Inv' /\ HeadSaved(t)
<1> DEFINE id == guard[t].item
           item == Saved(inner.items[id], guard[t].head)
           g == Holding(guard[t], Null, NoLinks)
           left == IF Pruning(t) THEN RestOf(todo[t]) ELSE guard[t].links
           x == <<t, -1, id>>
<1>1. /\ TypeOK /\ StoreInv /\ ItemsInv /\ LockInv /\ RelationsInv
      /\ \A u \in Task : TaskInv(u)
  BY DEF Inv
<1>2. /\ pc[t] = "store" /\ cursor = MaxSlots
      /\ inner' = PutItem(inner, id, item)
      /\ lock' = None /\ cursor' = 0
      /\ guard' = [guard EXCEPT ![t] = g]
      /\ todo' = [todo EXCEPT ![t] = left]
      /\ pc' = [pc EXCEPT ![t] = "drop"]
      /\ after' = [after EXCEPT ![t] = WhenLeft(left)]
      /\ UNCHANGED <<arg, applies>>
  BY DEF StoreHead, ThenDrop
<1>3. lock = t /\ lock # None /\ guard[t] # None /\ arg[t] \in Input
  BY <1>1, <1>2, TaskAssumption DEF TaskInv
<1>4. /\ guard[t] \in Guard
      /\ guard[t].head \in HeadSet
      /\ guard[t].links \in [Slot -> HeadSet]
  BY <1>1, <1>3, GuardType
<1>5. /\ Store(inner, References) /\ NoGarbage(inner)
      /\ Store(inner, GuardRefs(guard) \cup RelationRefs(inner))
  BY <1>1 DEF StoreInv, References
<1>6. id \in Live(inner)  BY <1>3, <1>5, GuardLive
<1>7. inner.items[id] \in Item  BY <1>5, <1>6, LiveItem DEF Store
<1>8. /\ item \in Item
      /\ item.entity = inner.items[id].entity
      /\ item.relations = inner.items[id].relations
      /\ item.ref_count = inner.items[id].ref_count
      /\ item.head = guard[t].head
      /\ item.edit_counter = inner.items[id].edit_counter + 1
  BY <1>4, <1>7, SavedItem
<1>9. CopyInv(t, inner.items[id])
  BY <1>1, <1>2 DEF TaskInv, Working
<1>10. /\ g \in Guard /\ g # None /\ g.item = id
       /\ left \in [Slot -> HeadSet]
       /\ WhenLeft(left) \in {"idle", "open"}
  <2>1. g = Holding(guard[t], Null, Links(Null)) /\ Null \in HeadSet
    BY HeadAssumption DEF NoLinks
  <2>2. /\ Holding(guard[t], Null, Links(Null)) \in Guard
        /\ Holding(guard[t], Null, Links(Null)) # None
        /\ Holding(guard[t], Null, Links(Null)).item = id
    BY <1>4, <2>1, HoldingType
  <2>3. RestOf(todo[t]) \in [Slot -> HeadSet]
    BY <1>1, RestType DEF TypeOK
  <2> QED  BY <1>4, <2>1, <2>2, <2>3 DEF WhenLeft
<1> HIDE DEF item, g, left
<1>11. /\ inner' \in Contents
       /\ Indexed(inner')
       /\ Live(inner') = Live(inner)
       /\ inner'.items[id] = item
       /\ \A j \in Live(inner) : j # id => inner'.items[j] = inner.items[j]
  <2>1. inner \in Contents /\ Indexed(inner)  BY <1>5 DEF Store
  <2> HIDE DEF id
  <2> QED  BY <1>2, <1>6, <1>8, <2>1, ReplaceItem
<1>12. OthersSame(t) /\ SameItems
  <2>1. OthersSame(t)  BY <1>1, <1>2 DEF TypeOK, OthersSame
  <2>2. guard'[t] = g  BY <1>1, <1>2 DEF TypeOK
  <2>3. SameItems
    BY <1>3, <1>10, <2>1, <2>2 DEF OthersSame, SameItems
  <2> QED  BY <2>1, <2>3
<1>13. References' = References
  <2>1. GuardRefs(guard') = GuardRefs(guard)
    BY <1>12, SameGuards DEF SameItems
  <2>2. RelationRefs(inner') = RelationRefs(inner)
    <3>1. ASSUME NEW i \in Live(inner) \cup Live(inner'), NEW s \in Slot
          PROVE  RelationOf(inner', i, s) = RelationOf(inner, i, s)
      BY <1>8, <1>11 DEF RelationOf
    <3> QED  BY <3>1, SameRelations
  <2> QED  BY <2>1, <2>2 DEF References
<1>14. item.ref_count # 0
  <2>1. x \in References /\ x[3] = id
    BY <1>3, GuardRefsMember DEF References
  <2>2. IsFiniteSet(References)
        /\ inner.items[id].ref_count = Cardinality(RefsTo(References, id))
    BY <1>5, <1>6 DEF Store, Counted
  <2> HIDE DEF x, id
  <2>3. DroppedFrom(References, x, id)  BY <2>1, <2>2, DropReference
  <2> QED  BY <1>8, <2>1, <2>2, <2>3 DEF DroppedFrom
<1>15. StoreInv'
  <2>1. Counted(inner', References)
    BY <1>5, <1>8, <1>11 DEF Store, Counted
  <2>2. NoGarbage(inner')
    BY <1>5, <1>11, <1>14 DEF NoGarbage
  <2> QED  BY <1>11, <1>13, <2>1, <2>2 DEF StoreInv, Store
<1>16. TypeOK'
  BY <1>1, <1>2, <1>10, <1>11 DEF TypeOK
<1>17. ItemsInv'
  <2>1. item.head # Null => EntityOf(item.head) = item.entity
    BY <1>8, <1>9 DEF CopyInv
  <2> QED  BY <1>1, <1>11, <2>1 DEF ItemsInv
<1>18. LockInv'  BY <1>2 DEF LockInv
<1>19. RelationsInv'
  <2>1. ASSUME NEW k, NEW l, k # 0 => k \in Live(inner), PointsTo(inner, k, l)
        PROVE  PointsTo(inner', k, l)
    BY <1>8, <1>11, <2>1 DEF PointsTo
  <2>2. ASSUME NEW j \in Live(inner'), NEW s \in Slot
        PROVE  PointsTo(inner', inner'.items[j].relations[s],
                        Links(inner'.items[j].head)[s])
    <3> DEFINE k == inner.items[j].relations[s]
    <3>1. j \in Live(inner)  BY <1>11
    <3>2. k # 0 => k \in Live(inner)  BY <1>5, <3>1, RelationLive
    <3>3. CASE j # id
      <4>1. PointsTo(inner, k, Links(inner.items[j].head)[s])
        BY <1>1, <1>3, <3>1, <3>3 DEF RelationsInv
      <4>2. inner'.items[j] = inner.items[j]  BY <1>11, <3>1, <3>3
      <4> QED  BY <2>1, <3>2, <4>1, <4>2
    <3>4. CASE j = id
      <4>1. s < cursor  BY <1>2, BoundAssumption DEF Slot
      <4>2. PointsTo(inner, k, guard[t].links[s])
        BY <1>1, <1>3, <3>1, <3>4, <4>1 DEF RelationsInv
      <4>3. guard[t].links = Links(item.head)
        BY <1>2, <1>8, <1>9 DEF CopyInv
      <4>4. inner'.items[j].relations[s] = k /\ inner'.items[j].head = item.head
        BY <1>8, <1>11, <3>4
      <4> QED  BY <2>1, <3>2, <4>2, <4>3, <4>4
    <3> QED  BY <3>3, <3>4
  <2> QED  BY <1>2, <2>2 DEF RelationsInv
<1>20. TaskInv(t)'
  <2>1. guard'[t] = g /\ pc'[t] = "drop"  BY <1>1, <1>2 DEF TypeOK
  <2> QED  BY <1>2, <1>3, <1>10, <2>1 DEF TaskInv, Working
<1>21. ASSUME NEW u \in Task, u # t
       PROVE  TaskInv(u)'
  <2>1. pc[u] # "store"  BY <1>1, <1>3, <1>21 DEF TaskInv
  <2>2. ASSUME Working(u)
        PROVE  /\ guard[u].edit_counter \in Nat
               /\ inner.items[guard[u].item].edit_counter \in Nat
               /\ KeptFor(u, inner.items[guard[u].item],
                             inner'.items[guard[u].item])
    <3>1. guard[u] # None  BY <1>1, <2>2 DEF TaskInv, Working
    <3>2. guard[u].item \in Live(inner)  BY <1>5, <3>1, GuardLive
    <3>3. inner.items[guard[u].item] \in Item
      BY <1>5, <3>2, LiveItem DEF Store
    <3>4. guard[u].edit_counter \in Nat  BY <1>1, <3>1, GuardType
    <3>5. CASE guard[u].item = id
      BY <1>8, <1>11, <2>1, <3>3, <3>4, <3>5 DEF KeptFor, Item
    <3>6. CASE guard[u].item # id
      BY <1>11, <3>2, <3>3, <3>4, <3>6 DEF KeptFor, Item
    <3> QED  BY <3>5, <3>6
  <2> QED  BY <1>1, <1>3, <1>12, <1>21, <2>2, OtherTask DEF OthersSame
<1>22. HeadSaved(t)
  <2>1. EntityOf(Target(t)) \in EntityId /\ Target(t) \in HeadSet \ {Null}
    BY <1>1, <1>3, TargetType DEF TypeOK
  <2>2. ComputedFrom(t, inner.items[id].head)  BY <1>2, <1>9 DEF CopyInv
  <2> QED  BY <1>3, <1>6, <1>8, <1>9, <1>11, <2>1, <2>2 DEF CopyInv, HeadSaved
<1> QED  BY <1>15, <1>16, <1>17, <1>18, <1>19, <1>20, <1>21, <1>22 DEF Inv

-----------------------------------------------------------------------------
(***************************************************************************)
(* The theorems.                                                           *)
(***************************************************************************)
LEMMA NextInv == Inv /\ [Next]_vars => Inv'
<1> SUFFICES ASSUME Inv, [Next]_vars PROVE Inv'  OBVIOUS
<1>1. CASE UNCHANGED vars
  <2>1. TypeOK' /\ ItemsInv' /\ LockInv'
    BY <1>1 DEF vars, Inv, TypeOK, ItemsInv, LockInv
  <2>2. StoreInv'
    BY <1>1 DEF vars, Inv, StoreInv, References
  <2>3. RelationsInv'
    BY <1>1 DEF vars, Inv, RelationsInv
  <2>4. ASSUME NEW u \in Task
        PROVE  TaskInv(u)'
    BY <1>1 DEF vars, Inv, TaskInv, Working, CopyInv, ComputedFrom, Target,
       Pruning
  <2> QED  BY <2>1, <2>2, <2>3, <2>4 DEF Inv
<1>2. ASSUME NEW t \in Task, NEW head \in Input, Begin(t, head)
      PROVE  Inv'
  BY <1>2, BeginInv
<1>3. ASSUME NEW t \in Task, Progress(t) \/ Fail(t)
      PROVE  Inv'
  BY <1>3, OpenGuardInv, EditApplyInv, EditPruneInv, FailInv, SaveConflictInv,
     BeginSaveInv, StoreLinkInv, StoreHeadInv, DropGuardInv DEF Progress
<1> QED  BY <1>1, <1>2, <1>3 DEF Next, Finished

LEMMA SpecInv == Spec => []Inv
<1> QED  BY InitInv, NextInv, PTL DEF Spec

(***************************************************************************)
(* The state of the stash and of its tasks is always well typed: in        *)
(* particular no task ever unwraps an item that is not there.              *)
(***************************************************************************)
THEOREM StashTypeOK == Spec => []TypeOK
<1>1. Inv => TypeOK  BY DEF Inv
<1> QED  BY <1>1, SpecInv, PTL

(***************************************************************************)
(* Items, index and vacancies agree, for any number of tasks and entities  *)
(* and whatever the heads: no place is handed out twice, no entity has two *)
(* items (assert_item, conditional_remove_item).                           *)
(***************************************************************************)
THEOREM StashIndexExact == Spec => []IndexExact
<1>1. Inv => IndexExact  BY InvConsequences
<1> QED  BY <1>1, SpecInv, PTL

(***************************************************************************)
(* Reference counts count the guards and the relations, and no item is     *)
(* leaked (increment_item, decrement_item, set_relation).                  *)
(***************************************************************************)
THEOREM StashRefCountExact == Spec => []RefCountExact
<1>1. Inv => RefCountExact  BY InvConsequences
<1> QED  BY <1>1, SpecInv, PTL

(***************************************************************************)
(* Between two uses of the mutex a task's item stays where it was and      *)
(* stays the item of its entity (ItemEditGuard).                           *)
(***************************************************************************)
THEOREM StashGuardPinsItem == Spec => []GuardPinsItem
<1>1. Inv => GuardPinsItem  BY InvConsequences
<1> QED  BY <1>1, SpecInv, PTL

(***************************************************************************)
(* The relations of an item that is not being saved are those its head     *)
(* projects (try_save).                                                    *)
(***************************************************************************)
THEOREM StashRelationsMatchHead == Spec => []RelationsMatchHead
<1>1. Inv => RelationsMatchHead  BY InvConsequences
<1> QED  BY <1>1, SpecInv, PTL

-----------------------------------------------------------------------------
(***************************************************************************)
(* Refinement: seen through the heads of its entities, the stash takes the *)
(* steps of AtomicStash and no others.                                     *)
(***************************************************************************)

\* The index of a well-formed store finds the item of an entity, if any.
LEMMA FindItem ==
  ASSUME NEW st, Indexed(st), NEW e \in EntityId, NEW j \in Live(st),
         st.items[j].entity = e
  PROVE  st.index[e] = j
BY DEF Indexed

LEMMA SameHeadOf ==
  ASSUME Indexed(inner), Indexed(inner'), 0 \notin Live(inner) \cup Live(inner'),
         HeadsKept, NEW e \in EntityId
  PROVE  HeadOf(e)' = HeadOf(e)
<1> DEFINE i == inner.index[e]
           j == inner'.index[e]
<1>1. /\ i # 0 => i \in Live(inner) /\ inner.items[i].entity = e
      /\ j # 0 => j \in Live(inner') /\ inner'.items[j].entity = e
  BY DEF Indexed
<1>2. i # 0 /\ i \in Live(inner') => j = i
  BY <1>1, FindItem DEF HeadsKept
<1>3. j # 0 /\ j \in Live(inner) => i = j
  BY <1>1, FindItem DEF HeadsKept
<1>4. HeadOf(e) = IF i = 0 THEN Null ELSE inner.items[i].head
  BY DEF HeadOf
<1>5. HeadOf(e)' = IF j = 0 THEN Null ELSE inner'.items[j].head
  BY DEF HeadOf
<1> HIDE DEF i, j
<1> QED  BY <1>1, <1>2, <1>3, <1>4, <1>5 DEF HeadsKept

LEMMA SavedHeadOf ==
  ASSUME Indexed(inner), Indexed(inner'), 0 \notin Live(inner),
         NEW t \in Task, HeadSaved(t)
  PROVE  /\ HeadOf(EntityOf(Target(t))) = inner.items[guard[t].item].head
         /\ \A e \in EntityId :
              HeadOf(e)' = IF e = EntityOf(Target(t)) THEN guard[t].head
                           ELSE HeadOf(e)
<1> DEFINE id == guard[t].item
           target == EntityOf(Target(t))
<1>1. /\ target \in EntityId
      /\ id \in Live(inner) /\ id \in Live(inner') /\ id # 0
      /\ Live(inner') = Live(inner)
      /\ inner.items[id].entity = target /\ inner'.items[id].entity = target
      /\ inner'.items[id].head = guard[t].head
      /\ \A j \in Live(inner) : j # id => inner'.items[j] = inner.items[j]
  BY DEF HeadSaved
<1>2. inner.index[target] = id /\ inner'.index[target] = id
  BY <1>1, FindItem
<1>3. ASSUME NEW e \in EntityId, e # target
      PROVE  HeadOf(e)' = HeadOf(e)
  <2> DEFINE i == inner.index[e]
             j == inner'.index[e]
  <2>1. /\ i # 0 => i \in Live(inner) /\ inner.items[i].entity = e
        /\ j # 0 => j \in Live(inner') /\ inner'.items[j].entity = e
    BY DEF Indexed
  <2>2. i # 0 => i # id /\ j = i
    BY <1>1, <1>3, <2>1, FindItem
  <2>3. j # 0 => j # id /\ i = j
    BY <1>1, <1>3, <2>1, FindItem
  <2>4. HeadOf(e) = IF i = 0 THEN Null ELSE inner.items[i].head
    BY DEF HeadOf
  <2>5. HeadOf(e)' = IF j = 0 THEN Null ELSE inner'.items[j].head
    BY DEF HeadOf
  <2> HIDE DEF i, j, id
  <2> QED  BY <1>1, <2>1, <2>2, <2>3, <2>4, <2>5
<1>4. HeadOf(target) = inner.items[id].head
  BY <1>1, <1>2 DEF HeadOf
<1>5. \A e \in EntityId : e = target => HeadOf(e)' = inner'.items[id].head
  BY <1>1, <1>2 DEF HeadOf
<1> QED  BY <1>1, <1>3, <1>4, <1>5

\* What a well-formed store knows about its index.
LEMMA StoreIndexed ==
  ASSUME NEW st, NEW refs, Store(st, refs)
  PROVE  Indexed(st) /\ 0 \notin Live(st)
BY LiveItem DEF Store

LEMMA InitRefines == Init => Atomic!Init
BY DEF Init, Atomic!Init, HeadOf

LEMMA NextRefines ==
  ASSUME Inv, [Next]_vars
  PROVE  [Atomic!Next]_([e \in EntityId |-> HeadOf(e)])
<1> DEFINE heads == [e \in EntityId |-> HeadOf(e)]
           heads2 == [e \in EntityId |-> HeadOf(e)']
<1>1. CASE UNCHANGED inner
  BY <1>1 DEF HeadOf
<1>2. ASSUME NEW t \in Task, OpenGuard(t) \/ StoreLink(t) \/ DropGuard(t)
      PROVE  UNCHANGED heads
  <2>1. Inv' /\ HeadsKept
    BY <1>2, OpenGuardInv, StoreLinkInv, DropGuardInv
  <2>2. /\ Indexed(inner) /\ Indexed(inner')
        /\ 0 \notin Live(inner) \cup Live(inner')
    BY <2>1, StoreIndexed DEF Inv, StoreInv
  <2> QED  BY <2>1, <2>2, SameHeadOf
<1>3. ASSUME NEW t \in Task, StoreHead(t)
      PROVE  Atomic!Next
  <2> DEFINE target == EntityOf(Target(t))
  <2>1. Inv' /\ HeadSaved(t)  BY <1>3, StoreHeadInv
  <2>2. /\ Indexed(inner) /\ Indexed(inner') /\ 0 \notin Live(inner)
    BY <2>1, StoreIndexed DEF Inv, StoreInv
  <2>3. /\ target \in EntityId
        /\ Target(t) \in HeadSet \ {Null}
        /\ arg[t] \in Input
        /\ ComputedFrom(t, HeadOf(target))
    BY <2>1, <2>2, SavedHeadOf DEF HeadSaved
  <2>4. heads2 = [heads EXCEPT ![target] = guard[t].head]
    BY <2>1, <2>2, <2>3, SavedHeadOf
  <2>5. heads[target] = HeadOf(target)  BY <2>3
  <2>6. CASE Pruning(t)
    <3>1. Covers(Target(t), heads[target]) /\ guard[t].head = Null
      BY <2>3, <2>5, <2>6 DEF ComputedFrom
    <3>2. Atomic!Prune(Target(t))
      BY <2>4, <3>1 DEF Atomic!Prune
    <3> QED  BY <2>3, <3>2 DEF Atomic!Next
  <2>7. CASE ~Pruning(t)
    <3>1. Target(t) = arg[t]  BY <2>7 DEF Target
    <3>2. /\ ApplyHead(heads[target], arg[t]).applied
          /\ guard[t].head = ApplyHead(heads[target], arg[t]).head
      BY <2>3, <2>5, <2>7 DEF ComputedFrom
    <3>3. Atomic!Apply(arg[t])
      BY <2>4, <3>1, <3>2 DEF Atomic!Apply
    <3> QED  BY <2>3, <3>3 DEF Atomic!Next
  <2> QED  BY <2>6, <2>7
<1>4. ASSUME NEW t \in Task, NEW head \in Input, Begin(t, head)
      PROVE  UNCHANGED inner
  BY <1>4 DEF Begin
<1>5. ASSUME NEW t \in Task,
             \/ EditApply(t) \/ EditPrune(t) \/ Fail(t)
             \/ SaveConflict(t) \/ BeginSave(t)
      PROVE  UNCHANGED inner
  BY <1>5 DEF EditApply, EditPrune, Fail, SaveConflict, BeginSave
<1>6. CASE UNCHANGED vars  BY <1>1, <1>6 DEF vars
<1> QED  BY <1>1, <1>2, <1>3, <1>4, <1>5, <1>6 DEF Next, Progress, Finished

(***************************************************************************)
(* The stash implements the atomic one, whatever the heads and however     *)
(* many tasks: retries, reference counts and relations are invisible, and  *)
(* no edit computed from a head that was replaced meanwhile is ever saved  *)
(* (Stash::apply_head, prune_head, ItemEditGuard::try_save).               *)
(***************************************************************************)
THEOREM StashAppliesAtomically == Spec => AppliesAtomically
<1>1. Inv /\ [Next]_vars => [Atomic!Next]_([e \in EntityId |-> HeadOf(e)])
  BY NextRefines
<1> QED  BY <1>1, InitRefines, SpecInv, PTL DEF Spec, AppliesAtomically, Atomic!Spec
=============================================================================
