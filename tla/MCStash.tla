------------------------------ MODULE MCStash -------------------------------
(***************************************************************************)
(* Small stashes for the model checker: the heads are those of module Head *)
(* over a fixed graph of memos, and the tasks apply any of them.           *)
(***************************************************************************)
EXTENDS Stash, TLC

CONSTANT Memos

H == INSTANCE Head

Memo(entity, parents, full, edges) ==
  [entity |-> entity, parents |-> parents, full |-> full, values |-> {},
   edges |-> edges]

NoEdges == << >>

(***************************************************************************)
(* A branch of an index: node X points to node R, R to node A.  Every node *)
(* was edited once, and each edit of a parent points to a later child.     *)
(***************************************************************************)
Branch ==
  [a1 |-> Memo("A", << >>,     TRUE,  NoEdges),
   a2 |-> Memo("A", <<"a1">>,  FALSE, NoEdges),
   r1 |-> Memo("R", << >>,     TRUE,  [s \in {0} |-> <<"a1">>]),
   r2 |-> Memo("R", <<"r1">>,  FALSE, [s \in {0} |-> <<"a2">>]),
   x1 |-> Memo("X", << >>,     TRUE,  [s \in {1} |-> <<"r1">>]),
   x2 |-> Memo("X", <<"x1">>,  FALSE, [s \in {1} |-> <<"r2">>])]

(***************************************************************************)
(* One index node R and one child A.  Two slabs edited each concurrently,  *)
(* both edits of R pointing at the same slot, and R was edited again on    *)
(* top of one of them without touching that slot.                          *)
(***************************************************************************)
Fork ==
  [a1 |-> Memo("A", << >>,     TRUE,  NoEdges),
   a2 |-> Memo("A", <<"a1">>,  FALSE, NoEdges),
   r1 |-> Memo("R", << >>,     TRUE,  NoEdges),
   r2 |-> Memo("R", <<"r1">>,  FALSE, [s \in {0} |-> <<"a2">>]),
   r3 |-> Memo("R", <<"r1">>,  FALSE, [s \in {0} |-> <<"a1">>]),
   r4 |-> Memo("R", <<"r2">>,  FALSE, NoEdges)]

(***************************************************************************)
(* As in Branch without X, and A was edited concurrently as well: heads of *)
(* A may hold two memos.                                                   *)
(***************************************************************************)
Pair ==
  [a1 |-> Memo("A", << >>,     TRUE,  NoEdges),
   a2 |-> Memo("A", <<"a1">>,  FALSE, NoEdges),
   a3 |-> Memo("A", <<"a1">>,  FALSE, NoEdges),
   r1 |-> Memo("R", << >>,     TRUE,  [s \in {0} |-> <<"a1">>]),
   r2 |-> Memo("R", <<"r1">>,  FALSE, [s \in {0} |-> <<"a2", "a3">>])]

-----------------------------------------------------------------------------
NullValue == H!NullHead

EntityIdValue == {Memos[m].entity : m \in DOMAIN Memos}

MemoId == DOMAIN Memos

Concurrent(m, n) ==
  /\ m # n
  /\ Memos[m].entity = Memos[n].entity
  /\ ~H!Descends(m, n)
  /\ ~H!Descends(n, m)

\* The frontiers of one or two memos of one entity, in either order.
HeadSetValue ==
  {NullValue} \cup {<<m>> : m \in MemoId}
  \cup {p \in MemoId \X MemoId : Concurrent(p[1], p[2])}

InputValue == {<<m>> : m \in MemoId}

EntityOfValue(head) == Memos[head[1]].entity

\* The same function, which TLC tabulates once instead of evaluating it
\* wherever it is applied.
Tabulated(f) == f @@ << >>

\* The functions of module Head over these heads.
LinksTable == Tabulated([h \in HeadSetValue |-> H!ProjectAllEdgeLinks(h)])
LinksValue(head) == LinksTable[head]

ApplyTable ==
  Tabulated([p \in HeadSetValue \X InputValue |-> H!MutApply(p[1], p[2])])
ApplyHeadValue(head, other) == ApplyTable[<<head, other>>]

CoverTable ==
  Tabulated([p \in HeadSetValue \X HeadSetValue |->
               H!DescendsOrContains(p[1], p[2])])
CoversValue(head, other) == CoverTable[<<head, other>>]

HistoryTable == Tabulated([h \in HeadSetValue |-> H!History(h)])

(***************************************************************************)
(* Accounts[n][h]: the memos a head accounts for, itself or vicariously,   *)
(* by the edges found within n steps from it, the way a query follows them.*)
(***************************************************************************)
Accounts[n \in Nat] ==
  Tabulated([h \in HeadSetValue |->
     IF n = 0 THEN {}
     ELSE HistoryTable[h]
            \cup UNION {Accounts[n - 1][LinksTable[h][s]] : s \in Slot}])

AccountTable == Accounts[Cardinality(EntityIdValue)]

-----------------------------------------------------------------------------
\* The logical contents of the stash.
Known == UNION {AccountTable[HeadOf(e)] : e \in EntityId}

(***************************************************************************)
(* "The logical contents of the stash are the same before and after the    *)
(* removal of the direct contents" (context/stash.rs:281-283): no step     *)
(* makes the stash account for less of any entity than it did, even when   *)
(* the edge that justifies a removal is being replaced by another task.    *)
(***************************************************************************)
NothingForgotten == [][Known \subseteq Known']_vars

(***************************************************************************)
(* "A Stash automatically prunes Heads which are descended-by-or-equal-to  *)
(* any of the Edges of any Head inserted into the stash"                   *)
(* (context/stash.rs:70-72): once no call is in progress, no head is left  *)
(* whose history an edge of another head contains.                         *)
(***************************************************************************)
CoveredHeadsArePruned ==
  (\A t \in Task : pc[t] = "idle") =>
    \A e \in EntityId, s \in Slot :
      LET link == Links(HeadOf(e))[s]
      IN  link # Null /\ HeadOf(EntityOf(link)) # Null
            => ~ (HistoryTable[HeadOf(EntityOf(link))]
                    \subseteq HistoryTable[link])
=============================================================================
