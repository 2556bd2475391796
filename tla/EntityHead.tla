----------------------------- MODULE EntityHead -----------------------------
(***************************************************************************)
(* The heads several holders keep of one entity.                           *)
(*                                                                         *)
(* Each holder (an Entity handle, a context, a parent's edge, on whatever  *)
(* slab) keeps its own copy of the entity's head.  It edits the entity by  *)
(* issuing a memo whose parents are that head, it is told of memos in any  *)
(* order and any number of times, and it merges heads other holders have.  *)
(* Nothing coordinates the holders: what they must agree on follows from   *)
(* the functions of module Head alone.                                     *)
(***************************************************************************)
EXTENDS Naturals, Sequences, FiniteSets

CONSTANTS
  Holder,    \* those who keep a head of the entity
  Key,       \* the keys of the entity's values
  MaxMemos   \* bound on the memos issued

ASSUME BoundAssumption == MaxMemos \in Nat \ {0}

VARIABLES
  memos,     \* the memos issued for the entity, in order of issue
  head,      \* head[h]: the head holder h keeps
  seen       \* history variable: the memos h was told of, with their ancestors

vars == <<memos, head, seen>>

H == INSTANCE Head WITH Memos <- memos, Slot <- {}

MemoId == 1 .. MaxMemos

MemoRecord == [parents : Seq(MemoId), full : BOOLEAN,
               values : SUBSET Key, edges : {<< >>}]

NewMemo(parents, full, values) ==
  [parents |-> parents, full |-> full, values |-> values, edges |-> << >>]

-----------------------------------------------------------------------------
\* Entity::new: the creator issues a FullyMaterialized memo and holds it.
Init ==
  \E creator \in Holder, values \in SUBSET Key :
    /\ memos = <<NewMemo(H!NullHead, TRUE, values)>>
    /\ head = [h \in Holder |-> IF h = creator THEN <<1>> ELSE H!NullHead]
    /\ seen = [h \in Holder |-> IF h = creator THEN {1} ELSE {}]

\* Faulty: only the first memo of the head becomes a parent.
EditFirstParent(h, values) ==
  /\ Len(memos) < MaxMemos
  /\ head[h] # H!NullHead
  /\ memos' = Append(memos, NewMemo(<<head[h][1]>>, FALSE, values))
  /\ head' = [head EXCEPT ![h] = <<Len(memos) + 1>>]
  /\ seen' = [seen EXCEPT ![h] = @ \cup {Len(memos) + 1}]

(***************************************************************************)
(* Head::set_value, set_relation and set_edge: the old head becomes the    *)
(* parents of a new memo and the new memo alone becomes the head.  An edit *)
(* of something else than a value assigns no key.                          *)
(***************************************************************************)
Edit(h, values) ==
  /\ Len(memos) < MaxMemos
  /\ head[h] # H!NullHead
  /\ memos' = Append(memos, NewMemo(head[h], FALSE, values))
  /\ head' = [head EXCEPT ![h] = <<Len(memos) + 1>>]
  /\ seen' = [seen EXCEPT ![h] = @ \cup {Len(memos) + 1}]

\* Holder h is told of memo m: a subscription or a query delivers it.
ApplyMemo(h, m) ==
  /\ head' = [head EXCEPT ![h] = H!MutApplyMemoref(@, m).head]
  /\ seen' = [seen EXCEPT ![h] = @ \cup H!History(<<m>>)]
  /\ UNCHANGED memos

\* Holder h merges the head another holder keeps (Head::mut_apply).
ApplyHead(h, other) ==
  /\ head' = [head EXCEPT ![h] = H!MutApply(@, head[other]).head]
  /\ seen' = [seen EXCEPT ![h] = @ \cup seen[other]]
  /\ UNCHANGED memos

Next ==
  \E h \in Holder :
    \/ \E values \in {{}} \cup {{k} : k \in Key} : Edit(h, values)
    \/ \E m \in DOMAIN memos : ApplyMemo(h, m)
    \/ \E other \in Holder \ {h} : ApplyHead(h, other)

Spec == Init /\ [][Next]_vars

-----------------------------------------------------------------------------
TypeOK ==
  /\ memos \in Seq(MemoRecord)
  /\ head \in [Holder -> Seq(DOMAIN memos)]
  /\ seen \in [Holder -> SUBSET MemoId]

\* The memos of S that no memo of S descends from.
Frontier(S) == {m \in S : \A n \in S : ~H!Descends(n, m)}

(***************************************************************************)
(* A head is exactly the frontier of what its holder was told, whatever    *)
(* the order and the repetitions: no memo that was overtaken stays in it,  *)
(* none that is concurrent is lost, none is there twice.  Two holders that *)
(* were told the same therefore hold the same memos (mut_apply_memoref,    *)
(* head/mod.rs:98-178).                                                    *)
(***************************************************************************)
HeadIsFrontier ==
  \A h \in Holder : /\ H!ToSet(head[h]) = Frontier(seen[h])
                    /\ Cardinality(H!ToSet(head[h])) = Len(head[h])

(***************************************************************************)
(* What mut_apply returns is trusted by its callers to mean "the head      *)
(* changed": Stash::apply_head saves nothing when it is false.  For any    *)
(* two heads held, it is true exactly when the receiver's memos change.    *)
(***************************************************************************)
AppliedMeansChanged ==
  \A h, other \in Holder :
    LET result == H!MutApply(head[h], head[other])
    IN  result.applied <=> H!ToSet(result.head) # H!ToSet(head[h])

(***************************************************************************)
(* descends_or_contains never claims too much: the stash throws a head     *)
(* away on its word, so whatever it says is contained must be in the       *)
(* history of the head that stays.                                         *)
(***************************************************************************)
ContainmentIsSound ==
  \A h, other \in Holder :
    H!DescendsOrContains(head[h], head[other])
      => H!History(head[other]) \subseteq H!History(head[h])

(***************************************************************************)
(* No holder ever forgets: whatever was in the history of its head stays   *)
(* in it, through edits and merges alike.                                  *)
(***************************************************************************)
NeverForgets ==
  [][\A h \in Holder :
        H!History(head[h]) \subseteq H!History(head[h])']_vars

(***************************************************************************)
(* In whatever order the memos of a head and of its ancestors are loaded,  *)
(* their stream ends, holds the whole history, and no memo before one that *)
(* leads to it (CausalMemoStream::poll_next).                              *)
(***************************************************************************)
StreamIsComplete ==
  \A hd \in {head[h] : h \in Holder} : \A stream \in H!Streams[<<hd, {}>>] :
    /\ H!ToSet(stream) = H!History(hd)
    /\ \A i \in DOMAIN stream :
         \/ stream[i] \in H!ToSet(hd)
         \/ \E j \in 1 .. i - 1 : stream[i] \in H!Parents(stream[j])

(***************************************************************************)
(* A value set by a memo of the head itself is never hidden by an older    *)
(* one: get_value answers with a memo of the head whenever one assigns the *)
(* key.                                                                    *)
(***************************************************************************)
HeadValueWins ==
  \A h \in Holder, k \in Key :
    (\E m \in H!ToSet(head[h]) : k \in memos[m].values)
      => H!GetValue(head[h], k) \in H!ToSet(head[h])

(***************************************************************************)
(* "A head descends or contains" itself, whatever it holds: the stash doc  *)
(* says heads "descended-by-or-equal-to" an edge are pruned                *)
(* (context/stash.rs:70-72).                                               *)
(***************************************************************************)
HeadContainsItself ==
  \A h \in Holder :
    head[h] # H!NullHead => H!DescendsOrContains(head[h], head[h])

(***************************************************************************)
(* What get_value answers was not overwritten: no memo of the head's       *)
(* history that assigns the key descends from the memo that answered.      *)
(***************************************************************************)
ValueIsCurrent ==
  \A h \in Holder, k \in Key :
    LET m == H!GetValue(head[h], k)
    IN  m # 0 => \A n \in H!History(head[h]) :
                   k \in memos[n].values => ~H!Descends(n, m)
=============================================================================
