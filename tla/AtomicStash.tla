---------------------------- MODULE AtomicStash -----------------------------
(***************************************************************************)
(* What a stash promises to the tasks that share it: one head per entity,  *)
(* changed only by applying a head to what is there, or by pruning a head  *)
(* that an edge covers, each in a single step.  There are no items, no     *)
(* reference counts, no edit counters and no retries.                      *)
(***************************************************************************)
CONSTANTS
  EntityId, HeadSet, Null, EntityOf(_), ApplyHead(_, _), Covers(_, _), Input

VARIABLE heads   \* heads[e]: the head of entity e, Null if there is none

Init == heads = [e \in EntityId |-> Null]

\* The postcondition documented at Stash::apply_head.
Apply(head) ==
  LET entity == EntityOf(head)
      result == ApplyHead(heads[entity], head)
  IN  /\ result.applied
      /\ heads' = [heads EXCEPT ![entity] = result.head]

\* The postcondition documented at Stash::prune_head.
Prune(edge) ==
  /\ Covers(edge, heads[EntityOf(edge)])
  /\ heads' = [heads EXCEPT ![EntityOf(edge)] = Null]

Next ==
  \/ \E head \in Input : Apply(head)
  \/ \E edge \in HeadSet \ {Null} : Prune(edge)

Spec == Init /\ [][Next]_heads
=============================================================================
