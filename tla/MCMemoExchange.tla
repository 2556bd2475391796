--------------------------- MODULE MCMemoExchange ---------------------------
(***************************************************************************)
(* Small systems for the model checker: all tasks read on slab "A".        *)
(***************************************************************************)
EXTENDS MemoExchange

AllOnA == [r \in Task |-> "A"]
=============================================================================
