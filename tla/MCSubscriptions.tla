-------------------------- MODULE MCSubscriptions ---------------------------
(***************************************************************************)
(* Small systems for the model checker: who observes by which context.     *)
(***************************************************************************)
EXTENDS Subscriptions

ContextOfObserver == [o \in Observer |-> "c1"]
=============================================================================
