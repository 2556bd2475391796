--------------------------- MODULE Subscriptions ----------------------------
(***************************************************************************)
(* Who is told of the memos that arrive at a slab: the subscriptions of    *)
(* slab/agent.rs, the applier of a context (context/mod.rs) and the        *)
(* observers of a record (Entity::observe).                                *)
(*                                                                         *)
(* Another slab edits one record, time after time.  Each edit makes a memo *)
(* of the record and then one of the index, which leads to it; they arrive *)
(* on several threads, in any order and by several routes.  Heads of the   *)
(* record and of the index are counted, as those of one writer: applying   *)
(* one to another leaves the later one.                                    *)
(*                                                                         *)
(* Channels are bounded, and a full one makes the thread panic that sends. *)
(* It holds the lock of the slab's state, which is poisoned: whoever locks *)
(* it later panics too.                                                    *)
(***************************************************************************)
EXTENDS Naturals, Sequences, SequencesExt, FiniteSets

CONSTANTS
  Context,    \* contexts of the slab, made before the first edit
  Observer,   \* tasks that observe the record, by a context each
  ContextOf,
  Thread,     \* threads of the transports that deliver memos to the slab
  Buffer,     \* buffer of a channel: 1000 in the code
  MaxEdits,   \* bound on the edits of the other slab
  Routes      \* how often each memo arrives, at most

Subscriber == Context \cup Observer

ASSUME SubscriptionsAssumption ==
  /\ IsFiniteSet(Context) /\ IsFiniteSet(Observer)
  /\ Context \cap Observer = {}
  /\ ContextOf \in [Observer -> Context]
  /\ Buffer \in Nat /\ MaxEdits \in Nat /\ Routes \in Nat

Version == 0 .. MaxEdits
Memo == [kind : {"record", "index"}, version : Version \ {0}]

\* A thread with no memo in hand, and one that has panicked.
Idle == [kind |-> "idle", version |-> 0]
Dead == [kind |-> "dead", version |-> 0]

VARIABLES
  edits,     \* edits so far
  coming,    \* coming[m]: copies of memo m that are on their way
  thread,    \* thread[t]: the memo that t has stored, Idle or Dead
  poisoned,  \* the lock of SlabState
  list,      \* list[kind]: index_subscriptions and entity_subscriptions
  chan,      \* chan[x]: the heads in the channel of subscriber x
  at,        \* at[x]: "away", "found", "opened", "listed" or "gone"
  stash,     \* stash[c]: the head of the index in context c
  head,      \* head[o]: the head of the Entity that observer o has
  got,       \* got[x]: the heads that x took from its channel, in order
  due        \* due[x]: what subscriber x should have been told, in order

vars == <<edits, coming, thread, poisoned, list, chan, at, stash, head, got, due>>

Init ==
  /\ edits = 0
  /\ coming = [m \in Memo |-> 0]
  /\ thread = [t \in Thread |-> Idle]
  /\ poisoned = FALSE
  /\ list = [record |-> << >>, index |-> SetToSeq(Context)]
  /\ chan = [x \in Subscriber |-> << >>]
  /\ at = [x \in Subscriber |-> IF x \in Context THEN "listed" ELSE "away"]
  /\ stash = [c \in Context |-> 0]
  /\ head = [o \in Observer |-> 0]
  /\ got = [x \in Subscriber |-> << >>]
  /\ due = [x \in Subscriber |-> << >>]

Later(v, w) == IF v < w THEN w ELSE v

-----------------------------------------------------------------------------
(***************************************************************************)
(* Memos arrive.                                                           *)
(***************************************************************************)
\* Entity::set_value on the other slab, and what sends its memos here.
Edit ==
  /\ edits < MaxEdits
  /\ edits' = edits + 1
  /\ coming' = [m \in Memo |-> IF m.version = edits' THEN Routes ELSE coming[m]]
  /\ UNCHANGED <<thread, poisoned, list, chan, at, stash, head, got, due>>

\* SlabAgent::reconstitute_memo, up to notify_local_subscribers.
Receive(t, m) ==
  /\ thread[t] = Idle
  /\ coming[m] > 0
  /\ coming' = [coming EXCEPT ![m] = @ - 1]
  /\ thread' = [thread EXCEPT ![t] = IF poisoned THEN Dead ELSE m]
  /\ UNCHANGED <<edits, poisoned, list, chan, at, stash, head, got, due>>

Open(x) == at[x] \in {"opened", "listed"}

\* A sender has one place of its own besides the buffer.
Full(channel) == Len(channel) > Buffer

\* Vec::swap_remove.
SwapRemove(senders, i) == Front([senders EXCEPT ![i] = Last(senders)])

\* Faulty: any error is a reason to panic.
SendOrPanic(w, i, v) ==
  LET x == w.senders[i]
  IN  IF w.panic THEN w
      ELSE IF ~Open(x) \/ Full(w.chan[x]) THEN [w EXCEPT !.panic = TRUE]
      ELSE [w EXCEPT !.chan[x] = Append(@, v)]

\* try_send to the i-th sender, which is struck off if nobody listens.
Send(w, i, v) ==
  LET x == w.senders[i]
  IN  IF w.panic THEN w
      ELSE IF ~Open(x) THEN [w EXCEPT !.senders = SwapRemove(@, i)]
      ELSE IF Full(w.chan[x]) THEN [w EXCEPT !.panic = TRUE]
      ELSE [w EXCEPT !.chan[x] = Append(@, v)]

Untold(senders) == [senders |-> senders, chan |-> chan, panic |-> FALSE]

\* Faulty: senders that are struck off move others to where the loop has been.
TellForwards(senders, v) ==
  LET told[i \in 0 .. Len(senders)] ==
        IF i = 0 THEN Untold(senders)
        ELSE IF i > Len(told[i - 1].senders) THEN told[i - 1]
        ELSE Send(told[i - 1], i, v)
  IN  told[Len(senders)]

\* The loop goes from the last sender to the first.
Tell(senders, v) ==
  LET told[i \in 0 .. Len(senders)] ==
        IF i = 0 THEN Untold(senders)
        ELSE Send(told[i - 1], Len(senders) + 1 - i, v)
  IN  told[Len(senders)]

\* SlabAgent::notify_local_subscribers, all under the lock.
Notify(t) ==
  /\ thread[t] \in Memo
  /\ IF poisoned
     THEN /\ thread' = [thread EXCEPT ![t] = Dead]
          /\ UNCHANGED <<poisoned, list, chan, due>>
     ELSE \E m \in {thread[t]} : \E w \in {Tell(list[m.kind], m.version)} :
            /\ list' = [list EXCEPT ![m.kind] = w.senders]
            /\ chan' = w.chan
            /\ poisoned' = w.panic
            /\ thread' = [thread EXCEPT ![t] = IF w.panic THEN Dead ELSE Idle]
            /\ due' = [x \in Subscriber |->
                         IF at[x] = "listed" /\ (x \in Context <=> m.kind = "index")
                         THEN Append(due[x], m.version) ELSE due[x]]
  /\ UNCHANGED <<edits, coming, at, stash, head, got>>

-----------------------------------------------------------------------------
(***************************************************************************)
(* Those who are told.                                                     *)
(***************************************************************************)
\* The receiver is dropped, with what is in the channel.
Leave(x) ==
  /\ at' = [at EXCEPT ![x] = "gone"]
  /\ chan' = [chan EXCEPT ![x] = << >>]
  /\ got' = [got EXCEPT ![x] = << >>]
  /\ due' = [due EXCEPT ![x] = << >>]

\* The applier of Context::new.
Apply(c) ==
  /\ at[c] = "listed"
  /\ chan[c] # << >>
  /\ chan' = [chan EXCEPT ![c] = Tail(@)]
  /\ got' = [got EXCEPT ![c] = Append(@, Head(chan[c]))]
  /\ stash' = [stash EXCEPT ![c] = Later(@, Head(chan[c]))]
  /\ UNCHANGED <<edits, coming, thread, poisoned, list, at, head, due>>

\* Faulty: after an error the applier goes on with the next head.
ApplierFailsSilently(c) ==
  /\ at[c] = "listed"
  /\ chan[c] # << >>
  /\ chan' = [chan EXCEPT ![c] = Tail(@)]
  /\ got' = [got EXCEPT ![c] = Append(@, Head(chan[c]))]
  /\ UNCHANGED <<edits, coming, thread, poisoned, list, at, stash, head, due>>

\* An error ends the applier, and with it the channel.
ApplierFails(c) ==
  /\ at[c] = "listed"
  /\ chan[c] # << >>
  /\ Leave(c)
  /\ UNCHANGED <<edits, coming, thread, poisoned, list, stash, head>>

\* Context::get_entity_by_id.
Find(o) ==
  /\ at[o] = "away"
  /\ at' = [at EXCEPT ![o] = "found"]
  /\ head' = [head EXCEPT ![o] = stash[ContextOf[o]]]
  /\ UNCHANGED <<edits, coming, thread, poisoned, list, chan, stash, got, due>>

\* Entity::observe: the channel begins with the head the Entity has ...
OpenChannel(o) ==
  /\ at[o] = "found"
  /\ at' = [at EXCEPT ![o] = "opened"]
  /\ chan' = [chan EXCEPT ![o] = <<head[o]>>]
  /\ due' = [due EXCEPT ![o] = <<head[o]>>]
  /\ UNCHANGED <<edits, coming, thread, poisoned, list, stash, head, got>>

\* ... and SlabAgent::observe_entity, which takes the lock.
ObserveEntity(o) ==
  /\ at[o] = "opened"
  /\ IF poisoned
     THEN Leave(o) /\ UNCHANGED list
     ELSE /\ at' = [at EXCEPT ![o] = "listed"]
          /\ list' = [list EXCEPT !.record = Append(@, o)]
          /\ UNCHANGED <<chan, got, due>>
  /\ UNCHANGED <<edits, coming, thread, poisoned, stash, head>>

\* The loop of an observer takes a head.
Take(o) ==
  /\ at[o] = "listed"
  /\ chan[o] # << >>
  /\ chan' = [chan EXCEPT ![o] = Tail(@)]
  /\ got' = [got EXCEPT ![o] = Append(@, Head(chan[o]))]
  /\ UNCHANGED <<edits, coming, thread, poisoned, list, at, stash, head, due>>

\* The receiver, or the context, is dropped.
Stop(x) ==
  /\ at[x] = "listed"
  /\ Leave(x)
  /\ UNCHANGED <<edits, coming, thread, poisoned, list, stash, head>>

-----------------------------------------------------------------------------
Next ==
  \/ Edit
  \/ \E t \in Thread, m \in Memo : Receive(t, m)
  \/ \E t \in Thread : Notify(t)
  \/ \E c \in Context : Apply(c) \/ ApplierFails(c)
  \/ \E o \in Observer : Find(o) \/ OpenChannel(o) \/ ObserveEntity(o) \/ Take(o)
  \/ \E x \in Subscriber : Stop(x)

Spec == Init /\ [][Next]_vars

\* Threads, appliers and observers go on when they can; nothing has to arrive,
\* to fail or to be dropped.
FairSpec ==
  /\ Spec
  /\ \A t \in Thread : WF_vars(Notify(t))
  /\ \A c \in Context : WF_vars(Apply(c))
  /\ \A o \in Observer : WF_vars(Take(o))

-----------------------------------------------------------------------------
TypeOK ==
  /\ edits \in Version
  /\ coming \in [Memo -> 0 .. Routes]
  /\ thread \in [Thread -> {Idle, Dead} \cup Memo]
  /\ poisoned \in BOOLEAN
  /\ \A x \in Subscriber : Len(chan[x]) <= Buffer + 1
  /\ at \in [Subscriber -> {"away", "found", "opened", "listed", "gone"}]
  /\ stash \in [Context -> Version] /\ head \in [Observer -> Version]
  /\ \A kind \in {"record", "index"} :
       /\ IsInjective(list[kind])
       /\ ToSet(list[kind]) \subseteq (IF kind = "index" THEN Context ELSE Observer)

(***************************************************************************)
(* Whoever subscribes is told of every memo that concerns it from then on, *)
(* once for each arrival and in the order of notification, whoever comes   *)
(* and goes meanwhile: the loops that strike senders off while they go     *)
(* through them pass over nobody (notify_local_subscribers).               *)
(***************************************************************************)
EveryoneIsToldOnce ==
  ~poisoned => \A x \in Subscriber :
                 at[x] = "listed" => got[x] \o chan[x] = due[x]

(***************************************************************************)
(* What stops a slab for good is a subscriber that falls behind by a whole *)
(* channel, never one that has left (notify_local_subscribers).            *)
(***************************************************************************)
OnlyTheSlowStopIt ==
  [][~poisoned /\ poisoned'
       => \E x \in Subscriber : at[x] = "listed" /\ Len(chan[x]) = Buffer + 1]_vars

(***************************************************************************)
(* In the end a context has applied whatever its slab was told of the      *)
(* index, and an observer has taken whatever its slab was told of the      *)
(* record, unless it left or the slab has stopped (Context::new).          *)
(***************************************************************************)
Informed(x) ==
  \A v \in ToSet(due[x]) :
    IF x \in Context THEN v <= stash[x] ELSE v \in ToSet(got[x])

EveryoneLearns ==
  []<>(\A x \in Subscriber : at[x] = "listed" => Informed(x) \/ poisoned)
=============================================================================
