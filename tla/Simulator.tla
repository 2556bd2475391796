----------------------------- MODULE Simulator ------------------------------
(***************************************************************************)
(* The simulated network (util/simulator.rs): events travel through a      *)
(* queue ordered by arrival time, a background runner delivers all events  *)
(* of one instant at a time, and callers start the runner, wait for        *)
(* quiescence, or wait and stop the runner.                                *)
(*                                                                         *)
(* Two mutexes: every access to the shared internals is one step here; the *)
(* mutex of the runner's handle is held by quiesce_and_stop for as long as *)
(* it waits, and excludes the other callers of start and quiesce_and_stop. *)
(* Only the arrival time of an event matters, so the queue holds times.    *)
(***************************************************************************)
EXTENDS Naturals, Sequences, FiniteSets, SequencesExt

CONSTANTS
  Caller,       \* the tasks that start, quiesce and stop the simulator
  None,         \* nobody
  MaxDistance,  \* bound on the distance an event travels
  MaxSent,      \* bound on the events added
  MaxStarts     \* bound on the runners started

ASSUME BoundAssumption ==
  /\ MaxDistance \in Nat
  /\ MaxSent \in Nat
  /\ MaxStarts \in Nat
  /\ None \notin Caller

VARIABLES
  clock, queue, woke, sent, delivered,  \* as in SimulatorInternal
  waker,    \* the runner whose waker is registered, 0 if none is
  runner,   \* the runner whose handle exists, 0 if none does
  holder,   \* the caller that took the handle, and holds its mutex, or None
  state,    \* state[r]: what runner r is doing
  batch,    \* batch[r]: how many events it is delivering
  pc        \* pc[c]: where caller c is

vars == <<clock, queue, woke, sent, delivered, waker, runner, holder, state,
          batch, pc>>

Runner == 1 .. MaxStarts

\* The events of all batches, numbered within each.
Batched(sizes) == {e \in Runner \X (1 .. MaxSent) : e[2] <= sizes[e[1]]}

InFlight == Cardinality(Batched(batch))

FullyDelivered == sent = delivered

Init ==
  /\ clock = 0
  /\ queue = << >>
  /\ woke = FALSE
  /\ sent = 0
  /\ delivered = 0
  /\ waker = 0
  /\ runner = 0
  /\ holder = None
  /\ state = [r \in Runner |-> "new"]
  /\ batch = [r \in Runner |-> 0]
  /\ pc = [c \in Caller |-> "idle"]

-----------------------------------------------------------------------------
(***************************************************************************)
(* Where a binary search may insert an arrival: among events of the same   *)
(* instant any place will do.                                              *)
(***************************************************************************)
Places(at) ==
  {i \in 1 .. Len(queue) + 1 :
     \A j \in DOMAIN queue : IF j < i THEN queue[j] <= at ELSE at <= queue[j]}

\* Faulty: an event between two points at the same place takes no time.
ArrivalSameTick(distance) == clock + distance

\* Nothing is observed in the tick it was sent.
Arrival(distance) == clock + (IF distance = 0 THEN 1 ELSE distance)

\* add_event: any task, and the delivery of another event, may call it.
AddEvent(distance) ==
  /\ sent < MaxSent
  /\ \E i \in Places(Arrival(distance)) :
       queue' = InsertAt(queue, i, Arrival(distance))
  /\ sent' = sent + 1
  /\ LET wakes == waker # 0 /\ ~woke
     IN  /\ woke' = (woke \/ wakes)
         /\ state' = IF wakes /\ state[waker] = "parked"
                     THEN [state EXCEPT ![waker] = "woken"] ELSE state
  /\ UNCHANGED <<clock, delivered, waker, runner, holder, batch, pc>>

-----------------------------------------------------------------------------
(***************************************************************************)
(* A runner sleeps ("delay"), finds the queue empty and waits to be woken  *)
(* ("parked", then "woken"), or delivers a batch ("deliver").  It is       *)
(* cancelled when its handle is dropped, which takes effect at its next    *)
(* poll: a batch being delivered is finished first.                        *)
(***************************************************************************)
Pollable(r) == state[r] \in {"delay", "woken"} /\ runner = r

\* partition: the first n events of the queue are those that are due.
Due(n) ==
  \A i \in DOMAIN queue : i <= n <=> queue[i] <= queue[1]

\* poll_next when there are events: take those of the next instant.
Fetch(r) ==
  /\ Pollable(r)
  /\ queue # << >>
  /\ clock' = queue[1]
  /\ \E n \in DOMAIN queue :
       /\ Due(n)
       /\ batch' = [batch EXCEPT ![r] = n]
       /\ queue' = SubSeq(queue, n + 1, Len(queue))
  /\ woke' = FALSE
  /\ state' = [state EXCEPT ![r] = "deliver"]
  /\ UNCHANGED <<sent, delivered, waker, runner, holder, pc>>

\* Faulty: the waker is not registered.
ParkUnregistered(r) ==
  /\ Pollable(r)
  /\ queue = << >>
  /\ woke' = FALSE
  /\ state' = [state EXCEPT ![r] = "parked"]
  /\ UNCHANGED <<clock, queue, sent, delivered, waker, runner, holder, batch,
                 pc>>

\* poll_next when there are none: only the first waker is ever registered.
Park(r) ==
  /\ Pollable(r)
  /\ queue = << >>
  /\ woke' = FALSE
  /\ waker' = IF waker = 0 THEN r ELSE waker
  /\ state' = [state EXCEPT ![r] = "parked"]
  /\ UNCHANGED <<clock, queue, sent, delivered, runner, holder, batch, pc>>

\* Faulty: the callers are released before the batch counts as delivered.
DeliverEarlyRelease(r) ==
  /\ state[r] = "deliver"
  /\ delivered' = delivered + batch[r]
  /\ batch' = [batch EXCEPT ![r] = 0]
  /\ state' = [state EXCEPT ![r] = "delay"]
  /\ pc' = [c \in Caller |-> IF pc[c] = "waiting" THEN "released" ELSE pc[c]]
  /\ UNCHANGED <<clock, queue, woke, sent, waker, runner, holder>>

\* Faulty: one event of a batch is counted.
DeliverOne(r) ==
  /\ state[r] = "deliver"
  /\ delivered' = delivered + 1
  /\ batch' = [batch EXCEPT ![r] = 0]
  /\ state' = [state EXCEPT ![r] = "delay"]
  /\ pc' = [c \in Caller |-> IF pc[c] = "waiting" /\ sent = delivered'
                             THEN "released" ELSE pc[c]]
  /\ UNCHANGED <<clock, queue, woke, sent, waker, runner, holder>>

(***************************************************************************)
(* The batch has been delivered and is counted; if that makes everything   *)
(* delivered, the quiescence monitors, which are the callers that wait,    *)
(* are told.                                                               *)
(***************************************************************************)
Deliver(r) ==
  /\ state[r] = "deliver"
  /\ delivered' = delivered + batch[r]
  /\ batch' = [batch EXCEPT ![r] = 0]
  /\ state' = [state EXCEPT ![r] = "delay"]
  /\ pc' = [c \in Caller |-> IF pc[c] = "waiting" /\ sent = delivered'
                             THEN "released" ELSE pc[c]]
  /\ UNCHANGED <<clock, queue, woke, sent, waker, runner, holder>>

\* The remote half of a handle that was dropped ends instead of polling.
Exit(r) ==
  /\ state[r] \in {"delay", "parked", "woken"}
  /\ runner # r
  /\ state' = [state EXCEPT ![r] = "gone"]
  /\ UNCHANGED <<clock, queue, woke, sent, delivered, waker, runner, holder,
                 batch, pc>>

-----------------------------------------------------------------------------
\* start returns true: there was no handle, and a runner is spawned.
Start(r) ==
  /\ holder = None
  /\ runner = 0
  /\ state[r] = "new"
  /\ \A q \in Runner : q < r => state[q] # "new"
  /\ runner' = r
  /\ state' = [state EXCEPT ![r] = "delay"]
  /\ UNCHANGED <<clock, queue, woke, sent, delivered, waker, holder, batch, pc>>

\* quiesce is called, and sleeps first.
Quiesce(c) ==
  /\ pc[c] = "idle"
  /\ pc' = [pc EXCEPT ![c] = "sleeping"]
  /\ UNCHANGED <<clock, queue, woke, sent, delivered, waker, runner, holder,
                 state, batch>>

\* quiesce_and_stop finds a handle, takes it and quiesces.
QuiesceAndStop(c) ==
  /\ pc[c] = "idle"
  /\ holder = None
  /\ runner # 0
  /\ holder' = c
  /\ pc' = [pc EXCEPT ![c] = "sleeping"]
  /\ UNCHANGED <<clock, queue, woke, sent, delivered, waker, runner, state,
                 batch>>

\* quiesce looks, and returns or registers a monitor.
CheckQuiescence(c) ==
  /\ pc[c] = "sleeping"
  /\ pc' = [pc EXCEPT ![c] = IF FullyDelivered THEN "released" ELSE "waiting"]
  /\ UNCHANGED <<clock, queue, woke, sent, delivered, waker, runner, holder,
                 state, batch>>

\* The call returns; quiesce_and_stop drops the handle, then its mutex.
Return(c) ==
  /\ pc[c] = "released"
  /\ pc' = [pc EXCEPT ![c] = "idle"]
  /\ runner' = IF holder = c THEN 0 ELSE runner
  /\ holder' = IF holder = c THEN None ELSE holder
  /\ UNCHANGED <<clock, queue, woke, sent, delivered, waker, state, batch>>

RunnerStep(r) == Fetch(r) \/ Park(r) \/ Deliver(r) \/ Exit(r)

CallerStep(c) == CheckQuiescence(c) \/ Return(c)

Next ==
  \/ \E distance \in 0 .. MaxDistance : AddEvent(distance)
  \/ \E r \in Runner : RunnerStep(r) \/ Start(r)
  \/ \E c \in Caller : CallerStep(c) \/ Quiesce(c) \/ QuiesceAndStop(c)

Spec == Init /\ [][Next]_vars

FairSpec ==
  /\ Spec
  /\ \A r \in Runner : WF_vars(RunnerStep(r))
  /\ \A c \in Caller : WF_vars(CallerStep(c))

-----------------------------------------------------------------------------
TypeOK ==
  /\ clock \in Nat
  /\ queue \in Seq(Nat)
  /\ woke \in BOOLEAN
  /\ sent \in 0 .. MaxSent
  /\ delivered \in 0 .. sent
  /\ waker \in 0 .. MaxStarts
  /\ runner \in 0 .. MaxStarts
  /\ holder \in Caller \cup {None}
  /\ state \in [Runner -> {"new", "delay", "parked", "woken", "deliver",
                          "gone"}]
  /\ batch \in [Runner -> 0 .. MaxSent]
  /\ pc \in [Caller -> {"idle", "sleeping", "waiting", "released"}]

(***************************************************************************)
(* The queue is in order of arrival and holds nothing that is due: no      *)
(* event is delivered late, an instant is delivered whole, and time never  *)
(* goes back (add_event and advance_and_fetch).                            *)
(***************************************************************************)
EventsAhead ==
  /\ \A i, j \in DOMAIN queue : i < j => queue[i] <= queue[j]
  /\ \A i \in DOMAIN queue : clock < queue[i]

(***************************************************************************)
(* Every event that was sent is waiting, being delivered or delivered,     *)
(* and counted once, whatever runners were started and cancelled: what     *)
(* is_fully_delivered relies on.                                           *)
(***************************************************************************)
NothingLost == sent = delivered + InFlight + Len(queue)

(***************************************************************************)
(* "Quiescence does not complete until all events are delivered"           *)
(* (util/simulator.rs:502): when a caller is released, by the check it     *)
(* makes itself or by the runner, no event waits or is being delivered.    *)
(***************************************************************************)
QuiescenceIsComplete ==
  [][\A c \in Caller :
       pc[c] # "released" /\ pc'[c] = "released"
         => queue' = << >> /\ \A r \in Runner : batch'[r] = 0]_vars

(***************************************************************************)
(* "simulator.quiesce().await" (tests/eventual_consistency.rs:111-112):    *)
(* who waits for quiescence is released, as long as a runner keeps running *)
(* and finitely many events are added (MaxSent).  The code does not        *)
(* guarantee it of a runner started after another: see QuiesceReturns.     *)
(***************************************************************************)
AnyRunnerReleases ==
  <>[](runner # 0) => \A c \in Caller : pc[c] = "waiting" ~> pc[c] = "idle"

(***************************************************************************)
(* Who waits for quiescence is released, as long as the runner that was    *)
(* started first keeps running: it is never asleep while there is          *)
(* something to deliver, and the last batch wakes every caller             *)
(* (add_event, TickStream::poll_next, quiesce).                            *)
(***************************************************************************)
QuiesceReturns ==
  <>[](runner = 1) => \A c \in Caller : pc[c] = "waiting" ~> pc[c] = "idle"
=============================================================================
