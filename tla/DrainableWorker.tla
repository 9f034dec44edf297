--------------------------- MODULE DrainableWorker ---------------------------
(***************************************************************************)
(* The queue-backed worker behind ProviderRuntimeIngestion,                *)
(* ProviderCommandReactor and CheckpointReactor                            *)
(* (packages/shared/src/DrainableWorker.ts).  Producers enqueue items from *)
(* their own fibers, one worker fiber processes them in order, and drain() *)
(* waits for a deferred that is completed when nothing is outstanding.     *)
(*                                                                         *)
(* enqueue is two steps, Ref.update and Queue.offer, and finishOne is two  *)
(* steps, Ref.modify and Deferred.succeed; any other fiber may run between *)
(* them.  A deferred is represented by a generation number.                *)
(***************************************************************************)
EXTENDS Naturals, Sequences, FiniteSets

CONSTANTS
    Items,      \* the work items, each enqueued at most once
    Drainers,   \* the fibers that call drain
    Faults      \* subset of {"fail", "stop"}: process may fail, the scope may close

ASSUME FaultsAssumption == Faults \subseteq {"fail", "stop"}
ASSUME ItemsAssumption == IsFiniteSet(Items)

VARIABLES
    stage,        \* stage[i]: how far item i has come
    queue,        \* Queue.unbounded: the items offered and not yet taken
    open,         \* FALSE once Queue.shutdown has run
    alive,        \* FALSE once the forked worker fiber has ended
    busy,         \* the set of items the worker fiber holds (at most one)
    outstanding,  \* state.outstanding
    idle,         \* state.idle
    completed,    \* the deferreds that have been completed
    wake,         \* wake[i]: the deferreds finishOne completes for i, one or none
    drainer       \* drainer[d]: a drain call in progress

vars == <<stage, queue, open, alive, busy, outstanding, idle, completed, wake, drainer>>

Stages == {"new", "counted", "queued", "lost", "running", "processed", "refused",
           "settling", "done"}

\* Counted by Ref.update and not yet uncounted by finishOne.
Pending == {i \in Items : stage[i] \in {"counted", "queued", "lost", "running",
                                        "processed", "refused"}}
Settled == {i \in Items : stage[i] \in {"settling", "done"}}

Init ==
    /\ stage = [i \in Items |-> "new"]
    /\ queue = <<>>
    /\ open = TRUE
    /\ alive = TRUE
    /\ busy = {}
    /\ outstanding = 0
    /\ idle = 0
    /\ completed = {0}              \* initialIdle is created completed
    /\ wake = [i \in Items |-> {}]
    /\ drainer = [d \in Drainers |-> [pc |-> "out", gen |-> 0, seen |-> {}]]

(***************************************************************************)
(* enqueue: a fresh deferred becomes state.idle only when nothing was      *)
(* outstanding; then the item is offered.                                  *)
(***************************************************************************)
\* mutant: every enqueue installs its own deferred
CountItemAlwaysFresh(i) ==
    /\ stage[i] = "new"
    /\ stage' = [stage EXCEPT ![i] = "counted"]
    /\ outstanding' = outstanding + 1
    /\ idle' = idle + 1
    /\ UNCHANGED <<queue, open, alive, busy, completed, wake, drainer>>

CountItem(i) ==
    /\ stage[i] = "new"
    /\ stage' = [stage EXCEPT ![i] = "counted"]
    /\ outstanding' = outstanding + 1
    /\ idle' = IF outstanding = 0 THEN idle + 1 ELSE idle
    /\ UNCHANGED <<queue, open, alive, busy, completed, wake, drainer>>

\* mutant: a refused offer is forgotten without finishOne
OfferItemForgetsRefusal(i) ==
    /\ stage[i] = "counted"
    /\ queue' = IF open THEN Append(queue, i) ELSE queue
    /\ stage' = [stage EXCEPT ![i] = IF open THEN "queued" ELSE "done"]
    /\ UNCHANGED <<open, alive, busy, outstanding, idle, completed, wake, drainer>>

OfferItem(i) ==
    /\ stage[i] = "counted"
    /\ IF open
       THEN /\ queue' = Append(queue, i)
            /\ stage' = [stage EXCEPT ![i] = "queued"]
       ELSE /\ stage' = [stage EXCEPT ![i] = "refused"]
            /\ UNCHANGED queue
    /\ UNCHANGED <<open, alive, busy, outstanding, idle, completed, wake, drainer>>

(***************************************************************************)
(* The worker loop: take, process, and finishOne as its finalizer.  When   *)
(* process fails the loop ends with it.                                    *)
(***************************************************************************)
Take ==
    /\ alive /\ busy = {} /\ queue # <<>>
    /\ busy' = {Head(queue)}
    /\ queue' = Tail(queue)
    /\ stage' = [stage EXCEPT ![Head(queue)] = "running"]
    /\ UNCHANGED <<open, alive, outstanding, idle, completed, wake, drainer>>

Process(i) ==
    /\ stage[i] = "running"
    /\ stage' = [stage EXCEPT ![i] = "processed"]
    /\ \/ UNCHANGED alive
       \/ "fail" \in Faults /\ alive' = FALSE
    /\ UNCHANGED <<queue, open, busy, outstanding, idle, completed, wake, drainer>>

(***************************************************************************)
(* finishOne runs in the worker fiber for a processed item and in the      *)
(* producer's fiber for an item whose offer was refused.                   *)
(***************************************************************************)
\* mutant: finishOne counts the item twice and drops the clamp
FinishModifyTwice(i) ==
    /\ stage[i] \in {"processed", "refused"}
    /\ stage' = [stage EXCEPT ![i] = "settling"]
    /\ outstanding' = outstanding - 2
    /\ wake' = [wake EXCEPT ![i] = IF outstanding <= 2 THEN {idle} ELSE {}]
    /\ UNCHANGED <<queue, open, alive, busy, idle, completed, drainer>>

\* mutant: the deferred is completed one item too early
FinishModifyTooEarly(i) ==
    LET remaining == IF outstanding = 0 THEN 0 ELSE outstanding - 1 IN
    /\ stage[i] \in {"processed", "refused"}
    /\ stage' = [stage EXCEPT ![i] = "settling"]
    /\ outstanding' = remaining
    /\ wake' = [wake EXCEPT ![i] = IF remaining <= 1 THEN {idle} ELSE {}]
    /\ UNCHANGED <<queue, open, alive, busy, idle, completed, drainer>>

FinishModify(i) ==
    LET remaining == IF outstanding = 0 THEN 0 ELSE outstanding - 1 IN
    /\ stage[i] \in {"processed", "refused"}
    /\ stage' = [stage EXCEPT ![i] = "settling"]
    /\ outstanding' = remaining
    /\ wake' = [wake EXCEPT ![i] = IF remaining = 0 THEN {idle} ELSE {}]
    /\ UNCHANGED <<queue, open, alive, busy, idle, completed, drainer>>

FinishSignal(i) ==
    /\ stage[i] = "settling"
    /\ stage' = [stage EXCEPT ![i] = "done"]
    /\ completed' = completed \cup wake[i]
    /\ busy' = busy \ {i}
    /\ UNCHANGED <<queue, open, alive, outstanding, idle, wake, drainer>>

(***************************************************************************)
(* Closing the scope interrupts the worker, whose finalizer still runs,    *)
(* and then shuts the queue down; the items left in it are dropped.        *)
(***************************************************************************)
StopWorker ==
    /\ "stop" \in Faults /\ alive
    /\ alive' = FALSE
    /\ stage' = [i \in Items |-> IF stage[i] = "running" THEN "processed" ELSE stage[i]]
    /\ UNCHANGED <<queue, open, busy, outstanding, idle, completed, wake, drainer>>

ShutdownQueue ==
    /\ "stop" \in Faults /\ ~alive /\ busy = {} /\ open
    /\ open' = FALSE
    /\ queue' = <<>>
    /\ stage' = [i \in Items |-> IF stage[i] = "queued" THEN "lost" ELSE stage[i]]
    /\ UNCHANGED <<alive, busy, outstanding, idle, completed, wake, drainer>>

(***************************************************************************)
(* drain reads the current deferred once and waits for it.  "seen" records *)
(* the items enqueued before the call, for DrainCoversEarlierItems.        *)
(***************************************************************************)
DrainStart(d) ==
    /\ drainer[d].pc = "out"
    /\ drainer' = [drainer EXCEPT ![d] =
                     [pc |-> "waiting", gen |-> idle,
                      seen |-> {i \in Items : stage[i] # "new"}]]
    /\ UNCHANGED <<stage, queue, open, alive, busy, outstanding, idle, completed, wake>>

DrainReturn(d) ==
    /\ drainer[d].pc = "waiting"
    /\ drainer[d].gen \in completed
    /\ drainer' = [drainer EXCEPT ![d].pc = "returned"]
    /\ UNCHANGED <<stage, queue, open, alive, busy, outstanding, idle, completed, wake>>

-----------------------------------------------------------------------------
Worker == Take \/ \E i \in Items : Process(i) \/ FinishModify(i) \/ FinishSignal(i)

Next ==
    \/ \E i \in Items : CountItem(i) \/ OfferItem(i)
    \/ Worker
    \/ StopWorker \/ ShutdownQueue
    \/ \E d \in Drainers : DrainStart(d) \/ DrainReturn(d)

Spec == Init /\ [][Next]_vars

\* The runtime keeps running every fiber that can run: the worker, a producer
\* inside enqueue and a waiting drain.  Nobody has to enqueue, drain or stop.
Fairness ==
    /\ WF_vars(Worker)
    /\ \A i \in Items : WF_vars(OfferItem(i))
    /\ \A d \in Drainers : WF_vars(DrainReturn(d))

FairSpec == Spec /\ Fairness

-----------------------------------------------------------------------------
TypeOK ==
    /\ stage \in [Items -> Stages]
    /\ queue \in Seq(Items)
    /\ open \in BOOLEAN
    /\ alive \in BOOLEAN
    /\ busy \in SUBSET Items
    /\ outstanding \in Nat
    /\ idle \in Nat
    /\ completed \in SUBSET Nat
    /\ wake \in [Items -> SUBSET Nat]
    /\ drainer \in [Drainers -> [pc : {"out", "waiting", "returned"},
                                 gen : Nat, seen : SUBSET Items]]

\* drain's promise: it returns only when every item whose enqueue had been
\* counted before the call has been through process (or was refused), even if
\* other producers were between Ref.update and Queue.offer at the time.
DrainCoversEarlierItems ==
    \A d \in Drainers : drainer[d].pc = "returned" => drainer[d].seen \subseteq Settled

\* The counter behind drain is exact at every interleaving of the two halves
\* of enqueue and finishOne: it never misses a counted item and the
\* Math.max(0, ...) clamp never hides a double finish.
CounterIsExact == outstanding = Cardinality(Pending)

\* A waiting drain returns, unless the worker has died or been stopped: the
\* deferred it read is never replaced before it is completed.
DrainReturns ==
    \A d \in Drainers : drainer[d].pc = "waiting" ~> (drainer[d].pc = "returned" \/ ~alive)

=============================================================================
