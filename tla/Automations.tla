----------------------------- MODULE Automations -----------------------------
(***************************************************************************)
(* One heartbeat automation with an AI stop condition on one thread.       *)
(*                                                                         *)
(* Five fibers of the server read and write its definition and its runs    *)
(* one SQL statement at a time: the scheduler's pass, a "run now" request, *)
(* the reactor that follows the thread's events, an edit, and a cancel or  *)
(* delete.  Workers ask a model whether a finished run met the stop        *)
(* condition.  Each statement is an action; what a fiber has read it       *)
(* carries along, however old it is by the time it is used.                *)
(*                                                                         *)
(* A run is a number in the order of creation, a slot one occurrence of    *)
(* the schedule; 0 is "none".  The automation coalesces missed slots (the  *)
(* default) and the only server instance holds the scheduler's lease.      *)
(***************************************************************************)
EXTENDS Naturals, Sequences, FiniteSets, SequencesExt, FiniteSetsExt

CONSTANTS
    N,              \* runs
    MaxSlots,       \* occurrences of the schedule
    Caps,           \* the values maxIterations may have, 0 for no cap
    StopOnError,    \* stopOnError
    Workers,        \* the fibers that evaluate stop conditions
    MaxDisturbances \* edits, cancels, deletes, user messages, failing calls, crashes

ASSUME AutomationsAssumption ==
    /\ N \in Nat /\ MaxSlots \in Nat
    /\ Caps \subseteq Nat /\ StopOnError \in BOOLEAN
    /\ MaxDisturbances \in Nat

VARIABLES
    definition,  \* the row of the automation
    run,         \* the rows of its runs
    created,     \* how many there are
    skipped,     \* the slots recorded as skipped
    turn,        \* the turn of each run, as the thread's rows show it
    userTurn,    \* a turn of the user's own on the thread
    fiber,       \* where each fiber is and what it has read
    jobs,        \* completionEvaluationQueue
    queued,      \* queuedCompletionEvaluationRunIds
    worker,      \* the evaluation each worker is in the middle of
    saves,       \* edits the user has saved
    stopped,     \* a stop check has disabled the automation
    rewound,     \* updated_at is one that a launch wrote before the last write
    stranded,    \* runs that a failing call left pending, with no fiber to go on
    disturbances

vars == <<definition, run, created, skipped, turn, userTurn, fiber, jobs, queued,
          worker, saves, stopped, rewound, stranded, disturbances>>
rowVars == <<definition, run, created, skipped>>
threadVars == <<turn, userTurn>>
checkVars == <<jobs, queued, worker>>
stampVars == <<saves, stopped, rewound>>
historyVars == <<stampVars, stranded, disturbances>>

Runs == 1..N
Slots == 1..MaxSlots
Launchers == {"pass", "now"}
Fibers == Launchers \cup {"reactor", "edit", "cancel"}
Active == {"pending", "running"}
Terminal == {"succeeded", "failed", "cancelled", "interrupted"}
Ended == {"completed", "error", "interrupted"}
NoRow == {"none", "queued", "lost"}

NoDefinition == [enabled |-> FALSE, archived |-> TRUE, policy |-> 0, max |-> 0,
                 count |-> 0, next |-> 0, stamp |-> 0]
NoRun == [status |-> "none", policy |-> 0, slot |-> 0, evaluated |-> FALSE]
Idle == [pc |-> "idle", stage |-> "none", run |-> 0, note |-> "none", now |-> 0,
         def |-> NoDefinition]
NoJob == [run |-> 0, stamp |-> 0, saves |-> 0]
Resting == [pc |-> "idle", job |-> NoJob]

ActiveRuns == {r \in Runs : run[r].status \in Active}
Recorded == skipped \cup {run[r].slot : r \in 1..created}

\* automation_pending_completion_evaluations
PendingChecks ==
    {r \in Runs : /\ run[r].status = "succeeded" /\ ~run[r].evaluated
                  /\ definition.enabled /\ ~definition.archived
                  /\ run[r].policy = definition.policy}

\* updated_at is compared for equality only: a moment no one has yet written.
Now == CHOOSE n \in 1..(N + 8) :
          /\ n # definition.stamp
          /\ \A f \in Fibers : n # fiber[f].now
          /\ \A i \in DOMAIN jobs : n # jobs[i].stamp
          /\ \A w \in Workers : n # worker[w].job.stamp

NextSlot(s) == IF s < MaxSlots THEN s + 1 ELSE 0
FutureSlot == LET later == {s \in Slots : \A t \in Recorded : s > t}
              IN IF later = {} THEN 0 ELSE Min(later)

Capped(d) == d.max # 0 /\ d.count >= d.max

Init ==
    /\ \E cap \in Caps :
          definition = [enabled |-> TRUE, archived |-> FALSE, policy |-> 1, max |-> cap,
                        count |-> 0, next |-> NextSlot(0), stamp |-> 1]
    /\ run = [r \in Runs |-> NoRun] /\ created = 0 /\ skipped = {}
    /\ turn = [r \in Runs |-> "none"] /\ userTurn = "none"
    /\ fiber = [f \in Fibers |-> Idle]
    /\ jobs = <<>> /\ queued = {} /\ worker = [w \in Workers |-> Resting]
    /\ saves = 0 /\ stopped = FALSE /\ rewound = FALSE /\ stranded = {}
    /\ disturbances = 0

Disturb == /\ disturbances < MaxDisturbances
           /\ disturbances' = disturbances + 1

\* A row as read by a fiber that will not look at its updated_at again.
Snapshot == [definition EXCEPT !.stamp = 0]

At(f, pc) == fiber[f].pc = pc
Goto(f, pc) == fiber' = [fiber EXCEPT ![f].pc = pc]
Rest(f) == fiber' = [fiber EXCEPT ![f] = Idle]

\* A pass and a recovery go on to the stop checks that are still owed.
Done(f) == IF fiber[f].stage = "reconcile"
           THEN fiber' = [fiber EXCEPT ![f] = [Idle EXCEPT !.pc = "requeue"]]
           ELSE Rest(f)

\* UPDATE ... WHERE status NOT IN (the terminal ones)
Settle(r, status) == IF run[r].status \in Terminal THEN run
                     ELSE [run EXCEPT ![r].status = status]

-----------------------------------------------------------------------------
(* The thread.                                                             *)

Busy == userTurn = "running" \/ \E r \in Runs : turn[r] = "running"

\* thread.turn-start-requested keeps one pending row per thread.
Requested(r) == [q \in Runs |-> IF q = r THEN "requested"
                                ELSE IF turn[q] \in {"requested", "stale"} THEN "lost"
                                ELSE turn[q]]

UserSends ==
    /\ Disturb
    /\ userTurn = "none" /\ ~Busy
    /\ userTurn' = "running"
    /\ turn' = Requested(0)
    /\ UNCHANGED <<rowVars, fiber, checkVars, stampVars, stranded>>

UserTurnEnds ==
    /\ userTurn = "running"
    /\ userTurn' = "ended"
    /\ UNCHANGED <<rowVars, turn, fiber, checkVars, historyVars>>

QueuedIsSent(r) ==
    /\ turn[r] = "queued" /\ ~Busy
    /\ turn' = Requested(r)
    /\ UNCHANGED <<rowVars, userTurn, fiber, checkVars, historyVars>>

TurnStarts(r) ==
    /\ turn[r] = "requested" /\ ~Busy
    /\ turn' = [turn EXCEPT ![r] = "running"]
    /\ UNCHANGED <<rowVars, userTurn, fiber, checkVars, historyVars>>

\* Timing: a turn waits for a provider, a launch from its look at the runs to its
\* count only for its own statements; no turn of a run ends in between.
Looking == \E f \in Launchers : fiber[f].pc \in {"pending", "restart", "create", "skip",
                                                "advance", "count"}

TurnEnds(r) ==
    /\ turn[r] = "running" /\ ~Looking
    /\ \E outcome \in {"completed", "error"} : turn' = [turn EXCEPT ![r] = outcome]
    /\ UNCHANGED <<rowVars, userTurn, fiber, checkVars, historyVars>>

\* thread.turn.interrupt without a turn: whatever the thread is running.
Interrupt ==
    /\ turn' = [r \in Runs |-> IF turn[r] = "running" THEN "interrupted" ELSE turn[r]]
    /\ userTurn' = IF userTurn = "running" THEN "interrupted" ELSE userTurn

-----------------------------------------------------------------------------
(* Stop checks.                                                            *)

\* enqueueCompletionEvaluationJob: a run is queued once at a time.
Enqueue(rs, present) ==
    LET new == rs \ present
        job(r) == [run |-> r, stamp |-> definition.stamp, saves |-> saves]
    IN /\ jobs' = jobs \o SetToSeq({job(r) : r \in new})
       /\ queued' = present \cup new

TakeJob(w) ==
    /\ worker[w].pc = "idle" /\ jobs # <<>>
    /\ worker' = [worker EXCEPT ![w] = [pc |-> "asking", job |-> Head(jobs)]]
    /\ jobs' = Tail(jobs)
    /\ UNCHANGED <<rowVars, threadVars, fiber, queued, historyVars>>

\* loadCurrentStopDefinition
StillCurrent(job) ==
    /\ definition.stamp = job.stamp
    /\ definition.enabled /\ ~definition.archived
    /\ definition.policy = run[job.run].policy

\* The model's answer; an error or a timeout counts as no match.  Timing: it takes
\* longer than a fiber that has begun to settle the run needs to finish.
Answer(w) ==
    /\ worker[w].pc = "asking"
    /\ \A f \in Fibers : fiber[f].pc \in {"mark", "stop"} => fiber[f].run # worker[w].job.run
    /\ \E matched \in BOOLEAN :
          worker' = [worker EXCEPT ![w].pc =
             IF matched /\ StillCurrent(worker[w].job) THEN "disable" ELSE "record"]
    /\ UNCHANGED <<rowVars, threadVars, fiber, jobs, queued, historyVars>>

\* disableDefinitionIfUnchanged
\* mutant: the definition is only required to be live
UnchangedIfLive(job) == definition.enabled /\ ~definition.archived
Unchanged(job) == /\ definition.enabled /\ ~definition.archived
                  /\ definition.stamp = job.stamp

DisableOnMatch(w) ==
    /\ worker[w].pc = "disable"
    /\ worker' = [worker EXCEPT ![w].pc = "record"]
    /\ IF Unchanged(worker[w].job)
       THEN /\ definition' = [definition EXCEPT !.enabled = FALSE, !.next = 0,
                                                !.stamp = Now]
            /\ stopped' = TRUE /\ rewound' = FALSE
       ELSE UNCHANGED <<definition, stopped, rewound>>
    /\ UNCHANGED <<run, created, skipped, threadVars, fiber, jobs, queued, saves,
                   stranded, disturbances>>

\* mutant: a check that could not be recorded keeps its place in the dedupe set
RecordForgets(w) ==
    /\ worker[w].pc = "record"
    /\ \/ /\ run' = [run EXCEPT ![worker[w].job.run].evaluated = TRUE]
          /\ UNCHANGED disturbances
       \/ /\ Disturb /\ UNCHANGED run
    /\ LET r == worker[w].job.run
           others == PendingChecks \ {r}
           again == IF run' = run THEN PendingChecks ELSE others
       IN Enqueue(again \ {r}, IF run' = run THEN queued ELSE queued \ {r})
    /\ worker' = [worker EXCEPT ![w] = Resting]
    /\ UNCHANGED <<definition, created, skipped, threadVars, fiber, stampVars,
                   stranded>>

\* recordCompletionEvaluation, which may fail; the run may then be queued again,
\* with the other checks that are still owed.
Record(w) ==
    /\ worker[w].pc = "record"
    /\ \/ /\ run' = [run EXCEPT ![worker[w].job.run].evaluated = TRUE]
          /\ UNCHANGED disturbances
       \/ /\ Disturb /\ UNCHANGED run
    /\ LET r == worker[w].job.run
           others == PendingChecks \ {r}
           again == IF run' = run THEN PendingChecks ELSE others
       IN Enqueue(again, queued \ {r})
    /\ worker' = [worker EXCEPT ![w] = Resting]
    /\ UNCHANGED <<definition, created, skipped, threadVars, fiber, stampVars,
                   stranded>>

Work(w) == TakeJob(w) \/ Answer(w) \/ DisableOnMatch(w) \/ Record(w)

-----------------------------------------------------------------------------
(* Settling a run from its turn: the reactor, the pass and the recovery.   *)

\* enqueuePendingCompletionEvaluations, after which a pass lists what is due.
Requeue(f) ==
    /\ Enqueue(PendingChecks, queued)
    /\ IF f = "pass" THEN Goto(f, "list") ELSE Rest(f)
    /\ UNCHANGED worker

Reading(f, pc, stage, r, note) ==
    fiber' = [fiber EXCEPT ![f] = [Idle EXCEPT !.pc = pc, !.stage = stage,
                                               !.run = r, !.note = note]]

\* The reactor hears of the thread and reads the run and its turn.
Hears ==
    /\ At("reactor", "idle")
    /\ \E r \in ActiveRuns : /\ turn[r] \in Ended
                             /\ Reading("reactor", "mark", "react", r, turn[r])
    /\ UNCHANGED <<rowVars, threadVars, checkVars, historyVars>>

\* mutant: only a run whose turn is at work can be overdue
FindsOverdueAtWork ==
    /\ At("pass", "idle")
    /\ \E r \in ActiveRuns : /\ turn[r] = "running" /\ run[r].status = "running"
                             /\ Reading("pass", "interrupt", "reconcile", r, "failed")
    /\ UNCHANGED <<rowVars, threadVars, checkVars, historyVars>>

\* The pass finds that the run exceeded maxRuntimeSeconds.
FindsOverdue ==
    /\ At("pass", "idle")
    /\ \E r \in ActiveRuns : /\ run[r].status = "running"
                             /\ Reading("pass", "interrupt", "reconcile", r, "failed")
    /\ UNCHANGED <<rowVars, threadVars, checkVars, historyVars>>

\* reconcileActiveRuns: a run whose turn has ended, or none.
PassStarts ==
    /\ At("pass", "idle")
    /\ \/ /\ \E r \in ActiveRuns : /\ turn[r] \in Ended
                                   /\ Reading("pass", "mark", "reconcile", r, turn[r])
          /\ UNCHANGED checkVars
       \/ /\ \A r \in ActiveRuns : turn[r] \notin Ended
          /\ Requeue("pass")
    /\ UNCHANGED <<rowVars, threadVars, historyVars>>

\* recoverPendingRuns: an active run that the thread has no row for is retired.
Recover ==
    /\ At("reactor", "recover")
    /\ \/ /\ \E r \in ActiveRuns :
                \/ /\ turn[r] \in NoRow
                   /\ Reading("reactor", "retire", "reconcile", r, "none")
                \/ /\ turn[r] \in Ended
                   /\ Reading("reactor", "mark", "reconcile", r, turn[r])
          /\ UNCHANGED checkVars
       \/ /\ \A r \in ActiveRuns : turn[r] \notin NoRow \cup Ended
          /\ Requeue("reactor")
    /\ UNCHANGED <<rowVars, threadVars, historyVars>>

\* mutant: the turn's state is stored as it is
OutcomeAsRead == [completed |-> "succeeded", error |-> "error",
                  interrupted |-> "interrupted"]
Outcome == [completed |-> "succeeded", error |-> "failed", interrupted |-> "interrupted"]

\* The status is kept if the run settled meanwhile; the loop is told which it is.
Mark(f) ==
    /\ At(f, "mark")
    /\ run' = Settle(fiber[f].run, Outcome[fiber[f].note])
    /\ fiber' = [fiber EXCEPT ![f].pc = "stop", ![f].note = run'[fiber[f].run].status]
    /\ UNCHANGED <<definition, created, skipped, threadVars, checkVars, historyVars>>

\* interruptRunForRecovery
Retire ==
    /\ At("reactor", "retire")
    /\ run' = Settle(fiber["reactor"].run, "interrupted")
    /\ Done("reactor")
    /\ UNCHANGED <<definition, created, skipped, threadVars, checkVars, historyVars>>

\* interruptRunBestEffort, of a run that is overdue or cancelled.
InterruptRun(f) ==
    /\ At(f, "interrupt")
    /\ Interrupt
    /\ IF f = "pass" THEN Goto(f, "fail")
       ELSE IF fiber[f].stage = "delete" THEN Goto(f, "archive")
       ELSE Rest(f)
    /\ UNCHANGED <<rowVars, checkVars, historyVars>>

\* markRunFailed, of a run that is overdue or could not be dispatched.
Fail(f) ==
    /\ At(f, "fail")
    /\ run' = Settle(fiber[f].run, "failed")
    /\ IF run'[fiber[f].run].status = "failed"
       THEN fiber' = [fiber EXCEPT ![f].pc = "stop", ![f].note = "failed"]
       ELSE Done(f)
    /\ UNCHANGED <<definition, created, skipped, threadVars, checkVars, historyVars>>

\* maybeStopLoop: the cap and stopOnError disable, a success is checked by a model.
StopLoop(f) ==
    /\ At(f, "stop")
    /\ LET live == definition.enabled /\ ~definition.archived
           disable == Capped(definition) \/ (fiber[f].note = "failed" /\ StopOnError)
           check == /\ live /\ ~Capped(definition) /\ fiber[f].note = "succeeded"
                    /\ run[fiber[f].run].policy = definition.policy
       IN /\ Enqueue(IF check THEN {fiber[f].run} ELSE {}, queued)
          /\ IF live /\ disable THEN Goto(f, "disable") ELSE Done(f)
    /\ UNCHANGED <<rowVars, threadVars, worker, historyVars>>

Disable(f) ==
    /\ At(f, "disable")
    /\ definition' = [definition EXCEPT !.enabled = FALSE, !.next = 0, !.stamp = Now]
    /\ rewound' = FALSE
    /\ Done(f)
    /\ UNCHANGED <<run, created, skipped, threadVars, checkVars, saves, stopped,
                   stranded, disturbances>>

GoesOn(f) ==
    /\ At(f, "requeue")
    /\ Requeue(f)
    /\ UNCHANGED <<rowVars, threadVars, historyVars>>

-----------------------------------------------------------------------------
(* Launching a run: the pass for a slot that is due, "run now" for none.   *)

\* Bound: no launch begins that could need a run beyond the N-th.
RunsLeft == created + Cardinality({f \in Launchers : /\ fiber[f].stage = "launch"
                                                     /\ fiber[f].run = 0}) < N

Launching(f, pc) ==
    fiber' = [fiber EXCEPT ![f] = [Idle EXCEPT !.pc = pc, !.stage = "launch",
                                               !.def = Snapshot, !.now = Now]]

\* listDueDefinitions, and the cap as of then.
ListDue ==
    /\ At("pass", "list")
    /\ \/ /\ definition.enabled /\ ~definition.archived /\ definition.next # 0
          /\ PendingChecks = {} /\ RunsLeft
          /\ Launching("pass", IF Capped(definition) THEN "disable" ELSE "active")
       \/ Rest("pass")
    /\ UNCHANGED <<rowVars, threadVars, checkVars, historyVars>>

RunNow ==
    /\ At("now", "idle")
    /\ ~definition.archived /\ RunsLeft
    /\ Launching("now", "active")
    /\ UNCHANGED <<rowVars, threadVars, checkVars, historyVars>>

\* heartbeatThreadRunState reads the runs first and the pending checks second.
ReadActive(f) ==
    /\ At(f, "active")
    /\ fiber' = [fiber EXCEPT ![f].pc = "pending",
                              ![f].note = IF ActiveRuns = {} THEN "free" ELSE "busy"]
    /\ UNCHANGED <<rowVars, threadVars, checkVars, historyVars>>

ReadPending(f) ==
    /\ At(f, "pending")
    /\ IF PendingChecks # {} \/ (f = "now" /\ fiber[f].note = "busy") THEN Rest(f)
       ELSE Goto(f, IF fiber[f].note = "busy" THEN "skip"
                    ELSE IF f = "now" /\ Capped(fiber[f].def) THEN "restart"
                    ELSE "create")
    /\ UNCHANGED <<rowVars, threadVars, checkVars, historyVars>>

\* The row of a skipped slot is never on the thread, nor is one that could be
\* inserted and not marked as skipped.
Skip ==
    /\ At("pass", "skip")
    /\ skipped' = IF fiber["pass"].def.next \in Recorded THEN skipped
                  ELSE skipped \cup {fiber["pass"].def.next}
    /\ Goto("pass", "advance")
    /\ UNCHANGED <<definition, run, created, threadVars, checkVars, historyVars>>

SkipFails ==
    /\ At("pass", "skip") /\ Disturb
    /\ skipped' = IF fiber["pass"].def.next \in Recorded THEN skipped
                  ELSE skipped \cup {fiber["pass"].def.next}
    /\ Rest("pass")
    /\ UNCHANGED <<definition, run, created, threadVars, checkVars, stampVars,
                   stranded>>

\* restartExhaustedBoundedDefinition
Restart ==
    /\ At("now", "restart")
    /\ definition' = [definition EXCEPT !.enabled = TRUE, !.count = 0,
                                        !.next = FutureSlot, !.stamp = fiber["now"].now]
    /\ stopped' = FALSE /\ rewound' = FALSE
    /\ Goto("now", "create")
    /\ UNCHANGED <<run, created, skipped, threadVars, checkVars, saves, stranded,
                   disturbances>>

\* INSERT OR IGNORE: one row a slot, and one active run a thread.
\* mutant: the check for an active run is left to the launcher
InsertedUnchecked(slot) == slot = 0 \/ slot \notin Recorded
\* mutant: no unique index on the slot
InsertedTwice(slot) == ActiveRuns = {}
Inserted(slot) == /\ ActiveRuns = {}
                  /\ slot = 0 \/ slot \notin Recorded

Create(f) ==
    /\ At(f, "create")
    /\ LET slot == IF f = "pass" THEN fiber[f].def.next ELSE 0
           after == IF f = "pass" THEN "advance" ELSE "count"
       IN IF Inserted(slot)
          THEN /\ created' = created + 1
               /\ run' = [run EXCEPT ![created'] =
                            [status |-> "pending", policy |-> fiber[f].def.policy,
                             slot |-> slot, evaluated |-> FALSE]]
               /\ fiber' = [fiber EXCEPT ![f].pc = after, ![f].run = created']
          ELSE /\ IF f = "pass" THEN Goto(f, after) ELSE Rest(f)
               /\ UNCHANGED <<run, created>>
    /\ UNCHANGED <<definition, skipped, threadVars, checkVars, historyVars>>

\* advanceScheduledDefinition: once the slot has a row, whatever becomes of it.
Advance ==
    /\ At("pass", "advance")
    /\ definition' = [definition EXCEPT !.next = NextSlot(fiber["pass"].def.next),
                                        !.stamp = fiber["pass"].now]
    /\ rewound' = FALSE
    /\ IF fiber["pass"].run = 0 THEN Rest("pass") ELSE Goto("pass", "count")
    /\ UNCHANGED <<run, created, skipped, threadVars, checkVars, saves, stopped,
                   stranded, disturbances>>

\* incrementDefinitionIterationCount writes the moment the launch began, which an
\* advance or a restart of the same launch has written before it.
Written(f) == f = "pass" \/ Capped(fiber[f].def)

Count(f) ==
    /\ At(f, "count")
    /\ definition' = [definition EXCEPT !.count = @ + 1, !.stamp = fiber[f].now]
    /\ rewound' = (Written(f) /\ (rewound \/ definition.stamp # fiber[f].now))
    /\ fiber' = [fiber EXCEPT ![f] = [@ EXCEPT !.pc = "start", !.now = 0,
                                               !.def = NoDefinition, !.note = "none"]]
    /\ UNCHANGED <<run, created, skipped, threadVars, checkVars, saves, stopped,
                   stranded, disturbances>>

\* markRunStarted
Start(f) ==
    /\ At(f, "start")
    /\ LET r == fiber[f].run IN
          /\ run' = IF run[r].status = "pending"
                    THEN [run EXCEPT ![r].status = "running"] ELSE run
          /\ Goto(f, IF run'[r].status = "running" THEN "check" ELSE "fail")
    /\ UNCHANGED <<definition, created, skipped, threadVars, checkVars, historyVars>>

\* requireRunStillDispatching
CheckRun(f) ==
    /\ At(f, "check")
    /\ Goto(f, IF run[fiber[f].run].status = "running" THEN "dispatch" ELSE "fail")
    /\ UNCHANGED <<rowVars, threadVars, checkVars, historyVars>>

\* thread.turn.start; behind a running turn it is queued without a row.
Dispatch(f) ==
    /\ At(f, "dispatch")
    /\ LET r == fiber[f].run IN
          turn' = IF Busy THEN [turn EXCEPT ![r] = "queued"] ELSE Requested(r)
    /\ Rest(f)
    /\ UNCHANGED <<rowVars, userTurn, checkVars, historyVars>>

Launch(f) == ReadActive(f) \/ ReadPending(f) \/ Create(f) \/ Count(f) \/ Start(f)
               \/ CheckRun(f) \/ Dispatch(f) \/ Fail(f) \/ StopLoop(f) \/ Disable(f)

-----------------------------------------------------------------------------
(* The user's requests.                                                    *)

EditStarts ==
    /\ At("edit", "idle") /\ Disturb
    /\ ~definition.archived
    /\ fiber' = [fiber EXCEPT !["edit"] = [Idle EXCEPT !.pc = "save", !.now = Now,
                                                       !.def = Snapshot]]
    /\ UNCHANGED <<rowVars, threadVars, checkVars, stampVars, stranded>>

\* mergeDefinitionUpdate, saveDefinition: the row as it was read, but for its count.
EditSaves ==
    /\ At("edit", "save")
    /\ \E change \in {"pause", "resume", "policy"} :
          LET old == fiber["edit"].def IN
          definition' = [old EXCEPT
             !.enabled = IF change = "policy" THEN @ ELSE change = "resume",
             !.policy = IF change = "policy" THEN @ + 1 ELSE @,
             !.next = IF @ = 0 THEN FutureSlot ELSE @,
             !.count = definition.count,
             !.stamp = fiber["edit"].now]
    /\ saves' = saves + 1
    /\ stopped' = (stopped /\ ~definition'.enabled)
    /\ rewound' = FALSE
    /\ Rest("edit")
    /\ UNCHANGED <<run, created, skipped, threadVars, checkVars, stranded,
                   disturbances>>

\* Cancelling a run, or deleting the automation, whose active run it cancels first.
CancelStarts ==
    /\ At("cancel", "idle") /\ Disturb
    /\ \/ \E r \in ActiveRuns : Reading("cancel", "cancel", "cancel", r, "none")
       \/ \E r \in ActiveRuns : Reading("cancel", "cancel", "delete", r, "none")
       \/ ActiveRuns = {} /\ Reading("cancel", "archive", "delete", 0, "none")
    /\ UNCHANGED <<rowVars, threadVars, checkVars, stampVars, stranded>>

CancelRun ==
    /\ At("cancel", "cancel")
    /\ run' = Settle(fiber["cancel"].run, "cancelled")
    /\ IF run'[fiber["cancel"].run].status = "cancelled" THEN Goto("cancel", "interrupt")
       ELSE IF fiber["cancel"].stage = "delete" THEN Goto("cancel", "archive")
       ELSE Rest("cancel")
    /\ UNCHANGED <<definition, created, skipped, threadVars, checkVars, historyVars>>

Archive ==
    /\ At("cancel", "archive")
    /\ definition' = [definition EXCEPT !.enabled = FALSE, !.archived = TRUE,
                                        !.stamp = Now]
    /\ rewound' = FALSE
    /\ Rest("cancel")
    /\ UNCHANGED <<run, created, skipped, threadVars, checkVars, saves, stopped,
                   stranded, disturbances>>

-----------------------------------------------------------------------------
(* Failures.                                                               *)

\* The runs that are left pending when no launch goes on with them: not started,
\* they are never overdue, and without a turn nothing reconciles them.
Abandoned(rs) == {r \in rs : /\ run[r].status = "pending"
                              /\ \A g \in Launchers : fiber'[g].run # r}

\* A statement fails, or a dispatch does.  From its start on a run is then marked
\* as failed, an interrupt goes unheeded, a delete goes on to the automation and
\* a recovery or pass to the stop checks; whatever else a fiber was at ends with
\* an error to the user or a line in the log.
StatementFails(f) ==
    /\ ~At(f, "idle") /\ Disturb
    /\ IF \/ fiber[f].pc \in {"start", "check", "dispatch"}
          \/ f = "pass" /\ At(f, "interrupt")
       THEN Goto(f, "fail")
       ELSE IF fiber[f].stage = "delete" /\ ~At(f, "archive") THEN Goto(f, "archive")
       ELSE Done(f)
    /\ stranded' = stranded \cup
          Abandoned(IF At(f, "recover") THEN ActiveRuns ELSE {fiber[f].run} \cap Runs)
    /\ UNCHANGED <<rowVars, threadVars, checkVars, stampVars>>

\* The server goes down and comes up: fibers, queues and turns that were only in
\* memory are gone, a start already requested keeps a row that nothing advances.
Crash ==
    /\ Disturb
    /\ turn' = [r \in Runs |-> CASE turn[r] = "queued" -> "lost"
                                 [] turn[r] = "requested" -> "stale"
                                 [] OTHER -> turn[r]]
    /\ userTurn' = IF userTurn = "running" THEN "ended" ELSE userTurn
    /\ fiber' = [f \in Fibers |-> IF f = "reactor" THEN [Idle EXCEPT !.pc = "recover"]
                                  ELSE Idle]
    /\ jobs' = SetToSeq({[run |-> r, stamp |-> definition.stamp, saves |-> saves] :
                            r \in PendingChecks})
    /\ queued' = PendingChecks
    /\ worker' = [w \in Workers |-> Resting]
    /\ stranded' = {}
    /\ UNCHANGED <<rowVars, stampVars>>

-----------------------------------------------------------------------------
PassStep == \/ PassStarts \/ Mark("pass") \/ InterruptRun("pass") \/ GoesOn("pass")
            \/ ListDue \/ Skip \/ Advance \/ Launch("pass")
ReactorStep == Recover \/ Mark("reactor") \/ Retire \/ StopLoop("reactor")
                 \/ Disable("reactor") \/ GoesOn("reactor")
NowStep == Restart \/ Launch("now")
UserStep == EditSaves \/ CancelRun \/ InterruptRun("cancel") \/ Archive

ThreadStep == \/ UserSends \/ UserTurnEnds
              \/ \E r \in Runs : QueuedIsSent(r) \/ TurnStarts(r) \/ TurnEnds(r)

Next == \/ FindsOverdue \/ PassStep \/ Hears \/ ReactorStep
        \/ RunNow \/ NowStep
        \/ EditStarts \/ CancelStarts \/ UserStep
        \/ \E w \in Workers : Work(w)
        \/ ThreadStep \/ Crash
        \/ SkipFails \/ \E f \in Fibers : StatementFails(f)

Spec == Init /\ [][Next]_vars

\* Fibers that have begun go on, passes recur, and a run that stays at work is
\* overdue at some later pass.  Nothing is assumed of the thread or the user.
FairSpec == /\ Spec
            /\ WF_vars(PassStep) /\ WF_vars(ReactorStep) /\ WF_vars(NowStep)
            /\ WF_vars(UserStep)
            /\ \A w \in Workers : WF_vars(Work(w))
            /\ SF_vars(FindsOverdue)

-----------------------------------------------------------------------------
TypeOK ==
    /\ definition \in [enabled : BOOLEAN, archived : BOOLEAN, policy : Nat,
                       max : Caps, count : Nat, next : Nat, stamp : Nat]
    /\ created \in 0..N /\ skipped \subseteq Slots
    /\ \A r \in Runs : /\ run[r].status \in Active \cup Terminal \cup {"none"}
                       /\ run[r].status = "none" <=> r > created
    /\ turn \in [Runs -> NoRow \cup {"requested", "stale", "running"} \cup Ended]
    /\ userTurn \in {"none", "running", "ended", "interrupted"}
    /\ queued \subseteq Runs /\ \A w \in Workers : worker[w].job.run \in 0..created

\* The thread has one active run at a time, whoever launches it and whatever the
\* launcher has read: insertRun.
OneRunAtATime == Cardinality(ActiveRuns) <= 1

\* No slot of the schedule is sent to the thread twice, also when an edit puts
\* next_run_at back or the server restarts in between: createPendingRun.
SlotIsSentOnce ==
    \A r, q \in Runs : /\ run[r].slot # 0 /\ run[r].slot = run[q].slot
                       /\ turn[r] # "none" /\ turn[q] # "none"
                       => r = q

\* A stop check disables the automation only as the user last saved it, unless
\* the count of a launch has put updated_at back to what it was before that save:
\* disableDefinitionIfUnchanged, incrementDefinitionIterationCount.
StaleCheckStopsNothing ==
    [][\A w \in Workers :
          DisableOnMatch(w) /\ definition' # definition
             => worker[w].job.saves = saves \/ rewound]_vars

\* AutomationService.test.ts:2006: "ignores a matched stop evaluation when the
\* automation changes while pending".
EditedAutomationGoesOn ==
    [][\A w \in Workers :
          DisableOnMatch(w) /\ definition' # definition => worker[w].job.saves = saves]_vars

\* Every run that is active settles, whether its turn ends, is lost or never
\* starts, unless a failing call has left it pending and no restart follows:
\* reconcileActiveRuns, recoverPendingRuns.
RunsSettle ==
    \A r \in Runs : run[r].status \in Active
                       ~> run[r].status \notin Active \/ r \in stranded

\* A stop check that is owed, and so holds back every later heartbeat, is made or
\* becomes moot: the queue of evaluations and its dedupe set.
StopChecksSettle == \A r \in Runs : r \in PendingChecks ~> r \notin PendingChecks

\* AutomationService.ts:1416: "Disable before clearing the pending stop-check
\* marker, so no extra heartbeat can launch."
NoHeartbeatAfterStop ==
    [][created' # created /\ stopped => run'[created'].slot = 0]_vars

\* AutomationService.ts:799-800: "Heartbeat runs reuse busy user threads", "the
\* shell's latest turn may belong to someone else": an automation interrupts only
\* the turns of its own runs.
UserTurnIsLeftAlone == userTurn # "interrupted"
=============================================================================
