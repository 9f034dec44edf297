------------------------- MODULE OrchestrationEngine -------------------------
(***************************************************************************)
(* The command engine of the server                                        *)
(* (apps/server/src/orchestration/Layers/OrchestrationEngine.ts): dispatch *)
(* puts an envelope on a queue, one worker fiber turns each command into   *)
(* events inside one SQL transaction, brings its in-memory read model and  *)
(* the deferred projection up to date, publishes the events and answers.   *)
(*                                                                         *)
(* The worker is interrupted by its time budget between any two effects;   *)
(* callers give up, the deferred catch-up and repairState compete for the  *)
(* maintenance lock, and the process may crash and restart.  A command is  *)
(* the list of the kinds of the events it produces about one target; an    *)
(* event is identified by its sequence number, its position in the log.    *)
(***************************************************************************)
EXTENDS Integers, Sequences

CONSTANTS
    Attempts,      \* the calls of dispatch; a retry is another attempt
    Commands,      \* the command ids
    CommandOf,     \* CommandOf[a]: the command attempt a dispatches
    Targets,       \* the projects and threads
    Target,        \* Target[c]: the aggregate command c is about
    Plan,          \* Plan[c]: the kinds of the events c produces, in order
    ReadLimit,     \* DEFAULT_READ_FROM_SEQUENCE_LIMIT of the event store
    Disturbances   \* what may go wrong, a subset of AllDisturbances

\* project and thread creations; events that refresh a thread's shell summary;
\* all others.
Kinds == {"project", "create", "summary", "delta"}
Creations == {"project", "create"}

AllDisturbances ==
    {"timeout",    \* the 45 s budget runs out
     "sql",        \* the receipt lookup or the transaction fails
     "defect",     \* the decider throws
     "receipt",    \* the receipt cannot be read or written while answering
     "reconcile",  \* the events cannot be re-read while reconciling
     "deferred",   \* the deferred projector fails on an event
     "catchup",    \* the background catch-up fails
     "repair",     \* repairState is called, and may fail
     "crash"}      \* the process ends and is started again

ASSUME CommandOfAssumption == CommandOf \in [Attempts -> Commands]
ASSUME TargetAssumption == Target \in [Commands -> Targets]
ASSUME PlanAssumption == Plan \in [Commands -> Seq(Kinds) \ {<<>>}]
\* What creates the target comes first: a new thread, then what is imported into it.
ASSUME CreationAssumption ==
    \A c \in Commands : \A k \in 2..Len(Plan[c]) : Plan[c][k] \notin Creations
ASSUME ReadLimitAssumption == ReadLimit \in Nat \ {0}
ASSUME DisturbancesAssumption == Disturbances \subseteq AllDisturbances

VARIABLES
    \* the database
    log,             \* orchestration_events
    receipts,        \* orchestration_command_receipts
    rows,            \* the events reflected in the hot projection tables
    hotCursor,       \* last_applied_sequence of the snapshot's hot projectors
    deferredCursor,  \* last_applied_sequence of thread-shell-summaries
    summaryAt,       \* summaryAt[t]: the log length t's summary was computed from
    \* the process
    queue,           \* commandQueue
    exec,            \* exec[a]: the envelope's executionState
    late,            \* the attempts whose deadline has passed
    result,          \* result[a]: the envelope's result deferred
    model,           \* commandReadModel
    dirty,           \* deferredProjectionDirty
    inFlight,        \* deferredProjectionCatchUpInFlight
    forked,          \* a catch-up fiber waits for the lock
    published,       \* what has been published on eventPubSub since the start
    born,            \* the log's length when the process started
    pc, job,         \* the worker: where it is, and the envelope it holds
    batch, next,     \* the events just committed, and the next one to handle
    err              \* the error being recovered from

database == <<log, receipts, rows, hotCursor, deferredCursor, summaryAt>>
clients == <<queue, exec, late, result>>
deferral == <<dirty, inFlight, forked>>
worker == <<pc, job, batch, next, err>>
vars == <<database, clients, model, deferral, published, born, worker>>

NoResult == [kind |-> "none", seq |-> 0]
NoJob == [by |-> "none", start |-> 0, funded |-> FALSE]
Accepted(n) == [kind |-> "accepted", seq |-> n]
Refused(kind) == [kind |-> kind, seq |-> 0]

\* runCommand runs under the maintenance lock.
Inside == pc \notin {"idle", "taken"}

-----------------------------------------------------------------------------
Least(m, n) == IF m <= n THEN m ELSE n

Events(a) == [k \in 1..Len(Plan[CommandOf[a]]) |->
                 [by |-> a, kind |-> Plan[CommandOf[a]][k]]]
Subject(p) == Target[CommandOf[log[p].by]]

\* The aggregates a read model knows.
Known(m) == {Subject(p) : p \in {q \in m.seen : log[q].kind \in Creations}}

\* requireProjectAbsent, requireThreadAbsent, requireProject, requireThread.
Legal(a, m) ==
    (Target[CommandOf[a]] \notin Known(m)) <=> (Plan[CommandOf[a]][1] \in Creations)

\* mutant: the read starts one event too late
ReadFromSkipsFirst(cursor) == (cursor + 2)..Least(Len(log), cursor + ReadLimit)

\* readFromSequence(cursor): what follows the cursor, up to the default limit.
ReadFrom(cursor) == (cursor + 1)..Least(Len(log), cursor + ReadLimit)

\* projectEvent, for each of the events ps in order.
Apply(m, ps, last) == [seq |-> last, seen |-> m.seen \cup ps,
                       doubled |-> m.doubled \cup (m.seen \cap ps)]

\* mutant: the sequence is the last one not yet applied
SnapshotOffByOne(rs, hot, deferred) ==
    [seq |-> Least(hot, deferred) - 1, seen |-> rs, doubled |-> {}]

\* getCommandReadModel: the rows as they are, with the least of the cursors.
Snapshot(rs, hot, deferred) == [seq |-> Least(hot, deferred), seen |-> rs, doubled |-> {}]

\* Each event that refreshes a summary recomputes it from the current rows.
Summaries(ps) ==
    [t \in Targets |-> IF \E p \in ps : log[p].kind = "summary" /\ Subject(p) = t
                       THEN Len(log) ELSE summaryAt[t]]

\* projectionPipeline.bootstrap: each projector replays the log from its cursor.
HotAfter(cursor) == Least(Len(log), cursor + ReadLimit)
Bootstrap(rs, hot) ==
    /\ rows' = rs \cup ReadFrom(hot)
    /\ hotCursor' = HotAfter(hot)
    /\ deferredCursor' = HotAfter(deferredCursor)
    /\ summaryAt' = Summaries(ReadFrom(deferredCursor))
    /\ UNCHANGED <<log, receipts>>

-----------------------------------------------------------------------------
Init ==
    /\ log = <<>>
    /\ receipts = [c \in Commands |-> NoResult]
    /\ rows = {} /\ hotCursor = 0
    /\ deferredCursor = 0 /\ summaryAt = [t \in Targets |-> 0]
    /\ queue = <<>>
    /\ exec = [a \in Attempts |-> "none"]
    /\ late = {}
    /\ result = [a \in Attempts |-> NoResult]
    /\ model = Snapshot({}, 0, 0)
    /\ dirty = FALSE /\ inFlight = FALSE /\ forked = FALSE
    /\ published = <<>> /\ born = 0
    /\ pc = "idle" /\ job = NoJob /\ batch = {} /\ next = 0 /\ err = "none"

(***************************************************************************)
(* dispatch: the caller waits for the result; once its deadline has passed *)
(* it abandons a command the worker has not begun, and otherwise waits on. *)
(***************************************************************************)
Dispatch(a) ==
    /\ exec[a] = "none"
    /\ exec' = [exec EXCEPT ![a] = "queued"]
    /\ queue' = Append(queue, a)
    /\ UNCHANGED <<database, late, result, model, deferral, published, born, worker>>

DeadlinePasses(a) ==
    /\ "timeout" \in Disturbances
    /\ exec[a] \in {"queued", "in-flight"} /\ result[a] = NoResult
    /\ a \notin late
    /\ late' = late \cup {a}
    /\ UNCHANGED <<database, queue, exec, result, model, deferral, published, born, worker>>

\* mutant: the caller gives up whatever the worker is doing
AbandonAnyway(a) ==
    /\ exec[a] \in {"queued", "in-flight"} /\ a \in late
    /\ exec' = [exec EXCEPT ![a] = "abandoned"]
    /\ UNCHANGED <<database, queue, late, result, model, deferral, published, born, worker>>

Abandon(a) ==
    /\ exec[a] = "queued" /\ a \in late
    /\ exec' = [exec EXCEPT ![a] = "abandoned"]
    /\ UNCHANGED <<database, queue, late, result, model, deferral, published, born, worker>>

(***************************************************************************)
(* processEnvelope: the start sequence and the remaining budget are read   *)
(* when the envelope is taken, before the worker waits for the lock.       *)
(***************************************************************************)
\* mutant: the start sequence is an inclusive cursor
StartSequenceInclusive == IF model.seq = 0 THEN 0 ELSE model.seq - 1

StartSequence == model.seq

Take ==
    /\ pc = "idle" /\ queue # <<>>
    /\ queue' = Tail(queue)
    /\ job' = [by |-> Head(queue), start |-> StartSequence, funded |-> Head(queue) \notin late]
    /\ pc' = "taken"
    /\ UNCHANGED <<database, exec, late, result, model, deferral, published, born,
                   batch, next, err>>

\* The worker has nothing more to do for this envelope.
Rest == pc' = "idle" /\ job' = NoJob /\ batch' = {} /\ next' = 0 /\ err' = "none"

Fail(error) == pc' = "recovering" /\ err' = error /\ UNCHANGED <<job, batch, next>>

\* mutant: an abandoned envelope is run like any other
NeverAbandoned(a) == FALSE

\* The caller gave up before the worker began.
Abandoned(a) == exec[a] = "abandoned"

\* runCommand starts: an abandoned envelope is skipped, and one without budget
\* left times out at once.
Begin ==
    /\ pc = "taken"
    /\ \/ /\ Abandoned(job.by)
          /\ Rest
          /\ UNCHANGED exec
       \/ /\ ~Abandoned(job.by)
          /\ exec' = [exec EXCEPT ![job.by] = "in-flight"]
          /\ IF job.funded THEN pc' = "begun" /\ UNCHANGED <<job, batch, next, err>>
                           ELSE Fail("timeout")
    /\ UNCHANGED <<database, queue, late, result, model, deferral, published, born>>

\* mutant: only an accepted receipt answers
FromAcceptedReceipt(receipt) == IF receipt.kind = "accepted" THEN receipt ELSE NoResult

\* What a stored receipt tells the caller.
FromReceipt(receipt) ==
    IF receipt.kind = "accepted" THEN receipt ELSE Refused("previously-rejected")

\* mutant: commands are decided whatever the receipts say
NeverSeen(a) == TRUE

Unseen(a) == receipts[CommandOf[a]].kind = "none"

\* A stored receipt answers the command.
AnswerFromReceipt ==
    /\ pc = "begun" /\ ~Unseen(job.by)
    /\ result' = [result EXCEPT ![job.by] = FromReceipt(receipts[CommandOf[job.by]])]
    /\ Rest
    /\ UNCHANGED <<database, queue, exec, late, model, deferral, published, born>>

Decide ==
    /\ pc = "begun" /\ Unseen(job.by)
    /\ IF Legal(job.by, model) THEN pc' = "decided" /\ UNCHANGED <<job, batch, next, err>>
                               ELSE Fail("invariant")
    /\ UNCHANGED <<database, clients, model, deferral, published, born>>

\* The receipt lookup fails, or the decider throws.
DecideFails ==
    /\ pc = "begun"
    /\ \/ "sql" \in Disturbances /\ Fail("failed")
       \/ "defect" \in Disturbances /\ Fail("defect")
    /\ UNCHANGED <<database, clients, model, deferral, published, born>>

\* mutant: the receipt of a commit names its first event
ReceiptOfFirst(first, last) == Accepted(first)

\* The receipt of a commit names its last event.
ReceiptOf(first, last) == Accepted(last)

\* mutant: the receipt is not part of the transaction
StoreNothing(c, receipt) == UNCHANGED receipts

Store(c, receipt) == receipts' = [receipts EXCEPT ![c] = receipt]

\* The transaction: append and project every event, and write the receipt.
Commit ==
    LET last == Len(log) + Len(Events(job.by)) IN
    /\ pc = "decided"
    /\ log' = log \o Events(job.by)
    /\ batch' = (Len(log) + 1)..last
    /\ next' = Len(log) + 1
    /\ rows' = rows \cup batch'
    /\ hotCursor' = last
    /\ Store(CommandOf[job.by], ReceiptOf(Len(log) + 1, last))
    /\ pc' = "committed"
    /\ UNCHANGED <<deferredCursor, summaryAt, clients, model, deferral, published, born,
                   job, err>>

\* The transaction fails and is rolled back.
CommitFails ==
    /\ "sql" \in Disturbances
    /\ pc = "decided"
    /\ Fail("failed")
    /\ UNCHANGED <<database, clients, model, deferral, published, born>>

AssignModel ==
    /\ pc = "committed"
    /\ model' = Apply(model, batch, Len(log))
    /\ pc' = "deferring"
    /\ UNCHANGED <<database, clients, deferral, published, born, job, batch, next, err>>

(***************************************************************************)
(* The deferred projection, one committed event at a time.  While it is    *)
(* dirty an event only makes sure that a catch-up is on its way: it sets   *)
(* the flag and, unless it was set already, forks the fiber.               *)
(***************************************************************************)
Defer ==
    /\ pc = "deferring" /\ next \in batch
    /\ \/ /\ log[next].kind # "project" /\ dirty
          /\ pc' = "scheduling"
          /\ UNCHANGED <<next, deferredCursor, summaryAt>>
       \/ /\ \/ log[next].kind = "project"
             \/ log[next].kind # "summary" /\ ~dirty
          /\ next' = next + 1
          /\ UNCHANGED <<pc, deferredCursor, summaryAt>>
       \/ /\ log[next].kind = "summary" /\ ~dirty
          /\ next' = next + 1
          /\ deferredCursor' = next
          /\ summaryAt' = Summaries({next})
          /\ UNCHANGED pc
    /\ UNCHANGED <<log, receipts, rows, hotCursor, clients, model, deferral, published, born,
                   job, batch, err>>

\* mutant: the failure is only logged
ForgetFailure == next' = next + 1 /\ UNCHANGED <<pc, dirty>>

NoteFailure == dirty' = TRUE /\ pc' = "scheduling" /\ UNCHANGED next

DeferFails ==
    /\ "deferred" \in Disturbances
    /\ pc = "deferring" /\ next \in batch
    /\ log[next].kind = "summary" /\ ~dirty
    /\ NoteFailure
    /\ UNCHANGED <<database, clients, model, inFlight, forked, published, born, job, batch,
                   err>>

\* scheduleDeferredProjectionCatchUp: the flag first, then the fiber.
Schedule ==
    /\ pc = "scheduling"
    /\ inFlight' = TRUE
    /\ IF inFlight THEN pc' = "deferring" /\ next' = next + 1
                   ELSE pc' = "forking" /\ UNCHANGED next
    /\ UNCHANGED <<database, clients, model, dirty, forked, published, born, job, batch, err>>

Fork ==
    /\ pc = "forking"
    /\ forked' = TRUE
    /\ pc' = "deferring" /\ next' = next + 1
    /\ UNCHANGED <<database, clients, model, dirty, inFlight, published, born, job, batch,
                   err>>

DeferDone ==
    /\ pc = "deferring" /\ next \notin batch
    /\ pc' = "publishing"
    /\ next' \in batch /\ \A p \in batch : next' <= p
    /\ UNCHANGED <<database, clients, model, deferral, published, born, job, batch, err>>

Publish ==
    /\ pc = "publishing" /\ next \in batch
    /\ published' = Append(published, next)
    /\ next' = next + 1
    /\ UNCHANGED <<database, clients, model, deferral, born, pc, job, batch, err>>

Answer ==
    /\ pc = "publishing" /\ next \notin batch
    /\ result' = [result EXCEPT ![job.by] = Accepted(Len(log))]
    /\ Rest
    /\ UNCHANGED <<database, queue, exec, late, model, deferral, published, born>>

(***************************************************************************)
(* timeoutOption interrupts runCommand between two of its effects; inside  *)
(* the transaction that rolls it back.                                     *)
(***************************************************************************)
Interrupt ==
    /\ pc \in {"begun", "decided", "committed", "deferring", "scheduling", "forking",
               "publishing"}
    /\ job.by \in late
    /\ Fail("timeout")
    /\ UNCHANGED <<database, clients, model, deferral, published, born>>

\* mutant: what was missed is not published
PublishNothing == published

PublishMissed == published \o [k \in 1..(HotAfter(job.start) - job.start) |-> job.start + k]

\* reconcileCommandReadModelAfterDispatchFailure: apply and publish what was
\* persisted since the start sequence.
Reconcile ==
    LET missed == ReadFrom(job.start) IN
    /\ pc = "recovering"
    /\ pc' = "settling"
    /\ \/ /\ missed # {}
          /\ model' = Apply(model, missed, HotAfter(job.start))
          /\ published' = PublishMissed
       \/ /\ missed = {} \/ "reconcile" \in Disturbances
          /\ UNCHANGED <<model, published>>
    /\ UNCHANGED <<database, clients, deferral, born, job, batch, next, err>>

\* The caller is answered; a timeout or a defect is first looked up in the
\* receipts, a broken invariant is stored as a rejection.
Settle ==
    LET c == CommandOf[job.by] IN
    /\ pc = "settling"
    /\ \/ /\ err \in {"timeout", "defect"} /\ receipts[c].kind # "none"
          /\ result' = [result EXCEPT ![job.by] = FromReceipt(receipts[c])]
          /\ UNCHANGED receipts
       \/ /\ err \in {"timeout", "defect"}
          /\ receipts[c].kind = "none" \/ "receipt" \in Disturbances
          /\ result' = [result EXCEPT ![job.by] =
                          Refused(IF err = "timeout" THEN "timeout" ELSE "failed")]
          /\ UNCHANGED receipts
       \/ /\ err = "failed"
          /\ result' = [result EXCEPT ![job.by] = Refused("failed")]
          /\ UNCHANGED receipts
       \/ /\ err = "invariant"
          /\ result' = [result EXCEPT ![job.by] = Refused("rejected")]
          /\ \/ Store(c, [kind |-> "rejected", seq |-> model.seq])
             \/ "receipt" \in Disturbances /\ UNCHANGED receipts
    /\ Rest
    /\ UNCHANGED <<log, rows, hotCursor, deferredCursor, summaryAt, queue, exec, late, model,
                   deferral, published, born>>

(***************************************************************************)
(* The catch-up fiber and repairState wait for the lock and hold it until  *)
(* they are done.  A catch-up that fails keeps what it has applied.        *)
(***************************************************************************)
CatchUp ==
    /\ forked /\ ~Inside
    /\ Bootstrap(rows, hotCursor)
    /\ dirty' = FALSE /\ inFlight' = FALSE /\ forked' = FALSE
    /\ UNCHANGED <<clients, model, published, born, worker>>

CatchUpFails ==
    /\ "catchup" \in Disturbances
    /\ forked /\ ~Inside
    /\ inFlight' = FALSE /\ forked' = FALSE
    /\ \E p \in {deferredCursor} \cup {q \in ReadFrom(deferredCursor) : log[q].kind = "summary"} :
          /\ deferredCursor' = p
          /\ summaryAt' = Summaries((deferredCursor + 1)..p)
    /\ UNCHANGED <<log, receipts, rows, hotCursor, dirty, clients, model, published, born,
                   worker>>

\* repairState drops the project rows and the hot cursors and replays the log;
\* when the replay fails everything is restored, when the reload fails the old
\* read model stays.
Repair ==
    LET kept == {p \in rows : log[p].kind # "project"} IN
    /\ "repair" \in Disturbances
    /\ ~Inside
    /\ Bootstrap(kept, 0)
    /\ \/ model' = Snapshot(rows', hotCursor', deferredCursor')
       \/ UNCHANGED model
    /\ UNCHANGED <<clients, deferral, published, born, worker>>

\* The process dies; what is only in memory is lost, and the next process
\* bootstraps the projections before it accepts commands.
CrashAndRestart ==
    /\ "crash" \in Disturbances
    /\ Bootstrap(rows, hotCursor)
    /\ model' = Snapshot(rows', hotCursor', deferredCursor')
    /\ queue' = <<>>
    /\ exec' = [a \in Attempts |->
                  IF exec[a] \in {"queued", "in-flight"} /\ result[a].kind = "none"
                  THEN "lost" ELSE exec[a]]
    /\ dirty' = FALSE /\ inFlight' = FALSE /\ forked' = FALSE
    /\ published' = <<>> /\ born' = Len(log)
    /\ Rest
    /\ UNCHANGED <<late, result>>

-----------------------------------------------------------------------------
Worker ==
    \/ Take \/ Begin \/ AnswerFromReceipt \/ Decide \/ DecideFails
    \/ Commit \/ CommitFails \/ AssignModel \/ Defer \/ DeferFails \/ Schedule \/ Fork
    \/ DeferDone
    \/ Publish \/ Answer \/ Interrupt \/ Reconcile \/ Settle

Next ==
    \/ \E a \in Attempts : Dispatch(a) \/ DeadlinePasses(a) \/ Abandon(a)
    \/ Worker
    \/ CatchUp \/ CatchUpFails \/ Repair \/ CrashAndRestart

Spec == Init /\ [][Next]_vars

\* The runtime runs the worker fiber whenever it can run.  The semaphore serves
\* its waiters in order, so a waiting catch-up gets the lock although the worker
\* keeps asking for it.  Callers, failures and crashes owe nothing.
Fairness == WF_vars(Worker) /\ SF_vars(CatchUp \/ CatchUpFails)
                            /\ \A a \in Attempts : WF_vars(Abandon(a))

FairSpec == Spec /\ Fairness

-----------------------------------------------------------------------------
ResultKinds == {"none", "accepted", "previously-rejected", "rejected", "timeout", "failed"}

TypeOK ==
    /\ log \in Seq([by : Attempts, kind : Kinds])
    /\ receipts \in [Commands -> [kind : {"none", "accepted", "rejected"}, seq : Nat]]
    /\ rows \in SUBSET Nat /\ hotCursor \in Nat
    /\ deferredCursor \in Nat /\ summaryAt \in [Targets -> Nat]
    /\ queue \in Seq(Attempts)
    /\ exec \in [Attempts -> {"none", "queued", "in-flight", "abandoned", "lost"}]
    /\ late \in SUBSET Attempts
    /\ result \in [Attempts -> [kind : ResultKinds, seq : Nat]]
    /\ model \in [seq : Nat, seen : SUBSET Nat, doubled : SUBSET Nat]
    /\ dirty \in BOOLEAN /\ inFlight \in BOOLEAN /\ forked \in BOOLEAN
    /\ published \in Seq(Nat) /\ born \in Nat
    /\ pc \in {"idle", "taken", "begun", "decided", "committed", "deferring",
               "scheduling", "forking", "publishing", "recovering", "settling"}
    /\ job \in [by : Attempts \cup {"none"}, start : Nat, funded : BOOLEAN]
    /\ batch \in SUBSET Nat /\ next \in Nat
    /\ err \in {"none", "timeout", "failed", "defect", "invariant"}

\* A command's events are in the log exactly when its receipt says so: all of
\* them, once, in order and ending at the sequence the receipt names.  Retries,
\* interruptions and crashes never commit a command twice, in part or without a
\* receipt, and a rejected command has no events.
ReceiptsMatchLog ==
    \A c \in Commands :
        LET mine == {p \in 1..Len(log) : CommandOf[log[p].by] = c} IN
        IF receipts[c].kind = "accepted"
        THEN LET first == receipts[c].seq - Len(Plan[c]) + 1 IN
             /\ mine = first..receipts[c].seq
             /\ \A p \in mine : /\ log[p].kind = Plan[c][p - first + 1]
                                /\ log[p].by = log[first].by
        ELSE mine = {}

\* An accepted answer names the sequence of a committed command, now and after
\* any crash.
AcceptedIsDurable ==
    \A a \in Attempts : result[a].kind = "accepted" => result[a] = receipts[CommandOf[a]]

\* What a caller was told is final: an attempt that was abandoned, timed out,
\* failed or was rejected has no event in the log, then or later.
RefusedLeavesNoTrace ==
    \A a \in Attempts :
        exec[a] = "abandoned" \/ result[a].kind \notin {"none", "accepted"} =>
            \A p \in 1..Len(log) : log[p].by # a

\* A receipt, once written, never changes.
ReceiptsAreFinal ==
    [][\A c \in Commands : receipts[c].kind # "none" => receipts'[c] = receipts[c]]_vars

\* The log is a legal history: nothing is created twice, and everything else is
\* about something created before.  The decider checks this against the
\* in-memory model, so it depends on that model never missing a committed event.
LogIsLegal ==
    \A p \in 1..Len(log) :
        LET created == {Subject(q) : q \in {r \in 1..(p - 1) : log[r].kind \in Creations}} IN
        (log[p].kind \in Creations) <=> (Subject(p) \notin created)

\* Between two commands the in-memory model reflects exactly the log, each event
\* once, and its snapshotSequence is the log's last sequence.
ModelInStep ==
    ~Inside => /\ model.seen = 1..Len(log) /\ model.doubled = {}
               /\ model.seq = Len(log)

\* Between two commands the in-memory model has missed nothing that was committed.
ModelMissesNothing == ~Inside => 1..Len(log) \subseteq model.seen

\* Subscribers get events "in dispatch order", each once.
StreamInDispatchOrder ==
    \A k \in 1..(Len(published) - 1) : published[k] < published[k + 1]

\* Subscribers miss nothing: between two commands everything committed since the
\* process started has been published, and nothing older.
StreamIsComplete ==
    ~Inside => {published[k] : k \in 1..Len(published)} = (born + 1)..Len(log)

\* An event is never published ahead of an earlier one.
StreamHasNoGap ==
    \A k \in 1..Len(published) :
        \A q \in (born + 1)..published[k] : \E j \in 1..k : published[j] = q

\* "recover with one background bootstrap replay instead of continuing to advance
\* the inline cursor and potentially skipping the failed sequence": between two
\* commands, unless a catch-up is still owed, every thread's summary reflects the
\* thread's last event that should refresh it.
SummariesFresh ==
    ~Inside /\ ~dirty =>
        \A p \in 1..Len(log) : log[p].kind = "summary" => p <= summaryAt[Subject(p)]

\* Every call of dispatch is answered.
DispatchIsAnswered ==
    \A a \in Attempts :
        exec[a] = "queued" ~> exec[a] = "abandoned" \/ result[a].kind # "none"

\* A dirty deferred projection is caught up, as long as no budget runs out while a
\* catch-up is being scheduled: scheduleDeferredProjectionCatchUp.
ScheduledOutOfBudget == pc \in {"scheduling", "forking"} /\ job.by \in late

\* "When deferred projection slips, recover with one background bootstrap replay"
\* (OrchestrationEngine.ts:154): whatever interrupts the worker.
SlipIsRecovered == dirty ~> ~dirty

\* The projection tables reflect every committed event, through repairs and restarts.
RowsCoverLog == rows = 1..Len(log)

-----------------------------------------------------------------------------
\* The engine implements CommandService: a result that was never delivered because
\* the process died is an answer not given.
ServiceAnswer(a) ==
    IF exec[a] = "abandoned" THEN "unfinished"
    ELSE CASE result[a].kind \in {"none", "accepted"} -> result[a].kind
           [] result[a].kind \in {"rejected", "previously-rejected"} -> "rejected"
           [] OTHER -> "unfinished"

Service == INSTANCE CommandService WITH
               outcome <- [c \in Commands |-> receipts[c].kind],
               answer <- [a \in Attempts |-> ServiceAnswer(a)]

\* Every step of the engine is a step of CommandService or invisible to callers.
ImplementsService == Service!Spec
=============================================================================
