---------------------- MODULE OrchestrationEngineStreamProofs ----------------------
(***************************************************************************)
(* Proofs about what OrchestrationEngine makes of its log: the tables, the *)
(* read model the decider trusts, the published stream and the summaries.  *)
(*                                                                         *)
(* The code reads the log ReadLimit events at a time and never asks for    *)
(* the rest, so the results hold as long as one read is enough; what is    *)
(* assumed of the constants and of the run is named first.                 *)
(***************************************************************************)
EXTENDS OrchestrationEngineProofs, FiniteSetTheorems

\* A command that has timed out can be reconciled with what it has committed.
Recoverable == ~({"timeout", "reconcile"} \subseteq Disturbances)

\* What a command adds to the log can be re-read at once.
ShortPlans == \A c \in Commands : Len(Plan[c]) <= ReadLimit

\* A replay of the log reaches its end: the code reads no further than the
\* limit, from the deferred cursor or, in a repair, from the start.
ReplaysReachTheEnd ==
    /\ Disturbances \cap {"deferred", "crash"} # {} => Len(log) <= deferredCursor + ReadLimit
    /\ "repair" \in Disturbances => Len(log) <= ReadLimit

\* The tables reflect the log.
TableInv == RowsCoverLog /\ hotCursor = Len(log) /\ deferredCursor <= Len(log)

\* Only callers are late that have a deadline, only a failure makes a catch-up due.
FaultInv ==
    /\ "timeout" \notin Disturbances => late = {}
    /\ dirty \/ inFlight \/ forked \/ pc \in {"scheduling", "forking"} =>
          "deferred" \in Disturbances

\* The start sequence of the worker's envelope is where its own events begin.
StartInv ==
    /\ born <= Len(log)
    /\ pc # "idle" => born <= job.start /\ job.start <= Len(log) /\ Len(log) <= job.start + ReadLimit
    /\ pc \in {"taken", "begun", "decided"} => job.start = Len(log)
    /\ pc \in {"committed", "deferring", "scheduling", "forking", "publishing"} =>
          batch = (job.start + 1)..Len(log) /\ job.start < Len(log)
    /\ pc \in {"recovering", "settling"} /\ "timeout" \notin Disturbances => job.start = Len(log)

\* The read model has applied the log; between a commit and its application or
\* its reconciliation it has applied what was there before.
InStep == model.seen = 1..Len(log) /\ model.seq = Len(log)
ModelInv ==
    /\ pc \notin {"committed", "recovering"} => InStep
    /\ pc = "committed" => model.seen = 1..job.start
    /\ pc = "recovering" =>
          /\ 1..job.start \subseteq model.seen /\ model.seen \subseteq 1..Len(log)
          /\ job.start = Len(log) => InStep
    /\ "timeout" \notin Disturbances => model.doubled = {}

\* The decider's verdict stands until the commit.
HistoryInv == LogIsLegal /\ (pc = "decided" => Legal(job.by, model))

\* What has been published since the start is what was committed since, up to n.
Published == {published[k] : k \in 1..Len(published)}
Upto(n) == Published = (born + 1)..n
StreamInv ==
    /\ pc \in {"idle", "taken", "begun", "decided", "settling"} => Upto(Len(log))
    /\ pc \in {"committed", "deferring", "scheduling", "forking"} => Upto(job.start)
    /\ pc = "publishing" => next \in (job.start + 1)..(Len(log) + 1) /\ Upto(next - 1)
    /\ pc = "recovering" => \E n \in job.start..Len(log) : Upto(n)
    /\ StreamHasNoGap
    /\ "timeout" \notin Disturbances => StreamInDispatchOrder

\* The summaries of the threads reflect their events up to n.
FreshUpto(n) == \A p \in 1..n : log[p].kind = "summary" => p <= summaryAt[Subject(p)]
SummaryInv ==
    /\ FreshUpto(deferredCursor)
    /\ pc = "committed" => next = job.start + 1
    /\ pc = "deferring" => next \in (job.start + 1)..(Len(log) + 1)
    /\ pc \in {"scheduling", "forking"} => dirty /\ next \in (job.start + 1)..Len(log)
    /\ ~dirty => IF pc \in {"committed", "deferring"} THEN FreshUpto(next - 1) ELSE FreshUpto(Len(log))

-----------------------------------------------------------------------------
\* What the types say of the variables used here.
LEMMA Facts ==
    ASSUME TypeInv
    PROVE  /\ log \in Seq([by : Attempts, kind : Kinds]) /\ Len(log) \in Nat
           /\ job.start \in Nat /\ next \in Nat /\ born \in Nat
           /\ deferredCursor \in Nat /\ hotCursor \in Nat
           /\ summaryAt \in [Targets -> Nat]
           /\ model \in [seq : Nat, seen : SUBSET Nat, doubled : SUBSET Nat]
           /\ published \in Seq(Nat) /\ Len(published) \in Nat
           /\ dirty \in BOOLEAN /\ inFlight \in BOOLEAN /\ forked \in BOOLEAN /\ ReadLimit \in Nat
BY ReadLimitAssumption DEF TypeInv, TypeOK

\* A read stays within the log, and reaches its end when the limit allows it.
LEMMA Reads ==
    ASSUME TypeInv, NEW n \in Nat, n <= Len(log)
    PROVE  /\ HotAfter(n) \in n..Len(log) /\ ReadFrom(n) = (n + 1)..HotAfter(n)
           /\ Len(log) <= n + ReadLimit => HotAfter(n) = Len(log)
           /\ ReadFrom(n) = {} <=> n = Len(log)
<1>1. Len(log) \in Nat /\ ReadLimit \in Nat \ {0}
  BY Facts, ReadLimitAssumption
<1>2. /\ HotAfter(n) \in n..Len(log)
      /\ Len(log) <= n + ReadLimit => HotAfter(n) = Len(log)
  BY <1>1 DEF HotAfter, Least
<1>3. ReadFrom(n) = (n + 1)..HotAfter(n)
  BY DEF ReadFrom, HotAfter
<1>4. n < Len(log) => n + 1 <= HotAfter(n)
  BY <1>1 DEF HotAfter, Least
<1>5. n = Len(log) => HotAfter(n) = n
  BY <1>1, <1>2
<1>6. n < Len(log) => n + 1 \in ReadFrom(n)
  BY <1>1, <1>2, <1>3, <1>4
<1>7. n = Len(log) => ReadFrom(n) = {}
  BY <1>1, <1>3, <1>5
<1> QED BY <1>1, <1>2, <1>3, <1>6, <1>7

\* The transaction appends the plan's events to the log.
LEMMA LogGrows ==
    ASSUME TypeInv, Commit
    PROVE  /\ Len(log') = Len(log) + Len(Plan[CommandOf[job.by]])
           /\ Len(Plan[CommandOf[job.by]]) \in Nat \ {0}
           /\ CommandOf[job.by] \in Commands /\ job.by \in Attempts
           /\ \A p \in 1..Len(log) : log'[p] = log[p]
           /\ \A k \in 1..Len(Plan[CommandOf[job.by]]) :
                 log'[Len(log) + k] = [by |-> job.by, kind |-> Plan[CommandOf[job.by]][k]]
           /\ batch' = (Len(log) + 1)..Len(log') /\ next' = Len(log) + 1
           /\ rows' = rows \cup batch' /\ hotCursor' = Len(log')
           /\ pc = "decided" /\ pc' = "committed"
           /\ UNCHANGED <<deferredCursor, summaryAt, late, model, dirty, inFlight, forked,
                          published, born, job>>
<1>1. Len(Events(job.by)) = Len(Plan[CommandOf[job.by]])
  BY CommitFacts, EventsType
<1>2. Len(log') = Len(log) + Len(Plan[CommandOf[job.by]])
  BY CommitFacts
<1> QED BY <1>1, <1>2, CommitFacts DEF Commit, clients, deferral

\* Nothing else changes the log.
LEMMA LogStands ==
    ASSUME TypeInv, [Next]_vars, ~Commit
    PROVE  log' = log
BY LogFrame

-----------------------------------------------------------------------------
(* The tables.                                                             *)

LEMMA TableStep ==
    ASSUME TypeInv, TableInv, StartInv, ReplaysReachTheEnd, [Next]_vars
    PROVE  TableInv'
<1> USE DEF TableInv, RowsCoverLog
<1>0. Len(log) \in Nat /\ deferredCursor \in Nat /\ hotCursor = Len(log) /\ rows = 1..Len(log)
  BY Facts
<1>1. CASE Commit
  <2>1. rows' = 1..Len(log')
    <3>1. Len(log') \in Nat /\ Len(log) <= Len(log') /\ rows' = rows \cup ((Len(log) + 1)..Len(log'))
      BY <1>0, <1>1, LogGrows
    <3> QED BY <1>0, <3>1
  <2> QED BY <1>0, <1>1, <2>1, LogGrows
<1>2. CASE Defer
  <2>1. UNCHANGED <<log, rows, hotCursor>>
        /\ (deferredCursor' = deferredCursor \/ (deferredCursor' = next /\ next \in batch))
    BY <1>2 DEF Defer
  <2>2. pc = "deferring"
    BY <1>2 DEF Defer
  <2>3. next \in batch => next <= Len(log)
    BY <1>0, <2>2, Facts DEF StartInv
  <2> QED BY <1>0, <2>1, <2>3
<1>3. CASE CatchUp \/ CrashAndRestart
  <2>1. Bootstrap(rows, hotCursor)
    BY <1>3 DEF CatchUp, CrashAndRestart
  <2>2. ReadFrom(Len(log)) = {} /\ HotAfter(Len(log)) = Len(log)
    BY SMTT(30), <1>0, Reads
  <2>3. HotAfter(deferredCursor) <= Len(log)
    BY <1>0, Reads
  <2> QED BY <1>0, <2>1, <2>2, <2>3 DEF Bootstrap
<1>4. CASE CatchUpFails
  <2>1. PICK p \in {deferredCursor} \cup
                   {q \in ReadFrom(deferredCursor) : log[q].kind = "summary"} : deferredCursor' = p
    BY <1>4 DEF CatchUpFails
  <2>2. p <= Len(log)
    <3>1. ReadFrom(deferredCursor) = (deferredCursor + 1)..HotAfter(deferredCursor)
          /\ HotAfter(deferredCursor) \in deferredCursor..Len(log)
      BY <1>0, Reads
    <3> QED BY <1>0, <2>1, <3>1
  <2> QED BY <1>4, <2>1, <2>2 DEF CatchUpFails
<1>5. CASE Repair
  <2>1. /\ Bootstrap({p \in rows : log[p].kind # "project"}, 0)
        /\ "repair" \in Disturbances
    BY <1>5 DEF Repair
  <2>2. ReadFrom(0) = 1..Len(log) /\ HotAfter(0) = Len(log)
    <3>1. Len(log) <= 0 + ReadLimit
      BY <2>1, Facts DEF ReplaysReachTheEnd
    <3>2. 0 <= Len(log) /\ 0 \in Nat /\ 0 + 1 = 1
      BY <1>0
    <3> QED BY <3>1, <3>2, Reads
  <2>3. HotAfter(deferredCursor) <= Len(log)
    BY <1>0, Reads
  <2>4. {p \in rows : log[p].kind # "project"} \cup ReadFrom(0) = 1..Len(log)
    BY <1>0, <2>2
  <2> QED BY <2>1, <2>2, <2>3, <2>4 DEF Bootstrap
<1>6. CASE ~Commit /\ ~Defer /\ ~CatchUp /\ ~CrashAndRestart /\ ~CatchUpFails /\ ~Repair
  <2>1. UNCHANGED <<log, rows, hotCursor, deferredCursor>>
    BY <1>6 DEF Next, Worker, vars, database, Dispatch, DeadlinePasses, Abandon, Take, Begin,
                AnswerFromReceipt, Decide, DecideFails, CommitFails, AssignModel, DeferFails,
                Schedule, Fork, DeferDone, Publish, Answer, Interrupt, Reconcile, Settle
  <2> QED BY <2>1
<1> QED BY <1>1, <1>2, <1>3, <1>4, <1>5, <1>6

-----------------------------------------------------------------------------
(* What disturbances make possible.                                        *)

LEMMA FaultStep ==
    ASSUME TypeInv, FaultInv, [Next]_vars
    PROVE  FaultInv'
<1> USE DEF FaultInv, clients, deferral
<1>1. "timeout" \notin Disturbances => late' = {}
  <2>1. CASE \E a \in Attempts : DeadlinePasses(a)
    BY <2>1 DEF DeadlinePasses
  <2>2. CASE ~\E a \in Attempts : DeadlinePasses(a)
    <3>1. late' = late
      BY <2>2 DEF Next, Worker, vars, Dispatch, Abandon, Take, Begin, AnswerFromReceipt, Decide,
                  DecideFails, Commit, CommitFails, AssignModel, Defer, DeferFails, Schedule, Fork,
                  DeferDone, Publish, Answer, Interrupt, Reconcile, Settle, CatchUp, CatchUpFails, Repair,
                  CrashAndRestart
    <3> QED BY <3>1
  <2> QED BY <2>1, <2>2
<1>2. (dirty \/ inFlight \/ forked \/ pc \in {"scheduling", "forking"})' =>
         "deferred" \in Disturbances
  <2>1. CASE DeferFails
    BY <2>1 DEF DeferFails
  <2>2. CASE Defer \/ Schedule \/ Fork
    BY <2>2 DEF Defer, Schedule, Fork
  <2>3. CASE CatchUp \/ CatchUpFails \/ CrashAndRestart
    BY <2>3 DEF CatchUp, CatchUpFails, CrashAndRestart, Rest, worker
  <2>4. CASE /\ ~DeferFails /\ ~Defer /\ ~Schedule /\ ~Fork
             /\ ~CatchUp /\ ~CatchUpFails /\ ~CrashAndRestart
    <3>1. UNCHANGED <<dirty, inFlight, forked>>
          /\ (pc' \in {"scheduling", "forking"} => pc' = pc)
      BY <2>4 DEF Next, Worker, vars, Dispatch, DeadlinePasses, Abandon, Take, Begin,
                  AnswerFromReceipt, Decide, DecideFails, Commit, CommitFails, AssignModel,
                  DeferDone, Publish, Answer, Interrupt, Reconcile, Settle, Repair, Rest, Fail,
                  worker
    <3> QED BY <3>1
  <2> QED BY <2>1, <2>2, <2>3, <2>4
<1> QED BY <1>1, <1>2

-----------------------------------------------------------------------------
(* The worker's envelope.                                                  *)

LEMMA StartStep ==
    ASSUME TypeInv, FaultInv, StartInv, ModelInv, ShortPlans, [Next]_vars
    PROVE  StartInv'
<1> USE DEF clients, worker
<1>0. /\ Len(log) \in Nat /\ job.start \in Nat /\ born \in Nat /\ ReadLimit \in Nat
      /\ born <= Len(log)
  BY Facts DEF StartInv
<1>1. CASE Take
  <2>1. pc = "idle" /\ model.seq = Len(log)
    BY <1>1 DEF Take, ModelInv, InStep
  <2>2. pc' = "taken" /\ job'.start = Len(log) /\ UNCHANGED <<log, born>>
    BY <1>1, <2>1 DEF Take, StartSequence, database
  <2> QED BY <1>0, <2>2 DEF StartInv
<1>2. CASE Commit
  <2>1. job.start = Len(log)
    BY <1>2 DEF Commit, StartInv
  <2>2. Len(Plan[CommandOf[job.by]]) <= ReadLimit
    BY <1>2, LogGrows DEF ShortPlans
  <2>3. /\ pc' = "committed" /\ born' = born /\ job' = job
        /\ batch' = (Len(log) + 1)..Len(log')
        /\ Len(log') \in Nat /\ Len(log) < Len(log') /\ Len(log') <= Len(log) + ReadLimit
    BY <1>0, <1>2, <2>2, LogGrows
  <2> QED BY <1>0, <2>1, <2>3 DEF StartInv
<1>3. CASE pc' = "idle" /\ log' = log /\ born' \in {born, Len(log)}
  BY <1>0, <1>3 DEF StartInv
<1>4. CASE UNCHANGED <<pc, job, batch, log, born>>
  BY <1>4 DEF StartInv
<1>5. CASE \/ pc = "taken" /\ pc' = "begun"
           \/ pc = "begun" /\ pc' = "decided"
           \/ pc = "committed" /\ pc' = "deferring"
           \/ pc = "deferring" /\ pc' \in {"scheduling", "publishing"}
           \/ pc = "scheduling" /\ pc' \in {"forking", "deferring"}
           \/ pc = "forking" /\ pc' = "deferring"
           \/ pc = "recovering" /\ pc' = "settling"
           \/ pc \in {"taken", "begun", "decided"} /\ pc' = "recovering"
  <2>1. ~Commit /\ ~Take /\ ~CrashAndRestart /\ ~Settle /\ ~Answer
    BY <1>5 DEF Commit, Take, CrashAndRestart, Settle, Answer, Rest
  <2>2. UNCHANGED <<job, batch, log, born>>
    <3>1. log' = log
      BY <2>1, LogStands
    <3>2. UNCHANGED <<job, batch, born>>
      BY <1>5, <2>1 DEF Next, Worker, vars, Dispatch, DeadlinePasses, Abandon, Begin,
                AnswerFromReceipt, Decide, DecideFails, CommitFails, AssignModel, Defer, DeferFails,
                Schedule, Fork, DeferDone, Publish, Interrupt, Reconcile, CatchUp, CatchUpFails, Repair, Rest, Fail
    <3> QED BY <3>1, <3>2
  <2> QED BY <1>5, <2>2 DEF StartInv
<1>6. CASE Interrupt
  <2>1. /\ pc # "idle" /\ job.by \in late /\ pc' = "recovering" /\ UNCHANGED <<job, log, born>>
    BY <1>6 DEF Interrupt, Fail, database
  <2>2. "timeout" \in Disturbances
    BY <2>1 DEF FaultInv
  <2> QED BY <2>1, <2>2 DEF StartInv
<1>7. CASE Begin \/ AnswerFromReceipt \/ Decide \/ DecideFails \/ CommitFails \/ AssignModel
  BY <1>3, <1>5, <1>7, LogStands
     DEF Begin, AnswerFromReceipt, Decide, DecideFails, CommitFails, AssignModel, Rest, Fail,
         database
<1>8. CASE Defer \/ DeferFails \/ Schedule \/ Fork \/ DeferDone
  BY <1>4, <1>5, <1>8 DEF Defer, DeferFails, NoteFailure, Schedule, Fork, DeferDone, database
<1>11. CASE Publish \/ Answer \/ Reconcile \/ Settle
  BY <1>3, <1>4, <1>5, <1>11 DEF Publish, Answer, Reconcile, Settle, Rest, database
<1>9. CASE CatchUp \/ CatchUpFails \/ Repair \/ CrashAndRestart
  BY <1>3, <1>4, <1>9 DEF CatchUp, CatchUpFails, Repair, CrashAndRestart, Bootstrap, Rest
<1>10. CASE \/ UNCHANGED vars
            \/ \E a \in Attempts : Dispatch(a) \/ DeadlinePasses(a) \/ Abandon(a)
  BY <1>4, <1>10 DEF vars, Dispatch, DeadlinePasses, Abandon, database
<1> QED BY <1>1, <1>2, <1>6, <1>7, <1>8, <1>9, <1>10, <1>11 DEF Next, Worker

-----------------------------------------------------------------------------
(* The read model.                                                         *)

\* A snapshot of the tables is in step with the log.
LEMMA SnapshotInStep ==
    ASSUME TypeInv, Len(log) <= deferredCursor + ReadLimit,
           NEW rs, NEW n \in Nat, Bootstrap(rs, n), TableInv, TableInv'
    PROVE  /\ log' = log
           /\ Snapshot(rows', hotCursor', deferredCursor')
                = [seq |-> Len(log), seen |-> 1..Len(log), doubled |-> {}]
<1>0. Len(log) \in Nat /\ deferredCursor \in Nat /\ deferredCursor <= Len(log)
  BY Facts DEF TableInv
<1>1. log' = log /\ deferredCursor' = Len(log)
  BY <1>0, Reads DEF Bootstrap
<1>2. rows' = 1..Len(log) /\ hotCursor' = Len(log)
  BY <1>1 DEF TableInv, RowsCoverLog
<1> QED BY <1>0, <1>1, <1>2 DEF Snapshot, Least

LEMMA ModelStep ==
    ASSUME TypeInv, TableInv, FaultInv, StartInv, ModelInv, TableInv', ReplaysReachTheEnd,
           Recoverable, [Next]_vars
    PROVE  ModelInv'
<1> USE DEF clients, worker, database, InStep
<1>0. /\ Len(log) \in Nat /\ job.start \in Nat
      /\ model \in [seq : Nat, seen : SUBSET Nat, doubled : SUBSET Nat]
  BY Facts
<1>1. CASE Commit
  <2>1. job.start = Len(log) /\ model.seen = 1..Len(log) /\ pc = "decided"
    BY <1>1 DEF Commit, StartInv, ModelInv
  <2>2. pc' = "committed" /\ job' = job /\ model' = model
    BY <1>1, LogGrows
  <2> QED BY <2>1, <2>2 DEF ModelInv
<1>2. CASE AssignModel
  <2>1. /\ pc' = "deferring" /\ log' = log
        /\ model' = [seq |-> Len(log), seen |-> model.seen \cup batch,
                     doubled |-> model.doubled \cup (model.seen \cap batch)]
    BY <1>2 DEF AssignModel, Apply
  <2>2. /\ model.seen = 1..job.start /\ batch = (job.start + 1)..Len(log)
        /\ job.start < Len(log)
    BY <1>2 DEF AssignModel, StartInv, ModelInv
  <2>3. model.seen \cup batch = 1..Len(log) /\ model.seen \cap batch = {}
    BY <1>0, <2>2
  <2> QED BY <2>1, <2>3 DEF ModelInv
<1>3. CASE Reconcile
  <2>1. pc = "recovering" /\ pc' = "settling" /\ log' = log
    BY <1>3 DEF Reconcile
  <2>2. job.start <= Len(log) /\ Len(log) <= job.start + ReadLimit
    BY <2>1 DEF StartInv
  <2>3. /\ HotAfter(job.start) = Len(log) /\ ReadFrom(job.start) = (job.start + 1)..Len(log)
        /\ ReadFrom(job.start) = {} <=> job.start = Len(log)
    BY <1>0, <2>2, Reads
  <2>4. CASE job.start = Len(log)
    <3>1. model' = model
      BY <1>3, <2>3, <2>4 DEF Reconcile
    <3> QED BY <2>1, <2>4, <3>1 DEF ModelInv
  <2>5. CASE job.start # Len(log)
    <3>1. "timeout" \in Disturbances /\ "reconcile" \notin Disturbances
      BY <2>1, <2>5 DEF StartInv, Recoverable
    <3>2. model' = [seq |-> Len(log), seen |-> model.seen \cup ((job.start + 1)..Len(log)),
                    doubled |-> model.doubled \cup (model.seen \cap ReadFrom(job.start))]
      BY <1>3, <2>3, <2>5, <3>1 DEF Reconcile, Apply
    <3>3. 1..job.start \subseteq model.seen /\ model.seen \subseteq 1..Len(log)
      BY <2>1 DEF ModelInv
    <3>4. model.seen \cup ((job.start + 1)..Len(log)) = 1..Len(log)
      BY <1>0, <2>2, <3>3
    <3> QED BY <2>1, <3>1, <3>2, <3>4 DEF ModelInv
  <2> QED BY <2>4, <2>5
<1>4. CASE Interrupt
  <2>1. /\ pc \in {"begun", "decided", "committed", "deferring", "scheduling", "forking",
                  "publishing"}
        /\ pc' = "recovering" /\ UNCHANGED <<log, model, job>>
    BY <1>4 DEF Interrupt, Fail
  <2>2. job.start <= Len(log) /\ (pc = "committed" => job.start < Len(log))
    BY <2>1 DEF StartInv
  <2>3. 1..job.start \subseteq model.seen /\ model.seen \subseteq 1..Len(log)
    <3>1. CASE pc = "committed"
      BY <1>0, <2>2, <3>1 DEF ModelInv
    <3>2. CASE pc # "committed"
      BY <1>0, <2>1, <2>2, <3>2 DEF ModelInv
    <3> QED BY <3>1, <3>2
  <2>4. job.start = Len(log) => InStep
    BY <2>1, <2>2 DEF ModelInv
  <2> QED BY <2>1, <2>3, <2>4 DEF ModelInv
<1>5. ASSUME UNCHANGED <<log, model>>, pc' \notin {"committed", "recovering"},
             pc \notin {"committed", "recovering"}
      PROVE  ModelInv'
  BY <1>5 DEF ModelInv
<1>6. ASSUME UNCHANGED <<log, model, job>>, pc' = "recovering", pc \in {"taken", "begun", "decided"}
      PROVE  ModelInv'
  <2>1. job.start = Len(log) /\ InStep
    BY <1>6 DEF StartInv, ModelInv
  <2> QED BY <1>0, <1>6, <2>1 DEF ModelInv
<1>7. ASSUME UNCHANGED <<log, model, job, pc>> PROVE ModelInv'
  BY <1>7 DEF ModelInv
<1>8. CASE Take \/ Begin \/ AnswerFromReceipt \/ Decide \/ DecideFails \/ CommitFails
  <2>1. UNCHANGED <<log, model>> /\ pc \in {"idle", "taken", "begun", "decided"}
    BY <1>8 DEF Take, Begin, AnswerFromReceipt, Decide, DecideFails, CommitFails
  <2>2. \/ pc' \in {"idle", "taken", "begun", "decided"}
        \/ pc' = "recovering" /\ job' = job /\ pc \in {"taken", "begun", "decided"}
    BY <1>8 DEF Take, Begin, AnswerFromReceipt, Decide, DecideFails, CommitFails, Rest, Fail
  <2> QED BY <1>5, <1>6, <2>1, <2>2
<1>9. CASE \/ Defer \/ DeferFails \/ Schedule \/ Fork \/ DeferDone
           \/ Publish \/ Answer \/ Settle
  <2>1. /\ UNCHANGED <<log, model>>
        /\ pc \in {"deferring", "scheduling", "forking", "publishing", "settling"}
        /\ pc' \in {"deferring", "scheduling", "forking", "publishing", "idle"}
    BY <1>9 DEF Defer, DeferFails, NoteFailure, Schedule, Fork, DeferDone, Publish, Answer,
                Settle, Rest
  <2> QED BY <1>5, <2>1
<1>10. CASE Repair
  <2>1. Len(log) <= deferredCursor + ReadLimit
    BY <1>0, <1>10, Facts DEF Repair, ReplaysReachTheEnd
  <2>2. /\ Bootstrap({p \in rows : log[p].kind # "project"}, 0)
        /\ model' = Snapshot(rows', hotCursor', deferredCursor') \/ model' = model
        /\ pc \in {"idle", "taken"} /\ UNCHANGED <<pc, job>>
    BY <1>10 DEF Repair, Inside
  <2>3. /\ log' = log
        /\ Snapshot(rows', hotCursor', deferredCursor')
             = [seq |-> Len(log), seen |-> 1..Len(log), doubled |-> {}]
    BY <2>1, <2>2, SnapshotInStep
  <2> QED BY <2>2, <2>3 DEF ModelInv
<1>11. CASE CrashAndRestart
  <2>1. Len(log) <= deferredCursor + ReadLimit
    BY <1>11 DEF CrashAndRestart, ReplaysReachTheEnd
  <2>2. /\ Bootstrap(rows, hotCursor) /\ pc' = "idle"
        /\ model' = Snapshot(rows', hotCursor', deferredCursor')
    BY <1>11 DEF CrashAndRestart, Rest
  <2>3. /\ log' = log
        /\ model' = [seq |-> Len(log), seen |-> 1..Len(log), doubled |-> {}]
    BY <2>1, <2>2, SnapshotInStep, Facts
  <2> QED BY <2>2, <2>3 DEF ModelInv
<1>12. CASE CatchUp \/ CatchUpFails \/ UNCHANGED vars
  BY <1>7, <1>12 DEF CatchUp, CatchUpFails, vars, Bootstrap
<1>13. CASE \E a \in Attempts : Dispatch(a) \/ DeadlinePasses(a) \/ Abandon(a)
  BY <1>7, <1>13 DEF Dispatch, DeadlinePasses, Abandon
<1> QED BY <1>1, <1>2, <1>3, <1>4, <1>8, <1>9, <1>10, <1>11, <1>12, <1>13 DEF Next, Worker

-----------------------------------------------------------------------------
(* The history.                                                            *)

\* The aggregates that are created in the first n events of the log.
CreatedBy(n) == {Subject(q) : q \in {r \in 1..n : log[r].kind \in Creations}}

\* What the commit appends continues a legal history legally.
LEMMA CommitIsLegal ==
    ASSUME TypeInv, StartInv, ModelInv, HistoryInv, Commit
    PROVE  LogIsLegal'
<1> DEFINE c == CommandOf[job.by]  n == Len(Plan[c])  t == Target[c]
<1>1. /\ Len(log) \in Nat /\ n \in Nat \ {0} /\ Len(log') = Len(log) + n /\ c \in Commands
      /\ \A p \in 1..Len(log) : log'[p] = log[p]
      /\ \A k \in 1..n : log'[Len(log) + k] = [by |-> job.by, kind |-> Plan[c][k]]
  BY Facts, LogGrows
<1>2. \A k \in 2..n : Plan[c][k] \notin Creations
  BY <1>1, CreationAssumption
<1>3. (t \notin CreatedBy(Len(log))) <=> (Plan[c][1] \in Creations)
  <2>1. model.seen = 1..Len(log) /\ Legal(job.by, model)
    BY DEF Commit, ModelInv, InStep, HistoryInv
  <2> QED BY <2>1 DEF Legal, Known, CreatedBy
<1> HIDE DEF c, n, t
<1>4. ASSUME NEW p \in 1..Len(log)
      PROVE  Subject(p)' = Subject(p) /\ log'[p].kind = log[p].kind
  BY <1>1 DEF Subject
<1>5. ASSUME NEW m \in 0..Len(log) PROVE CreatedBy(m)' = CreatedBy(m)
  <2>1. \A q \in 1..m : Subject(q)' = Subject(q) /\ log'[q].kind = log[q].kind
    BY <1>1, <1>4
  <2> QED BY <2>1 DEF CreatedBy
<1>6. ASSUME NEW p \in 1..Len(log)
      PROVE  (log'[p].kind \in Creations) <=> (Subject(p)' \notin CreatedBy(p - 1)')
  <2>1. p - 1 \in 0..Len(log)
    BY <1>1
  <2>2. (log[p].kind \in Creations) <=> (Subject(p) \notin CreatedBy(p - 1))
    BY DEF HistoryInv, LogIsLegal, CreatedBy
  <2>3. CreatedBy(p - 1)' = CreatedBy(p - 1)
    BY <1>5, <2>1
  <2> QED BY <1>4, <2>2, <2>3
<1>d. PICK l \in Nat : l = Len(log)
  BY <1>1
<1>e. PICK d \in Commands : d = c
  BY <1>1
<1>7. ASSUME NEW k \in 1..n
      PROVE  (log'[l + k].kind \in Creations) <=> (Subject(l + k)' \notin CreatedBy(l + k - 1)')
  <2>1. /\ Subject(l + k)' = Target[d] /\ Subject(l + 1)' = Target[d] /\ t = Target[d]
        /\ log'[l + k].kind = Plan[d][k] /\ log'[l + 1].kind = Plan[d][1]
    <3>1. 1 \in 1..n
      BY <1>1
    <3>2. /\ log'[Len(log) + k] = [by |-> job.by, kind |-> Plan[c][k]]
          /\ log'[Len(log) + 1] = [by |-> job.by, kind |-> Plan[c][1]]
      BY <1>1, <3>1
    <3>3. /\ log'[l + k].by = job.by /\ log'[l + k].kind = Plan[d][k]
          /\ log'[l + 1].by = job.by /\ log'[l + 1].kind = Plan[d][1]
      BY <1>d, <1>e, <3>2
    <3>4. CommandOf[job.by] = d /\ t = Target[d]
      BY <1>e DEF t, c
    <3> QED BY <3>3, <3>4 DEF Subject
  <2>2. CASE k = 1
    <3>1. l + k - 1 = l /\ l \in 0..Len(log)
      BY <1>1, <1>d, <2>2
    <3>2. CreatedBy(l)' = CreatedBy(l)
      BY <1>5, <3>1
    <3> QED BY <1>3, <1>d, <1>e, <2>1, <2>2, <3>1, <3>2
  <2>3. CASE k # 1
    <3>1. /\ k \in 2..n /\ 1..l \subseteq 1..(l + k - 1) /\ l + 1 \in 1..(l + k - 1)
      BY <1>1, <2>3
    <3>2. Target[d] \in CreatedBy(l + k - 1)'
      <4>1. CASE Plan[d][1] \in Creations
        BY <2>1, <3>1, <4>1 DEF CreatedBy
      <4>2. CASE Plan[d][1] \notin Creations
        <5>1. PICK q \in 1..l : log[q].kind \in Creations /\ Subject(q) = Target[d]
          BY <1>3, <1>d, <1>e, <2>1, <4>2 DEF CreatedBy
        <5>2. q \in 1..(l + k - 1) /\ log'[q].kind \in Creations /\ Subject(q)' = Target[d]
          BY <1>4, <1>d, <3>1, <5>1
        <5> QED BY <5>2 DEF CreatedBy
      <4> QED BY <4>1, <4>2
    <3> QED BY <1>2, <1>e, <2>1, <3>1, <3>2
  <2> QED BY <2>2, <2>3
<1>8. ASSUME NEW p \in 1..Len(log')
      PROVE  (log'[p].kind \in Creations) <=> (Subject(p)' \notin CreatedBy(p - 1)')
  <2>1. CASE p \in 1..Len(log)
    BY <1>6, <2>1
  <2>2. CASE p \notin 1..Len(log)
    <3>1. p - l \in 1..n /\ p = l + (p - l)
      BY <1>1, <1>d, <2>2
    <3>2. PICK k \in 1..n : p = l + k
      BY <3>1
    <3> QED BY <1>7, <3>2
  <2> QED BY <2>1, <2>2
<1> QED BY <1>8 DEF LogIsLegal, CreatedBy

LEMMA HistoryStep ==
    ASSUME TypeInv, StartInv, ModelInv, HistoryInv, [Next]_vars
    PROVE  HistoryInv'
<1> USE DEF clients, worker, database
<1>1. CASE Commit
  <2>1. pc' # "decided"
    BY <1>1 DEF Commit
  <2> QED BY <1>1, <2>1, CommitIsLegal DEF HistoryInv
<1>2. CASE ~Commit
  <2>1. log' = log
    BY <1>2, LogStands
  <2>2. LogIsLegal'
    BY <2>1 DEF HistoryInv, LogIsLegal, Subject
  <2>3. ASSUME UNCHANGED <<model, job>>, Legal(job.by, model) PROVE Legal(job.by, model)'
    BY <2>1, <2>3 DEF Legal, Known, Subject
  <2>4. CASE Decide
    <3>1. UNCHANGED model /\ (pc' = "decided" => job' = job /\ Legal(job.by, model))
      BY <2>4 DEF Decide, Fail
    <3> QED BY <2>2, <2>3, <3>1 DEF HistoryInv
  <2>5. CASE ~Decide
    <3>1. pc' = "decided" => pc = "decided" /\ UNCHANGED <<model, job>>
      BY <1>2, <2>5 DEF Next, Worker, vars, Inside, Rest, Fail, Dispatch, DeadlinePasses, Abandon,
              Take, Begin, AnswerFromReceipt, DecideFails, CommitFails, AssignModel, Defer,
              DeferFails, NoteFailure, Schedule, Fork, DeferDone, Publish, Answer, Interrupt,
              Reconcile, Settle, CatchUp,
              CatchUpFails, Repair, CrashAndRestart
    <3> QED BY <2>2, <2>3, <3>1 DEF HistoryInv
  <2> QED BY <2>4, <2>5
<1> QED BY <1>1, <1>2

-----------------------------------------------------------------------------
(* The published stream.                                                   *)

\* A stream that has got as far as e goes on with the events after a, up to b.
LEMMA StreamGrows ==
    ASSUME TypeInv, NEW a \in Nat, NEW b \in Nat, NEW e \in Nat,
           born <= a, a <= e, e <= b, Upto(e), StreamHasNoGap, born' = born,
           Len(published') = Len(published) + (b - a),
           \A i \in 1..Len(published) : published'[i] = published[i],
           \A i \in 1..(b - a) : published'[Len(published) + i] = a + i
    PROVE  Upto(b)' /\ StreamHasNoGap'
<1> DEFINE m == Len(published)
<1>1. /\ m \in Nat /\ born \in Nat /\ Len(published') = m + (b - a)
      /\ \A i \in 1..m : published'[i] = published[i]
      /\ \A i \in 1..(b - a) : published'[m + i] = a + i
  BY Facts
<1>2. \A q \in (born + 1)..e : \E j \in 1..m : published[j] = q
  BY DEF Upto, Published
<1>3. \A j \in 1..m : published[j] \in (born + 1)..e
  BY DEF Upto, Published
<1> HIDE DEF m
<1>4. ASSUME NEW k \in 1..Len(published')
      PROVE  k \in 1..m \/ \E i \in 1..(b - a) : k = m + i
  <2>1. CASE k \notin 1..m
    <3>1. k - m \in 1..(b - a) /\ k = m + (k - m)
      BY <1>1, <2>1
    <3> QED BY <3>1
  <2> QED BY <2>1
<1>5. ASSUME NEW q \in (born + 1)..b
      PROVE  \E j \in 1..Len(published') : published'[j] = q
  <2>1. CASE q \in (born + 1)..e
    <3>1. PICK j \in 1..m : published[j] = q
      BY <1>2, <2>1
    <3>2. j \in 1..Len(published')
      BY <1>1
    <3> QED BY <1>1, <3>1, <3>2
  <2>2. CASE q \notin (born + 1)..e
    <3>1. q - a \in 1..(b - a) /\ a + (q - a) = q /\ m + (q - a) \in 1..Len(published')
      BY <1>1, <2>2
    <3>2. published'[m + (q - a)] = q
      BY <1>1, <3>1
    <3> QED BY <3>1, <3>2
  <2> QED BY <2>1, <2>2
<1>6. ASSUME NEW k \in 1..Len(published') PROVE published'[k] \in (born + 1)..b
  <2>1. CASE k \in 1..m
    BY <1>1, <1>3, <2>1
  <2>2. ASSUME NEW i \in 1..(b - a), k = m + i PROVE published'[k] \in (born + 1)..b
    <3>1. published'[k] = a + i
      BY <1>1, <2>2
    <3> QED BY <1>1, <3>1
  <2> QED BY <1>4, <2>1, <2>2
<1>7. Upto(b)'
  <2>1. ASSUME NEW q PROVE q \in Published' <=> q \in (born + 1)..b
    BY <1>5, <1>6 DEF Published
  <2>2. Published' = (born' + 1)..b
    BY <2>1
  <2> QED BY <2>2 DEF Upto
<1>8. ASSUME NEW k \in 1..Len(published'), NEW q \in (born + 1)..published'[k]
      PROVE  \E j \in 1..k : published'[j] = q
  <2>1. CASE k \in 1..m
    <3>1. published'[k] = published[k]
      BY <1>1, <2>1
    <3>2. PICK j \in 1..k : published[j] = q
      BY <2>1, <3>1 DEF StreamHasNoGap, m
    <3>3. j \in 1..m
      BY <1>1, <2>1
    <3> QED BY <1>1, <3>2, <3>3
  <2>2. ASSUME NEW i \in 1..(b - a), k = m + i
        PROVE  \E j \in 1..k : published'[j] = q
    <3>1. published'[k] = a + i
      BY <1>1, <2>2
    <3>2. CASE q \in (born + 1)..e
      <4>1. PICK j \in 1..m : published[j] = q
        BY <1>2, <3>2
      <4>2. j \in 1..k
        BY <1>1, <2>2
      <4> QED BY <1>1, <4>1, <4>2
    <3>3. CASE q \notin (born + 1)..e
      <4>1. q - a \in 1..(b - a) /\ a + (q - a) = q /\ m + (q - a) \in 1..k
        BY <1>1, <2>2, <3>1, <3>3
      <4>2. published'[m + (q - a)] = q
        BY <1>1, <4>1
      <4> QED BY <4>1, <4>2
    <3> QED BY <3>2, <3>3
  <2> QED BY <1>4, <2>1, <2>2
<1>9. StreamHasNoGap'
  BY <1>8 DEF StreamHasNoGap
<1> QED BY <1>7, <1>9

\* Publishing the next event keeps the dispatch order.
LEMMA OrderGrows ==
    ASSUME TypeInv, StreamInDispatchOrder, Upto(next - 1), published' = Append(published, next)
    PROVE  StreamInDispatchOrder'
<1>1. /\ Len(published) \in Nat /\ next \in Nat /\ Len(published') = Len(published) + 1
      /\ published'[Len(published) + 1] = next
      /\ \A i \in 1..Len(published) : published'[i] = published[i]
  BY Facts
<1>2. \A i \in 1..Len(published) : published[i] <= next - 1
  BY <1>1 DEF Upto, Published
<1>3. ASSUME NEW k \in 1..(Len(published') - 1) PROVE published'[k] < published'[k + 1]
  <2>1. k \in 1..Len(published) /\ published'[k] = published[k]
    BY <1>1
  <2>2. CASE k = Len(published)
    BY <1>1, <1>2, <2>1, <2>2, Facts
  <2>3. CASE k # Len(published)
    <3>1. k \in 1..(Len(published) - 1) /\ k + 1 \in 1..Len(published)
      BY <1>1, <2>1, <2>3
    <3>2. published[k] < published[k + 1] /\ published'[k + 1] = published[k + 1]
      BY <1>1, <3>1 DEF StreamInDispatchOrder
    <3> QED BY <2>1, <3>2
  <2> QED BY <2>2, <2>3
<1> QED BY <1>3 DEF StreamInDispatchOrder

LEMMA StreamStep ==
    ASSUME TypeInv, FaultInv, StartInv, StreamInv, Recoverable, [Next]_vars
    PROVE  StreamInv'
<1> USE DEF clients, worker, database
<1>0. /\ Len(log) \in Nat /\ job.start \in Nat /\ born \in Nat /\ next \in Nat
  BY Facts
<1>a. ASSUME UNCHANGED <<published, born>>
      PROVE  /\ StreamHasNoGap' /\ ("timeout" \notin Disturbances => StreamInDispatchOrder')
             /\ \A n : Upto(n)' <=> Upto(n)
  BY <1>a DEF StreamInv, StreamHasNoGap, StreamInDispatchOrder, Upto, Published
<1>1. CASE Commit
  <2>1. /\ pc' = "committed" /\ job' = job /\ UNCHANGED <<published, born>>
        /\ pc = "decided" /\ job.start = Len(log)
    BY <1>1, LogGrows DEF StartInv
  <2>2. Upto(job.start)'
    BY <1>a, <2>1 DEF StreamInv, Upto, Published
  <2> QED BY <1>a, <2>1, <2>2 DEF StreamInv
<1>2. CASE DeferDone
  <2>1. /\ pc = "deferring" /\ pc' = "publishing" /\ UNCHANGED <<published, born, log, job>>
        /\ next' \in batch /\ \A p \in batch : next' <= p
    BY <1>2 DEF DeferDone
  <2>2. batch = (job.start + 1)..Len(log) /\ job.start < Len(log)
    BY <2>1 DEF StartInv
  <2>3. next' = job.start + 1
    <3>1. job.start + 1 \in batch
      BY <1>0, <2>2
    <3>2. next' <= job.start + 1 /\ next' \in (job.start + 1)..Len(log)
      BY <2>1, <2>2, <3>1
    <3> QED BY <1>0, <3>2
  <2>4. next' - 1 = job.start /\ next' \in (job.start + 1)..(Len(log) + 1)
    BY <1>0, <2>2, <2>3
  <2>5. Upto(next - 1)'
    BY <2>1, <2>4 DEF StreamInv, Upto, Published
  <2> QED BY <1>a, <2>1, <2>4, <2>5 DEF StreamInv
<1>3. CASE Publish
  <2>1. /\ pc = "publishing" /\ pc' = "publishing" /\ UNCHANGED <<born, log, job>>
        /\ next \in batch /\ published' = Append(published, next) /\ next' = next + 1
    BY <1>3 DEF Publish
  <2>2. /\ batch = (job.start + 1)..Len(log) /\ born <= job.start
        /\ Upto(next - 1) /\ StreamHasNoGap
    BY <2>1 DEF StartInv, StreamInv
  <2>3. next - 1 \in Nat /\ next' \in (job.start + 1)..(Len(log) + 1) /\ next' - 1 = next
        /\ born <= next - 1
    BY <1>0, <2>1, <2>2
  <2>4. PICK a \in Nat, b \in Nat : a = next - 1 /\ b = next
    BY <1>0, <2>3
  <2>5. Upto(b)' /\ StreamHasNoGap'
    <3>1. /\ Len(published') = Len(published) + (b - a)
          /\ \A i \in 1..Len(published) : published'[i] = published[i]
          /\ \A i \in 1..(b - a) : published'[Len(published) + i] = a + i
      <4>1. /\ published \in Seq(Nat) /\ published' = Append(published, b)
        BY <2>1, <2>4, Facts
      <4>2. b = a + 1 /\ b - a = 1
        BY <1>0, <2>4
      <4> QED BY <4>1, <4>2
    <3>2. born <= a /\ a <= a /\ a <= b /\ Upto(a) /\ born' = born
      BY <1>0, <2>1, <2>2, <2>3, <2>4
    <3> QED BY <2>2, <3>1, <3>2, StreamGrows
  <2>6. Upto(next - 1)'
    BY <2>3, <2>4, <2>5 DEF Upto, Published
  <2>7. "timeout" \notin Disturbances => StreamInDispatchOrder'
    BY <2>1, <2>2, OrderGrows DEF StreamInv
  <2> QED BY <2>1, <2>3, <2>5, <2>6, <2>7 DEF StreamInv
<1>4. CASE Reconcile
  <2>1. pc = "recovering" /\ pc' = "settling" /\ UNCHANGED <<born, log, job>>
    BY <1>4 DEF Reconcile
  <2>2. /\ born <= job.start /\ job.start <= Len(log) /\ Len(log) <= job.start + ReadLimit
        /\ "timeout" \notin Disturbances => job.start = Len(log)
    BY <2>1 DEF StartInv
  <2>3. PICK e \in job.start..Len(log) : Upto(e)
    BY <2>1 DEF StreamInv
  <2>4. /\ HotAfter(job.start) = Len(log)
        /\ ReadFrom(job.start) = {} <=> job.start = Len(log)
    BY <1>0, <2>2, Reads
  <2>5. CASE job.start = Len(log)
    <3>1. UNCHANGED published /\ e = Len(log)
      BY <1>0, <1>4, <2>3, <2>4, <2>5 DEF Reconcile
    <3>2. Upto(Len(log))'
      BY <2>1, <2>3, <3>1 DEF Upto, Published
    <3> QED BY <1>a, <2>1, <3>1, <3>2 DEF StreamInv
  <2>6. CASE job.start # Len(log)
    <3>1. "timeout" \in Disturbances /\ "reconcile" \notin Disturbances
      BY <2>2, <2>6 DEF Recoverable
    <3>2. published' = published \o [k \in 1..(Len(log) - job.start) |-> job.start + k]
      BY <1>4, <2>4, <2>6, <3>1 DEF Reconcile, PublishMissed
    <3>3. PICK a \in Nat, b \in Nat : a = job.start /\ b = Len(log)
      BY <1>0
    <3>4. PICK t : t = [k \in 1..(b - a) |-> a + k]
      OBVIOUS
    <3>5. b - a \in Nat
      BY <1>0, <2>2, <3>3
    <3>6. t \in Seq(Nat) /\ Len(t) = b - a /\ \A i \in 1..(b - a) : t[i] = a + i
      BY SMTT(60), <3>3, <3>4, <3>5
    <3>7. /\ Len(published') = Len(published) + (b - a)
          /\ \A i \in 1..Len(published) : published'[i] = published[i]
          /\ \A i \in 1..(b - a) : published'[Len(published) + i] = a + i
      <4> DEFINE S == Nat
      <4>1. published \in Seq(S) /\ t \in Seq(S) /\ published' = published \o t
        BY <3>2, <3>3, <3>4, <3>6, Facts
      <4> HIDE DEF S
      <4>2. /\ Len(published') = Len(published) + Len(t)
            /\ \A i \in 1..Len(published) : published'[i] = published[i]
            /\ \A i \in 1..Len(t) : published'[Len(published) + i] = t[i]
        BY <4>1, ConcatFacts
      <4> QED BY <3>6, <4>2
    <3>8. Upto(b)' /\ StreamHasNoGap'
      <4>1. e \in Nat /\ born <= a /\ a <= e /\ e <= b /\ StreamHasNoGap /\ born' = born
        BY <1>0, <2>1, <2>2, <2>3, <3>3 DEF StreamInv
      <4> QED BY <2>3, <3>7, <4>1, StreamGrows
    <3>9. Upto(Len(log))'
      BY <2>1, <3>3, <3>8 DEF Upto, Published
    <3> QED BY <2>1, <3>1, <3>8, <3>9 DEF StreamInv
  <2> QED BY <2>5, <2>6
<1>5. CASE CrashAndRestart
  <2>1. pc' = "idle" /\ published' = <<>> /\ born' = Len(log) /\ log' = log
    BY <1>5 DEF CrashAndRestart, Rest, Bootstrap
  <2>2. Upto(Len(log))' /\ StreamHasNoGap' /\ StreamInDispatchOrder'
    BY <1>0, <2>1 DEF Upto, Published, StreamHasNoGap, StreamInDispatchOrder
  <2> QED BY <2>1, <2>2 DEF StreamInv
<1>6. ASSUME UNCHANGED <<published, born, log>>, Upto(Len(log)),
             pc' \in {"idle", "taken", "begun", "decided", "settling"}
      PROVE  StreamInv'
  <2>1. Upto(Len(log))'
    BY <1>6 DEF Upto, Published
  <2> QED BY <1>a, <1>6, <2>1 DEF StreamInv
<1>7. ASSUME UNCHANGED <<published, born, log, job>>, pc' = "recovering",
             \E n \in job.start..Len(log) : Upto(n)
      PROVE  StreamInv'
  <2>1. (\E n \in job.start..Len(log) : Upto(n))'
    BY <1>7 DEF Upto, Published
  <2> QED BY <1>a, <1>7, <2>1 DEF StreamInv
<1>8. CASE Take \/ Begin \/ AnswerFromReceipt \/ Decide \/ DecideFails \/ CommitFails
  <2>1. /\ UNCHANGED <<published, born, log>> /\ pc \in {"idle", "taken", "begun", "decided"}
        /\ pc' \in {"idle", "taken", "begun", "decided", "recovering"}
        /\ pc' = "recovering" => job' = job /\ pc # "idle"
    BY <1>8 DEF Take, Begin, AnswerFromReceipt, Decide, DecideFails, CommitFails, Rest, Fail
  <2>2. Upto(Len(log)) /\ (pc # "idle" => Len(log) \in job.start..Len(log))
    BY <1>0, <2>1 DEF StreamInv, StartInv
  <2> QED BY <1>6, <1>7, <2>1, <2>2
<1>9. CASE Interrupt
  <2>1. /\ pc \in {"begun", "decided", "committed", "deferring", "scheduling", "forking",
                  "publishing"}
        /\ pc' = "recovering" /\ UNCHANGED <<published, born, log, job>>
    BY <1>9 DEF Interrupt, Fail
  <2>2. job.start <= Len(log)
    BY <2>1 DEF StartInv
  <2>3. CASE pc \in {"begun", "decided"}
    <3>1. Upto(Len(log)) /\ Len(log) \in job.start..Len(log)
      BY <1>0, <2>2, <2>3 DEF StreamInv
    <3> QED BY <1>7, <2>1, <3>1
  <2>4. CASE pc \in {"committed", "deferring", "scheduling", "forking"}
    <3>1. Upto(job.start) /\ job.start \in job.start..Len(log)
      BY <1>0, <2>2, <2>4 DEF StreamInv
    <3> QED BY <1>7, <2>1, <3>1
  <2>5. CASE pc = "publishing"
    <3>1. Upto(next - 1) /\ next - 1 \in job.start..Len(log)
      BY <1>0, <2>2, <2>5 DEF StreamInv
    <3> QED BY <1>7, <2>1, <3>1
  <2> QED BY <2>1, <2>3, <2>4, <2>5
<1>10. CASE Answer \/ Settle
  <2>1. UNCHANGED <<published, born, log>> /\ pc' = "idle"
    BY <1>10 DEF Answer, Settle, Rest
  <2>2. Upto(Len(log))
    <3>1. CASE Settle
      BY <3>1 DEF Settle, StreamInv
    <3>2. CASE Answer
      <4>1. /\ next \notin batch /\ batch = (job.start + 1)..Len(log)
            /\ next \in (job.start + 1)..(Len(log) + 1) /\ Upto(next - 1)
        BY <3>2 DEF Answer, StartInv, StreamInv
      <4>2. next - 1 = Len(log)
        BY <1>0, <4>1
      <4> QED BY <4>1, <4>2
    <3> QED BY <1>10, <3>1, <3>2
  <2> QED BY <1>6, <2>1, <2>2
<1>11. CASE AssignModel \/ Defer \/ DeferFails \/ Schedule \/ Fork
  <2>1. /\ UNCHANGED <<published, born, log, job>>
        /\ pc \in {"committed", "deferring", "scheduling", "forking"}
        /\ pc' \in {"deferring", "scheduling", "forking"}
    BY <1>11 DEF AssignModel, Defer, DeferFails, NoteFailure, Schedule, Fork
  <2>2. Upto(job.start)'
    BY <2>1 DEF StreamInv, Upto, Published
  <2> QED BY <1>a, <2>1, <2>2 DEF StreamInv
<1>12. ASSUME UNCHANGED <<published, born, log, job, pc, next>> PROVE StreamInv'
  <2>1. \A n : Upto(n)' <=> Upto(n)
    BY <1>a, <1>12
  <2>2. /\ Upto(Len(log))' <=> Upto(Len(log))
        /\ Upto(job.start)' <=> Upto(job.start)
        /\ Upto(next - 1)' <=> Upto(next - 1)
    BY <1>12 DEF Upto, Published
  <2> QED BY <1>a, <1>12, <2>1, <2>2 DEF StreamInv
<1>13. CASE CatchUp \/ CatchUpFails \/ Repair \/ UNCHANGED vars
  BY <1>12, <1>13 DEF CatchUp, CatchUpFails, Repair, vars, Bootstrap
<1>14. CASE \E a \in Attempts : Dispatch(a) \/ DeadlinePasses(a) \/ Abandon(a)
  BY <1>12, <1>14 DEF Dispatch, DeadlinePasses, Abandon
<1> QED BY <1>1, <1>2, <1>3, <1>4, <1>5, <1>8, <1>9, <1>10, <1>11, <1>13, <1>14 DEF Next, Worker

-----------------------------------------------------------------------------
(* The summaries.                                                          *)

LEMMA SubjectTyped ==
    ASSUME TypeInv, NEW p \in 1..Len(log)
    PROVE  Subject(p) \in Targets
<1> DEFINE R == [by : Attempts, kind : Kinds]
<1>1. log \in Seq(R)
  BY Facts
<1> HIDE DEF R
<1>2. log[p] \in R
  BY <1>1
<1>3. CommandOf[log[p].by] \in Commands
  BY <1>2, Constants DEF R
<1> QED BY <1>3, Constants DEF Subject

\* Refreshing the threads of the events after a, up to b, extends what is fresh.
LEMMA Refreshed ==
    ASSUME TypeInv, NEW a \in Nat, NEW b \in Nat, a <= b, b <= Len(log), FreshUpto(a),
           NEW ps, ps = (a + 1)..b, log' = log, summaryAt' = Summaries(ps)
    PROVE  FreshUpto(b)'
<1>0. Len(log) \in Nat
  BY Facts
<1> SUFFICES ASSUME NEW p \in 1..b, log[p].kind = "summary"
             PROVE  p <= summaryAt'[Subject(p)]
  BY DEF FreshUpto, Subject
<1>1. p \in 1..Len(log) /\ Subject(p) \in Targets
  <2>1. p \in 1..Len(log)
    BY <1>0
  <2> QED BY <2>1, SubjectTyped
<1>2. summaryAt'[Subject(p)] = IF \E q \in ps : log[q].kind = "summary" /\ Subject(q) = Subject(p)
                               THEN Len(log) ELSE summaryAt[Subject(p)]
  BY <1>1 DEF Summaries
<1>3. CASE p \in ps
  BY <1>0, <1>1, <1>2, <1>3
<1>4. CASE p \notin ps
  <2>1. p \in 1..a
    BY <1>4
  <2>2. p <= summaryAt[Subject(p)]
    BY <2>1 DEF FreshUpto
  <2> QED BY <1>0, <1>1, <1>2, <2>2
<1> QED BY <1>3, <1>4

\* What is fresh up to an event is fresh up to an earlier one.
LEMMA FreshBefore ==
    ASSUME NEW a \in Nat, NEW b \in Nat, a <= b, FreshUpto(b)
    PROVE  FreshUpto(a)
BY DEF FreshUpto

LEMMA SummaryStep ==
    ASSUME TypeInv, TableInv, FaultInv, StartInv, SummaryInv, ReplaysReachTheEnd,
           "timeout" \notin Disturbances, [Next]_vars
    PROVE  SummaryInv'
<1> USE DEF clients, worker, database, deferral
<1>0. /\ Len(log) \in Nat /\ job.start \in Nat /\ next \in Nat
      /\ deferredCursor \in Nat /\ deferredCursor <= Len(log) /\ FreshUpto(deferredCursor)
  BY Facts DEF TableInv, SummaryInv
<1>a. ASSUME UNCHANGED <<log, summaryAt>> PROVE \A n : FreshUpto(n)' <=> FreshUpto(n)
  BY <1>a DEF FreshUpto, Subject
<1>c. ASSUME UNCHANGED <<log, summaryAt, deferredCursor>>
      PROVE  /\ FreshUpto(deferredCursor)' /\ (FreshUpto(Len(log)) => FreshUpto(Len(log))')
             /\ (UNCHANGED next /\ FreshUpto(next - 1) => FreshUpto(next - 1)')
  BY <1>0, <1>c DEF FreshUpto, Subject
<1>1. CASE Commit
  <2>1. /\ pc = "decided" /\ pc' = "committed" /\ job' = job /\ next' = Len(log) + 1
        /\ UNCHANGED <<deferredCursor, summaryAt, dirty>> /\ job.start = Len(log)
        /\ Len(log') \in Nat /\ Len(log) <= Len(log')
        /\ \A p \in 1..Len(log) : log'[p] = log[p]
    BY <1>0, <1>1, LogGrows DEF StartInv
  <2>2. ASSUME NEW n \in Nat, n <= Len(log), FreshUpto(n) PROVE FreshUpto(n)'
    <3>1. \A p \in 1..n : log'[p] = log[p]
      BY <1>0, <2>1, <2>2
    <3> QED BY <2>1, <2>2, <3>1 DEF FreshUpto, Subject
  <2>3. FreshUpto(deferredCursor)'
    <3>1. PICK n \in Nat : n = deferredCursor
      BY <1>0
    <3>2. FreshUpto(n)'
      BY <1>0, <2>2, <3>1
    <3> QED BY <2>1, <3>1, <3>2 DEF FreshUpto
  <2>4. ~dirty => FreshUpto(next - 1)'
    <3>1. PICK n \in Nat : n = Len(log)
      BY <1>0
    <3>2. ~dirty => FreshUpto(n)'
      BY <1>0, <2>1, <2>2, <3>1 DEF SummaryInv
    <3>3. next' - 1 = n
      BY <1>0, <2>1, <3>1
    <3> QED BY <3>2, <3>3 DEF FreshUpto
  <2> QED BY <2>1, <2>3, <2>4 DEF SummaryInv
<1>2. CASE Defer
  <2>0. /\ pc = "deferring" /\ job' = job /\ log' = log /\ dirty' = dirty /\ next \in batch
    BY <1>2 DEF Defer
  <2>2. batch = (job.start + 1)..Len(log) /\ next \in (job.start + 1)..Len(log)
    BY <2>0 DEF StartInv
  <2>7. CASE pc' = "scheduling"
    <3>1. dirty /\ UNCHANGED <<next, deferredCursor, summaryAt>>
      BY <1>2, <2>7 DEF Defer
    <3> QED BY <1>c, <2>0, <2>2, <2>7, <3>1 DEF SummaryInv
  <2> SUFFICES ASSUME pc' # "scheduling" PROVE SummaryInv'
    BY <2>7
  <2>1. /\ pc = "deferring" /\ pc' = "deferring" /\ job' = job /\ log' = log /\ dirty' = dirty
        /\ next \in batch /\ next' = next + 1
    BY <1>2 DEF Defer
  <2>3. PICK a \in Nat, b \in Nat : a = next - 1 /\ b = next
    BY <1>0, <2>2
  <2>4. /\ next' \in (job.start + 1)..(Len(log) + 1) /\ next' - 1 = b
        /\ ~dirty => FreshUpto(a)
    BY <1>0, <2>1, <2>2, <2>3 DEF SummaryInv
  <2>5. CASE log[next].kind = "summary" /\ ~dirty
    <3>1. deferredCursor' = next /\ summaryAt' = Summaries({next})
      BY <1>2, <2>5 DEF Defer
    <3>2. PICK ps : ps = {next}
      OBVIOUS
    <3>3. ps = (a + 1)..b /\ a <= b /\ b <= Len(log)
      BY <1>0, <2>2, <2>3, <3>2
    <3>4. summaryAt' = Summaries(ps)
      BY <3>1, <3>2
    <3>5. FreshUpto(b)'
      BY <2>1, <2>4, <2>5, <3>3, <3>4, Refreshed
    <3>6. FreshUpto(next - 1)' /\ FreshUpto(deferredCursor)'
      BY <2>3, <2>4, <3>1, <3>5 DEF FreshUpto
    <3> QED BY <2>1, <2>4, <3>6 DEF SummaryInv
  <2>6. CASE ~(log[next].kind = "summary" /\ ~dirty)
    <3>1. UNCHANGED <<deferredCursor, summaryAt>>
      BY <1>2, <2>6 DEF Defer
    <3>2. FreshUpto(deferredCursor)'
      BY <1>0, <2>1, <3>1 DEF FreshUpto, Subject
    <3>3. ~dirty => FreshUpto(b)
      BY <1>0, <2>3, <2>4, <2>6 DEF FreshUpto
    <3>4. ~dirty => FreshUpto(next - 1)'
      BY <2>1, <2>4, <3>1, <3>3 DEF FreshUpto, Subject
    <3> QED BY <2>1, <2>4, <3>2, <3>4 DEF SummaryInv
  <2> QED BY <2>5, <2>6
<1>3. CASE CatchUp \/ CrashAndRestart
  <2>1. /\ Bootstrap(rows, hotCursor) /\ log' = log
        /\ pc' \notin {"committed", "deferring", "scheduling", "forking"}
    BY <1>3 DEF CatchUp, CrashAndRestart, Bootstrap, Inside, Rest
  <2>2. Len(log) <= deferredCursor + ReadLimit
    BY <1>3 DEF CatchUp, CrashAndRestart, FaultInv, ReplaysReachTheEnd
  <2>3. HotAfter(deferredCursor) = Len(log)
        /\ ReadFrom(deferredCursor) = (deferredCursor + 1)..Len(log)
    BY <1>0, <2>2, Reads
  <2>4. deferredCursor' = Len(log) /\ summaryAt' = Summaries(ReadFrom(deferredCursor))
    BY <2>1, <2>3 DEF Bootstrap
  <2>5. PICK a \in Nat, b \in Nat, ps \in {ReadFrom(deferredCursor)} :
           a = deferredCursor /\ b = Len(log)
    BY <1>0
  <2>6. FreshUpto(b)'
    BY <1>0, <2>1, <2>3, <2>4, <2>5, Refreshed
  <2>7. FreshUpto(deferredCursor)' /\ FreshUpto(Len(log))'
    BY <2>1, <2>4, <2>5, <2>6 DEF FreshUpto
  <2> QED BY <2>1, <2>7 DEF SummaryInv
<1>4. CASE CatchUpFails \/ Repair
  <2>1. /\ log' = log /\ UNCHANGED <<pc, job, next, dirty>>
        /\ pc \notin {"committed", "deferring", "scheduling", "forking"}
    BY <1>4 DEF CatchUpFails, Repair, Bootstrap, Inside
  <2>2. \E b \in Nat : /\ deferredCursor <= b /\ b <= Len(log) /\ deferredCursor' = b
                       /\ summaryAt' = Summaries((deferredCursor + 1)..b)
    <3>1. /\ HotAfter(deferredCursor) \in deferredCursor..Len(log)
          /\ ReadFrom(deferredCursor) = (deferredCursor + 1)..HotAfter(deferredCursor)
      BY <1>0, Reads
    <3>2. CASE Repair
      BY <1>0, <3>1, <3>2 DEF Repair, Bootstrap
    <3>3. CASE CatchUpFails
      <4>1. PICK b \in {deferredCursor} \cup
                       {q \in ReadFrom(deferredCursor) : log[q].kind = "summary"} :
               deferredCursor' = b /\ summaryAt' = Summaries((deferredCursor + 1)..b)
        BY <3>3 DEF CatchUpFails
      <4>2. b \in Nat /\ deferredCursor <= b /\ b <= Len(log)
        BY <1>0, <3>1, <4>1
      <4> QED BY <4>1, <4>2
    <3> QED BY <1>4, <3>2, <3>3
  <2>3. PICK b \in Nat : /\ deferredCursor <= b /\ b <= Len(log) /\ deferredCursor' = b
                         /\ summaryAt' = Summaries((deferredCursor + 1)..b)
    BY <2>2
  <2>4. PICK a \in Nat, l \in Nat, ps \in {(deferredCursor + 1)..b} :
           a = deferredCursor /\ l = Len(log)
    BY <1>0
  <2>5. FreshUpto(b)'
    BY <1>0, <2>1, <2>3, <2>4, Refreshed
  <2>6. ~dirty => FreshUpto(l)'
    <3>1. SUFFICES ASSUME FreshUpto(l) PROVE FreshUpto(l)'
      BY <2>1, <2>4 DEF SummaryInv
    <3>2. ASSUME NEW p \in 1..l, log[p].kind = "summary" PROVE p <= summaryAt'[Subject(p)]
      <4>1. p \in 1..Len(log) /\ Subject(p) \in Targets
        BY <2>4, SubjectTyped
      <4>2. \/ summaryAt'[Subject(p)] = Len(log)
            \/ summaryAt'[Subject(p)] = summaryAt[Subject(p)]
        BY <2>3, <4>1 DEF Summaries
      <4>3. p <= summaryAt[Subject(p)]
        BY <3>1, <3>2 DEF FreshUpto
      <4> QED BY <1>0, <4>1, <4>2, <4>3
    <3> QED BY <2>1, <3>2 DEF FreshUpto, Subject
  <2>7. FreshUpto(deferredCursor)' /\ (~dirty => FreshUpto(Len(log))')
    BY <2>1, <2>3, <2>4, <2>5, <2>6 DEF FreshUpto
  <2> QED BY <2>1, <2>7 DEF SummaryInv
<1>5. CASE DeferFails
  <2>1. /\ pc = "deferring" /\ pc' = "scheduling" /\ dirty' = TRUE /\ next \in batch
        /\ UNCHANGED <<log, summaryAt, deferredCursor, job, next>>
    BY <1>5 DEF DeferFails, NoteFailure
  <2>2. next \in (job.start + 1)..Len(log)
    BY <2>1 DEF StartInv
  <2> QED BY <1>c, <2>1, <2>2 DEF SummaryInv
<1>13. CASE Schedule \/ Fork
  <2>1. /\ pc \in {"scheduling", "forking"} /\ UNCHANGED <<log, summaryAt, deferredCursor, job, dirty>>
        /\ \/ pc' = "forking" /\ next' = next
           \/ pc' = "deferring" /\ next' = next + 1
    BY <1>13 DEF Schedule, Fork
  <2>2. dirty /\ next \in (job.start + 1)..Len(log)
    BY <2>1 DEF SummaryInv
  <2>3. next + 1 \in (job.start + 1)..(Len(log) + 1)
    BY <1>0, <2>2
  <2> QED BY <1>c, <2>1, <2>2, <2>3 DEF SummaryInv
<1>6. CASE DeferDone
  <2>1. /\ pc = "deferring" /\ pc' = "publishing" /\ next \notin batch
        /\ UNCHANGED <<log, summaryAt, deferredCursor, dirty>>
    BY <1>6 DEF DeferDone
  <2>2. next - 1 = Len(log)
    <3>1. batch = (job.start + 1)..Len(log) /\ next \in (job.start + 1)..(Len(log) + 1)
      BY <2>1 DEF StartInv, SummaryInv
    <3> QED BY <1>0, <2>1, <3>1
  <2> QED BY <1>c, <2>1, <2>2 DEF SummaryInv
<1>7. CASE AssignModel
  <2>1. /\ pc = "committed" /\ pc' = "deferring" /\ UNCHANGED <<next, job, dirty>>
        /\ UNCHANGED <<log, summaryAt, deferredCursor>>
    BY <1>7 DEF AssignModel
  <2>2. next \in (job.start + 1)..(Len(log) + 1)
    BY <1>0, <2>1 DEF StartInv, SummaryInv
  <2> QED BY <1>c, <2>1, <2>2 DEF SummaryInv
<1>8. CASE Interrupt
  BY <1>8 DEF Interrupt, FaultInv
<1>9. ASSUME UNCHANGED <<log, summaryAt, deferredCursor, dirty>>,
             pc \notin {"committed", "deferring", "scheduling", "forking"},
             pc' \notin {"committed", "deferring", "scheduling", "forking"}
      PROVE  SummaryInv'
  BY <1>c, <1>9 DEF SummaryInv
<1>10. CASE \/ Take \/ Begin \/ AnswerFromReceipt \/ Decide \/ DecideFails \/ CommitFails
            \/ Publish \/ Answer \/ Reconcile \/ Settle
  BY <1>9, <1>10 DEF Take, Begin, AnswerFromReceipt, Decide, DecideFails, CommitFails, Publish,
                    Answer, Reconcile, Settle, Rest, Fail
<1>11. ASSUME UNCHANGED <<log, summaryAt, deferredCursor, dirty, pc, next, job>>
       PROVE  SummaryInv'
  BY <1>c, <1>11 DEF SummaryInv
<1>12. CASE \/ UNCHANGED vars
            \/ \E a \in Attempts : Dispatch(a) \/ DeadlinePasses(a) \/ Abandon(a)
  BY <1>11, <1>12 DEF vars, Dispatch, DeadlinePasses, Abandon
<1> QED BY <1>1, <1>2, <1>3, <1>4, <1>5, <1>6, <1>7, <1>8, <1>10, <1>12, <1>13
   DEF Next, Worker

-----------------------------------------------------------------------------
(* The invariant, and what it says.                                        *)

StateInv == TypeInv /\ TableInv /\ FaultInv
OrderedInv == StateInv /\ StartInv /\ ModelInv /\ HistoryInv /\ StreamInv

LEMMA InitOrdered == Init => OrderedInv /\ SummaryInv
<1> SUFFICES ASSUME Init PROVE OrderedInv /\ SummaryInv
  OBVIOUS
<1>0. Len(log) = 0 /\ log = <<>> /\ published = <<>> /\ Len(published) = 0
  BY DEF Init
<1>1. TypeInv
  BY TypeInit
<1>2. TableInv /\ FaultInv
  BY <1>0 DEF Init, TableInv, RowsCoverLog, FaultInv
<1>3. StartInv /\ ModelInv
  BY <1>0 DEF Init, StartInv, ModelInv, InStep, Snapshot, Least
<1>4. HistoryInv
  BY <1>0 DEF Init, HistoryInv, LogIsLegal
<1>5. StreamInv
  BY <1>0 DEF Init, StreamInv, Upto, Published, StreamHasNoGap, StreamInDispatchOrder
<1>6. SummaryInv
  BY <1>0 DEF Init, SummaryInv, FreshUpto
<1> QED BY <1>1, <1>2, <1>3, <1>4, <1>5, <1>6 DEF OrderedInv, StateInv

LEMMA OrderedStep ==
    ASSUME ShortPlans, Recoverable
    PROVE  OrderedInv /\ ReplaysReachTheEnd /\ [Next]_vars => OrderedInv'
<1> SUFFICES ASSUME OrderedInv, ReplaysReachTheEnd, [Next]_vars PROVE OrderedInv'
  OBVIOUS
<1>1. StateInv'
  BY TypeStep, TableStep, FaultStep DEF OrderedInv, StateInv
<1>2. StartInv' /\ ModelInv'
  BY <1>1, StartStep, ModelStep DEF OrderedInv, StateInv
<1>3. HistoryInv' /\ StreamInv'
  BY HistoryStep, StreamStep DEF OrderedInv, StateInv
<1> QED BY <1>1, <1>2, <1>3 DEF OrderedInv

\* OrderedInv holds as long as every replay reaches the end of the log.
THEOREM OrderedHolds ==
    ASSUME ShortPlans, Recoverable
    PROVE  Spec /\ []ReplaysReachTheEnd => []OrderedInv
<1>1. Init => OrderedInv
  BY InitOrdered
<1>2. OrderedInv /\ ReplaysReachTheEnd /\ [Next]_vars => OrderedInv'
  BY OrderedStep
<1> QED BY <1>1, <1>2, PTL DEF Spec

\* Nothing is created twice and nothing is about what was never created: the
\* decider's checks against the in-memory model amount to checks against the log,
\* whatever is interrupted, fails or restarts, when one read is enough.
THEOREM HistoryIsLegal ==
    ASSUME ShortPlans, Recoverable
    PROVE  Spec /\ []ReplaysReachTheEnd => []LogIsLegal
<1>1. OrderedInv => LogIsLegal
  BY DEF OrderedInv, HistoryInv
<1> QED BY OrderedHolds, <1>1, PTL

\* Between two commands the read model has missed nothing that was committed, also
\* after a command was interrupted between its commit and its assignment.
THEOREM NothingIsMissed ==
    ASSUME ShortPlans, Recoverable
    PROVE  Spec /\ []ReplaysReachTheEnd => []ModelMissesNothing
<1>1. OrderedInv => ModelMissesNothing
  BY DEF OrderedInv, ModelInv, InStep, ModelMissesNothing, Inside
<1> QED BY OrderedHolds, <1>1, PTL

\* Between two commands everything committed since the start has been published.
THEOREM EverythingIsPublished ==
    ASSUME ShortPlans, Recoverable
    PROVE  Spec /\ []ReplaysReachTheEnd => []StreamIsComplete
<1>1. OrderedInv => StreamIsComplete
  BY DEF OrderedInv, StreamInv, Upto, Published, StreamIsComplete, Inside
<1> QED BY OrderedHolds, <1>1, PTL

\* No event is published ahead of an earlier one that subscribers have not had.
THEOREM NoGaps ==
    ASSUME ShortPlans, Recoverable
    PROVE  Spec /\ []ReplaysReachTheEnd => []StreamHasNoGap
<1>1. OrderedInv => StreamHasNoGap
  BY DEF OrderedInv, StreamInv
<1> QED BY OrderedHolds, <1>1, PTL

\* When no command times out, the read model applies each event exactly once and
\* its sequence is the log's.
THEOREM ModelKeepsStep ==
    ASSUME ShortPlans, "timeout" \notin Disturbances
    PROVE  Spec /\ []ReplaysReachTheEnd => []ModelInStep
<1>1. OrderedInv => ModelInStep
  BY DEF OrderedInv, ModelInv, InStep, ModelInStep, Inside
<1>2. Spec /\ []ReplaysReachTheEnd => []OrderedInv
  BY OrderedHolds DEF Recoverable
<1> QED BY <1>1, <1>2, PTL

\* When no command times out, subscribers get events in dispatch order, each once.
THEOREM StreamKeepsOrder ==
    ASSUME ShortPlans, "timeout" \notin Disturbances
    PROVE  Spec /\ []ReplaysReachTheEnd => []StreamInDispatchOrder
<1>1. OrderedInv => StreamInDispatchOrder
  BY DEF OrderedInv, StreamInv
<1>2. Spec /\ []ReplaysReachTheEnd => []OrderedInv
  BY OrderedHolds DEF Recoverable
<1> QED BY <1>1, <1>2, PTL

\* When no command times out, a thread's summary reflects its last event that should
\* refresh it, unless a catch-up is still owed; however often the projector, the
\* catch-up or the process fails.
THEOREM SummariesAreFresh ==
    ASSUME ShortPlans, "timeout" \notin Disturbances
    PROVE  Spec /\ []ReplaysReachTheEnd => []SummariesFresh
<1>1. SummaryInv => SummariesFresh
  BY DEF SummaryInv, SummariesFresh, FreshUpto, Inside
<1>2. Init => SummaryInv
  BY InitOrdered
<1>3. OrderedInv /\ SummaryInv /\ ReplaysReachTheEnd /\ [Next]_vars => SummaryInv'
  BY SummaryStep DEF OrderedInv, StateInv
<1>4. Spec /\ []ReplaysReachTheEnd => []OrderedInv
  BY OrderedHolds DEF Recoverable
<1> QED BY <1>1, <1>2, <1>3, <1>4, PTL DEF Spec

\* The tables reflect the whole log, through every repair and restart.
THEOREM TablesCoverLog ==
    ASSUME ShortPlans, Recoverable
    PROVE  Spec /\ []ReplaysReachTheEnd => []RowsCoverLog
<1>1. OrderedInv => RowsCoverLog
  BY DEF OrderedInv, StateInv, TableInv
<1> QED BY OrderedHolds, <1>1, PTL

-----------------------------------------------------------------------------
(* When one read is enough.                                                *)

\* A committed command has its plan's events in the log once, so that the log is
\* no longer than all plans together.
LEMMA LogIsBounded ==
    ASSUME TypeOK, ReceiptsMatchLog, IsFiniteSet(Commands),
           NEW M \in Nat, \A c \in Commands : Len(Plan[c]) <= M
    PROVE  Len(log) <= Cardinality(Commands) * M
<1> DEFINE Owner(p) == CommandOf[log[p].by]
           Place(p) == p - receipts[Owner(p)].seq + Len(Plan[Owner(p)])
           f == [p \in 1..Len(log) |-> <<Owner(p), Place(p)>>]
<1>1. Len(log) \in Nat /\ \A p \in 1..Len(log) : Owner(p) \in Commands
  <2>1. log \in Seq([by : Attempts, kind : Kinds])
    BY DEF TypeOK
  <2>2. \A p \in 1..Len(log) : log[p].by \in Attempts
    <3> DEFINE T == [by : Attempts, kind : Kinds]
    <3>1. log \in Seq(T) /\ \A e \in T : e.by \in Attempts
      BY <2>1
    <3> HIDE DEF T
    <3>2. \A p \in 1..Len(log) : log[p] \in T
      BY <3>1
    <3> QED BY <3>1, <3>2
  <2> QED BY <2>1, <2>2, Constants
<1>2. ASSUME NEW p \in 1..Len(log)
      PROVE  /\ Place(p) \in 1..M /\ receipts[Owner(p)].seq \in Nat
             /\ Len(Plan[Owner(p)]) \in Nat
  <2> DEFINE c == Owner(p)
             mine == {k \in 1..Len(log) : CommandOf[log[k].by] = c}
  <2>1. c \in Commands /\ p \in mine
    BY <1>1
  <2>2. receipts[c].seq \in Nat /\ Len(Plan[c]) \in Nat /\ Len(Plan[c]) <= M
    BY <2>1, Constants DEF TypeOK
  <2>3. mine = (receipts[c].seq - Len(Plan[c]) + 1)..receipts[c].seq
    BY <2>1 DEF ReceiptsMatchLog
  <2> HIDE DEF c, mine
  <2> DEFINE s == receipts[c].seq
             n == Len(Plan[c])
  <2>4. s \in Nat /\ n \in Nat /\ n <= M /\ mine = (s - n + 1)..s /\ p \in Nat
    BY <1>1, <2>2, <2>3
  <2> HIDE DEF s, n
  <2>5. s - n + 1 <= p /\ p <= s
    BY <2>1, <2>4
  <2>6. p - s + n \in 1..M
    <3>1. p - s + n \in Int /\ 1 <= p - s + n /\ p - s + n <= M
      BY <2>4, <2>5
    <3> QED BY <3>1
  <2> QED BY <2>2, <2>6 DEF c, s, n
<1>3. f \in [1..Len(log) -> Commands \X (1..M)]
  BY <1>1, <1>2
<1>4. ASSUME NEW p \in 1..Len(log), NEW q \in 1..Len(log), f[p] = f[q] PROVE p = q
  <2>1. Owner(p) = Owner(q) /\ Place(p) = Place(q)
    BY <1>4
  <2> DEFINE s == receipts[Owner(p)].seq
             n == Len(Plan[Owner(p)])
  <2>2. s \in Nat /\ n \in Nat /\ p - s + n = q - s + n
    BY <1>2, <2>1
  <2> HIDE DEF s, n
  <2> QED BY <1>1, <2>2
<1>5. f \in Injection(1..Len(log), Commands \X (1..M))
  <2> HIDE DEF f
  <2> QED BY <1>3, <1>4 DEF Injection, IsInjective
<1>6. /\ IsFiniteSet(1..Len(log)) /\ Cardinality(1..Len(log)) = Len(log)
      /\ IsFiniteSet(1..M) /\ Cardinality(1..M) = M
  <2>1. ASSUME NEW k \in Nat PROVE IsFiniteSet(1..k) /\ Cardinality(1..k) = k
    <3>1. IsFiniteSet(1..k) /\ Cardinality(1..k) = IF 1 > k THEN 0 ELSE k - 1 + 1
      BY FS_Interval
    <3> QED BY <3>1
  <2> QED BY <1>1, <2>1
<1>7. /\ IsFiniteSet(Commands \X (1..M))
      /\ Cardinality(Commands \X (1..M)) = Cardinality(Commands) * M
  BY <1>6, FS_Product
<1>8. Cardinality(1..Len(log)) <= Cardinality(Commands \X (1..M))
  <2> HIDE DEF f
  <2> QED BY <1>5, <1>7, FS_Injection
<1> QED BY <1>6, <1>7, <1>8

\* As long as all plans together fit into one read, every replay reaches the end.
THEOREM ReplaysFit ==
    ASSUME IsFiniteSet(Commands), NEW M \in Nat, \A c \in Commands : Len(Plan[c]) <= M,
           Cardinality(Commands) * M <= ReadLimit
    PROVE  Spec => []ReplaysReachTheEnd
<1>1. TypeOK /\ ReceiptsMatchLog => ReplaysReachTheEnd
  <2> SUFFICES ASSUME TypeOK, ReceiptsMatchLog PROVE ReplaysReachTheEnd
    OBVIOUS
  <2>1. Len(log) <= Cardinality(Commands) * M
    BY LogIsBounded
  <2>2. Cardinality(Commands) \in Nat /\ deferredCursor \in Nat /\ ReadLimit \in Nat
    BY FS_CardinalityType, ReadLimitAssumption DEF TypeOK
  <2>3. Cardinality(Commands) * M \in Nat /\ Len(log) \in Nat
    BY <2>2 DEF TypeOK
  <2> DEFINE bound == Cardinality(Commands) * M
  <2> HIDE DEF bound
  <2>4. Len(log) <= ReadLimit /\ Len(log) <= deferredCursor + ReadLimit
    <3>1. Len(log) <= bound /\ bound <= ReadLimit /\ bound \in Nat
      BY <2>1, <2>3 DEF bound
    <3> QED BY <2>2, <2>3, <3>1
  <2> QED BY <2>4 DEF ReplaysReachTheEnd
<1> QED BY <1>1, TypeCorrect, CommitIsAtomicAndUnique, PTL
=============================================================================
