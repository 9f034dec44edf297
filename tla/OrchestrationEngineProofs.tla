----------------------- MODULE OrchestrationEngineProofs -----------------------
(***************************************************************************)
(* Proofs about OrchestrationEngine, for any commands, attempts and plans, *)
(* any read limit and every set of disturbances.                           *)
(***************************************************************************)
EXTENDS OrchestrationEngine, TLAPS

USE DEF NoResult, NoJob, Accepted, Refused

\* While the worker holds an envelope, the envelope is that of an attempt.
JobInv == pc # "idle" => job.by \in Attempts

TypeInv == TypeOK /\ JobInv

\* What a step needs from the constants.
LEMMA Constants ==
    /\ \A a \in Attempts : CommandOf[a] \in Commands
    /\ \A c \in Commands : Target[c] \in Targets /\ Plan[c] \in Seq(Kinds) /\ Plan[c] # <<>>
    /\ \A c \in Commands : Len(Plan[c]) \in Nat \ {0}
<1>1. \A c \in Commands : Plan[c] \in Seq(Kinds) /\ Plan[c] # <<>>
  BY PlanAssumption
<1>2. \A c \in Commands : Len(Plan[c]) \in Nat \ {0}
  BY <1>1
<1> QED BY <1>1, <1>2, CommandOfAssumption, TargetAssumption

\* The events of an attempt are a sequence as long as its command's plan.
LEMMA EventsType ==
    ASSUME NEW a \in Attempts
    PROVE  /\ Events(a) \in Seq([by : Attempts, kind : Kinds])
           /\ Len(Events(a)) = Len(Plan[CommandOf[a]])
           /\ \A k \in 1..Len(Events(a)) :
                 Events(a)[k] = [by |-> a, kind |-> Plan[CommandOf[a]][k]]
<1>1. Plan[CommandOf[a]] \in Seq(Kinds) /\ Len(Plan[CommandOf[a]]) \in Nat
  BY Constants
<1>2. \A k \in 1..Len(Plan[CommandOf[a]]) : Plan[CommandOf[a]][k] \in Kinds
  BY <1>1
<1> QED BY <1>1, <1>2 DEF Events

\* A read from a cursor returns sequence numbers, and moves the cursor forward
\* within the naturals.
LEMMA ReadType ==
    ASSUME NEW n \in Nat, Len(log) \in Nat
    PROVE  /\ ReadFrom(n) \in SUBSET Nat
           /\ HotAfter(n) \in Nat
           /\ ReadFrom(n) # {} => HotAfter(n) - n \in Nat
BY ReadLimitAssumption DEF ReadFrom, HotAfter, Least

LEMMA ConcatFacts ==
    ASSUME NEW S, NEW s \in Seq(S), NEW t \in Seq(S)
    PROVE  /\ s \o t \in Seq(S)
           /\ Len(s \o t) = Len(s) + Len(t)
           /\ \A k \in 1..Len(s) : (s \o t)[k] = s[k]
           /\ \A k \in 1..Len(t) : (s \o t)[Len(s) + k] = t[k]
OBVIOUS

LEMMA SummariesType ==
    ASSUME NEW ps, Len(log) \in Nat, summaryAt \in [Targets -> Nat]
    PROVE  Summaries(ps) \in [Targets -> Nat]
BY DEF Summaries

LEMMA BootstrapType ==
    ASSUME TypeOK, NEW rs \in SUBSET Nat, NEW n \in Nat, Bootstrap(rs, n)
    PROVE  /\ rows' \in SUBSET Nat /\ hotCursor' \in Nat /\ deferredCursor' \in Nat
           /\ summaryAt' \in [Targets -> Nat]
           /\ Snapshot(rows', hotCursor', deferredCursor')
                 \in [seq : Nat, seen : SUBSET Nat, doubled : SUBSET Nat]
           /\ log' = log /\ receipts' = receipts
<1>1. Len(log) \in Nat
  BY DEF TypeOK
<1>2. rows' \in SUBSET Nat /\ hotCursor' \in Nat /\ deferredCursor' \in Nat
  BY <1>1, ReadType DEF Bootstrap, TypeOK
<1>3. summaryAt' \in [Targets -> Nat]
  BY <1>1, SummariesType DEF Bootstrap, TypeOK
<1>4. Snapshot(rows', hotCursor', deferredCursor')
         \in [seq : Nat, seen : SUBSET Nat, doubled : SUBSET Nat]
  BY <1>2 DEF Snapshot, Least
<1> QED BY <1>2, <1>3, <1>4 DEF Bootstrap

LEMMA ApplyType ==
    ASSUME NEW m \in [seq : Nat, seen : SUBSET Nat, doubled : SUBSET Nat],
           NEW ps \in SUBSET Nat, NEW n \in Nat
    PROVE  Apply(m, ps, n) \in [seq : Nat, seen : SUBSET Nat, doubled : SUBSET Nat]
BY DEF Apply

-----------------------------------------------------------------------------
\* Every step keeps the types of the engine's variables.
LEMMA TypeStep == TypeInv /\ [Next]_vars => TypeInv'
<1> SUFFICES ASSUME TypeInv, [Next]_vars PROVE TypeInv'
  OBVIOUS
<1> USE DEF TypeInv, TypeOK, JobInv, ResultKinds, Rest, Fail,
            database, clients, deferral, worker
<1>1. ASSUME NEW a \in Attempts, Dispatch(a) PROVE TypeInv'
  <2>1. queue' \in Seq(Attempts)
    BY <1>1 DEF Dispatch
  <2> QED BY <1>1, <2>1 DEF Dispatch
<1>2. ASSUME NEW a \in Attempts, DeadlinePasses(a) PROVE TypeInv'
  BY <1>2 DEF DeadlinePasses
<1>3. ASSUME NEW a \in Attempts, Abandon(a) PROVE TypeInv'
  BY <1>3 DEF Abandon
<1>4. CASE Take
  <2>1. Head(queue) \in Attempts /\ queue' \in Seq(Attempts)
    BY <1>4 DEF Take
  <2> QED BY <1>4, <2>1 DEF Take, StartSequence
<1>5. CASE Begin
  <2>1. exec' \in [Attempts -> {"none", "queued", "in-flight", "abandoned", "lost"}]
    BY <1>5 DEF Begin
  <2>2. CASE Rest /\ UNCHANGED exec
    BY <1>5, <2>1, <2>2 DEF Begin
  <2>3. CASE pc' = "begun" /\ UNCHANGED <<job, batch, next, err>>
    BY <1>5, <2>1, <2>3 DEF Begin
  <2>4. CASE Fail("timeout")
    BY <1>5, <2>1, <2>4 DEF Begin
  <2> QED BY <1>5, <2>2, <2>3, <2>4 DEF Begin
<1>6. CASE AnswerFromReceipt
  <2>1. FromReceipt(receipts[CommandOf[job.by]]) \in [kind : ResultKinds, seq : Nat]
    BY <1>6, Constants DEF AnswerFromReceipt, FromReceipt
  <2> QED BY <1>6, <2>1 DEF AnswerFromReceipt
<1>7. CASE Decide
  BY <1>7 DEF Decide
<1>8. CASE DecideFails
  BY <1>8 DEF DecideFails
<1>9. CASE Commit
  <2>1. job.by \in Attempts /\ CommandOf[job.by] \in Commands
    BY <1>9, Constants DEF Commit
  <2>2. Len(log) \in Nat /\ Len(Events(job.by)) \in Nat
    BY <2>1, EventsType
  <2>3. log' \in Seq([by : Attempts, kind : Kinds])
    <3>1. log' = log \o Events(job.by)
      BY <1>9 DEF Commit
    <3> QED BY <2>1, <3>1, EventsType, ConcatFacts
  <2>4. batch' \in SUBSET Nat /\ rows' \in SUBSET Nat /\ next' \in Nat /\ hotCursor' \in Nat
    <3>1. /\ batch' = (Len(log) + 1)..(Len(log) + Len(Events(job.by)))
          /\ rows' = rows \cup batch'
          /\ next' = Len(log) + 1
          /\ hotCursor' = Len(log) + Len(Events(job.by))
      BY <1>9 DEF Commit
    <3>2. batch' \in SUBSET Nat
      BY <2>2, <3>1
    <3>3. rows \cup batch' \in SUBSET Nat
      BY <3>2
    <3> QED BY <2>2, <3>1, <3>2, <3>3
  <2>5. receipts' \in [Commands -> [kind : {"none", "accepted", "rejected"}, seq : Nat]]
    BY <1>9, <2>1, <2>2 DEF Commit, Store, ReceiptOf
  <2> QED BY <1>9, <2>3, <2>4, <2>5 DEF Commit
<1>10. CASE CommitFails
  BY <1>10 DEF CommitFails
<1>11. CASE AssignModel
  <2>1. model' \in [seq : Nat, seen : SUBSET Nat, doubled : SUBSET Nat]
    <3>1. Len(log) \in Nat /\ batch \in SUBSET Nat
      OBVIOUS
    <3>2. Apply(model, batch, Len(log)) \in [seq : Nat, seen : SUBSET Nat, doubled : SUBSET Nat]
      BY <3>1, ApplyType
    <3> QED BY <1>11, <3>2 DEF AssignModel
  <2> QED BY <1>11, <2>1 DEF AssignModel
<1>12. CASE Defer
  <2>1. Summaries({next}) \in [Targets -> Nat]
    <3>1. Len(log) \in Nat /\ summaryAt \in [Targets -> Nat]
      OBVIOUS
    <3> QED BY <3>1, SummariesType
  <2>2. summaryAt' \in [Targets -> Nat] /\ deferredCursor' \in Nat
    BY <1>12, <2>1 DEF Defer
  <2>3. pc' \in {"deferring", "scheduling"} /\ next' \in {next, next + 1}
    BY <1>12 DEF Defer
  <2>4. UNCHANGED <<log, receipts, rows, hotCursor, clients, model, deferral, published, born,
                    job, batch, err>>
    BY <1>12 DEF Defer
  <2>5. next' \in Nat
    BY <2>3
  <2>6. pc' \in {"idle", "taken", "begun", "decided", "committed", "deferring", "scheduling",
                 "forking", "publishing", "recovering", "settling"} /\ pc # "idle" /\ pc' # "idle"
    BY <1>12, <2>3 DEF Defer
  <2> QED BY ZenonT(40), <2>2, <2>4, <2>5, <2>6
<1>13. CASE DeferFails
  BY SMTT(30), <1>13 DEF DeferFails, NoteFailure
<1>14. CASE DeferDone
  BY <1>14 DEF DeferDone
<1>25. CASE Schedule
  BY SMTT(30), <1>25 DEF Schedule
<1>26. CASE Fork
  BY SMTT(30), <1>26 DEF Fork
<1>15. CASE Publish
  <2>1. published' \in Seq(Nat)
    BY <1>15 DEF Publish
  <2> QED BY <1>15, <2>1 DEF Publish
<1>16. CASE Answer
  BY <1>16 DEF Answer
<1>17. CASE Interrupt
  BY <1>17 DEF Interrupt
<1>18. CASE Reconcile
  <2>1. job.start \in Nat /\ Len(log) \in Nat
    OBVIOUS
  <2>2. Apply(model, ReadFrom(job.start), HotAfter(job.start))
           \in [seq : Nat, seen : SUBSET Nat, doubled : SUBSET Nat]
    BY <2>1, ReadType, ApplyType
  <2>3. ASSUME ReadFrom(job.start) # {} PROVE PublishMissed \in Seq(Nat)
    <3> DEFINE n == HotAfter(job.start) - job.start
    <3>1. n \in Nat
      BY <2>1, <2>3, ReadType
    <3> HIDE DEF n
    <3>2. [k \in 1..n |-> job.start + k] \in Seq(Nat)
      BY <2>1, <3>1
    <3> QED BY <3>2 DEF PublishMissed, n
  <2> QED BY <1>18, <2>2, <2>3 DEF Reconcile
<1>19. CASE Settle
  <2>1. job.by \in Attempts /\ CommandOf[job.by] \in Commands
    BY <1>19, Constants DEF Settle
  <2>2. FromReceipt(receipts[CommandOf[job.by]]) \in [kind : ResultKinds, seq : Nat]
    BY <2>1 DEF FromReceipt
  <2>3. result' \in [Attempts -> [kind : ResultKinds, seq : Nat]]
    <3>1. \E r \in [kind : ResultKinds, seq : Nat] : result' = [result EXCEPT ![job.by] = r]
      BY <1>19, <2>2 DEF Settle
    <3> QED BY <2>1, <3>1
  <2>4. receipts' \in [Commands -> [kind : {"none", "accepted", "rejected"}, seq : Nat]]
    <3>1. \/ receipts' = receipts
          \/ receipts' = [receipts EXCEPT ![CommandOf[job.by]] =
                            [kind |-> "rejected", seq |-> model.seq]]
      BY <1>19 DEF Settle, Store
    <3>2. [kind |-> "rejected", seq |-> model.seq]
             \in [kind : {"none", "accepted", "rejected"}, seq : Nat]
      OBVIOUS
    <3>3. receipts \in [Commands -> [kind : {"none", "accepted", "rejected"}, seq : Nat]]
      OBVIOUS
    <3> HIDE DEF TypeOK
    <3> QED BY <2>1, <3>1, <3>2, <3>3
  <2> QED BY <1>19, <2>3, <2>4 DEF Settle
<1>20. CASE CatchUp
  BY <1>20, BootstrapType DEF CatchUp, Bootstrap
<1>21. CASE CatchUpFails
  <2>1. PICK p \in {deferredCursor} \cup
                   {q \in ReadFrom(deferredCursor) : log[q].kind = "summary"} :
           deferredCursor' = p /\ summaryAt' = Summaries((deferredCursor + 1)..p)
    BY <1>21 DEF CatchUpFails
  <2>2. /\ Len(log) \in Nat /\ deferredCursor \in Nat
        /\ summaryAt \in [Targets -> Nat]
    OBVIOUS
  <2>3. deferredCursor' \in Nat /\ summaryAt' \in [Targets -> Nat]
    <3> HIDE DEF TypeOK
    <3>1. ReadFrom(deferredCursor) \in SUBSET Nat
      BY <2>2, ReadType
    <3> QED BY <2>1, <2>2, <3>1, SummariesType
  <2> QED BY <1>21, <2>3 DEF CatchUpFails
<1>22. CASE Repair
  <2>1. {p \in rows : log[p].kind # "project"} \in SUBSET Nat
    OBVIOUS
  <2>2. /\ rows' \in SUBSET Nat /\ hotCursor' \in Nat /\ deferredCursor' \in Nat
        /\ summaryAt' \in [Targets -> Nat]
        /\ model' \in [seq : Nat, seen : SUBSET Nat, doubled : SUBSET Nat]
        /\ log' = log /\ receipts' = receipts
    BY ZenonT(40), <1>22, <2>1, BootstrapType DEF Repair
  <2>3. UNCHANGED <<clients, deferral, published, born, worker>>
    BY <1>22 DEF Repair
  <2> QED BY ZenonT(40), <2>2, <2>3
<1>23. CASE CrashAndRestart
  <2>1. /\ rows' \in SUBSET Nat /\ hotCursor' \in Nat /\ deferredCursor' \in Nat
        /\ summaryAt' \in [Targets -> Nat]
        /\ model' \in [seq : Nat, seen : SUBSET Nat, doubled : SUBSET Nat]
        /\ log' = log /\ receipts' = receipts
    BY <1>23, BootstrapType DEF CrashAndRestart
  <2>2. exec' \in [Attempts -> {"none", "queued", "in-flight", "abandoned", "lost"}]
    BY <1>23 DEF CrashAndRestart
  <2>3. queue' \in Seq(Attempts) /\ published' \in Seq(Nat) /\ born' \in Nat
    BY <1>23 DEF CrashAndRestart
  <2> QED BY <1>23, <2>1, <2>2, <2>3 DEF CrashAndRestart
<1>24. CASE UNCHANGED vars
  BY <1>24 DEF vars
<1> QED
  BY <1>1, <1>2, <1>3, <1>4, <1>5, <1>6, <1>7, <1>8, <1>9, <1>10, <1>11, <1>12, <1>13, <1>14,
     <1>15, <1>16, <1>17, <1>18, <1>19, <1>20, <1>21, <1>22, <1>23, <1>24, <1>25,
     <1>26 DEF Next, Worker

\* The initial state has the right types.
LEMMA TypeInit == Init => TypeInv
<1> SUFFICES ASSUME Init PROVE TypeInv
  OBVIOUS
<1> USE DEF Init, ResultKinds
<1>1. /\ log \in Seq([by : Attempts, kind : Kinds])
      /\ queue \in Seq(Attempts) /\ published \in Seq(Nat)
  OBVIOUS
<1>2. model \in [seq : Nat, seen : SUBSET Nat, doubled : SUBSET Nat]
  BY DEF Snapshot, Least
<1>3. receipts \in [Commands -> [kind : {"none", "accepted", "rejected"}, seq : Nat]]
  OBVIOUS
<1>4. result \in [Attempts -> [kind : ResultKinds, seq : Nat]]
  OBVIOUS
<1> QED BY <1>1, <1>2, <1>3, <1>4 DEF TypeInv, TypeOK, JobInv

\* Type correctness of the engine's state.
THEOREM TypeCorrect == Spec => []TypeOK
<1>1. TypeInv => TypeOK
  BY DEF TypeInv
<1> QED BY TypeInit, TypeStep, <1>1, PTL DEF Spec

-----------------------------------------------------------------------------
(***************************************************************************)
(* The inductive invariant behind the receipts.  An attempt the worker has *)
(* not begun has no answer and no events; the worker's own attempt has no  *)
(* answer yet, no events until the commit, and a receipt after it.         *)
(***************************************************************************)
Traceless(a) == \A p \in 1..Len(log) : log[p].by # a

FreshInv ==
    \A a \in Attempts : exec[a] \in {"none", "queued", "abandoned"} =>
        result[a].kind = "none" /\ Traceless(a)

QueueInv ==
    /\ \A k \in 1..Len(queue) : exec[queue[k]] \in {"queued", "abandoned"}
    /\ \A j, k \in 1..Len(queue) : queue[j] = queue[k] => j = k
    /\ pc = "taken" => /\ exec[job.by] \in {"queued", "abandoned"}
                       /\ \A k \in 1..Len(queue) : queue[k] # job.by
    /\ Inside => exec[job.by] = "in-flight" /\ result[job.by].kind = "none"

PhaseInv ==
    /\ pc \in {"begun", "decided"} => Traceless(job.by)
    /\ pc = "decided" => receipts[CommandOf[job.by]].kind = "none"
    /\ pc \in {"committed", "deferring", "scheduling", "forking", "publishing"} =>
          receipts[CommandOf[job.by]] = Accepted(Len(log))
    /\ pc \in {"recovering", "settling"} =>
          /\ err \in {"timeout", "failed", "defect", "invariant"}
          /\ err # "timeout" => Traceless(job.by)
          /\ err = "invariant" => receipts[CommandOf[job.by]].kind = "none"

IInv == TypeInv /\ ReceiptsMatchLog /\ AcceptedIsDurable /\ FreshInv /\ QueueInv /\ PhaseInv

\* What the transaction adds to the log.
LEMMA CommitFacts ==
    ASSUME TypeInv, Commit
    PROVE  LET c == CommandOf[job.by]
               n == Len(Plan[c])
           IN  /\ job.by \in Attempts /\ c \in Commands
               /\ n \in Nat \ {0} /\ Len(log) \in Nat
               /\ Len(log') = Len(log) + n
               /\ \A p \in 1..Len(log) : log'[p] = log[p]
               /\ \A k \in 1..n : log'[Len(log) + k] = [by |-> job.by, kind |-> Plan[c][k]]
               /\ receipts' = [receipts EXCEPT ![c] = Accepted(Len(log) + n)]
<1>1. job.by \in Attempts /\ CommandOf[job.by] \in Commands
  BY Constants DEF TypeInv, JobInv, Commit
<1>2. /\ Events(job.by) \in Seq([by : Attempts, kind : Kinds])
      /\ Len(Events(job.by)) = Len(Plan[CommandOf[job.by]])
      /\ \A k \in 1..Len(Events(job.by)) :
            Events(job.by)[k] = [by |-> job.by, kind |-> Plan[CommandOf[job.by]][k]]
  BY <1>1, EventsType
<1>3. log \in Seq([by : Attempts, kind : Kinds]) /\ Len(log) \in Nat
  BY DEF TypeInv, TypeOK
<1>4. log' = log \o Events(job.by)
  BY DEF Commit
<1>5. receipts' = [receipts EXCEPT ![CommandOf[job.by]] = Accepted(Len(log) + Len(Events(job.by)))]
  BY DEF Commit, Store, ReceiptOf
<1>6. Len(Plan[CommandOf[job.by]]) \in Nat \ {0}
  BY <1>1, Constants
<1>7. /\ Len(log') = Len(log) + Len(Events(job.by))
      /\ \A p \in 1..Len(log) : log'[p] = log[p]
      /\ \A k \in 1..Len(Events(job.by)) : log'[Len(log) + k] = Events(job.by)[k]
  <2> DEFINE S == [by : Attempts, kind : Kinds]
             E == Events(job.by)
  <2>1. log \in Seq(S) /\ E \in Seq(S) /\ log' = log \o E
    BY <1>2, <1>3, <1>4
  <2> HIDE DEF S, E
  <2>2. /\ Len(log') = Len(log) + Len(E)
        /\ \A p \in 1..Len(log) : log'[p] = log[p]
        /\ \A k \in 1..Len(E) : log'[Len(log) + k] = E[k]
    BY <2>1, ConcatFacts
  <2> QED BY <2>2 DEF E
<1> QED BY <1>1, <1>2, <1>3, <1>5, <1>6, <1>7

\* Only the commit extends the log, and only it and a stored rejection write a receipt.
LEMMA LogFrame ==
    ASSUME TypeInv, [Next]_vars
    PROVE  \/ Commit
           \/ Settle /\ log' = log
           \/ log' = log /\ receipts' = receipts
<1> USE DEF database, clients
<1>1. CASE CatchUp \/ Repair \/ CrashAndRestart
  BY <1>1 DEF CatchUp, Repair, CrashAndRestart, Bootstrap
<1> QED
  BY <1>1 DEF Next, Worker, vars, Dispatch, DeadlinePasses, Abandon, Take, Begin, AnswerFromReceipt,
              Decide, DecideFails, CommitFails, AssignModel, Defer, DeferFails, Schedule, Fork,
              DeferDone, Publish, Answer, Interrupt, Reconcile, Settle, CatchUpFails

\* A stored rejection only ever replaces the absence of a receipt.
LEMMA SettleReceipts ==
    ASSUME TypeInv, PhaseInv, Settle
    PROVE  /\ job.by \in Attempts /\ CommandOf[job.by] \in Commands
           /\ \/ receipts' = receipts
              \/ /\ receipts[CommandOf[job.by]].kind = "none"
                 /\ receipts' = [receipts EXCEPT ![CommandOf[job.by]] =
                                    [kind |-> "rejected", seq |-> model.seq]]
<1>1. job.by \in Attempts /\ CommandOf[job.by] \in Commands
  BY Constants DEF TypeInv, JobInv, Settle
<1>2. CASE err = "invariant"
  BY <1>1, <1>2 DEF Settle, Store, PhaseInv
<1>3. CASE err # "invariant"
  BY <1>1, <1>3 DEF Settle
<1> QED BY <1>1, <1>2, <1>3

\* A receipt that is there stays as it is.
LEMMA ReceiptStep ==
    ASSUME TypeInv, PhaseInv, [Next]_vars, NEW c \in Commands, receipts[c].kind # "none"
    PROVE  receipts'[c] = receipts[c]
<1>0. receipts \in [Commands -> [kind : {"none", "accepted", "rejected"}, seq : Nat]]
  BY DEF TypeInv, TypeOK
<1>1. CASE Commit
  <2>1. receipts[CommandOf[job.by]].kind = "none"
    BY <1>1 DEF Commit, PhaseInv
  <2> QED BY <1>0, <1>1, <2>1, CommitFacts
<1>2. CASE Settle
  BY <1>0, <1>2, SettleReceipts
<1> QED BY <1>1, <1>2, LogFrame

\* The log and the receipts stay in agreement.
LEMMA ReceiptsMatchLogStep ==
    ASSUME TypeInv, PhaseInv, ReceiptsMatchLog, [Next]_vars
    PROVE  ReceiptsMatchLog'
<1>0. /\ receipts \in [Commands -> [kind : {"none", "accepted", "rejected"}, seq : Nat]]
      /\ Len(log) \in Nat
  BY DEF TypeInv, TypeOK
<1>1. CASE Commit
  <2> DEFINE c == CommandOf[job.by]
             n == Len(Plan[c])
             mine(d) == {p \in 1..Len(log) : CommandOf[log[p].by] = d}
             mine2(d) == {p \in 1..Len(log') : CommandOf[log'[p].by] = d}
  <2>1. /\ c \in Commands /\ n \in Nat \ {0}
        /\ Len(log') = Len(log) + n
        /\ \A p \in 1..Len(log) : log'[p] = log[p]
        /\ \A k \in 1..n : log'[Len(log) + k] = [by |-> job.by, kind |-> Plan[c][k]]
        /\ receipts' = [receipts EXCEPT ![c] = Accepted(Len(log) + n)]
    BY <1>1, CommitFacts
  <2>2. receipts[c].kind = "none"
    BY <1>1 DEF Commit, PhaseInv
  <2>3. mine(c) = {}
    BY <2>1, <2>2 DEF ReceiptsMatchLog
  <2>4. \A p \in (Len(log) + 1)..(Len(log) + n) :
           /\ log'[p].by = job.by
           /\ log'[p].kind = Plan[c][p - (Len(log) + 1) + 1]
    <3> SUFFICES ASSUME NEW p \in (Len(log) + 1)..(Len(log) + n)
                 PROVE  log'[p].by = job.by /\ log'[p].kind = Plan[c][p - (Len(log) + 1) + 1]
      OBVIOUS
    <3> DEFINE k == p - Len(log)
    <3>1. k \in 1..n /\ p = Len(log) + k /\ k = p - (Len(log) + 1) + 1
      BY <1>0, <2>1
    <3>2. log'[Len(log) + k] = [by |-> job.by, kind |-> Plan[c][k]]
      BY <2>1, <3>1
    <3> HIDE DEF k, c, n
    <3> QED BY <3>1, <3>2
  <2>5. \A d \in Commands : d # c => mine2(d) = mine(d)
    BY <1>0, <2>1, <2>4
  <2>6. mine2(c) = (Len(log) + 1)..(Len(log) + n)
    <3>1. \A p \in 1..Len(log') : p \in 1..Len(log) \/ p \in (Len(log) + 1)..(Len(log) + n)
      BY <1>0, <2>1
    <3>2. \A p \in 1..Len(log) : CommandOf[log'[p].by] # c
      BY <2>1, <2>3
    <3>3. (Len(log) + 1)..(Len(log) + n) \subseteq 1..Len(log')
      BY <1>0, <2>1
    <3> QED BY <2>4, <3>1, <3>2, <3>3
  <2>7. ASSUME NEW d \in Commands, d # c
        PROVE  IF receipts'[d].kind = "accepted"
               THEN LET first == receipts'[d].seq - Len(Plan[d]) + 1 IN
                    /\ mine2(d) = first..receipts'[d].seq
                    /\ \A p \in mine2(d) : /\ log'[p].kind = Plan[d][p - first + 1]
                                           /\ log'[p].by = log'[first].by
               ELSE mine2(d) = {}
    <3>1. receipts'[d] = receipts[d]
      BY <1>0, <2>1, <2>7
    <3>2. mine2(d) = mine(d)
      BY <2>5, <2>7
    <3>3. CASE receipts[d].kind = "accepted"
      <4> DEFINE first == receipts[d].seq - Len(Plan[d]) + 1
      <4>1. /\ mine(d) = first..receipts[d].seq
            /\ \A p \in mine(d) : /\ log[p].kind = Plan[d][p - first + 1]
                                  /\ log[p].by = log[first].by
        BY <3>3 DEF ReceiptsMatchLog
      <4>2. first \in mine(d)
        <5>1. Len(Plan[d]) \in Nat \ {0} /\ receipts[d].seq \in Nat
          BY <1>0, Constants
        <5>2. first \in first..receipts[d].seq
          BY <5>1
        <5> QED BY <4>1, <5>2
      <4>3. \A p \in mine(d) : p \in 1..Len(log) /\ log'[p] = log[p]
        BY <2>1
      <4> HIDE DEF mine, mine2, c, n, first
      <4> QED BY <3>1, <3>2, <3>3, <4>1, <4>2, <4>3 DEF first
    <3>4. CASE receipts[d].kind # "accepted"
      <4>1. mine(d) = {}
        BY <3>4 DEF ReceiptsMatchLog
      <4> QED BY <3>1, <3>2, <3>4, <4>1
    <3> QED BY <3>3, <3>4
  <2>8. /\ receipts'[c] = Accepted(Len(log) + n)
        /\ receipts'[c].seq - n + 1 = Len(log) + 1
    BY <1>0, <2>1
  <2>9. log'[Len(log) + 1].by = job.by
    BY <1>0, <2>1, <2>4
  <2>10. IF receipts'[c].kind = "accepted"
         THEN LET first == receipts'[c].seq - n + 1 IN
              /\ mine2(c) = first..receipts'[c].seq
              /\ \A p \in mine2(c) : /\ log'[p].kind = Plan[c][p - first + 1]
                                     /\ log'[p].by = log'[first].by
         ELSE mine2(c) = {}
    <3> HIDE DEF mine, mine2, c, n
    <3> QED BY <2>4, <2>6, <2>8, <2>9
  <2>11. \A d \in Commands :
           IF receipts'[d].kind = "accepted"
           THEN LET first == receipts'[d].seq - Len(Plan[d]) + 1 IN
                /\ mine2(d) = first..receipts'[d].seq
                /\ \A p \in mine2(d) : /\ log'[p].kind = Plan[d][p - first + 1]
                                       /\ log'[p].by = log'[first].by
           ELSE mine2(d) = {}
    BY <2>7, <2>10
  <2> QED BY <2>11 DEF ReceiptsMatchLog
<1>2. CASE Settle /\ log' = log
  <2>1. \A d \in Commands : \/ receipts'[d] = receipts[d]
                            \/ /\ receipts[d].kind = "none"
                               /\ receipts'[d].kind = "rejected"
    BY <1>0, <1>2, SettleReceipts
  <2> DEFINE mine(d) == {p \in 1..Len(log) : CommandOf[log[p].by] = d}
  <2>2. \A d \in Commands :
           IF receipts'[d].kind = "accepted"
           THEN LET first == receipts'[d].seq - Len(Plan[d]) + 1 IN
                /\ mine(d) = first..receipts'[d].seq
                /\ \A p \in mine(d) : /\ log[p].kind = Plan[d][p - first + 1]
                                      /\ log[p].by = log[first].by
           ELSE mine(d) = {}
    <3> SUFFICES ASSUME NEW d \in Commands
                 PROVE  IF receipts'[d].kind = "accepted"
                        THEN LET first == receipts'[d].seq - Len(Plan[d]) + 1 IN
                             /\ mine(d) = first..receipts'[d].seq
                             /\ \A p \in mine(d) : /\ log[p].kind = Plan[d][p - first + 1]
                                                   /\ log[p].by = log[first].by
                        ELSE mine(d) = {}
      OBVIOUS
    <3>1. CASE receipts'[d] = receipts[d]
      BY <3>1 DEF ReceiptsMatchLog
    <3>2. CASE receipts[d].kind = "none" /\ receipts'[d].kind = "rejected"
      BY <3>2 DEF ReceiptsMatchLog
    <3> QED BY <2>1, <3>1, <3>2
  <2> QED BY <1>2, <2>2 DEF ReceiptsMatchLog
<1>3. CASE log' = log /\ receipts' = receipts
  BY <1>3 DEF ReceiptsMatchLog
<1> QED BY <1>1, <1>2, <1>3, LogFrame

-----------------------------------------------------------------------------
\* The events of other attempts are not touched by a step: an attempt without
\* events gets some only from its own commit.
LEMMA TraceStep ==
    ASSUME TypeInv, [Next]_vars, NEW a, Traceless(a), ~(Commit /\ job.by = a)
    PROVE  Traceless(a)'
<1>1. CASE Commit
  <2> DEFINE n == Len(Plan[CommandOf[job.by]])
  <2>1. /\ n \in Nat \ {0} /\ Len(log) \in Nat /\ Len(log') = Len(log) + n
        /\ \A p \in 1..Len(log) : log'[p] = log[p]
        /\ \A k \in 1..n : log'[Len(log) + k].by = job.by
    <3>1. /\ n \in Nat \ {0} /\ Len(log) \in Nat /\ Len(log') = Len(log) + n
          /\ \A p \in 1..Len(log) : log'[p] = log[p]
          /\ \A k \in 1..n : log'[Len(log) + k] =
                               [by |-> job.by, kind |-> Plan[CommandOf[job.by]][k]]
      BY <1>1, CommitFacts
    <3>2. \A k \in 1..n : log'[Len(log) + k].by = job.by
      <4> TAKE k \in 1..n
      <4>1. log'[Len(log) + k] = [by |-> job.by, kind |-> Plan[CommandOf[job.by]][k]]
        BY <3>1
      <4> QED BY <4>1
    <3> QED BY <3>1, <3>2
  <2>2. ASSUME NEW p \in 1..Len(log') PROVE log'[p].by # a
    <3>1. CASE p \in 1..Len(log)
      BY <2>1, <3>1 DEF Traceless
    <3>2. CASE p \notin 1..Len(log)
      <4> DEFINE k == p - Len(log)
      <4>1. k \in 1..n /\ p = Len(log) + k
        BY <2>1, <3>2
      <4>2. log'[Len(log) + k].by = job.by
        BY <2>1, <4>1
      <4> QED BY <1>1, <4>1, <4>2
    <3> QED BY <3>1, <3>2
  <2> QED BY <2>2 DEF Traceless
<1>2. CASE log' = log
  BY <1>2 DEF Traceless
<1> QED BY <1>1, <1>2, LogFrame

\* How a step changes an envelope's state and its result.
LEMMA EnvelopeStep ==
    ASSUME TypeInv, [Next]_vars, NEW a \in Attempts
    PROVE  /\ exec'[a] \in {"none", "queued", "abandoned"} =>
                 \/ exec[a] = exec'[a]
                 \/ exec[a] = "none" /\ exec'[a] = "queued"
                 \/ exec[a] = "queued" /\ exec'[a] = "abandoned"
           /\ result'[a] = result[a] \/ (Inside /\ a = job.by)
<1> USE DEF TypeInv, TypeOK, JobInv, database, clients, worker, Inside
<1>1. ASSUME NEW b \in Attempts, Dispatch(b) \/ DeadlinePasses(b) \/ Abandon(b)
      PROVE  /\ exec'[a] \in {"none", "queued", "abandoned"} =>
                   \/ exec[a] = exec'[a]
                   \/ exec[a] = "none" /\ exec'[a] = "queued"
                   \/ exec[a] = "queued" /\ exec'[a] = "abandoned"
             /\ result'[a] = result[a]
  BY <1>1 DEF Dispatch, DeadlinePasses, Abandon
<1>2. CASE Begin
  BY <1>2 DEF Begin
<1>3. CASE CrashAndRestart
  BY <1>3 DEF CrashAndRestart
<1>4. CASE AnswerFromReceipt \/ Answer
  BY <1>4 DEF AnswerFromReceipt, Answer
<1>5. CASE Settle
  <2>1. exec' = exec /\ Inside /\ \A b \in Attempts : b # job.by => result'[b] = result[b]
    BY <1>5 DEF Settle
  <2> QED BY <2>1
<1>6. CASE UNCHANGED <<exec, result>>
  BY <1>6
<1> QED
  BY <1>1, <1>2, <1>3, <1>4, <1>5, <1>6
     DEF Next, Worker, vars, Take, Decide, DecideFails, Commit, CommitFails, AssignModel,
         Defer, DeferFails, Schedule, Fork, DeferDone, Publish, Interrupt, Reconcile, CatchUp,
         CatchUpFails, Repair

\* An attempt the worker has not begun keeps having no answer and no events.
LEMMA FreshStep ==
    ASSUME TypeInv, FreshInv, QueueInv, [Next]_vars
    PROVE  FreshInv'
<1> SUFFICES ASSUME NEW a \in Attempts, exec'[a] \in {"none", "queued", "abandoned"}
             PROVE  result'[a].kind = "none" /\ Traceless(a)'
  BY DEF FreshInv
<1>1. exec[a] \in {"none", "queued", "abandoned"}
  BY EnvelopeStep
<1>2. result[a].kind = "none" /\ Traceless(a)
  BY <1>1 DEF FreshInv
<1>3. ~(Inside /\ a = job.by)
  BY <1>1 DEF QueueInv
<1>4. Commit => Inside
  BY DEF Commit, Inside
<1> QED BY <1>2, <1>3, <1>4, EnvelopeStep, TraceStep

\* The queue keeps holding distinct envelopes that nobody has begun.
LEMMA QueueStep ==
    ASSUME TypeInv, FreshInv, QueueInv, [Next]_vars
    PROVE  QueueInv'
<1> USE DEF TypeInv, TypeOK, JobInv, database, clients, worker, Inside
<1>1. ASSUME NEW a \in Attempts, Dispatch(a) PROVE QueueInv'
  <2>1. /\ Len(queue') = Len(queue) + 1 /\ queue'[Len(queue) + 1] = a
        /\ \A k \in 1..Len(queue) : queue'[k] = queue[k]
        /\ Len(queue) \in Nat
    BY <1>1 DEF Dispatch
  <2>2. exec[a] = "none" /\ exec' = [exec EXCEPT ![a] = "queued"]
        /\ UNCHANGED <<pc, job, result>>
    BY <1>1 DEF Dispatch
  <2>3. \A k \in 1..Len(queue) : queue[k] # a /\ queue[k] \in Attempts
    <3>1. \A k \in 1..Len(queue) : queue[k] \in Attempts
      OBVIOUS
    <3>2. \A k \in 1..Len(queue) : exec[queue[k]] # exec[a]
      BY <2>2 DEF QueueInv
    <3> QED BY <3>1, <3>2
  <2>4. \A k \in 1..Len(queue') : k \in 1..Len(queue) \/ k = Len(queue) + 1
    <3> HIDE DEF TypeInv, TypeOK, JobInv, database, clients, worker, Inside
    <3> QED BY <2>1
  <2>5. \A k \in 1..Len(queue') : exec'[queue'[k]] \in {"queued", "abandoned"}
    <3>1. exec'[a] = "queued" /\ \A b \in Attempts : b # a => exec'[b] = exec[b]
      BY <2>2
    <3>2. \A k \in 1..Len(queue) : exec'[queue'[k]] = exec[queue[k]]
      BY <2>1, <2>3, <3>1
    <3>3. \A k \in 1..Len(queue) : exec[queue[k]] \in {"queued", "abandoned"}
      BY DEF QueueInv
    <3> HIDE DEF TypeInv, TypeOK, JobInv, database, clients, worker, Inside
    <3> QED BY <2>1, <2>4, <3>1, <3>2, <3>3
  <2>6. \A j, k \in 1..Len(queue') : queue'[j] = queue'[k] => j = k
    <3>1. \A j, k \in 1..Len(queue) : queue[j] = queue[k] => j = k
      BY DEF QueueInv
    <3> HIDE DEF TypeInv
    <3> QED BY <2>1, <2>3, <2>4, <3>1
  <2>7. pc = "taken" \/ Inside => job.by # a
    BY <2>2 DEF QueueInv
  <2>8. pc' = "taken" => /\ exec'[job'.by] \in {"queued", "abandoned"}
                         /\ \A k \in 1..Len(queue') : queue'[k] # job'.by
    <3> SUFFICES ASSUME pc = "taken"
                 PROVE  /\ exec'[job.by] \in {"queued", "abandoned"}
                        /\ \A k \in 1..Len(queue') : queue'[k] # job.by
      BY <2>2
    <3>1. /\ job.by \in Attempts /\ job.by # a
          /\ exec[job.by] \in {"queued", "abandoned"}
          /\ \A k \in 1..Len(queue) : queue[k] # job.by
      BY <2>7 DEF QueueInv
    <3>2. exec'[job.by] = exec[job.by]
      BY <2>2, <3>1
    <3> HIDE DEF TypeInv
    <3> QED BY <2>1, <2>4, <3>1, <3>2
  <2>9. Inside' => exec'[job'.by] = "in-flight" /\ result'[job'.by].kind = "none"
    BY <2>2, <2>7 DEF QueueInv
  <2> QED BY <2>5, <2>6, <2>8, <2>9 DEF QueueInv
<1>2. ASSUME NEW a \in Attempts, DeadlinePasses(a) PROVE QueueInv'
  BY <1>2 DEF DeadlinePasses, QueueInv
<1>3. ASSUME NEW a \in Attempts, Abandon(a) PROVE QueueInv'
  <2>1. /\ exec[a] = "queued" /\ exec' = [exec EXCEPT ![a] = "abandoned"]
        /\ UNCHANGED <<queue, result, pc, job>>
    BY <1>3 DEF Abandon
  <2>2. \A k \in 1..Len(queue) : queue[k] \in Attempts
    OBVIOUS
  <2>3. pc # "idle" => job.by \in Attempts
    OBVIOUS
  <2>4. \A b \in Attempts : exec[b] \in {"queued", "abandoned"} =>
                               exec'[b] \in {"queued", "abandoned"}
    BY <2>1
  <2>5. \A b \in Attempts : exec[b] = "in-flight" => exec'[b] = "in-flight"
    BY <2>1
  <2> QED BY <2>1, <2>2, <2>3, <2>4, <2>5 DEF QueueInv
<1>4. CASE Take
  <2>1. /\ queue # <<>> /\ job'.by = queue[1] /\ pc' = "taken"
        /\ Len(queue') = Len(queue) - 1
        /\ \A k \in 1..Len(queue') : queue'[k] = queue[k + 1]
        /\ exec' = exec /\ Len(queue) \in Nat \ {0}
    BY <1>4 DEF Take
  <2>2. \A k \in 1..Len(queue') : k \in Nat /\ k + 1 \in 1..Len(queue) /\ 1 # k + 1
    BY <2>1
  <2>3. 1 \in 1..Len(queue)
    BY <2>1
  <2>4. /\ \A k \in 1..Len(queue) : exec[queue[k]] \in {"queued", "abandoned"}
        /\ \A j, k \in 1..Len(queue) : queue[j] = queue[k] => j = k
    BY DEF QueueInv
  <2> HIDE DEF TypeInv
  <2>5. \A k \in 1..Len(queue') : exec'[queue'[k]] \in {"queued", "abandoned"}
    BY <2>1, <2>2, <2>4
  <2>6. \A j, k \in 1..Len(queue') : queue'[j] = queue'[k] => j = k
    BY <2>1, <2>2, <2>4
  <2>7. /\ exec'[job'.by] \in {"queued", "abandoned"}
        /\ \A k \in 1..Len(queue') : queue'[k] # job'.by
    BY <2>1, <2>2, <2>3, <2>4
  <2> QED BY <2>1, <2>5, <2>6, <2>7 DEF QueueInv
<1>5. CASE Begin
  <2>1. pc = "taken" /\ job.by \in Attempts /\ UNCHANGED <<queue, result>>
    BY <1>5 DEF Begin
  <2>2. result[job.by].kind = "none"
    BY <2>1 DEF QueueInv, FreshInv
  <2>3. CASE Rest /\ UNCHANGED exec
    BY <2>1, <2>3 DEF Rest, QueueInv
  <2>4. CASE /\ exec' = [exec EXCEPT ![job.by] = "in-flight"]
             /\ job' = job /\ pc' \in {"begun", "recovering"}
    <3>1. \A k \in 1..Len(queue) : exec'[queue[k]] = exec[queue[k]]
      BY <2>1, <2>4 DEF QueueInv
    <3>2. exec'[job'.by] = "in-flight" /\ result'[job'.by].kind = "none"
      BY <2>1, <2>2, <2>4
    <3> QED BY <2>1, <2>4, <3>1, <3>2 DEF QueueInv
  <2> QED BY <1>5, <2>3, <2>4 DEF Begin, Fail
<1>6. CASE AnswerFromReceipt \/ Answer \/ Settle
  <2>1. pc' = "idle" /\ UNCHANGED <<queue, exec>>
    BY <1>6 DEF AnswerFromReceipt, Answer, Settle, Rest
  <2> QED BY <2>1 DEF QueueInv
<1>7. CASE Decide \/ DecideFails \/ Commit \/ CommitFails \/ AssignModel \/ Defer \/ DeferFails
           \/ Schedule \/ Fork \/ DeferDone \/ Publish \/ Interrupt \/ Reconcile
  <2>1. Inside /\ Inside' /\ UNCHANGED <<queue, exec, result, job>>
    BY <1>7 DEF Decide, DecideFails, Commit, CommitFails, AssignModel, Defer, DeferFails,
                NoteFailure, Schedule, Fork, DeferDone, Publish, Interrupt, Reconcile, Fail
  <2> QED BY <2>1 DEF QueueInv
<1>8. CASE CatchUp \/ CatchUpFails \/ Repair \/ UNCHANGED vars
  BY ZenonT(60), <1>8 DEF CatchUp, CatchUpFails, Repair, vars, QueueInv
<1>9. CASE CrashAndRestart
  BY <1>9 DEF CrashAndRestart, Rest, QueueInv
<1> QED
  BY <1>1, <1>2, <1>3, <1>4, <1>5, <1>6, <1>7, <1>8, <1>9 DEF Next, Worker

\* Whatever the worker is at, its attempt has the events and the receipt it should.
LEMMA PhaseStep ==
    ASSUME TypeInv, FreshInv, QueueInv, PhaseInv, [Next]_vars
    PROVE  PhaseInv'
<1> USE DEF database, clients, worker
<1>0. pc # "idle" => job.by \in Attempts /\ CommandOf[job.by] \in Commands
  BY Constants DEF TypeInv, JobInv
<1>1. CASE Take
  BY <1>1 DEF Take, PhaseInv
<1>2. CASE Begin
  <2>1. pc = "taken" /\ UNCHANGED <<log, receipts>>
    BY <1>2 DEF Begin
  <2>2. Traceless(job.by)
    BY <1>0, <2>1 DEF QueueInv, FreshInv
  <2>3. Traceless(job.by)'
        \/ pc' = "idle"
    BY <1>2, <2>1, <2>2 DEF Begin, Rest, Fail, Traceless
  <2>4. \/ pc' = "idle"
        \/ pc' = "begun"
        \/ pc' = "recovering" /\ err' = "timeout"
    BY <1>2 DEF Begin, Rest, Fail
  <2> QED BY <2>1, <2>3, <2>4 DEF PhaseInv
<1>3. CASE AnswerFromReceipt \/ Answer \/ Settle \/ CrashAndRestart
  BY <1>3 DEF AnswerFromReceipt, Answer, Settle, CrashAndRestart, Rest, PhaseInv
<1>4. CASE Decide \/ DecideFails \/ CommitFails
  <2>1. pc \in {"begun", "decided"} /\ Traceless(job.by) /\ UNCHANGED <<log, receipts, job>>
    BY <1>4 DEF Decide, DecideFails, CommitFails, Fail, PhaseInv
  <2>2. \/ pc' = "decided" /\ Unseen(job.by)
        \/ pc' = "recovering" /\ err' = "invariant" /\ Unseen(job.by)
        \/ pc' = "recovering" /\ err' \in {"failed", "defect"}
    BY <1>4 DEF Decide, DecideFails, CommitFails, Fail
  <2> QED BY <2>1, <2>2 DEF PhaseInv, Traceless, Unseen
<1>5. CASE Commit
  <2>1. pc' = "committed" /\ job' = job
    BY <1>5 DEF Commit
  <2>2. receipts'[CommandOf[job.by]] = Accepted(Len(log'))
    <3>1. receipts \in [Commands -> [kind : {"none", "accepted", "rejected"}, seq : Nat]]
      BY DEF TypeInv, TypeOK
    <3> QED BY <1>5, <3>1, CommitFacts
  <2> QED BY <2>1, <2>2 DEF PhaseInv
<1>6. CASE AssignModel \/ Defer \/ DeferFails \/ Schedule \/ Fork \/ DeferDone \/ Publish
  <2>1. /\ pc \in {"committed", "deferring", "scheduling", "forking", "publishing"}
        /\ pc' \in {"deferring", "scheduling", "forking", "publishing"}
        /\ UNCHANGED <<log, receipts, job>>
    BY <1>6 DEF AssignModel, Defer, DeferFails, NoteFailure, Schedule, Fork, DeferDone, Publish
  <2> QED BY <2>1 DEF PhaseInv
<1>7. CASE Interrupt
  BY <1>7 DEF Interrupt, Fail, PhaseInv
<1>8. CASE Reconcile
  BY <1>8 DEF Reconcile, PhaseInv, Traceless
<1>9. CASE CatchUp \/ CatchUpFails \/ Repair
  <2>1. pc \in {"idle", "taken"} /\ pc' = pc
    BY <1>9 DEF CatchUp, CatchUpFails, Repair, Inside
  <2> QED BY <2>1 DEF PhaseInv
<1>10. ASSUME NEW a \in Attempts, Dispatch(a) \/ DeadlinePasses(a) \/ Abandon(a)
       PROVE  PhaseInv'
  BY <1>10 DEF Dispatch, DeadlinePasses, Abandon, PhaseInv, Traceless
<1>11. CASE UNCHANGED vars
  BY <1>11 DEF vars, PhaseInv, Traceless
<1> QED
  BY <1>1, <1>2, <1>3, <1>4, <1>5, <1>6, <1>7, <1>8, <1>9, <1>10, <1>11 DEF Next, Worker

\* An accepted answer keeps agreeing with the stored receipt.
LEMMA AcceptedStep ==
    ASSUME TypeInv, PhaseInv, AcceptedIsDurable, [Next]_vars
    PROVE  AcceptedIsDurable'
<1> SUFFICES ASSUME NEW a \in Attempts, result'[a].kind = "accepted"
             PROVE  result'[a] = receipts'[CommandOf[a]]
  BY DEF AcceptedIsDurable
<1> USE DEF database, clients
<1>0. /\ CommandOf[a] \in Commands
      /\ result \in [Attempts -> [kind : ResultKinds, seq : Nat]]
      /\ pc # "idle" => job.by \in Attempts
  BY Constants DEF TypeInv, TypeOK, JobInv
<1>1. CASE result'[a] = result[a]
  <2>1. receipts[CommandOf[a]] = result[a] /\ receipts[CommandOf[a]].kind # "none"
    BY <1>1 DEF AcceptedIsDurable
  <2> QED BY <1>0, <1>1, <2>1, ReceiptStep
<1>2. CASE result'[a] # result[a]
  <2>1. Inside /\ a = job.by
    BY <1>2, EnvelopeStep
  <2>2. CASE AnswerFromReceipt
    BY <1>0, <2>1, <2>2 DEF AnswerFromReceipt, FromReceipt
  <2>3. CASE Answer
    BY <1>0, <2>1, <2>3 DEF Answer, PhaseInv
  <2>4. CASE Settle
    <3>1. \/ result'[a] = FromReceipt(receipts[CommandOf[a]]) /\ receipts' = receipts
          \/ result'[a].kind \in {"timeout", "failed", "rejected"}
      BY <1>0, <2>1, <2>4 DEF Settle
    <3> QED BY <3>1 DEF FromReceipt
  <2>5. result' = result \/ AnswerFromReceipt \/ Answer \/ Settle
    BY DEF Next, Worker, vars, Dispatch, DeadlinePasses, Abandon, Take, Begin, Decide, DecideFails,
           Commit, CommitFails, AssignModel, Defer, DeferFails, Schedule, Fork, DeferDone,
           Publish, Interrupt,
           Reconcile, CatchUp, CatchUpFails, Repair, CrashAndRestart
  <2> QED BY <1>2, <2>2, <2>3, <2>4, <2>5
<1> QED BY <1>1, <1>2

-----------------------------------------------------------------------------
\* The initial state satisfies the inductive invariant.
LEMMA InitInv == Init => IInv
<1> SUFFICES ASSUME Init PROVE IInv
  OBVIOUS
<1>1. ReceiptsMatchLog
  BY DEF Init, ReceiptsMatchLog
<1>2. AcceptedIsDurable
  BY DEF Init, AcceptedIsDurable
<1>3. FreshInv
  BY DEF Init, FreshInv, Traceless
<1>4. QueueInv /\ PhaseInv
  BY DEF Init, QueueInv, PhaseInv, Inside
<1> QED BY TypeInit, <1>1, <1>2, <1>3, <1>4 DEF IInv

\* Every step keeps the inductive invariant.
LEMMA StepInv == IInv /\ [Next]_vars => IInv'
<1> SUFFICES ASSUME IInv, [Next]_vars PROVE IInv'
  OBVIOUS
<1>1. TypeInv' /\ FreshInv' /\ QueueInv'
  BY TypeStep, FreshStep, QueueStep DEF IInv
<1>2. PhaseInv' /\ ReceiptsMatchLog' /\ AcceptedIsDurable'
  BY PhaseStep, ReceiptsMatchLogStep, AcceptedStep DEF IInv
<1> QED BY <1>1, <1>2 DEF IInv

\* IInv is an invariant of the engine.
THEOREM Inductive == Spec => []IInv
BY InitInv, StepInv, PTL DEF Spec

\* Commands take effect at most once, as a whole and together with their receipt,
\* for any number of commands, retries, interruptions and crashes.
THEOREM CommitIsAtomicAndUnique == Spec => []ReceiptsMatchLog
<1>1. IInv => ReceiptsMatchLog
  BY DEF IInv
<1> QED BY Inductive, <1>1, PTL

\* What a caller was told was accepted is in the database, and stays there.
THEOREM AcceptedAnswersAreDurable == Spec => []AcceptedIsDurable
<1>1. IInv => AcceptedIsDurable
  BY DEF IInv
<1> QED BY Inductive, <1>1, PTL

\* A stored outcome is never replaced by another.
THEOREM OutcomesAreFinal == Spec => ReceiptsAreFinal
<1>1. IInv /\ [Next]_vars =>
        [\A c \in Commands : receipts[c].kind # "none" => receipts'[c] = receipts[c]]_vars
  BY ReceiptStep DEF IInv
<1> QED BY Inductive, <1>1, PTL DEF Spec, ReceiptsAreFinal

-----------------------------------------------------------------------------
(***************************************************************************)
(* What callers are told.  Both results assume that the receipts can be    *)
(* read while a timed-out or crashed command is being answered: without    *)
(* that, the engine answers with a timeout although the command may stand. *)
(***************************************************************************)

\* A command without an accepted receipt has no events.
LEMMA NoReceiptNoTrace ==
    ASSUME ReceiptsMatchLog, NEW a \in Attempts, receipts[CommandOf[a]].kind # "accepted"
    PROVE  Traceless(a)
BY Constants DEF ReceiptsMatchLog, Traceless

\* How a call's result comes about.
LEMMA ResultStep ==
    ASSUME IInv, [Next]_vars, "receipt" \notin Disturbances, NEW a \in Attempts,
           result'[a] # result[a]
    PROVE  /\ a = job.by /\ Inside
           /\ result'[a].kind \notin {"none", "accepted"} => Traceless(a) /\ log' = log
<1> USE DEF database, clients
<1>1. Inside /\ a = job.by
  BY EnvelopeStep DEF IInv
<1>2. CASE AnswerFromReceipt
  BY <1>1, <1>2 DEF AnswerFromReceipt, IInv, PhaseInv
<1>3. CASE Answer
  <2>1. result'[a] = Accepted(Len(log))
    BY <1>3, <1>1 DEF Answer, IInv, TypeInv, TypeOK
  <2> QED BY <1>1, <2>1
<1>4. CASE Settle
  <2>0. log' = log /\ pc = "settling" /\ result \in [Attempts -> [kind : ResultKinds, seq : Nat]]
    BY <1>4 DEF Settle, IInv, TypeInv, TypeOK
  <2>1. CASE err # "timeout"
    BY <1>1, <2>0, <2>1 DEF IInv, PhaseInv
  <2>2. CASE receipts[CommandOf[a]].kind # "accepted"
    BY <1>1, <2>0, <2>2, NoReceiptNoTrace DEF IInv
  <2>3. CASE err = "timeout" /\ receipts[CommandOf[a]].kind = "accepted"
    BY <1>1, <1>4, <2>0, <2>3 DEF Settle, FromReceipt
  <2> QED BY <1>1, <2>1, <2>2, <2>3
<1>5. result' = result \/ AnswerFromReceipt \/ Answer \/ Settle
  BY DEF Next, Worker, vars, Dispatch, DeadlinePasses, Abandon, Take, Begin, Decide, DecideFails,
         Commit, CommitFails, AssignModel, Defer, DeferFails, Schedule, Fork, DeferDone,
           Publish, Interrupt,
         Reconcile, CatchUp, CatchUpFails, Repair, CrashAndRestart
<1> QED BY <1>2, <1>3, <1>4, <1>5

\* A refused call keeps having no events.
LEMMA RefusedStep ==
    ASSUME IInv, RefusedLeavesNoTrace, [Next]_vars, "receipt" \notin Disturbances
    PROVE  RefusedLeavesNoTrace'
<1> SUFFICES ASSUME NEW a \in Attempts,
                    exec'[a] = "abandoned" \/ result'[a].kind \notin {"none", "accepted"}
             PROVE  Traceless(a)'
  BY DEF RefusedLeavesNoTrace, Traceless
<1>1. CASE exec'[a] = "abandoned"
  BY <1>1, StepInv DEF IInv, FreshInv
<1>2. CASE result'[a] = result[a] /\ result'[a].kind \notin {"none", "accepted"}
  <2>1. Traceless(a)
    BY <1>2 DEF RefusedLeavesNoTrace, Traceless
  <2>2. ~(Commit /\ job.by = a)
    BY <1>2 DEF Commit, Inside, IInv, QueueInv
  <2> QED BY <2>1, <2>2, TraceStep DEF IInv
<1>3. CASE result'[a] # result[a] /\ result'[a].kind \notin {"none", "accepted"}
  BY <1>3, ResultStep DEF Traceless
<1> QED BY <1>1, <1>2, <1>3

\* As long as receipts can be read back, a call that was abandoned, timed out,
\* failed or was rejected has left no event in the log, and never will.
THEOREM RefusalsAreFinal ==
    ASSUME "receipt" \notin Disturbances
    PROVE  Spec => []RefusedLeavesNoTrace
<1>1. Init => RefusedLeavesNoTrace
  BY DEF Init, RefusedLeavesNoTrace
<1>2. IInv /\ RefusedLeavesNoTrace /\ [Next]_vars => RefusedLeavesNoTrace'
  BY RefusedStep
<1> QED BY <1>1, <1>2, Inductive, PTL DEF Spec

\* Every step of the engine is a step of CommandService or changes nothing there.
LEMMA ServiceStep ==
    ASSUME IInv, [Next]_vars, "receipt" \notin Disturbances
    PROVE  [Service!Next]_(Service!vars)
<1> USE DEF database, clients, worker, Service!vars
<1>0. /\ receipts \in [Commands -> [kind : {"none", "accepted", "rejected"}, seq : Nat]]
      /\ exec \in [Attempts -> {"none", "queued", "in-flight", "abandoned", "lost"}]
      /\ result \in [Attempts -> [kind : ResultKinds, seq : Nat]]
      /\ \A a \in Attempts : CommandOf[a] \in Commands
  BY Constants DEF IInv, TypeInv, TypeOK
<1>1. Inside => /\ job.by \in Attempts /\ ServiceAnswer(job.by) = "none"
                /\ exec[job.by] = "in-flight"
  BY <1>0 DEF IInv, TypeInv, JobInv, QueueInv, Inside, ServiceAnswer
<1>2. ASSUME NEW a \in Attempts, Abandon(a) PROVE Service!GiveUp(a)
  <2>1. exec[a] = "queued" /\ result[a].kind = "none" /\ Traceless(a)
    BY <1>2 DEF Abandon, IInv, FreshInv
  <2>2. exec' = [exec EXCEPT ![a] = "abandoned"] /\ UNCHANGED <<log, receipts, result>>
    BY <1>2 DEF Abandon
  <2>3. [b \in Attempts |-> ServiceAnswer(b)]' =
          [[b \in Attempts |-> ServiceAnswer(b)] EXCEPT ![a] = "unfinished"]
    BY <1>0, <2>1, <2>2 DEF ServiceAnswer
  <2>4. ServiceAnswer(a) = "none"
    BY <2>1 DEF ServiceAnswer
  <2> QED BY <2>1, <2>2, <2>3, <2>4 DEF Service!GiveUp, Traceless
<1>3. CASE Commit
  <2>0. PICK a \in Attempts : a = job.by
    BY <1>1, <1>3 DEF Commit, Inside
  <2>1. Inside /\ receipts[CommandOf[a]].kind = "none"
    BY <1>3, <2>0 DEF Commit, Inside, IInv, PhaseInv
  <2>2. /\ log' = log \o [k \in 1..Len(Plan[CommandOf[a]]) |->
                             [by |-> a, kind |-> Plan[CommandOf[a]][k]]]
        /\ UNCHANGED <<exec, result>>
        /\ \E n : receipts' = [receipts EXCEPT ![CommandOf[a]] = Accepted(n)]
    BY <1>3, <2>0 DEF Commit, Events, Store, ReceiptOf
  <2>3. [c \in Commands |-> receipts[c].kind]' =
          [[c \in Commands |-> receipts[c].kind] EXCEPT ![CommandOf[a]] = "accepted"]
    <3>1. \A c \in Commands : receipts'[c].kind =
                               IF c = CommandOf[a] THEN "accepted" ELSE receipts[c].kind
      BY <1>0, <2>2 DEF Accepted
    <3> QED BY <3>1, Zenon
  <2>4. [b \in Attempts |-> ServiceAnswer(b)]' = [b \in Attempts |-> ServiceAnswer(b)]
    BY <2>2 DEF ServiceAnswer
  <2>5. Service!Commit(a)
    BY <1>0, <1>1, <2>0, <2>1, <2>2, <2>3, <2>4 DEF Service!Commit
  <2>6. Service!Next
    BY <2>5 DEF Service!Next
  <2> QED BY <2>6
<1>4. CASE AnswerFromReceipt \/ Answer \/ Settle
  <2>0. PICK a \in Attempts : a = job.by
    BY <1>1, <1>4 DEF AnswerFromReceipt, Answer, Settle, Inside
  <2>1. /\ Inside /\ UNCHANGED <<log, exec>>
        /\ ServiceAnswer(a) = "none" /\ exec[a] = "in-flight"
    BY <1>1, <1>4, <2>0 DEF AnswerFromReceipt, Answer, Settle, Inside
  <2>2. \A b \in Attempts : b # a => result'[b] = result[b]
    BY <2>0, EnvelopeStep DEF IInv
  <2>3. [b \in Attempts |-> ServiceAnswer(b)]' =
          [[b \in Attempts |-> ServiceAnswer(b)] EXCEPT ![a] = ServiceAnswer(a)']
    <3>1. \A b \in Attempts : b # a => ServiceAnswer(b)' = ServiceAnswer(b)
      BY <2>1, <2>2 DEF ServiceAnswer
    <3> QED BY <3>1
  <2> DEFINE c == CommandOf[a]
             told == result'[a]
  <2>4. /\ told.kind \in {"none", "accepted"} => ServiceAnswer(a)' = told.kind
        /\ told.kind \in {"rejected", "previously-rejected"} => ServiceAnswer(a)' = "rejected"
        /\ told.kind \in {"timeout", "failed"} => ServiceAnswer(a)' = "unfinished"
    BY <2>1 DEF ServiceAnswer
  <2>5. CASE told = FromReceipt(receipts[c]) /\ receipts[c].kind # "none" /\ receipts' = receipts
    <3>1. receipts[c].kind \in {"accepted", "rejected"}
      BY <1>0, <2>5
    <3>2. ServiceAnswer(a)' = receipts[c].kind
      BY <2>4, <2>5, <3>1 DEF FromReceipt, Refused
    <3>3. Service!Report(a)
      BY <1>0, <2>1, <2>3, <2>5, <3>2 DEF Service!Report
    <3>4. Service!Next
      BY <3>3 DEF Service!Next
    <3> QED BY <3>4
  <2>6. CASE told.kind \in {"timeout", "failed"} /\ receipts' = receipts
    <3>1. told # result[a]
      BY <2>0, <2>1, <2>6 DEF IInv, QueueInv, NoResult
    <3>2. Traceless(a)
      BY <2>1, <2>6, <3>1, ResultStep
    <3>3. Service!GiveUp(a)
      BY <2>1, <2>3, <2>4, <2>6, <3>2 DEF Service!GiveUp, Traceless
    <3>4. Service!Next
      BY <3>3 DEF Service!Next
    <3> QED BY <3>4
  <2>7. CASE /\ told.kind = "rejected" /\ receipts[c].kind = "none"
             /\ \/ receipts' = receipts
                \/ receipts' = [receipts EXCEPT ![c] = [kind |-> "rejected", seq |-> model.seq]]
    <3>1. [d \in Commands |-> receipts[d].kind]' \in
            {[d \in Commands |-> receipts[d].kind],
             [[d \in Commands |-> receipts[d].kind] EXCEPT ![c] = "rejected"]}
      <4>1. CASE receipts' = receipts
        BY <4>1
      <4>2. CASE receipts' = [receipts EXCEPT ![c] = [kind |-> "rejected", seq |-> model.seq]]
        <5>1. \A d \in Commands : receipts'[d].kind =
                                   IF d = c THEN "rejected" ELSE receipts[d].kind
          BY <1>0, <4>2
        <5>2. [d \in Commands |-> receipts[d].kind]' =
                [[d \in Commands |-> receipts[d].kind] EXCEPT ![c] = "rejected"]
          BY <5>1, Zenon
        <5> QED BY <5>2
      <4> QED BY <2>7, <4>1, <4>2
    <3>2. Service!Reject(a)
      BY <1>0, <2>1, <2>3, <2>4, <2>7, <3>1 DEF Service!Reject
    <3>3. Service!Next
      BY <3>2 DEF Service!Next
    <3> QED BY <3>3
  <2>8. result' = [result EXCEPT ![a] = told]
    BY <1>0, <1>4, <2>0 DEF AnswerFromReceipt, Answer, Settle
  <2>9. CASE AnswerFromReceipt
    <3>1. told = FromReceipt(receipts[c]) /\ receipts[c].kind # "none" /\ receipts' = receipts
      BY <1>0, <2>0, <2>9 DEF AnswerFromReceipt, Unseen
    <3> QED BY <2>5, <3>1
  <2>10. CASE Answer
    <3>1. told = Accepted(Len(log)) /\ receipts' = receipts /\ receipts[c] = Accepted(Len(log))
      BY <1>0, <2>0, <2>10 DEF Answer, IInv, PhaseInv
    <3> QED BY <2>5, <3>1 DEF FromReceipt, Accepted
  <2>11. CASE Settle
    <3>1. err = "invariant" => receipts[c].kind = "none"
      BY <2>0, <2>11 DEF Settle, IInv, PhaseInv
    <3>2. \/ told = FromReceipt(receipts[c]) /\ receipts[c].kind # "none" /\ receipts' = receipts
          \/ told.kind \in {"timeout", "failed"} /\ receipts' = receipts
          \/ /\ told.kind = "rejected" /\ receipts[c].kind = "none"
             /\ \/ receipts' = receipts
                \/ receipts' = [receipts EXCEPT ![c] = [kind |-> "rejected", seq |-> model.seq]]
      BY <1>0, <2>0, <2>11, <3>1 DEF Settle, Store, Refused
    <3> QED BY <3>2, <2>5, <2>6, <2>7
  <2> QED BY <1>4, <2>9, <2>10, <2>11
<1>5. ASSUME UNCHANGED <<log, receipts, result>>,
             \A a \in Attempts : exec'[a] = "abandoned" <=> exec[a] = "abandoned"
      PROVE  UNCHANGED Service!vars
  BY <1>5 DEF ServiceAnswer
<1>6. ASSUME NEW a \in Attempts, Dispatch(a) \/ DeadlinePasses(a)
      PROVE  UNCHANGED Service!vars
  <2>1. UNCHANGED <<log, receipts, result>>
        /\ \A b \in Attempts : exec'[b] = "abandoned" <=> exec[b] = "abandoned"
    BY <1>0, <1>6 DEF Dispatch, DeadlinePasses
  <2> QED BY <1>5, <2>1
<1>7. CASE Begin \/ CrashAndRestart
  <2>1. UNCHANGED <<log, receipts, result>>
    BY <1>7 DEF Begin, CrashAndRestart, Bootstrap
  <2>2. \A b \in Attempts : exec'[b] = "abandoned" <=> exec[b] = "abandoned"
    BY <1>0, <1>7 DEF Begin, CrashAndRestart, Abandoned
  <2> QED BY <1>5, <2>1, <2>2
<1>8. CASE Take \/ Decide \/ DecideFails \/ CommitFails \/ AssignModel \/ Defer \/ DeferFails
           \/ Schedule \/ Fork \/ DeferDone \/ Publish \/ Interrupt \/ Reconcile \/ CatchUp \/ CatchUpFails \/ Repair
           \/ UNCHANGED vars
  <2>1. UNCHANGED <<log, receipts, result, exec>>
    BY <1>8 DEF vars, Take, Decide, DecideFails, CommitFails, AssignModel, Defer, DeferFails,
                Schedule, Fork, DeferDone, Publish, Interrupt, Reconcile, CatchUp, CatchUpFails, Repair, Bootstrap
  <2> QED BY <1>5, <2>1
<1> QED
  BY <1>2, <1>3, <1>4, <1>6, <1>7, <1>8 DEF Next, Worker, Service!Next

\* The engine implements CommandService: each command takes effect at most once and
\* each call gets one answer, which agrees with what is stored.
THEOREM EngineImplementsService ==
    ASSUME "receipt" \notin Disturbances
    PROVE  Spec => ImplementsService
<1>1. Init => Service!Init
  BY DEF Init, Service!Init, ServiceAnswer
<1>2. IInv /\ [Next]_vars => [Service!Next]_(Service!vars)
  BY ServiceStep
<1> QED BY <1>1, <1>2, Inductive, PTL DEF Spec, Service!Spec, ImplementsService
=============================================================================
