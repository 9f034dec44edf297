-------------------------- MODULE AutomationsProofs --------------------------
(***************************************************************************)
(* Proofs about Automations, for any number of runs, slots, workers and    *)
(* disturbances.                                                           *)
(***************************************************************************)
EXTENDS Automations, FiniteSetTheorems, WellFoundedInduction, TLAPS

SlotOrNone == 0..MaxSlots
DefinitionType == [enabled : BOOLEAN, archived : BOOLEAN, policy : Nat,
                   max : Caps \cup {0}, count : Nat, next : SlotOrNone, stamp : Nat]
RunType == [status : Active \cup Terminal \cup {"none"}, policy : Nat,
            slot : SlotOrNone, evaluated : BOOLEAN]
Pcs == {"idle", "recover", "list", "active", "pending", "restart", "create", "skip",
        "advance", "count", "start", "check", "dispatch", "mark", "retire", "interrupt",
        "fail", "stop", "disable", "requeue", "save", "cancel", "archive"}
Stages == {"none", "launch", "react", "reconcile", "cancel", "delete"}
Notes == Active \cup Terminal \cup Ended \cup {"none", "free", "busy"}
FiberType == [pc : Pcs, stage : Stages, run : Nat, note : Notes, now : Nat,
              def : DefinitionType]
Job == [run : Nat, stamp : Nat, saves : Nat]

Types ==
    /\ definition \in DefinitionType /\ definition.max \in Caps
    /\ run \in [Runs -> RunType]
    /\ created \in 0..N /\ skipped \subseteq Slots
    /\ \A r \in Runs : run[r].status = "none" <=> r > created
    /\ turn \in [Runs -> NoRow \cup {"requested", "stale", "running"} \cup Ended]
    /\ userTurn \in {"none", "running", "ended", "interrupted"}
    /\ fiber \in [Fibers -> FiberType]
    /\ jobs \in Seq(Job)
    /\ worker \in [Workers -> [pc : {"idle", "asking", "disable", "record"},
                               job : Job \cup {NoJob}]]
    /\ saves \in Nat

\* What a fiber has read when it comes to use it.
Fine(f, x) ==
    /\ x.pc \in {"mark", "retire", "interrupt", "fail", "stop", "count", "start", "check",
                 "dispatch", "cancel"} => x.run \in 1..created
    /\ x.pc = "advance" => x.run \in 0..created
    /\ x.pc = "mark" => x.note \in Ended
    /\ x.pc \in {"active", "pending", "restart", "create", "skip"}
          => x.stage = "launch" /\ x.run = 0
    /\ f = "pass" /\ x.pc \in {"active", "pending", "create", "skip", "advance"}
          => x.def.next \in Slots
    /\ x.pc = "save" => x.def.max \in Caps
    /\ x.pc = "restart" => Capped(x.def)
FiberInv == \A f \in Fibers : Fine(f, fiber[f])

\* The launches under way leave room for the runs they may need.
Owed(x) == IF x.stage = "launch" /\ x.run = 0 THEN 1 ELSE 0
Budget == created + Owed(fiber["pass"]) + Owed(fiber["now"]) <= N

\* A run is checked once at a time, and then it is in the dedupe set.
JobInv ==
    /\ queued \subseteq 1..created
    /\ \A i \in 1..Len(jobs) : jobs[i].run \in queued
    /\ \A i, k \in 1..Len(jobs) : jobs[i].run = jobs[k].run => i = k
    /\ \A w \in Workers :
          /\ worker[w].pc = "idle" => worker[w].job = NoJob
          /\ worker[w].pc # "idle" => /\ worker[w].job \in Job
                                      /\ worker[w].job.run \in queued
                                      /\ \A i \in 1..Len(jobs) :
                                            jobs[i].run # worker[w].job.run
    /\ \A v, w \in Workers : /\ worker[v].pc # "idle" /\ worker[w].pc # "idle"
                             /\ worker[v].job.run = worker[w].job.run
                             => v = w

BaseInv == Types /\ FiberInv /\ Budget /\ JobInv

\* No slot has two runs.
SlotInv ==
    \A r, q \in Runs : run[r].slot # 0 /\ run[r].slot = run[q].slot
                          /\ r <= created /\ q <= created => r = q
FreshRuns == \A r \in Runs : r > created => run[r] = NoRun
OneActive == \A r, q \in ActiveRuns : r = q
RunInv == SlotInv /\ FreshRuns /\ OneActive

\* A fiber that is about to write updated_at, and one that writes what it has already
\* written.
Writes(x) == x.pc \in {"active", "pending", "restart", "create", "skip", "advance",
                      "count", "save"}
HasWritten(f, x) ==
    \/ f = "pass" /\ x.pc = "count"
    \/ f = "now" /\ x.pc \in {"create", "count"} /\ Capped(x.def)

\* A check that was asked for at the given moment is of the automation as the user
\* last saved it.  It is for the moment the automation was last written, unless that
\* is an older one.
Outstanding == {jobs[i] : i \in 1..Len(jobs)}
                 \cup {worker[w].job : w \in {v \in Workers : worker[v].pc # "idle"}}
CurrentSince(moment) == \A j \in Outstanding : j.stamp = moment => j.saves = saves
Unseen(moment) == /\ moment # definition.stamp
                  /\ \A j \in Outstanding : j.stamp # moment

StampInv ==
    /\ ~rewound => CurrentSince(definition.stamp)
    /\ \A f, g \in Fibers : Writes(fiber[f]) /\ Writes(fiber[g]) /\ f # g
                               => fiber[f].now # fiber[g].now
    /\ \A f \in Fibers : Writes(fiber[f]) /\ ~HasWritten(f, fiber[f])
                             => Unseen(fiber[f].now)

-----------------------------------------------------------------------------
\* A non-empty set of naturals has a least element, which Min returns.
LEMMA LeastOf ==
    ASSUME NEW T, T \subseteq Nat, T # {}
    PROVE  Min(T) \in T /\ \A k \in T : Min(T) <= k
<1>1. PICK n \in T : \A k \in T : ~(<<k, n>> \in OpToRel(<, Nat))
  BY NatLessThanWellFounded, WFMin
<1>2. ASSUME NEW k \in T PROVE n <= k
  <2>1. <<k, n>> \in Nat \X Nat
    OBVIOUS
  <2>2. ~(k < n)
    BY <1>1, <2>1 DEF OpToRel
  <2> QED BY <2>2
<1> QED BY <1>2 DEF Min

\* A finite set can be written as a sequence without repetitions.
LEMMA Listed ==
    ASSUME NEW S, IsFiniteSet(S)
    PROVE  /\ SetToSeq(S) \in Seq(S)
           /\ \A i, k \in 1..Len(SetToSeq(S)) :
                 SetToSeq(S)[i] = SetToSeq(S)[k] => i = k
<1> DEFINE n == Cardinality(S)
<1>1. n \in Nat /\ ExistsBijection(1..n, S)
  BY FS_CardinalityType
<1>2. PICK g \in Bijection(1..n, S) : TRUE
  BY <1>1 DEF ExistsBijection
<1>3. g \in [1..n -> S] /\ IsInjective(g)
  BY <1>2 DEF Bijection, Injection
<1>4. SetToSeq(S) \in [1..n -> S] /\ IsInjective(SetToSeq(S))
  BY <1>3 DEF SetToSeq
<1> QED BY <1>1, <1>4 DEF IsInjective

\* There is always a moment that no one has yet written, or is about to: each run
\* has one check at most.
LEMMA NowIsFresh ==
    ASSUME Types, JobInv
    PROVE  /\ Now \in Nat /\ Unseen(Now)
           /\ \A f \in Fibers : Now # fiber[f].now
<1> DEFINE
      Moments == 1..(N + 8)
      Holders == 1..(N + 6)
      Checks(r, n) == \E j \in Outstanding : j.run = r /\ j.stamp = n
      Number(f) == IF f = "pass" THEN N + 2 ELSE IF f = "now" THEN N + 3
                   ELSE IF f = "reactor" THEN N + 4 ELSE IF f = "edit" THEN N + 5
                   ELSE N + 6
      Holds(h, n) == \/ h \in Runs /\ Checks(h, n)
                     \/ h = N + 1 /\ n = definition.stamp
                     \/ \E f \in Fibers : h = Number(f) /\ n = fiber[f].now
      Free == {n \in Moments :
                 /\ n # definition.stamp
                 /\ \A f \in Fibers : n # fiber[f].now
                 /\ \A i \in DOMAIN jobs : n # jobs[i].stamp
                 /\ \A w \in Workers : n # worker[w].job.stamp}
<1>0. N \in Nat /\ DOMAIN jobs = 1..Len(jobs)
  BY AutomationsAssumption DEF Types
<1>1. \A j \in Outstanding : j.run \in Runs
  <2>1. queued \subseteq Runs
    BY <1>0 DEF JobInv, Types, Runs
  <2> QED BY <2>1 DEF Outstanding, JobInv
<1>2. \A j, k \in Outstanding : j.run = k.run => j = k
  BY DEF Outstanding, JobInv
<1>3. ASSUME NEW n \in Moments, n \notin Free
      PROVE  \E h \in Holders : Holds(h, n)
  <2>1. CASE n = definition.stamp
    BY <2>1, <1>0
  <2>2. CASE \E f \in Fibers : n = fiber[f].now
    <3>1. \A f \in Fibers : Number(f) \in Holders
      BY <1>0 DEF Fibers, Launchers
    <3> QED BY <2>2, <3>1
  <2>3. CASE \E j \in Outstanding : n = j.stamp
    BY <2>3, <1>1, <1>0 DEF Runs
  <2>4. \A w \in Workers : n = worker[w].job.stamp => worker[w].pc # "idle"
    <3>1. n # 0 /\ NoJob.stamp = 0
      BY <1>3, <1>0 DEF NoJob
    <3> QED BY <3>1 DEF JobInv
  <2> QED BY <1>0, <1>3, <2>1, <2>2, <2>3, <2>4 DEF Outstanding
<1>4. \A h \in Holders, n, m \in Moments : Holds(h, n) /\ Holds(h, m) => n = m
  <2> SUFFICES ASSUME NEW h \in Holders, NEW n \in Moments, NEW m \in Moments,
                      Holds(h, n), Holds(h, m)
               PROVE  n = m
    OBVIOUS
  <2>1. CASE h \in Runs
    <3>1. h # N + 1 /\ \A f \in Fibers : h # Number(f)
      BY <2>1, <1>0 DEF Runs, Fibers, Launchers
    <3> QED BY <3>1, <1>2
  <2>2. CASE h = N + 1
    <3>1. h \notin Runs /\ \A f \in Fibers : h # Number(f)
      BY <2>2, <1>0 DEF Runs, Fibers, Launchers
    <3> QED BY <3>1
  <2>3. CASE h \notin Runs /\ h # N + 1
    <3>1. \A f, g \in Fibers : Number(f) = Number(g) => f = g
      BY <1>0 DEF Fibers, Launchers
    <3> QED BY <2>3, <3>1
  <2> QED BY <2>1, <2>2, <2>3
<1> HIDE DEF Holds, Free
<1>5. Free # {}
  <2> SUFFICES ASSUME Free = {} PROVE FALSE
    OBVIOUS
  <2> DEFINE holder == [n \in Moments |-> CHOOSE h \in Holders : Holds(h, n)]
  <2>1. \A n \in Moments : holder[n] \in Holders /\ Holds(holder[n], n)
    BY <1>3
  <2>2. /\ IsFiniteSet(Moments) /\ IsFiniteSet(Holders)
        /\ Cardinality(Holders) < Cardinality(Moments)
    <3>1. IsFiniteSet(Moments) /\ Cardinality(Moments) = N + 8
      BY <1>0, FS_Interval
    <3>2. IsFiniteSet(Holders) /\ Cardinality(Holders) = N + 6
      BY <1>0, FS_Interval
    <3> QED BY <1>0, <3>1, <3>2
  <2>3. holder \in [Moments -> Holders]
    BY <2>1
  <2> HIDE DEF holder, Moments, Holders
  <2>4. PICK n, m \in Moments : n # m /\ holder[n] = holder[m]
    BY <2>2, <2>3, FS_PigeonHole
  <2> QED BY <2>1, <2>4, <1>4
<1>6. Now \in Free
  BY <1>5 DEF Now, Free
<1>7. \A i \in 1..Len(jobs) : Now # jobs[i].stamp
  BY <1>6, <1>0 DEF Free
<1> QED BY <1>6, <1>7, <1>0 DEF Free, Unseen, Outstanding

\* The checks a set of runs is queued with.
JobOf(r) == [run |-> r, stamp |-> definition.stamp, saves |-> saves]
Batch(new) == SetToSeq({JobOf(r) : r \in new})

LEMMA Batched ==
    ASSUME Types, NEW new, new \subseteq 1..created
    PROVE  /\ Batch(new) \in Seq(Job)
           /\ \A i \in 1..Len(Batch(new)) :
                 /\ Batch(new)[i].run \in new
                 /\ Batch(new)[i].stamp = definition.stamp
                 /\ Batch(new)[i].saves = saves
           /\ \A i, k \in 1..Len(Batch(new)) : Batch(new)[i].run = Batch(new)[k].run => i = k
<1> DEFINE S == {JobOf(r) : r \in new}
<1>1. IsFiniteSet(S)
  <2>1. created \in Nat /\ IsFiniteSet(1..created)
    BY FS_Interval, AutomationsAssumption DEF Types
  <2>2. IsFiniteSet(new)
    BY <2>1, FS_Subset
  <2>3. [r \in new |-> JobOf(r)] \in Surjection(new, S)
    BY DEF Surjection
  <2> QED BY <2>2, <2>3, FS_Surjection
<1>2. S \subseteq Job /\ \A j \in S : /\ j.run \in new /\ j.saves = saves
                                      /\ j.stamp = definition.stamp
  BY AutomationsAssumption DEF Types, Job, JobOf, DefinitionType
<1>3. \A j, k \in S : j.run = k.run => j = k
  BY DEF JobOf
<1>4. Batch(new) = SetToSeq(S)
  BY DEF Batch
<1> HIDE DEF S
<1>5. /\ Batch(new) \in Seq(S)
      /\ \A i, k \in 1..Len(Batch(new)) : Batch(new)[i] = Batch(new)[k] => i = k
  BY <1>1, <1>4, Listed
<1>6. \A i \in 1..Len(Batch(new)) : Batch(new)[i] \in S
  BY <1>5
<1> QED BY <1>2, <1>3, <1>5, <1>6

\* What enqueueing checks does to the queue: it only ever adds checks of runs that
\* were not in it.
LEMMA Enqueued ==
    ASSUME Types, NEW rs, NEW present, rs \subseteq 1..created, Enqueue(rs, present)
    PROVE  /\ queued' = present \cup rs
           /\ jobs' \in Seq(Job)
           /\ \A i \in 1..Len(jobs') :
                 \/ i \in 1..Len(jobs) /\ jobs'[i] = jobs[i]
                 \/ /\ i \notin 1..Len(jobs)
                    /\ jobs'[i].run \in rs \ present
                    /\ jobs'[i].stamp = definition.stamp /\ jobs'[i].saves = saves
           /\ \A i, k \in 1..Len(jobs') :
                 i \notin 1..Len(jobs) /\ k \notin 1..Len(jobs)
                    /\ jobs'[i].run = jobs'[k].run => i = k
<1> DEFINE new == rs \ present
           b == Batch(new)
<1>1. jobs' = jobs \o b /\ queued' = present \cup new
  BY DEF Enqueue, Batch, JobOf
<1>2. /\ b \in Seq(Job)
      /\ \A i \in 1..Len(b) : /\ b[i].run \in new
                              /\ b[i].stamp = definition.stamp /\ b[i].saves = saves
      /\ \A i, k \in 1..Len(b) : b[i].run = b[k].run => i = k
  BY Batched
<1>3. jobs \in Seq(Job)
  BY DEF Types
<1> HIDE DEF b
<1>4. /\ jobs' \in Seq(Job) /\ Len(jobs') = Len(jobs) + Len(b)
      /\ Len(jobs) \in Nat /\ Len(b) \in Nat
      /\ \A i \in 1..Len(jobs) : jobs'[i] = jobs[i]
      /\ \A i \in 1..Len(jobs') : i \notin 1..Len(jobs) =>
            i - Len(jobs) \in 1..Len(b) /\ jobs'[i] = b[i - Len(jobs)]
  BY <1>1, <1>2, <1>3
<1>5. ASSUME NEW i \in 1..Len(jobs'), i \notin 1..Len(jobs)
      PROVE  /\ jobs'[i].run \in new
             /\ jobs'[i].stamp = definition.stamp /\ jobs'[i].saves = saves
  BY <1>2, <1>4, <1>5
<1>6. ASSUME NEW i \in 1..Len(jobs'), NEW k \in 1..Len(jobs'), i \notin 1..Len(jobs),
             k \notin 1..Len(jobs), jobs'[i].run = jobs'[k].run
      PROVE  i = k
  <2> DEFINE x == i - Len(jobs)
             y == k - Len(jobs)
  <2>1. x \in 1..Len(b) /\ y \in 1..Len(b) /\ jobs'[i] = b[x] /\ jobs'[k] = b[y]
    BY <1>4, <1>6
  <2>2. i \in Int /\ k \in Int /\ Len(jobs) \in Int
    BY <1>4, <1>6
  <2> HIDE DEF x, y
  <2>3. x = y
    BY <2>1, <1>2, <1>6
  <2> QED BY <2>2, <2>3 DEF x, y
<1> QED BY <1>1, <1>4, <1>5, <1>6

\* What taking the first check off the queue does to it.
LEMMA Taken ==
    ASSUME Types, jobs # <<>>, jobs' = Tail(jobs)
    PROVE  /\ jobs' \in Seq(Job) /\ Head(jobs) \in Job
           /\ 1 \in 1..Len(jobs) /\ Head(jobs) = jobs[1]
           /\ \A i \in 1..Len(jobs') : i + 1 \in 1..Len(jobs) /\ jobs'[i] = jobs[i + 1]
<1>1. jobs \in Seq(Job) /\ Len(jobs) \in Nat /\ Len(jobs) # 0
  <2>1. \A q \in Seq(Job) : Len(q) \in Nat /\ (q = <<>> <=> Len(q) = 0)
    OBVIOUS
  <2> QED BY <2>1 DEF Types
<1>2. /\ Tail(jobs) \in Seq(Job) /\ Head(jobs) = jobs[1] /\ Len(Tail(jobs)) = Len(jobs) - 1
      /\ \A i \in 1..Len(Tail(jobs)) : Tail(jobs)[i] = jobs[i + 1]
  BY <1>1
<1> QED BY <1>1, <1>2

-----------------------------------------------------------------------------
(* The queue of checks, its dedupe set and the workers.                    *)

\* The checks outstanding after a step were so before it, or are made of the
\* automation as it was saved last.
NewChecks == \A j \in Outstanding' : \/ j \in Outstanding
                                     \/ j.stamp = definition.stamp /\ j.saves = saves

LEMMA ChecksKept ==
    ASSUME Types, JobInv, UNCHANGED checkVars, created' \in {created, created + 1}
    PROVE  JobInv' /\ Outstanding' = Outstanding
<1>1. created \in Nat /\ 1..created \subseteq 1..created'
  BY AutomationsAssumption DEF Types
<1> QED BY <1>1 DEF JobInv, Outstanding, checkVars

LEMMA PendingAreCreated ==
    ASSUME Types
    PROVE  PendingChecks \subseteq 1..created
BY AutomationsAssumption DEF Types, PendingChecks, Runs

\* The parts of the queue's invariant that a step of the workers relies on.
LEMMA ChecksQueued ==
    ASSUME Types, JobInv, NEW rs, rs \subseteq 1..created, Enqueue(rs, queued),
           UNCHANGED <<worker, created>>
    PROVE  JobInv' /\ NewChecks /\ jobs' \in Seq(Job)
<1>1. /\ queued' = queued \cup rs
      /\ jobs' \in Seq(Job)
      /\ \A i \in 1..Len(jobs') :
            \/ i \in 1..Len(jobs) /\ jobs'[i] = jobs[i]
            \/ /\ i \notin 1..Len(jobs)
               /\ jobs'[i].run \in rs \ queued
               /\ jobs'[i].stamp = definition.stamp /\ jobs'[i].saves = saves
      /\ \A i, k \in 1..Len(jobs') :
            i \notin 1..Len(jobs) /\ k \notin 1..Len(jobs)
               /\ jobs'[i].run = jobs'[k].run => i = k
  BY Enqueued
<1>2. \A i, k \in 1..Len(jobs') : jobs'[i].run = jobs'[k].run => i = k
  BY <1>1 DEF JobInv
<1>3. \A w \in Workers : worker[w].pc # "idle" =>
         \A i \in 1..Len(jobs') : jobs'[i].run # worker[w].job.run
  BY <1>1 DEF JobInv
<1>4. JobInv'
  BY <1>1, <1>2, <1>3 DEF JobInv
<1>5. NewChecks
  BY <1>1 DEF NewChecks, Outstanding
<1> QED BY <1>1, <1>4, <1>5

LEMMA ChecksTaken ==
    ASSUME Types, JobInv, NEW w \in Workers, TakeJob(w)
    PROVE  JobInv' /\ NewChecks /\ jobs' \in Seq(Job)
<1>1. /\ jobs' \in Seq(Job) /\ Head(jobs) \in Job
      /\ 1 \in 1..Len(jobs) /\ Head(jobs) = jobs[1]
      /\ \A i \in 1..Len(jobs') : i + 1 \in 1..Len(jobs) /\ jobs'[i] = jobs[i + 1]
  BY Taken DEF TakeJob
<1>2. /\ worker'[w] = [pc |-> "asking", job |-> jobs[1]]
      /\ \A v \in Workers : v # w => worker'[v] = worker[v]
      /\ queued' = queued /\ created' = created
  BY <1>1 DEF TakeJob, Types, rowVars
<1>3. \A i \in 1..Len(jobs') : i + 1 # 1
  BY <1>1
<1>4. \A i, k \in 1..Len(jobs') : jobs'[i].run = jobs'[k].run => i = k
  <2> TAKE i, k \in 1..Len(jobs')
  <2>1. jobs'[i].run = jobs'[k].run => i + 1 = k + 1
    BY <1>1 DEF JobInv
  <2> QED BY <2>1, <1>1
<1>5. \A i \in 1..Len(jobs') : jobs'[i].run # jobs[1].run
  BY <1>1, <1>3 DEF JobInv
<1>6. ASSUME NEW v \in Workers
      PROVE  /\ worker'[v].pc = "idle" => worker'[v].job = NoJob
             /\ worker'[v].pc # "idle" => /\ worker'[v].job \in Job
                                          /\ worker'[v].job.run \in queued
                                          /\ \A i \in 1..Len(jobs') :
                                                jobs'[i].run # worker'[v].job.run
  BY SMTT(30), <1>1, <1>2, <1>5 DEF JobInv
<1>7. ASSUME NEW u \in Workers, NEW v \in Workers, worker'[u].pc # "idle",
             worker'[v].pc # "idle", worker'[u].job.run = worker'[v].job.run
      PROVE  u = v
  BY <1>1, <1>2, <1>7 DEF JobInv
<1>8. JobInv'
  BY <1>1, <1>2, <1>4, <1>6, <1>7 DEF JobInv
<1>9. NewChecks
  BY <1>1, <1>2 DEF NewChecks, Outstanding
<1> QED BY <1>1, <1>8, <1>9

\* A worker that goes on with its check.
LEMMA ChecksGoOn ==
    ASSUME Types, JobInv, NEW w \in Workers, Answer(w) \/ DisableOnMatch(w)
    PROVE  JobInv' /\ NewChecks /\ jobs' \in Seq(Job)
<1>1. /\ worker[w].pc # "idle" /\ worker'[w].pc # "idle" /\ worker'[w].job = worker[w].job
      /\ \A v \in Workers : v # w => worker'[v] = worker[v]
      /\ UNCHANGED <<jobs, queued, created>>
  BY DEF Answer, DisableOnMatch, Types, rowVars
<1>2. JobInv'
  BY <1>1 DEF JobInv
<1>3. NewChecks
  BY <1>1 DEF NewChecks, Outstanding
<1> QED BY <1>1, <1>2, <1>3 DEF Types

LEMMA ChecksRecorded ==
    ASSUME Types, JobInv, NEW w \in Workers, Record(w)
    PROVE  JobInv' /\ NewChecks /\ jobs' \in Seq(Job)
<1> DEFINE q == worker[w].job.run
           present == queued \ {q}
<1>1. PICK rs : rs \subseteq 1..created /\ Enqueue(rs, present)
  BY PendingAreCreated DEF Record
<1>2. /\ queued' = present \cup rs
      /\ jobs' \in Seq(Job)
      /\ \A i \in 1..Len(jobs') :
            \/ i \in 1..Len(jobs) /\ jobs'[i] = jobs[i]
            \/ /\ i \notin 1..Len(jobs)
               /\ jobs'[i].run \in rs \ present
               /\ jobs'[i].stamp = definition.stamp /\ jobs'[i].saves = saves
      /\ \A i, k \in 1..Len(jobs') :
            i \notin 1..Len(jobs) /\ k \notin 1..Len(jobs)
               /\ jobs'[i].run = jobs'[k].run => i = k
  BY <1>1, Enqueued
<1>3. /\ worker[w].pc # "idle" /\ worker'[w] = Resting
      /\ \A v \in Workers : v # w => worker'[v] = worker[v]
      /\ created' = created
  BY DEF Record, Types
<1>4. /\ \A i \in 1..Len(jobs) : jobs[i].run \in present
      /\ \A v \in Workers : worker[v].pc # "idle" /\ v # w => worker[v].job.run \in present
  BY <1>3 DEF JobInv
<1>5. \A i, k \in 1..Len(jobs') : jobs'[i].run = jobs'[k].run => i = k
  BY <1>2, <1>4 DEF JobInv
<1>6. \A v \in Workers : worker[v].pc # "idle" /\ v # w =>
         \A i \in 1..Len(jobs') : jobs'[i].run # worker[v].job.run
  BY <1>2, <1>4 DEF JobInv
<1>7. Resting.pc = "idle" /\ Resting.job = NoJob
  BY DEF Resting
<1>8. JobInv'
  <2>1. queued' \subseteq 1..created /\ \A i \in 1..Len(jobs') : jobs'[i].run \in queued'
    BY <1>1, <1>2, <1>4 DEF JobInv
  <2>2. ASSUME NEW v \in Workers
        PROVE  /\ worker'[v].pc = "idle" => worker'[v].job = NoJob
               /\ worker'[v].pc # "idle" => /\ worker'[v].job \in Job
                                            /\ worker'[v].job.run \in queued'
                                            /\ \A i \in 1..Len(jobs') :
                                                  jobs'[i].run # worker'[v].job.run
    BY <1>2, <1>3, <1>4, <1>6, <1>7 DEF JobInv
  <2>3. ASSUME NEW u \in Workers, NEW v \in Workers, worker'[u].pc # "idle",
               worker'[v].pc # "idle", worker'[u].job.run = worker'[v].job.run
        PROVE  u = v
    BY <1>3, <1>7, <2>3 DEF JobInv
  <2> QED BY <1>3, <1>5, <2>1, <2>2, <2>3 DEF JobInv
<1>9. NewChecks
  BY <1>2, <1>3, <1>7 DEF NewChecks, Outstanding
<1> QED BY <1>2, <1>8, <1>9

LEMMA ChecksRestarted ==
    ASSUME Types, JobInv, Crash
    PROVE  JobInv' /\ NewChecks /\ jobs' \in Seq(Job)
<1>1. /\ jobs' = Batch(PendingChecks) /\ queued' = PendingChecks
      /\ worker' = [v \in Workers |-> Resting] /\ created' = created
  BY DEF Crash, Batch, JobOf, rowVars
<1>2. PendingChecks \subseteq 1..created
  BY PendingAreCreated
<1>3. /\ jobs' \in Seq(Job)
      /\ \A i \in 1..Len(jobs') :
            /\ jobs'[i].run \in PendingChecks
            /\ jobs'[i].stamp = definition.stamp /\ jobs'[i].saves = saves
      /\ \A i, k \in 1..Len(jobs') : jobs'[i].run = jobs'[k].run => i = k
  BY <1>1, <1>2, Batched
<1>4. \A v \in Workers : worker'[v].pc = "idle" /\ worker'[v].job = NoJob
  BY <1>1 DEF Resting
<1>5. JobInv'
  BY <1>1, <1>2, <1>3, <1>4 DEF JobInv
<1>6. NewChecks
  BY <1>3, <1>4 DEF NewChecks, Outstanding
<1> QED BY <1>3, <1>5, <1>6

-----------------------------------------------------------------------------
(* The rows and the fibers.                                                *)

LEMMA Constants ==
    /\ N \in Nat /\ MaxSlots \in Nat /\ Caps \subseteq Nat
    /\ 0 \in SlotOrNone /\ Slots \subseteq SlotOrNone
    /\ Idle \in FiberType /\ NoDefinition \in DefinitionType
    /\ Resting \in [pc : {"idle", "asking", "disable", "record"}, job : Job \cup {NoJob}]
<1>1. N \in Nat /\ MaxSlots \in Nat /\ Caps \subseteq Nat
  BY AutomationsAssumption
<1>2. NoDefinition \in DefinitionType
  <2>1. 0 \in SlotOrNone /\ 0 \in Caps \cup {0} /\ 0 \in Nat
    BY <1>1 DEF SlotOrNone
  <2> QED BY <1>1, <2>1 DEF NoDefinition, DefinitionType
<1>3. Idle \in FiberType
  <2>1. "idle" \in Pcs /\ "none" \in Stages /\ "none" \in Notes
    BY DEF Pcs, Stages, Notes
  <2> QED BY <1>2, <2>1 DEF Idle, FiberType
<1>4. Resting \in [pc : {"idle", "asking", "disable", "record"}, job : Job \cup {NoJob}]
  BY DEF Resting
<1>5. 0 \in SlotOrNone /\ Slots \subseteq SlotOrNone
  BY <1>1 DEF SlotOrNone, Slots
<1> QED BY <1>1, <1>2, <1>3, <1>4, <1>5

\* One fiber goes on, and needs no run that it was not launching already.
LEMMA Moves ==
    ASSUME BaseInv, NEW f \in Fibers, NEW x \in FiberType, fiber' = [fiber EXCEPT ![f] = x],
           created' = created, Fine(f, x), f \in Launchers => Owed(x) <= Owed(fiber[f])
    PROVE  fiber' \in [Fibers -> FiberType] /\ FiberInv' /\ Budget'
<1>1. /\ fiber \in [Fibers -> FiberType] /\ fiber' \in [Fibers -> FiberType]
      /\ fiber'[f] = x
      /\ \A g \in Fibers : g # f => fiber'[g] = fiber[g]
  BY DEF BaseInv, Types
<1>2. FiberInv'
  BY <1>1 DEF BaseInv, FiberInv, Fine
<1>3. created \in Nat /\ \A y \in FiberType : Owed(y) \in 0..1
  BY Constants DEF BaseInv, Types, Owed
<1>4. "pass" \in Fibers /\ "now" \in Fibers
  BY DEF Fibers, Launchers
<1>5. Budget'
  <2>1. Owed(fiber'["pass"]) <= Owed(fiber["pass"]) /\ Owed(fiber'["now"]) <= Owed(fiber["now"])
    BY <1>1, <1>3, <1>4 DEF Launchers
  <2>2. Owed(fiber["pass"]) \in 0..1 /\ Owed(fiber["now"]) \in 0..1
        /\ Owed(fiber'["pass"]) \in 0..1 /\ Owed(fiber'["now"]) \in 0..1
    BY <1>1, <1>3, <1>4
  <2> QED BY <2>1, <2>2, <1>3, Constants DEF BaseInv, Budget, Owed
<1> QED BY <1>1, <1>2, <1>5

LEMMA Goes ==
    ASSUME BaseInv, NEW f \in Fibers, NEW pc \in Pcs, Goto(f, pc), created' = created,
           Fine(f, [fiber[f] EXCEPT !.pc = pc])
    PROVE  fiber' \in [Fibers -> FiberType] /\ FiberInv' /\ Budget'
<1> DEFINE x == [fiber[f] EXCEPT !.pc = pc]
<1>1. fiber[f] \in FiberType
  BY DEF BaseInv, Types
<1>2. x \in FiberType /\ x.stage = fiber[f].stage /\ x.run = fiber[f].run
  BY <1>1 DEF FiberType
<1>3. fiber' = [fiber EXCEPT ![f] = x]
  BY DEF Goto
<1>4. Fine(f, x) /\ Owed(x) <= Owed(fiber[f])
  BY <1>2 DEF Owed
<1> HIDE DEF x
<1> QED BY <1>2, <1>3, <1>4, Moves

LEMMA Rests ==
    ASSUME BaseInv, NEW f \in Fibers, Rest(f) \/ Done(f), created' = created
    PROVE  fiber' \in [Fibers -> FiberType] /\ FiberInv' /\ Budget'
<1>1. PICK x : fiber' = [fiber EXCEPT ![f] = x] /\ x \in {Idle, [Idle EXCEPT !.pc = "requeue"]}
  BY DEF Rest, Done
<1>2. x \in FiberType /\ Fine(f, x) /\ Owed(x) = 0
  <2>1. "requeue" \in Pcs
    BY DEF Pcs
  <2>2. x \in FiberType
    BY <1>1, <2>1, Constants DEF FiberType
  <2> QED BY <2>2, <1>1 DEF Idle, Fine, Owed
<1>3. Owed(x) <= Owed(fiber[f])
  BY <1>2 DEF Owed
<1> QED BY <1>1, <1>2, <1>3, Moves

LEMMA Reads ==
    ASSUME BaseInv, NEW f \in Fibers, NEW pc \in {"mark", "retire", "interrupt", "cancel", "archive"},
           NEW stage \in {"react", "reconcile", "cancel", "delete"}, NEW r, NEW note \in Notes,
           r \in 1..created \/ (r = 0 /\ pc = "archive"),
           pc = "mark" => note \in Ended,
           Reading(f, pc, stage, r, note), created' = created
    PROVE  fiber' \in [Fibers -> FiberType] /\ FiberInv' /\ Budget'
<1> DEFINE x == [Idle EXCEPT !.pc = pc, !.stage = stage, !.run = r, !.note = note]
<1>1. pc \in Pcs /\ stage \in Stages /\ r \in Nat
  BY Constants DEF Pcs, Stages, BaseInv, Types
<1>2. x \in FiberType
  BY <1>1, Constants DEF FiberType
<1>3. x.pc = pc /\ x.stage = stage /\ x.run = r /\ x.note = note /\ Owed(x) = 0
  BY DEF Idle, Owed
<1>4. Fine(f, x)
  BY <1>3 DEF Fine
<1>5. fiber' = [fiber EXCEPT ![f] = x]
  BY DEF Reading
<1>6. Owed(x) <= Owed(fiber[f])
  BY <1>3 DEF Owed
<1> HIDE DEF x
<1> QED BY <1>2, <1>4, <1>5, <1>6, Moves

LEMMA ThreadRows ==
    ASSUME BaseInv, ThreadStep
    PROVE  Types' /\ FiberInv' /\ Budget'
<1>1. UNCHANGED <<rowVars, fiber, checkVars, saves>>
  BY DEF ThreadStep, UserSends, UserTurnEnds, QueuedIsSent, TurnStarts, TurnEnds, historyVars, stampVars
<1>2. userTurn' \in {"none", "running", "ended", "interrupted"}
  BY DEF ThreadStep, UserSends, UserTurnEnds, QueuedIsSent, TurnStarts, TurnEnds, BaseInv,
         Types
<1>3. turn' \in [Runs -> NoRow \cup {"requested", "stale", "running"} \cup Ended]
  BY DEF ThreadStep, UserSends, UserTurnEnds, QueuedIsSent, TurnStarts, TurnEnds, BaseInv,
         Types, Requested, NoRow, Ended
<1>4. Types'
  BY <1>1, <1>2, <1>3 DEF BaseInv, Types, rowVars, checkVars
<1>5. FiberInv' /\ Budget'
  BY <1>1 DEF BaseInv, FiberInv, Budget, Fine, rowVars
<1> QED BY <1>4, <1>5

LEMMA WorkRows ==
    ASSUME BaseInv, NEW w \in Workers, Work(w)
    PROVE  Types' /\ FiberInv' /\ Budget'
<1>1. jobs' \in Seq(Job) /\ JobInv' /\ worker' \in
         [Workers -> [pc : {"idle", "asking", "disable", "record"}, job : Job \cup {NoJob}]]
  <2>1. jobs' \in Seq(Job) /\ JobInv'
    BY ChecksTaken, ChecksGoOn, ChecksRecorded DEF Work, BaseInv
  <2>2. CASE TakeJob(w)
    <3>1. Head(jobs) \in Job
      BY <2>2, Taken DEF TakeJob, BaseInv
    <3> QED BY <2>1, <2>2, <3>1 DEF TakeJob, BaseInv, Types
  <2>3. CASE Answer(w)
    BY <2>1, <2>3 DEF Answer, BaseInv, Types
  <2>4. CASE DisableOnMatch(w)
    BY <2>1, <2>4 DEF DisableOnMatch, BaseInv, Types
  <2>5. CASE Record(w)
    <3>1. worker' = [worker EXCEPT ![w] = Resting]
      BY <2>5 DEF Record
    <3> QED BY <2>1, <3>1, Constants DEF BaseInv, Types
  <2> QED BY <2>1, <2>2, <2>3, <2>4, <2>5 DEF Work
<1>2. definition' \in DefinitionType /\ definition'.max \in Caps
  <2>1. definition \in DefinitionType /\ definition.max \in Caps
    BY DEF BaseInv, Types
  <2>2. CASE definition' = [definition EXCEPT !.enabled = FALSE, !.next = 0, !.stamp = Now]
    <3>1. Now \in Nat /\ 0 \in SlotOrNone
      BY NowIsFresh, Constants DEF BaseInv
    <3> QED BY <2>1, <2>2, <3>1 DEF DefinitionType
  <2>3. CASE definition' = definition
    BY <2>1, <2>3
  <2> QED BY <2>2, <2>3 DEF Work, TakeJob, Answer, DisableOnMatch, Record, rowVars
<1>3. /\ run' \in [Runs -> RunType]
      /\ \A r \in Runs : run'[r].status = run[r].status
  <2>1. run \in [Runs -> RunType]
    BY DEF BaseInv, Types
  <2>2. CASE run' = [run EXCEPT ![worker[w].job.run].evaluated = TRUE]
    <3>1. run' \in [Runs -> RunType]
      BY <2>1, <2>2 DEF RunType
    <3>2. \A r \in Runs : run'[r].status = run[r].status
      BY <2>1, <2>2 DEF RunType
    <3> QED BY <3>1, <3>2
  <2>3. CASE run' = run
    BY <2>1, <2>3
  <2> QED BY <2>2, <2>3 DEF Work, TakeJob, Answer, DisableOnMatch, Record, rowVars
<1>4. UNCHANGED <<created, skipped, threadVars, fiber, saves>>
  BY DEF Work, TakeJob, Answer, DisableOnMatch, Record, rowVars, historyVars, stampVars
<1>5. Types'
  BY <1>1, <1>2, <1>3, <1>4 DEF BaseInv, Types, threadVars
<1>6. FiberInv' /\ Budget'
  BY <1>4 DEF BaseInv, FiberInv, Budget, Fine
<1> QED BY <1>5, <1>6

LEMMA Settled ==
    ASSUME Types, NEW r \in 1..created, NEW status \in Terminal
    PROVE  /\ Settle(r, status) \in [Runs -> RunType]
           /\ \A q \in Runs : Settle(r, status)[q].status = "none" <=> q > created
           /\ Settle(r, status)[r].status \in Terminal
           /\ r \in Runs
<1>1. r \in Runs /\ r \in Nat /\ created \in Nat /\ ~(r > created)
  BY Constants DEF Types, Runs
<1>2. run \in [Runs -> RunType] /\ \A q \in Runs : run[q].status = "none" <=> q > created
  BY DEF Types
<1>3. CASE run[r].status \in Terminal
  BY <1>1, <1>2, <1>3 DEF Settle
<1>4. CASE run[r].status \notin Terminal
  <2>1. Settle(r, status) = [run EXCEPT ![r].status = status]
    BY <1>4 DEF Settle
  <2>2. [run EXCEPT ![r].status = status] \in [Runs -> RunType]
    BY <1>1, <1>2 DEF RunType
  <2>3. /\ [run EXCEPT ![r].status = status][r].status = status
        /\ \A q \in Runs : q # r => [run EXCEPT ![r].status = status][q] = run[q]
    BY <1>1, <1>2 DEF RunType
  <2>4. status # "none"
    BY DEF Terminal
  <2> QED BY <1>1, <1>2, <2>1, <2>2, <2>3, <2>4
<1> QED BY <1>1, <1>3, <1>4

LEMMA Disabled ==
    ASSUME BaseInv
    PROVE  /\ [definition EXCEPT !.enabled = FALSE, !.next = 0, !.stamp = Now] \in DefinitionType
           /\ [definition EXCEPT !.enabled = FALSE, !.next = 0, !.stamp = Now].max \in Caps
           /\ [definition EXCEPT !.enabled = FALSE, !.archived = TRUE, !.stamp = Now]
                 \in DefinitionType
           /\ [definition EXCEPT !.enabled = FALSE, !.archived = TRUE, !.stamp = Now].max
                 \in Caps
<1>1. definition \in DefinitionType /\ definition.max \in Caps
  BY DEF BaseInv, Types
<1>2. Now \in Nat /\ 0 \in SlotOrNone
  BY NowIsFresh, Constants DEF BaseInv
<1> QED BY <1>1, <1>2 DEF DefinitionType

\* What the actions that follow a run have read.
LEMMA ActiveAreCreated ==
    ASSUME Types
    PROVE  ActiveRuns \subseteq 1..created
BY Constants DEF Types, ActiveRuns, Active, Runs

LEMMA RequeueRows ==
    ASSUME BaseInv, NEW f \in {"pass", "reactor"}, Requeue(f),
           UNCHANGED <<rowVars, threadVars, historyVars>>
    PROVE  Types' /\ FiberInv' /\ Budget' /\ JobInv' /\ NewChecks
<1>1. JobInv' /\ NewChecks /\ jobs' \in Seq(Job) /\ UNCHANGED worker
  BY PendingAreCreated, ChecksQueued DEF Requeue, BaseInv, rowVars
<1>2. f \in Fibers /\ "list" \in Pcs /\ created' = created
  BY DEF Fibers, Launchers, Pcs, rowVars
<1>3. fiber' \in [Fibers -> FiberType] /\ FiberInv' /\ Budget'
  <2>1. CASE f = "pass"
    <3>1. Fine(f, [fiber[f] EXCEPT !.pc = "list"])
      BY <1>2 DEF Fine, BaseInv, Types, FiberType
    <3> QED BY <1>2, <2>1, <3>1, Goes DEF Requeue
  <2>2. CASE f # "pass"
    BY <1>2, <2>2, Rests DEF Requeue
  <2> QED BY <2>1, <2>2
<1>4. Types'
  BY <1>1, <1>3 DEF BaseInv, Types, rowVars, threadVars, historyVars, stampVars
<1> QED BY <1>1, <1>3, <1>4

\* A fiber that has only read, or begun, something.
LEMMA ReadingRows ==
    ASSUME BaseInv, UNCHANGED <<rowVars, threadVars, checkVars, saves>>,
           fiber' \in [Fibers -> FiberType] /\ FiberInv' /\ Budget'
    PROVE  Types' /\ FiberInv' /\ Budget'
BY DEF BaseInv, Types, rowVars, threadVars, checkVars

LEMMA FollowRows ==
    ASSUME BaseInv, FindsOverdue \/ PassStarts \/ Hears \/ Recover
    PROVE  Types' /\ FiberInv' /\ Budget'
<1>1. /\ ActiveRuns \subseteq 1..created
      /\ "pass" \in Fibers /\ "reactor" \in Fibers
      /\ "failed" \in Notes /\ "none" \in Notes /\ Ended \subseteq Notes
      /\ created' = created
  BY ActiveAreCreated
     DEF BaseInv, Fibers, Launchers, Notes, Terminal, FindsOverdue, PassStarts, Hears,
         Recover, rowVars
<1>2. CASE FindsOverdue
  <2>1. PICK r \in ActiveRuns : Reading("pass", "interrupt", "reconcile", r, "failed")
    BY <1>2 DEF FindsOverdue
  <2>2. fiber' \in [Fibers -> FiberType] /\ FiberInv' /\ Budget'
    BY <1>1, <2>1, Reads
  <2> QED BY <1>2, <2>2, ReadingRows DEF FindsOverdue, historyVars, stampVars
<1>3. CASE Hears
  <2>1. PICK r \in ActiveRuns : turn[r] \in Ended /\ Reading("reactor", "mark", "react", r, turn[r])
    BY <1>3 DEF Hears
  <2>2. fiber' \in [Fibers -> FiberType] /\ FiberInv' /\ Budget'
    BY <1>1, <2>1, Reads
  <2> QED BY <1>3, <2>2, ReadingRows DEF Hears, historyVars, stampVars
<1>4. CASE PassStarts
  <2>1. CASE \E r \in ActiveRuns : /\ turn[r] \in Ended
                                   /\ Reading("pass", "mark", "reconcile", r, turn[r])
    <3>1. PICK r \in ActiveRuns : /\ turn[r] \in Ended
                                  /\ Reading("pass", "mark", "reconcile", r, turn[r])
      BY <2>1
    <3>2. fiber' \in [Fibers -> FiberType] /\ FiberInv' /\ Budget'
      BY <1>1, <3>1, Reads
    <3>3. UNCHANGED checkVars \/ Requeue("pass")
      BY <1>4 DEF PassStarts
    <3> QED BY <1>4, <3>2, <3>3, ReadingRows, RequeueRows DEF PassStarts, historyVars, stampVars
  <2>2. CASE Requeue("pass")
    BY <1>4, <2>2, RequeueRows DEF PassStarts
  <2> QED BY <1>4, <2>1, <2>2 DEF PassStarts
<1>5. CASE Recover
  <2>1. CASE \E r \in ActiveRuns : Reading("reactor", "retire", "reconcile", r, "none")
    <3>1. PICK r \in ActiveRuns : Reading("reactor", "retire", "reconcile", r, "none")
      BY <2>1
    <3>2. fiber' \in [Fibers -> FiberType] /\ FiberInv' /\ Budget'
      BY <1>1, <3>1, Reads
    <3>3. UNCHANGED checkVars \/ Requeue("reactor")
      BY <1>5 DEF Recover
    <3> QED BY <1>5, <3>2, <3>3, ReadingRows, RequeueRows DEF Recover, historyVars, stampVars
  <2>2. CASE \E r \in ActiveRuns : /\ turn[r] \in Ended
                                   /\ Reading("reactor", "mark", "reconcile", r, turn[r])
    <3>1. PICK r \in ActiveRuns : /\ turn[r] \in Ended
                                  /\ Reading("reactor", "mark", "reconcile", r, turn[r])
      BY <2>2
    <3>2. fiber' \in [Fibers -> FiberType] /\ FiberInv' /\ Budget'
      BY <1>1, <3>1, Reads
    <3>3. UNCHANGED checkVars \/ Requeue("reactor")
      BY <1>5 DEF Recover
    <3> QED BY <1>5, <3>2, <3>3, ReadingRows, RequeueRows DEF Recover, historyVars, stampVars
  <2>3. CASE Requeue("reactor")
    BY <1>5, <2>3, RequeueRows DEF Recover
  <2> QED BY <1>5, <2>1, <2>2, <2>3 DEF Recover
<1> QED BY <1>2, <1>3, <1>4, <1>5

LEMMA SettleRows ==
    ASSUME BaseInv, NEW f \in Fibers,
           Mark(f) \/ Fail(f) \/ (Retire /\ f = "reactor") \/ (CancelRun /\ f = "cancel")
    PROVE  Types' /\ FiberInv' /\ Budget'
<1> DEFINE r == fiber[f].run
<1>1. PICK status \in Terminal : run' = Settle(r, status)
  <2>1. Mark(f) => Outcome[fiber[f].note] \in Terminal
    BY DEF Mark, At, BaseInv, FiberInv, Fine, Outcome, Ended, Terminal
  <2>2. "failed" \in Terminal /\ "interrupted" \in Terminal /\ "cancelled" \in Terminal
    BY DEF Terminal
  <2> QED BY <2>1, <2>2 DEF Mark, Fail, Retire, CancelRun
<1>2. r \in 1..created
  BY DEF Mark, Fail, Retire, CancelRun, At, BaseInv, FiberInv, Fine
<1>3. /\ run' \in [Runs -> RunType]
      /\ \A q \in Runs : run'[q].status = "none" <=> q > created
      /\ run'[r].status \in Notes
  BY <1>1, <1>2, Settled DEF BaseInv, Notes
<1>4. UNCHANGED <<definition, created, skipped, threadVars, checkVars, historyVars>>
  BY DEF Mark, Fail, Retire, CancelRun
<1>5. fiber' \in [Fibers -> FiberType] /\ FiberInv' /\ Budget'
  <2>1. ASSUME fiber' = [fiber EXCEPT ![f].pc = "stop", ![f].note = run'[r].status]
        PROVE  fiber' \in [Fibers -> FiberType] /\ FiberInv' /\ Budget'
    <3> DEFINE x == [fiber[f] EXCEPT !.pc = "stop", !.note = run'[r].status]
    <3>1. fiber' = [fiber EXCEPT ![f] = x] /\ fiber[f] \in FiberType /\ "stop" \in Pcs
      BY <2>1 DEF BaseInv, Types, Pcs
    <3>2. x \in FiberType /\ x.pc = "stop" /\ x.run = r /\ x.stage = fiber[f].stage
      BY <1>3, <3>1 DEF FiberType
    <3>3. Fine(f, x) /\ Owed(x) <= Owed(fiber[f])
      BY <1>2, <3>2 DEF Fine, Owed
    <3> HIDE DEF x
    <3> QED BY <1>4, <3>1, <3>2, <3>3, Moves
  <2>2. CASE Mark(f)
    BY <2>1, <2>2 DEF Mark
  <2>3. CASE Fail(f)
    <3>1. CASE run'[r].status = "failed"
      BY <2>1, <2>3, <3>1 DEF Fail
    <3> QED BY <2>3, <3>1, <1>4, Rests DEF Fail
  <2>4. CASE Retire /\ f = "reactor"
    BY <2>4, <1>4, Rests DEF Retire
  <2>5. CASE CancelRun /\ f = "cancel"
    <3>1. \A pc \in {"interrupt", "archive"} :
             pc \in Pcs /\ Fine(f, [fiber[f] EXCEPT !.pc = pc])
      BY <1>2 DEF Pcs, BaseInv, Types, FiberType, Fine
    <3> QED BY <2>5, <3>1, <1>4, Goes, Rests DEF CancelRun
  <2> QED BY <2>2, <2>3, <2>4, <2>5
<1> QED BY <1>3, <1>4, <1>5 DEF BaseInv, Types, threadVars, checkVars, historyVars, stampVars

LEMMA StopRows ==
    ASSUME BaseInv, NEW f \in Fibers, InterruptRun(f) \/ StopLoop(f) \/ Disable(f)
    PROVE  Types' /\ FiberInv' /\ Budget'
<1>1. fiber[f] \in FiberType /\ created' = created
  BY DEF BaseInv, Types, InterruptRun, StopLoop, Disable, rowVars
<1>2. \A pc \in {"archive", "disable"} : pc \in Pcs /\ Fine(f, [fiber[f] EXCEPT !.pc = pc])
  BY <1>1 DEF Pcs, FiberType, Fine
<1>3. CASE InterruptRun(f)
  <2>1. fiber' \in [Fibers -> FiberType] /\ FiberInv' /\ Budget'
    <3>1. CASE f = "pass"
      <4>1. fiber[f].run \in 1..created
        BY <1>3 DEF InterruptRun, At, BaseInv, FiberInv, Fine
      <4>2. "fail" \in Pcs /\ Fine(f, [fiber[f] EXCEPT !.pc = "fail"])
        BY <1>1, <4>1 DEF Pcs, FiberType, Fine
      <4>3. Goto(f, "fail")
        BY <1>3, <3>1 DEF InterruptRun
      <4> QED BY <1>1, <4>2, <4>3, Goes
    <3>2. CASE f # "pass"
      BY <1>1, <1>2, <1>3, <3>2, Goes, Rests DEF InterruptRun
    <3> QED BY <3>1, <3>2
  <2>2. /\ turn' \in [Runs -> NoRow \cup {"requested", "stale", "running"} \cup Ended]
        /\ userTurn' \in {"none", "running", "ended", "interrupted"}
    BY <1>3 DEF InterruptRun, Interrupt, BaseInv, Types, Ended
  <2> QED BY <1>3, <2>1, <2>2
          DEF BaseInv, Types, InterruptRun, rowVars, checkVars, historyVars, stampVars
<1>4. CASE StopLoop(f)
  <2>1. PICK rs : rs \subseteq 1..created /\ Enqueue(rs, queued)
    <3>1. fiber[f].run \in 1..created
      BY <1>4 DEF StopLoop, At, BaseInv, FiberInv, Fine
    <3>2. {} \subseteq 1..created /\ {fiber[f].run} \subseteq 1..created
      BY <3>1
    <3>3. Enqueue({}, queued) \/ Enqueue({fiber[f].run}, queued)
      BY <1>4 DEF StopLoop
    <3> QED BY <3>2, <3>3
  <2>2. jobs' \in Seq(Job)
    BY <1>4, <2>1, ChecksQueued DEF StopLoop, BaseInv, rowVars
  <2>3. fiber' \in [Fibers -> FiberType] /\ FiberInv' /\ Budget'
    BY <1>1, <1>2, <1>4, Goes, Rests DEF StopLoop
  <2> QED BY <1>4, <2>2, <2>3
          DEF BaseInv, Types, StopLoop, rowVars, threadVars, historyVars, stampVars
<1>5. CASE Disable(f)
  <2>1. fiber' \in [Fibers -> FiberType] /\ FiberInv' /\ Budget'
    BY <1>1, <1>5, Rests DEF Disable
  <2>2. definition' \in DefinitionType /\ definition'.max \in Caps
    BY <1>5, Disabled DEF Disable
  <2> QED BY <1>5, <2>1, <2>2
          DEF BaseInv, Types, Disable, threadVars, checkVars, historyVars, stampVars
<1> QED BY <1>3, <1>4, <1>5

\* The slots the schedule goes on with.
LEMMA SlotsType ==
    ASSUME Types
    PROVE  FutureSlot \in SlotOrNone /\ \A s \in SlotOrNone : NextSlot(s) \in SlotOrNone
<1> DEFINE later == {s \in Slots : \A t \in Recorded : s > t}
<1>1. later \subseteq Slots /\ Slots \subseteq Nat
  BY DEF Slots
<1>2. later # {} => Min(later) \in later
  BY <1>1, LeastOf
<1>3. FutureSlot = IF later = {} THEN 0 ELSE Min(later)
  BY DEF FutureSlot
<1>4. FutureSlot \in SlotOrNone
  <2> HIDE DEF later
  <2> QED BY <1>1, <1>2, <1>3, Constants
<1>5. ASSUME NEW s \in SlotOrNone PROVE NextSlot(s) \in SlotOrNone
  BY Constants DEF NextSlot, SlotOrNone
<1> QED BY <1>4, <1>5

LEMMA SnapshotType ==
    ASSUME Types
    PROVE  /\ Snapshot \in DefinitionType /\ Snapshot.max \in Caps
           /\ Snapshot.next = definition.next /\ Capped(Snapshot) = Capped(definition)
<1>1. definition \in DefinitionType /\ definition.max \in Caps
  BY DEF Types
<1> QED BY <1>1 DEF Snapshot, DefinitionType, Capped

\* A launch begins only if there is room for the run it may need.
LEMMA RunsLeftCount ==
    ASSUME Types
    PROVE  RunsLeft <=> created + Owed(fiber["pass"]) + Owed(fiber["now"]) < N
<1> DEFINE L == {f \in Launchers : fiber[f].stage = "launch" /\ fiber[f].run = 0}
<1>1. Cardinality({}) = 0 /\ Cardinality({"pass"}) = 1 /\ Cardinality({"now"}) = 1
  BY FS_EmptySet, FS_Singleton
<1>2. Cardinality({"pass", "now"}) = 2
  <2>1. IsFiniteSet({"pass"}) /\ Cardinality({"pass"}) = 1
    BY FS_Singleton
  <2>2. Cardinality({"pass"} \cup {"now"}) = 2
    BY <2>1, FS_AddElement
  <2>3. {"pass"} \cup {"now"} = {"pass", "now"}
    OBVIOUS
  <2> QED BY <2>2, <2>3
<1>3. L = IF Owed(fiber["pass"]) = 1
          THEN IF Owed(fiber["now"]) = 1 THEN {"pass", "now"} ELSE {"pass"}
          ELSE IF Owed(fiber["now"]) = 1 THEN {"now"} ELSE {}
  BY DEF Launchers, Owed
<1>4. Owed(fiber["pass"]) \in {0, 1} /\ Owed(fiber["now"]) \in {0, 1}
  BY DEF Owed
<1>5. Cardinality(L) = Owed(fiber["pass"]) + Owed(fiber["now"])
  <2> HIDE DEF L
  <2> QED BY <1>1, <1>2, <1>3, <1>4
<1>6. RunsLeft <=> created + Cardinality(L) < N
  BY DEF RunsLeft
<1> HIDE DEF L
<1> QED BY <1>4, <1>5, <1>6, Constants DEF Types

LEMMA Launches ==
    ASSUME BaseInv, NEW f \in Launchers, NEW pc \in {"active", "disable"}, RunsLeft,
           Launching(f, pc), created' = created, f = "pass" => definition.next \in Slots
    PROVE  fiber' \in [Fibers -> FiberType] /\ FiberInv' /\ Budget'
<1> DEFINE x == [Idle EXCEPT !.pc = pc, !.stage = "launch", !.def = Snapshot, !.now = Now]
<1>1. pc \in Pcs /\ "launch" \in Stages /\ Now \in Nat /\ Snapshot \in DefinitionType
      /\ Snapshot.next = definition.next
  BY NowIsFresh, SnapshotType DEF Pcs, Stages, BaseInv
<1>2. x \in FiberType
  BY <1>1, Constants DEF FiberType
<1>3. x.pc = pc /\ x.stage = "launch" /\ x.run = 0 /\ x.def = Snapshot
  BY DEF Idle
<1>4. fiber' = [fiber EXCEPT ![f] = x]
  BY DEF Launching
<1> HIDE DEF x
<1>5. /\ fiber \in [Fibers -> FiberType] /\ f \in Fibers /\ fiber' \in [Fibers -> FiberType]
      /\ fiber'[f] = x /\ \A g \in Fibers : g # f => fiber'[g] = fiber[g]
  BY <1>2, <1>4 DEF BaseInv, Types, Fibers
<1>6. Fine(f, x)
  BY <1>1, <1>3 DEF Fine
<1>7. FiberInv'
  BY <1>5, <1>6 DEF BaseInv, FiberInv, Fine
<1>8. Budget'
  <2>1. /\ \A y : Owed(y) \in 0..1
        /\ "pass" \in Fibers /\ "now" \in Fibers /\ created \in Nat
    BY Constants DEF Owed, Fibers, Launchers, BaseInv, Types
  <2>2. created + Owed(fiber["pass"]) + Owed(fiber["now"]) < N
    BY RunsLeftCount DEF BaseInv
  <2>3. Owed(fiber'["pass"]) + Owed(fiber'["now"])
           <= Owed(fiber["pass"]) + Owed(fiber["now"]) + 1
    BY <1>5, <2>1 DEF Launchers
  <2>4. created + Owed(fiber'["pass"]) + Owed(fiber'["now"]) <= N
    BY <2>1, <2>2, <2>3, Constants
  <2> QED BY <2>4 DEF Budget, Owed
<1> QED BY <1>5, <1>7, <1>8

LEMMA BeginRows ==
    ASSUME BaseInv, ListDue \/ RunNow \/ EditStarts \/ CancelStarts
    PROVE  Types' /\ FiberInv' /\ Budget'
<1>1. /\ created' = created /\ UNCHANGED <<rowVars, threadVars, checkVars, saves>>
      /\ "pass" \in Fibers /\ "now" \in Fibers /\ "edit" \in Fibers /\ "cancel" \in Fibers
      /\ "edit" \notin Launchers
  BY DEF ListDue, RunNow, EditStarts, CancelStarts, rowVars, historyVars, stampVars, Fibers, Launchers
<1>2. CASE ListDue
  <2>1. CASE Rest("pass")
    BY <1>1, <2>1, Rests, ReadingRows
  <2>2. CASE ~Rest("pass")
    <3>1. definition.next \in Slots /\ RunsLeft
      BY <1>2, <2>2, Constants DEF ListDue, BaseInv, Types, DefinitionType, SlotOrNone, Slots
    <3>2. PICK pc \in {"active", "disable"} : Launching("pass", pc)
      BY <1>2, <2>2 DEF ListDue
    <3>3. "pass" \in Launchers
      BY DEF Launchers
    <3> QED BY <1>1, <3>1, <3>2, <3>3, Launches, ReadingRows
  <2> QED BY <2>1, <2>2
<1>3. CASE RunNow
  <2>1. "now" \in Launchers /\ RunsLeft /\ Launching("now", "active") /\ "now" # "pass"
    BY <1>3 DEF RunNow, Launchers
  <2> QED BY <1>1, <2>1, Launches, ReadingRows
<1>4. CASE EditStarts
  <2> DEFINE x == [Idle EXCEPT !.pc = "save", !.now = Now, !.def = Snapshot]
  <2>1. /\ "save" \in Pcs /\ Now \in Nat
        /\ Snapshot \in DefinitionType /\ Snapshot.max \in Caps
    BY NowIsFresh, SnapshotType DEF Pcs, BaseInv
  <2>2. x \in FiberType
    BY <2>1, Constants DEF FiberType
  <2>3. x.pc = "save" /\ x.def = Snapshot
    BY DEF Idle
  <2>4. fiber' = [fiber EXCEPT !["edit"] = x]
    BY <1>4 DEF EditStarts
  <2> HIDE DEF x
  <2>5. Fine("edit", x)
    BY <2>1, <2>3 DEF Fine
  <2> QED BY <1>1, <2>2, <2>4, <2>5, Moves, ReadingRows
<1>5. CASE CancelStarts
  <2>1. "none" \in Notes /\ ActiveRuns \subseteq 1..created
    BY ActiveAreCreated DEF Notes, BaseInv
  <2>2. CASE \E r \in ActiveRuns : Reading("cancel", "cancel", "cancel", r, "none")
    <3>1. PICK r \in ActiveRuns : Reading("cancel", "cancel", "cancel", r, "none")
      BY <2>2
    <3> QED BY <1>1, <2>1, <3>1, Reads, ReadingRows
  <2>3. CASE \E r \in ActiveRuns : Reading("cancel", "cancel", "delete", r, "none")
    <3>1. PICK r \in ActiveRuns : Reading("cancel", "cancel", "delete", r, "none")
      BY <2>3
    <3> QED BY <1>1, <2>1, <3>1, Reads, ReadingRows
  <2>4. CASE Reading("cancel", "archive", "delete", 0, "none")
    BY <1>1, <2>1, <2>4, Reads, ReadingRows
  <2> QED BY <1>5, <2>2, <2>3, <2>4 DEF CancelStarts
<1> QED BY <1>2, <1>3, <1>4, <1>5

\* The steps of a launch that write no row.
LEMMA LookRows ==
    ASSUME BaseInv, NEW f \in Launchers, ReadActive(f) \/ ReadPending(f) \/ CheckRun(f)
    PROVE  Types' /\ FiberInv' /\ Budget'
<1>1. /\ f \in Fibers /\ fiber[f] \in FiberType /\ Fine(f, fiber[f]) /\ created' = created
      /\ UNCHANGED <<rowVars, threadVars, checkVars, saves>>
  BY DEF BaseInv, Types, FiberInv, Fibers, ReadActive, ReadPending, CheckRun, rowVars,
         historyVars, stampVars
<1>2. CASE ReadActive(f)
  <2>1. PICK note \in {"free", "busy"} :
           fiber' = [fiber EXCEPT ![f].pc = "pending", ![f].note = note]
    BY <1>2 DEF ReadActive
  <2> DEFINE x == [fiber[f] EXCEPT !.pc = "pending", !.note = note]
  <2>2. fiber' = [fiber EXCEPT ![f] = x] /\ "pending" \in Pcs /\ note \in Notes
    BY <2>1 DEF Pcs, Notes
  <2>3. /\ x \in FiberType /\ x.pc = "pending" /\ x.stage = fiber[f].stage
        /\ x.run = fiber[f].run /\ x.def = fiber[f].def
    BY <1>1, <2>2 DEF FiberType
  <2>4. fiber[f].pc = "active"
    BY <1>2 DEF ReadActive, At
  <2>5. Fine(f, x) /\ Owed(x) <= Owed(fiber[f])
    BY <1>1, <2>3, <2>4 DEF Fine, Owed
  <2> HIDE DEF x
  <2> QED BY <1>1, <2>2, <2>3, <2>5, Moves, ReadingRows
<1>3. CASE ReadPending(f)
  <2>1. fiber[f].pc = "pending"
    BY <1>3 DEF ReadPending, At
  <2>2. CASE Rest(f)
    BY <1>1, <2>2, Rests, ReadingRows
  <2>3. CASE ~Rest(f)
    <3>1. PICK pc \in {"skip", "restart", "create"} :
             /\ Goto(f, pc)
             /\ pc = "restart" => Capped(fiber[f].def)
      BY <1>3, <2>3 DEF ReadPending
    <3>2. pc \in Pcs /\ Fine(f, [fiber[f] EXCEPT !.pc = pc])
      BY <1>1, <2>1, <3>1 DEF Pcs, FiberType, Fine
    <3> QED BY <1>1, <3>1, <3>2, Goes, ReadingRows
  <2> QED BY <2>2, <2>3
<1>4. CASE CheckRun(f)
  <2>1. fiber[f].run \in 1..created
    BY <1>1, <1>4 DEF CheckRun, At, Fine
  <2>2. PICK pc \in {"dispatch", "fail"} : Goto(f, pc)
    BY <1>4 DEF CheckRun
  <2>3. pc \in Pcs /\ Fine(f, [fiber[f] EXCEPT !.pc = pc])
    BY <1>1, <2>1 DEF Pcs, FiberType, Fine
  <2> QED BY <1>1, <2>2, <2>3, Goes, ReadingRows
<1> QED BY <1>2, <1>3, <1>4

LEMMA ScheduleRows ==
    ASSUME BaseInv, Skip \/ SkipFails \/ Restart \/ Advance
    PROVE  Types' /\ FiberInv' /\ Budget'
<1>1. /\ "pass" \in Fibers /\ "now" \in Fibers /\ created' = created
      /\ \A f \in Fibers : fiber[f] \in FiberType /\ Fine(f, fiber[f])
      /\ definition \in DefinitionType /\ definition.max \in Caps
      /\ UNCHANGED <<run, threadVars, checkVars, saves>>
  BY DEF BaseInv, Types, FiberInv, Fibers, Launchers, Skip, SkipFails, Restart, Advance,
         historyVars, stampVars
<1>2. CASE Skip
  <2>1. fiber["pass"].pc = "skip" /\ fiber["pass"].def.next \in Slots
    BY <1>1, <1>2 DEF Skip, At, Fine
  <2>2. "advance" \in Pcs /\ Fine("pass", [fiber["pass"] EXCEPT !.pc = "advance"])
    <3>1. fiber["pass"].run = 0 /\ 0 \in 0..created
      BY <1>1, <2>1, Constants DEF Fine, BaseInv, Types
    <3> QED BY <1>1, <2>1, <3>1 DEF Pcs, FiberType, Fine
  <2>3. fiber' \in [Fibers -> FiberType] /\ FiberInv' /\ Budget'
    BY <1>1, <1>2, <2>2, Goes DEF Skip
  <2>4. skipped' \subseteq Slots
    BY <1>2, <2>1 DEF Skip, BaseInv, Types
  <2> QED BY <1>1, <1>2, <2>3, <2>4 DEF BaseInv, Types, Skip, threadVars, checkVars
<1>3. CASE SkipFails
  <2>1. fiber["pass"].pc = "skip" /\ fiber["pass"].def.next \in Slots
    BY <1>1, <1>3 DEF SkipFails, At, Fine
  <2>2. fiber' \in [Fibers -> FiberType] /\ FiberInv' /\ Budget'
    BY <1>1, <1>3, Rests DEF SkipFails
  <2>3. skipped' \subseteq Slots
    BY <1>3, <2>1 DEF SkipFails, BaseInv, Types
  <2> QED BY <1>1, <1>3, <2>2, <2>3 DEF BaseInv, Types, SkipFails, threadVars, checkVars
<1>4. CASE Restart
  <2>1. fiber["now"].pc = "restart"
    BY <1>4 DEF Restart, At
  <2>2. "create" \in Pcs /\ Fine("now", [fiber["now"] EXCEPT !.pc = "create"])
    BY <1>1, <2>1 DEF Pcs, FiberType, Fine
  <2>3. fiber' \in [Fibers -> FiberType] /\ FiberInv' /\ Budget'
    BY <1>1, <1>4, <2>2, Goes DEF Restart
  <2>4. FutureSlot \in SlotOrNone /\ fiber["now"].now \in Nat
    BY <1>1, SlotsType DEF FiberType, BaseInv
  <2>5. definition' \in DefinitionType /\ definition'.max \in Caps
    BY <1>1, <1>4, <2>4 DEF Restart, DefinitionType
  <2> QED BY <1>1, <1>4, <2>3, <2>5 DEF BaseInv, Types, Restart, threadVars, checkVars
<1>5. CASE Advance
  <2>1. fiber["pass"].pc = "advance" /\ fiber["pass"].def.next \in SlotOrNone
    BY <1>1, <1>5, Constants DEF Advance, At, Fine
  <2>2. fiber' \in [Fibers -> FiberType] /\ FiberInv' /\ Budget'
    <3>1. CASE fiber["pass"].run = 0
      BY <1>1, <1>5, <3>1, Rests DEF Advance
    <3>2. CASE fiber["pass"].run # 0
      <4>1. fiber["pass"].run \in 1..created
        BY <1>1, <2>1, <3>2 DEF Fine
      <4>2. "count" \in Pcs /\ Fine("pass", [fiber["pass"] EXCEPT !.pc = "count"])
        BY <1>1, <2>1, <4>1 DEF Pcs, FiberType, Fine
      <4> QED BY <1>1, <1>5, <3>2, <4>2, Goes DEF Advance
    <3> QED BY <3>1, <3>2
  <2>3. NextSlot(fiber["pass"].def.next) \in SlotOrNone /\ fiber["pass"].now \in Nat
    BY <1>1, <2>1, SlotsType DEF FiberType, BaseInv
  <2>4. definition' \in DefinitionType /\ definition'.max \in Caps
    BY <1>1, <1>5, <2>3 DEF Advance, DefinitionType
  <2> QED BY <1>1, <1>5, <2>2, <2>4 DEF BaseInv, Types, Advance, threadVars, checkVars
<1> QED BY <1>2, <1>3, <1>4, <1>5

\* The row of a run that is created, and what it leaves of the room for others.
LEMMA CreateRows ==
    ASSUME BaseInv, NEW f \in Launchers, Create(f)
    PROVE  Types' /\ FiberInv' /\ Budget'
<1> DEFINE slot == IF f = "pass" THEN fiber[f].def.next ELSE 0
           after == IF f = "pass" THEN "advance" ELSE "count"
<1>1. /\ f \in Fibers /\ fiber[f] \in FiberType /\ fiber[f].pc = "create"
      /\ fiber[f].stage = "launch" /\ fiber[f].run = 0
      /\ f = "pass" => fiber[f].def.next \in Slots
      /\ UNCHANGED <<definition, skipped, threadVars, checkVars, historyVars>>
      /\ created \in Nat /\ fiber \in [Fibers -> FiberType]
  BY Constants DEF BaseInv, Types, FiberInv, Fine, Fibers, Create, At
<1>2. after \in Pcs /\ slot \in SlotOrNone /\ fiber[f].def.policy \in Nat
  BY <1>1, Constants DEF Pcs, FiberType, DefinitionType
<1>3. CASE ~Inserted(slot)
  <2>1. created' = created /\ run' = run
    BY <1>3 DEF Create
  <2>2. fiber' \in [Fibers -> FiberType] /\ FiberInv' /\ Budget'
    <3>1. CASE f = "pass"
      <4>1. Fine(f, [fiber[f] EXCEPT !.pc = "advance"])
        BY <1>1, <3>1 DEF Fine, FiberType
      <4>2. Goto(f, "advance") /\ "advance" \in Pcs
        BY <1>2, <1>3, <3>1 DEF Create
      <4> QED BY <1>1, <2>1, <4>1, <4>2, Goes
    <3>2. CASE f # "pass"
      BY <1>1, <1>3, <2>1, <3>2, Rests DEF Create
    <3> QED BY <3>1, <3>2
  <2> QED BY <1>1, <2>1, <2>2 DEF BaseInv, Types, threadVars, checkVars, historyVars, stampVars
<1>4. CASE Inserted(slot)
  <2> DEFINE x == [fiber[f] EXCEPT !.pc = after, !.run = created']
             new == [status |-> "pending", policy |-> fiber[f].def.policy,
                     slot |-> slot, evaluated |-> FALSE]
  <2>1. /\ created' = created + 1 /\ run' = [run EXCEPT ![created'] = new]
        /\ fiber' = [fiber EXCEPT ![f] = x]
    BY <1>4 DEF Create
  <2>2. created' \in 0..N /\ created' \in Runs /\ created' \in Nat
    <3>1. Owed(fiber[f]) = 1 /\ \A y : Owed(y) \in 0..1
      BY <1>1 DEF Owed
    <3>2. created + 1 <= N
      BY <1>1, <3>1, Constants DEF BaseInv, Budget, Launchers
    <3> QED BY <1>1, <2>1, <3>2, Constants DEF Runs
  <2>3. x \in FiberType /\ x.pc = after /\ x.run = created' /\ x.def = fiber[f].def
    BY <1>1, <1>2, <2>2 DEF FiberType
  <2>4. new \in RunType /\ new.status = "pending"
    BY <1>2 DEF RunType, Active
  <2> HIDE DEF x, new, slot
  <2>5. /\ fiber' \in [Fibers -> FiberType] /\ fiber'[f] = x
        /\ \A g \in Fibers : g # f => fiber'[g] = fiber[g]
    BY <1>1, <2>1, <2>3
  <2>6. /\ run' \in [Runs -> RunType] /\ run'[created'].status = "pending"
        /\ \A r \in Runs : r # created' => run'[r] = run[r]
    BY <2>1, <2>2, <2>4 DEF BaseInv, Types
  <2>7. \A r \in Runs : run'[r].status = "none" <=> r > created'
    <3> TAKE r \in Runs
    <3>1. CASE r = created'
      BY <2>2, <2>6, <3>1 DEF Runs
    <3>2. CASE r # created'
      <4>1. r > created' <=> r > created
        BY <1>1, <2>1, <3>2 DEF Runs
      <4> QED BY <2>6, <3>2, <4>1 DEF BaseInv, Types
    <3> QED BY <3>1, <3>2
  <2>8. FiberInv'
    <3>1. Fine(f, fiber[f])'
      BY <1>1, <2>1, <2>2, <2>3, <2>5 DEF Fine, Runs
    <3>2. ASSUME NEW g \in Fibers, g # f PROVE Fine(g, fiber[g])'
      <4>1. Fine(g, fiber[g]) /\ fiber'[g] = fiber[g]
        BY <2>5, <3>2 DEF BaseInv, FiberInv
      <4>2. 1..created \subseteq 1..created' /\ 0..created \subseteq 0..created'
        BY <1>1, <2>1
      <4> QED BY <4>1, <4>2 DEF Fine
    <3> QED BY <2>5, <3>1, <3>2 DEF FiberInv
  <2>9. Budget'
    <3>1. /\ Owed(fiber[f]) = 1 /\ Owed(x) = 0 /\ \A y : Owed(y) \in 0..1
          /\ "pass" \in Fibers /\ "now" \in Fibers
      BY <1>1, <2>1, <2>3 DEF Owed, Fibers, Launchers
    <3>2. created' + Owed(fiber'["pass"]) + Owed(fiber'["now"])
             = created + Owed(fiber["pass"]) + Owed(fiber["now"])
      BY <1>1, <2>1, <2>5, <3>1 DEF Launchers
    <3> QED BY <3>2 DEF BaseInv, Budget, Owed
  <2> QED BY <1>1, <2>2, <2>5, <2>6, <2>7, <2>8, <2>9
          DEF BaseInv, Types, threadVars, checkVars, historyVars, stampVars
<1> QED BY <1>3, <1>4

LEMMA CountRows ==
    ASSUME BaseInv, NEW f \in Launchers, Count(f)
    PROVE  Types' /\ FiberInv' /\ Budget'
<1> DEFINE x == [fiber[f] EXCEPT !.pc = "start", !.now = 0, !.def = NoDefinition,
                                 !.note = "none"]
<1>1. /\ f \in Fibers /\ fiber[f] \in FiberType /\ fiber[f].run \in 1..created
      /\ UNCHANGED <<run, created, skipped, threadVars, checkVars, saves>>
      /\ definition \in DefinitionType /\ definition.max \in Caps /\ fiber[f].now \in Nat
  BY DEF BaseInv, Types, FiberInv, Fine, Fibers, Count, At, FiberType
<1>2. fiber' = [fiber EXCEPT ![f] = x] /\ "start" \in Pcs /\ "none" \in Notes
  BY DEF Count, Pcs, Notes
<1>3. /\ x \in FiberType /\ x.pc = "start" /\ x.run = fiber[f].run
      /\ x.stage = fiber[f].stage
  BY <1>1, <1>2, Constants DEF FiberType
<1> HIDE DEF x
<1>4. Fine(f, x) /\ Owed(x) <= Owed(fiber[f])
  BY <1>1, <1>3 DEF Fine, Owed
<1>5. fiber' \in [Fibers -> FiberType] /\ FiberInv' /\ Budget'
  BY <1>1, <1>2, <1>3, <1>4, Moves
<1>6. definition' \in DefinitionType /\ definition'.max \in Caps
  <2>1. definition' = [definition EXCEPT !.count = definition.count + 1,
                                         !.stamp = fiber[f].now]
    BY DEF Count
  <2>2. definition.count + 1 \in Nat
    BY <1>1 DEF DefinitionType
  <2> QED BY <1>1, <2>1, <2>2 DEF DefinitionType
<1> QED BY <1>1, <1>5, <1>6 DEF BaseInv, Types, threadVars, checkVars, historyVars, stampVars

LEMMA SendRows ==
    ASSUME BaseInv, NEW f \in Launchers, Start(f) \/ Dispatch(f)
    PROVE  Types' /\ FiberInv' /\ Budget'
<1> DEFINE r == fiber[f].run
<1>1. /\ f \in Fibers /\ fiber[f] \in FiberType /\ r \in 1..created
      /\ UNCHANGED <<definition, created, skipped, userTurn, checkVars, saves>>
  BY DEF BaseInv, Types, FiberInv, Fine, Fibers, Start, Dispatch, At, rowVars, threadVars,
         historyVars, stampVars
<1>2. r \in Runs /\ ~(r > created)
  BY <1>1, Constants DEF Runs, BaseInv, Types
<1>3. \A pc \in {"check", "fail"} : pc \in Pcs /\ Fine(f, [fiber[f] EXCEPT !.pc = pc])
  BY <1>1 DEF Pcs, FiberType, Fine
<1>4. fiber' \in [Fibers -> FiberType] /\ FiberInv' /\ Budget'
  <2>1. \/ \E pc \in {"check", "fail"} : Goto(f, pc)
        \/ Rest(f)
    BY DEF Start, Dispatch
  <2> QED BY <1>1, <1>3, <2>1, Goes, Rests
<1>5. /\ run' \in [Runs -> RunType]
      /\ \A q \in Runs : run'[q].status = "none" <=> run[q].status = "none"
  <2>1. run \in [Runs -> RunType]
    BY DEF BaseInv, Types
  <2>2. CASE run[r].status = "pending" /\ run' = [run EXCEPT ![r].status = "running"]
    <3>1. run' \in [Runs -> RunType]
      BY <1>2, <2>1, <2>2 DEF RunType, Active
    <3>2. run'[r].status = "running" /\ \A q \in Runs : q # r => run'[q] = run[q]
      BY <1>2, <2>1, <2>2 DEF RunType
    <3> QED BY <2>2, <3>1, <3>2
  <2>3. CASE run' = run
    BY <2>1, <2>3
  <2> QED BY <2>2, <2>3 DEF Start, Dispatch, rowVars
<1>6. turn' \in [Runs -> NoRow \cup {"requested", "stale", "running"} \cup Ended]
  BY DEF Start, Dispatch, threadVars, Requested, NoRow, Ended, BaseInv, Types
<1> QED BY <1>1, <1>4, <1>5, <1>6 DEF BaseInv, Types, checkVars

LEMMA EditRows ==
    ASSUME BaseInv, EditSaves \/ Archive
    PROVE  Types' /\ FiberInv' /\ Budget'
<1>1. /\ "edit" \in Fibers /\ "cancel" \in Fibers
      /\ definition \in DefinitionType /\ definition.max \in Caps
      /\ UNCHANGED <<run, created, skipped, threadVars, checkVars>>
  BY DEF BaseInv, Types, Fibers, EditSaves, Archive
<1>2. fiber' \in [Fibers -> FiberType] /\ FiberInv' /\ Budget'
  BY <1>1, Rests DEF EditSaves, Archive
<1>3. saves' \in Nat
  BY DEF EditSaves, Archive, BaseInv, Types, historyVars, stampVars
<1>4. definition' \in DefinitionType /\ definition'.max \in Caps
  <2>1. CASE EditSaves
    <3> DEFINE old == fiber["edit"].def
    <3>1. /\ old \in DefinitionType /\ old.max \in Caps /\ fiber["edit"].now \in Nat
      BY <1>1, <2>1 DEF EditSaves, At, BaseInv, Types, FiberInv, Fine, FiberType
    <3>2. PICK change \in {"pause", "resume", "policy"} :
             definition' = [old EXCEPT
                !.enabled = IF change = "policy" THEN @ ELSE change = "resume",
                !.policy = IF change = "policy" THEN @ + 1 ELSE @,
                !.next = IF @ = 0 THEN FutureSlot ELSE @,
                !.count = definition.count,
                !.stamp = fiber["edit"].now]
      BY <2>1 DEF EditSaves
    <3> DEFINE next == IF old.next = 0 THEN FutureSlot ELSE old.next
    <3>3. next \in SlotOrNone /\ definition.count \in Nat
      BY <1>1, <3>1, SlotsType DEF DefinitionType, BaseInv
    <3>4. CASE change = "policy"
      <4>1. definition' = [old EXCEPT !.policy = old.policy + 1, !.next = next,
                                      !.count = definition.count,
                                      !.stamp = fiber["edit"].now]
        BY <3>1, <3>2, <3>4 DEF DefinitionType
      <4>2. old.policy + 1 \in Nat
        BY <3>1 DEF DefinitionType
      <4> HIDE DEF old, next
      <4> QED BY <3>1, <3>3, <4>1, <4>2 DEF DefinitionType
    <3>5. CASE change = "pause"
      <4>1. definition' = [old EXCEPT !.enabled = FALSE, !.next = next,
                                      !.count = definition.count,
                                      !.stamp = fiber["edit"].now]
        BY <3>1, <3>2, <3>5 DEF DefinitionType
      <4> HIDE DEF old, next
      <4> QED BY <3>1, <3>3, <4>1 DEF DefinitionType
    <3>6. CASE change = "resume"
      <4>1. definition' = [old EXCEPT !.enabled = TRUE, !.next = next,
                                      !.count = definition.count,
                                      !.stamp = fiber["edit"].now]
        BY <3>1, <3>2, <3>6 DEF DefinitionType
      <4> HIDE DEF old, next
      <4> QED BY <3>1, <3>3, <4>1 DEF DefinitionType
    <3> QED BY <3>4, <3>5, <3>6
  <2>2. CASE Archive
    BY <2>2, Disabled DEF Archive
  <2> QED BY <2>1, <2>2
<1> QED BY <1>1, <1>2, <1>3, <1>4 DEF BaseInv, Types, threadVars, checkVars

LEMMA CrashRows ==
    ASSUME BaseInv, Crash
    PROVE  Types' /\ FiberInv' /\ Budget'
<1>1. jobs' \in Seq(Job)
  BY ChecksRestarted DEF BaseInv
<1>2. worker' \in [Workers -> [pc : {"idle", "asking", "disable", "record"},
                               job : Job \cup {NoJob}]]
  BY Constants DEF Crash
<1>3. \A f \in Fibers : fiber'[f] \in {Idle, [Idle EXCEPT !.pc = "recover"]}
  BY DEF Crash
<1>4. [Idle EXCEPT !.pc = "recover"] \in FiberType
  <2>1. "recover" \in Pcs
    BY DEF Pcs
  <2> QED BY <2>1, Constants DEF FiberType
<1>5. fiber' \in [Fibers -> FiberType]
  <2>1. fiber' = [f \in Fibers |-> fiber'[f]]
    BY DEF Crash
  <2> QED BY <1>3, <1>4, <2>1, Constants
<1>6. \A f \in Fibers : fiber'[f].pc \in {"idle", "recover"} /\ fiber'[f].stage = "none"
  BY <1>3 DEF Idle
<1>7. FiberInv'
  BY <1>6 DEF FiberInv, Fine
<1>8. Budget'
  <2>1. "pass" \in Fibers /\ "now" \in Fibers /\ created' = created
    BY DEF Fibers, Launchers, Crash, rowVars
  <2>2. Owed(fiber["pass"])' = 0 /\ Owed(fiber["now"])' = 0
    BY <1>6, <2>1 DEF Owed
  <2> QED BY <2>1, <2>2, Constants DEF Budget, BaseInv, Types
<1>9. /\ turn' \in [Runs -> NoRow \cup {"requested", "stale", "running"} \cup Ended]
      /\ userTurn' \in {"none", "running", "ended", "interrupted"}
  BY DEF Crash, BaseInv, Types, NoRow, Ended
<1> QED BY <1>1, <1>2, <1>5, <1>7, <1>8, <1>9 DEF BaseInv, Types, Crash, rowVars, stampVars

LEMMA FailureRows ==
    ASSUME BaseInv, NEW f \in Fibers, StatementFails(f)
    PROVE  Types' /\ FiberInv' /\ Budget'
<1>1. /\ UNCHANGED <<rowVars, threadVars, checkVars, saves>> /\ created' = created
      /\ fiber[f] \in FiberType /\ Fine(f, fiber[f])
  BY DEF StatementFails, stampVars, rowVars, BaseInv, Types, FiberInv
<1>2. fiber' \in [Fibers -> FiberType] /\ FiberInv' /\ Budget'
  <2>1. CASE Done(f)
    BY <1>1, <2>1, Rests
  <2>2. CASE Goto(f, "fail") /\ fiber[f].pc \in {"start", "check", "dispatch", "interrupt"}
    <3>1. "fail" \in Pcs /\ Fine(f, [fiber[f] EXCEPT !.pc = "fail"])
      BY <1>1, <2>2 DEF Pcs, FiberType, Fine
    <3> QED BY <1>1, <2>2, <3>1, Goes
  <2>3. CASE Goto(f, "archive")
    <3>1. "archive" \in Pcs /\ Fine(f, [fiber[f] EXCEPT !.pc = "archive"])
      BY <1>1 DEF Pcs, FiberType, Fine
    <3> QED BY <1>1, <2>3, <3>1, Goes
  <2> QED BY <2>1, <2>2, <2>3 DEF StatementFails, At
<1> QED BY <1>1, <1>2, ReadingRows

-----------------------------------------------------------------------------
LEMMA ChecksStep ==
    ASSUME BaseInv, Next
    PROVE  JobInv' /\ NewChecks
<1> USE DEF BaseInv
<1>1. ASSUME NEW w \in Workers, Work(w) PROVE JobInv' /\ NewChecks
  BY <1>1, ChecksTaken, ChecksGoOn, ChecksRecorded DEF Work
<1>2. CASE Crash
  BY <1>2, ChecksRestarted
<1>3. ASSUME UNCHANGED checkVars, created' \in {created, created + 1}
      PROVE  JobInv' /\ NewChecks
  BY <1>3, ChecksKept DEF NewChecks
<1>4. ASSUME NEW f \in {"pass", "reactor"}, Requeue(f), UNCHANGED <<rowVars, threadVars, historyVars>>
      PROVE  JobInv' /\ NewChecks
  BY <1>4, RequeueRows
<1>5. ASSUME NEW f \in Fibers, StopLoop(f) PROVE JobInv' /\ NewChecks
  <2>1. fiber[f].run \in 1..created
    BY <1>5 DEF StopLoop, At, FiberInv, Fine
  <2>2. {} \subseteq 1..created /\ {fiber[f].run} \subseteq 1..created
    BY <2>1
  <2>3. Enqueue({}, queued) \/ Enqueue({fiber[f].run}, queued)
    BY <1>5 DEF StopLoop
  <2> QED BY <1>5, <2>2, <2>3, ChecksQueued DEF StopLoop, rowVars
<1>6. ASSUME PassStarts \/ Recover \/ GoesOn("pass") \/ GoesOn("reactor")
      PROVE  JobInv' /\ NewChecks
  BY <1>3, <1>4, <1>6 DEF PassStarts, Recover, GoesOn, rowVars
<1>7. ASSUME NEW f \in Launchers, Launch(f) PROVE JobInv' /\ NewChecks
  <2>1. f \in Fibers
    BY DEF Fibers
  <2> QED BY <1>3, <1>5, <1>7, <2>1
          DEF Launch, ReadActive, ReadPending, Create, Count, Start, CheckRun, Dispatch, Fail,
              Disable, rowVars
<1>8. CASE PassStep
  <2>1. "pass" \in Launchers
    BY DEF Launchers
  <2> QED BY <1>3, <1>6, <1>7, <1>8, <2>1
          DEF PassStep, Mark, InterruptRun, ListDue, Skip, Advance, rowVars
<1>9. CASE ReactorStep
  <2>1. "reactor" \in Fibers
    BY DEF Fibers
  <2> QED BY <1>3, <1>5, <1>6, <1>9, <2>1 DEF ReactorStep, Mark, Retire, Disable, rowVars
<1>10. CASE NowStep
  <2>1. "now" \in Launchers
    BY DEF Launchers
  <2> QED BY <1>3, <1>7, <1>10, <2>1 DEF NowStep, Restart
<1>11. CASE FindsOverdue \/ Hears \/ RunNow \/ EditStarts \/ CancelStarts \/ UserStep
  BY <1>3, <1>11 DEF FindsOverdue, Hears, RunNow, EditStarts, CancelStarts, UserStep,
                     EditSaves, CancelRun, InterruptRun, Archive, rowVars
<1>12. CASE ThreadStep
  BY <1>3, <1>12 DEF ThreadStep, UserSends, UserTurnEnds, QueuedIsSent, TurnStarts,
                     TurnEnds, rowVars
<1>13. ASSUME NEW f \in Fibers, SkipFails \/ StatementFails(f) PROVE JobInv' /\ NewChecks
  BY <1>3, <1>13 DEF SkipFails, StatementFails, rowVars
<1> QED BY <1>1, <1>2, <1>8, <1>9, <1>10, <1>11, <1>12, <1>13 DEF Next, Fibers

LEMMA BaseStep ==
    ASSUME BaseInv, [Next]_vars
    PROVE  BaseInv'
<1>1. "pass" \in Fibers /\ "now" \in Fibers /\ "reactor" \in Fibers /\ "cancel" \in Fibers
      /\ "pass" \in Launchers /\ "now" \in Launchers
  BY DEF Fibers, Launchers
<1>2. CASE UNCHANGED vars
  BY <1>2 DEF vars, BaseInv, Types, FiberInv, Fine, Budget, JobInv
<1>3. ASSUME Next PROVE Types' /\ FiberInv' /\ Budget'
  <2>1. ASSUME NEW f \in Launchers, Launch(f) PROVE Types' /\ FiberInv' /\ Budget'
    <3>1. f \in Fibers
      BY DEF Fibers
    <3> QED BY <2>1, <3>1, LookRows, CreateRows, CountRows, SendRows, SettleRows, StopRows
            DEF Launch
  <2>2. ASSUME NEW f \in {"pass", "reactor"}, GoesOn(f) PROVE Types' /\ FiberInv' /\ Budget'
    BY <2>2, RequeueRows DEF GoesOn
  <2>3. CASE PassStep
    BY <1>1, <2>1, <2>2, <2>3, FollowRows, SettleRows, StopRows, BeginRows, ScheduleRows
       DEF PassStep
  <2>4. CASE ReactorStep
    BY <1>1, <2>2, <2>4, FollowRows, SettleRows, StopRows DEF ReactorStep
  <2>5. CASE NowStep
    BY <1>1, <2>1, <2>5, ScheduleRows DEF NowStep
  <2>6. CASE UserStep
    BY <1>1, <2>6, EditRows, SettleRows, StopRows DEF UserStep
  <2> QED BY <1>3, <2>3, <2>4, <2>5, <2>6, FollowRows, BeginRows, WorkRows, ThreadRows,
             CrashRows, ScheduleRows, FailureRows DEF Next
<1> QED BY <1>2, <1>3, ChecksStep DEF BaseInv

LEMMA BaseInit == Init => BaseInv
<1> SUFFICES ASSUME Init PROVE BaseInv
  OBVIOUS
<1>1. N \in Nat /\ MaxSlots \in Nat /\ Caps \subseteq Nat /\ Idle \in FiberType
  BY Constants
<1>2. NextSlot(0) \in SlotOrNone
  BY <1>1, Constants DEF NextSlot, SlotOrNone
<1>3. definition \in DefinitionType /\ definition.max \in Caps
  BY <1>1, <1>2 DEF Init, DefinitionType
<1>4. NoRun \in RunType /\ NoRun.status = "none"
  BY Constants DEF NoRun, RunType
<1>5. run \in [Runs -> RunType] /\ \A r \in Runs : run[r].status = "none" /\ r > 0
  BY <1>1, <1>4 DEF Init, Runs
<1>6. Types
  BY <1>1, <1>3, <1>5, Constants DEF Init, Types, Slots, NoRow
<1>7. "pass" \in Fibers /\ "now" \in Fibers /\ \A f \in Fibers : fiber[f] = Idle
  BY DEF Init, Fibers, Launchers
<1>8. FiberInv /\ Budget
  BY <1>1, <1>7 DEF Init, FiberInv, Fine, Budget, Owed, Idle
<1>9. JobInv
  BY DEF Init, JobInv, Resting
<1> QED BY <1>6, <1>8, <1>9 DEF BaseInv

LEMMA BaseHolds == Spec => []BaseInv
<1>1. BaseInv /\ [Next]_vars => BaseInv'
  BY BaseStep
<1> QED BY BaseInit, <1>1, PTL DEF Spec

\* Every variable keeps to its type; no more than N runs are created, and the
\* evaluation queue only ever names runs that exist.
THEOREM TypeCorrect == Spec => []TypeOK
<1>1. BaseInv => TypeOK
  <2> SUFFICES ASSUME BaseInv PROVE TypeOK
    OBVIOUS
  <2>1. /\ definition \in [enabled : BOOLEAN, archived : BOOLEAN, policy : Nat,
                           max : Caps, count : Nat, next : Nat, stamp : Nat]
    <3>1. SlotOrNone \subseteq Nat
      BY Constants DEF SlotOrNone
    <3>2. definition \in DefinitionType /\ definition.max \in Caps
      BY DEF BaseInv, Types
    <3> QED BY <3>1, <3>2 DEF DefinitionType
  <2>2. \A r \in Runs : run[r].status \in Active \cup Terminal \cup {"none"}
    BY DEF BaseInv, Types, RunType
  <2>3. queued \subseteq Runs /\ \A w \in Workers : worker[w].job.run \in 0..created
    <3>1. 1..created \subseteq Runs /\ 1..created \subseteq 0..created /\ 0 \in 0..created
      BY Constants DEF BaseInv, Types, Runs
    <3>2. queued \subseteq Runs
      BY <3>1 DEF BaseInv, JobInv
    <3>3. ASSUME NEW w \in Workers PROVE worker[w].job.run \in 0..created
      <4>1. CASE worker[w].pc = "idle"
        BY <3>1, <4>1 DEF BaseInv, JobInv, NoJob
      <4>2. CASE worker[w].pc # "idle"
        BY <3>1, <4>2 DEF BaseInv, JobInv
      <4> QED BY <4>1, <4>2
    <3> QED BY <3>2, <3>3
  <2> QED BY <2>1, <2>2, <2>3 DEF BaseInv, Types, TypeOK
<1> QED BY BaseHolds, <1>1, PTL

-----------------------------------------------------------------------------
(* The runs.                                                               *)

\* No run is created, none becomes active again, and none changes its slot.
RunsGoOn ==
    /\ created' = created
    /\ \A r \in Runs : /\ run'[r].slot = run[r].slot
                       /\ run'[r].status \in Active => run[r].status \in Active
                       /\ r > created => run'[r] = run[r]

LEMMA RunChanges ==
    ASSUME BaseInv, [Next]_vars
    PROVE  RunsGoOn \/ \E f \in Launchers : Create(f)
<1>1. run \in [Runs -> RunType]
  BY DEF BaseInv, Types
<1>2. ASSUME UNCHANGED <<run, created>> PROVE RunsGoOn
  BY <1>2 DEF RunsGoOn
<1>3. ASSUME NEW r \in 1..created, NEW status \in Terminal, run' = Settle(r, status),
             created' = created
      PROVE  RunsGoOn
  <2>1. r \in Runs /\ ~(r > created)
    BY Constants DEF BaseInv, Types, Runs
  <2>2. status \notin Active
    BY DEF Active, Terminal
  <2>3. CASE run' = run
    BY <1>3, <2>3, <1>2
  <2>4. CASE run' = [run EXCEPT ![r].status = status]
    <3>1. run'[r].status = status /\ run'[r].slot = run[r].slot
      BY <1>1, <2>1, <2>4 DEF RunType
    <3>2. \A q \in Runs : q # r => run'[q] = run[q]
      BY <1>1, <2>4 DEF RunType
    <3> QED BY <1>3, <2>1, <2>2, <3>1, <3>2 DEF RunsGoOn
  <2> QED BY <1>3, <2>3, <2>4 DEF Settle
<1>4. ASSUME NEW f \in Fibers, Mark(f) \/ Fail(f) PROVE RunsGoOn
  <2>1. fiber[f].run \in 1..created /\ created' = created
    BY <1>4 DEF Mark, Fail, At, BaseInv, FiberInv, Fine
  <2>2. Mark(f) => Outcome[fiber[f].note] \in Terminal
    BY DEF Mark, At, BaseInv, FiberInv, Fine, Outcome, Ended, Terminal
  <2>3. "failed" \in Terminal
    BY DEF Terminal
  <2> QED BY <1>3, <1>4, <2>1, <2>2, <2>3 DEF Mark, Fail
<1>5. ASSUME Retire \/ CancelRun PROVE RunsGoOn
  <2>1. "reactor" \in Fibers /\ "cancel" \in Fibers
    BY DEF Fibers
  <2>2. /\ Retire => fiber["reactor"].run \in 1..created
        /\ CancelRun => fiber["cancel"].run \in 1..created
    BY <2>1 DEF Retire, CancelRun, At, BaseInv, FiberInv, Fine
  <2>3. "interrupted" \in Terminal /\ "cancelled" \in Terminal
    BY DEF Terminal
  <2> QED BY <1>3, <1>5, <2>2, <2>3 DEF Retire, CancelRun
<1>6. ASSUME NEW f \in Launchers, Start(f) PROVE RunsGoOn
  <2> DEFINE r == fiber[f].run
  <2>1. created' = created /\ r \in 1..created
    BY <1>6 DEF Start, At, BaseInv, FiberInv, Fine, Fibers
  <2>2. r \in Runs /\ ~(r > created)
    BY <2>1, Constants DEF BaseInv, Types, Runs
  <2>3. CASE run' = run
    BY <2>1, <2>3, <1>2
  <2>4. CASE run[r].status = "pending" /\ run' = [run EXCEPT ![r].status = "running"]
    <3>1. run'[r].slot = run[r].slot /\ run[r].status \in Active
      BY <1>1, <2>2, <2>4 DEF RunType, Active
    <3>2. \A q \in Runs : q # r => run'[q] = run[q]
      BY <1>1, <2>4 DEF RunType
    <3> QED BY <2>1, <2>2, <3>1, <3>2 DEF RunsGoOn
  <2> QED BY <1>6, <2>3, <2>4 DEF Start
<1>7. ASSUME NEW w \in Workers, Record(w) PROVE RunsGoOn
  <2> DEFINE r == worker[w].job.run
  <2>1. created' = created /\ r \in 1..created
    BY <1>7 DEF Record, BaseInv, JobInv
  <2>2. r \in Runs /\ ~(r > created)
    BY <2>1, Constants DEF BaseInv, Types, Runs
  <2>3. CASE run' = run
    BY <2>1, <2>3, <1>2
  <2>4. CASE run' = [run EXCEPT ![r].evaluated = TRUE]
    <3>1. run'[r].slot = run[r].slot /\ run'[r].status = run[r].status
      BY <1>1, <2>2, <2>4 DEF RunType
    <3>2. \A q \in Runs : q # r => run'[q] = run[q]
      BY <1>1, <2>4 DEF RunType
    <3> QED BY <2>1, <2>2, <3>1, <3>2 DEF RunsGoOn
  <2> QED BY <1>7, <2>3, <2>4 DEF Record
<1>8. "pass" \in Fibers /\ "now" \in Fibers /\ "reactor" \in Fibers
      /\ "pass" \in Launchers /\ "now" \in Launchers
  BY DEF Fibers, Launchers
<1>9. ASSUME NEW f \in Launchers, Launch(f) PROVE RunsGoOn \/ Create(f)
  <2>1. f \in Fibers
    BY DEF Fibers
  <2> QED BY <1>2, <1>4, <1>6, <1>9, <2>1
          DEF Launch, ReadActive, ReadPending, Count, CheckRun, Dispatch, StopLoop, Disable,
              rowVars
<1>10. CASE PassStep
  BY <1>2, <1>4, <1>8, <1>9, <1>10
     DEF PassStep, PassStarts, InterruptRun, GoesOn, ListDue, Skip, Advance, rowVars
<1>11. CASE ReactorStep
  BY <1>2, <1>4, <1>5, <1>8, <1>11
     DEF ReactorStep, Recover, StopLoop, Disable, GoesOn, rowVars
<1>12. CASE NowStep
  BY <1>2, <1>8, <1>9, <1>12 DEF NowStep, Restart
<1>13. CASE UserStep
  BY <1>2, <1>5, <1>13 DEF UserStep, EditSaves, InterruptRun, Archive, rowVars
<1>14. ASSUME NEW w \in Workers, Work(w) PROVE RunsGoOn
  BY <1>2, <1>7, <1>14 DEF Work, TakeJob, Answer, DisableOnMatch, rowVars
<1>15. CASE FindsOverdue \/ Hears \/ RunNow \/ EditStarts \/ CancelStarts \/ Crash
              \/ SkipFails \/ \E f \in Fibers : StatementFails(f)
  BY <1>2, <1>15 DEF FindsOverdue, Hears, RunNow, EditStarts, CancelStarts, Crash, SkipFails,
                     StatementFails, rowVars
<1>16. CASE ThreadStep
  BY <1>2, <1>16 DEF ThreadStep, UserSends, UserTurnEnds, QueuedIsSent, TurnStarts,
                     TurnEnds, rowVars
<1>17. CASE UNCHANGED vars
  BY <1>2, <1>17 DEF vars
<1> QED BY <1>10, <1>11, <1>12, <1>13, <1>14, <1>15, <1>16, <1>17 DEF Next

LEMMA RunStep ==
    ASSUME BaseInv, BaseInv', RunInv, [Next]_vars
    PROVE  RunInv'
<1>1. created \in Nat
  BY Constants DEF BaseInv, Types
<1>2. CASE RunsGoOn
  <2>1. SlotInv'
    BY <1>2 DEF RunInv, SlotInv, RunsGoOn
  <2>2. FreshRuns'
    BY <1>2 DEF RunInv, FreshRuns, RunsGoOn
  <2>3. OneActive'
    BY <1>2 DEF RunInv, OneActive, RunsGoOn, ActiveRuns
  <2> QED BY <2>1, <2>2, <2>3 DEF RunInv
<1>3. ASSUME NEW f \in Launchers, Create(f), ~RunsGoOn PROVE RunInv'
  <2> DEFINE slot == IF f = "pass" THEN fiber[f].def.next ELSE 0
             new == [status |-> "pending", policy |-> fiber[f].def.policy,
                     slot |-> slot, evaluated |-> FALSE]
  <2>1. /\ Inserted(slot) /\ created' = created + 1
        /\ run' = [run EXCEPT ![created'] = new]
    BY <1>3 DEF Create, RunsGoOn
  <2>2. /\ ActiveRuns = {}
        /\ slot = 0 \/ \A r \in 1..created : run[r].slot # slot
    BY <2>1 DEF Inserted, Recorded
  <2>3. new.slot = slot
    OBVIOUS
  <2> HIDE DEF new, slot
  <2>4. /\ created' \in Runs /\ run'[created'] = new
        /\ \A r \in Runs : r # created' => run'[r] = run[r]
    BY <1>1, <2>1, Constants DEF BaseInv, Types, Runs
  <2>5. \A r \in Runs : r <= created' <=> r = created' \/ r \in 1..created
    BY <1>1, <2>1 DEF Runs
  <2>6. SlotInv'
    <3> SUFFICES ASSUME NEW r \in Runs, NEW q \in Runs, run'[r].slot # 0,
                        run'[r].slot = run'[q].slot, r <= created', q <= created'
                 PROVE  r = q
      BY DEF SlotInv
    <3>1. CASE r = created' /\ q # created'
      BY <2>2, <2>3, <2>4, <2>5, <3>1
    <3>2. CASE q = created' /\ r # created'
      BY <2>2, <2>3, <2>4, <2>5, <3>2
    <3>3. CASE r # created' /\ q # created'
      <4>1. r <= created /\ q <= created
        BY <1>1, <2>5, <3>3
      <4> QED BY <2>4, <3>3, <4>1 DEF RunInv, SlotInv
    <3> QED BY <3>1, <3>2, <3>3
  <2>7. FreshRuns'
    <3> SUFFICES ASSUME NEW r \in Runs, r > created' PROVE run'[r] = NoRun
      BY DEF FreshRuns
    <3>1. r # created' /\ r > created
      BY <1>1, <2>1 DEF Runs
    <3> QED BY <2>4, <3>1 DEF RunInv, FreshRuns
  <2>8. OneActive'
    <3>1. \A r \in Runs : run'[r].status \in Active => r = created'
      BY <2>2, <2>4 DEF ActiveRuns
    <3> QED BY <3>1 DEF OneActive, ActiveRuns
  <2> QED BY <2>6, <2>7, <2>8 DEF RunInv
<1> QED BY <1>2, <1>3, RunChanges

LEMMA RunsHold == Spec => [](BaseInv /\ RunInv)
<1>1. Init => RunInv
  <2> SUFFICES ASSUME Init PROVE RunInv
    OBVIOUS
  <2>1. NoRun.status \notin Active /\ NoRun.slot = 0
    BY DEF NoRun, Active
  <2> QED BY <2>1 DEF Init, RunInv, SlotInv, FreshRuns, OneActive, ActiveRuns
<1>2. BaseInv /\ RunInv /\ [Next]_vars => (BaseInv /\ RunInv)'
  BY BaseStep, RunStep
<1> QED BY BaseInit, <1>1, <1>2, PTL DEF Spec

\* The thread has one active run at a time, whatever the scheduler, "run now" and the
\* user do: a run is created only when the statement that inserts it finds none active.
THEOREM OneRun == Spec => []OneRunAtATime
<1>1. BaseInv /\ RunInv => OneRunAtATime
  <2> SUFFICES ASSUME RunInv PROVE OneRunAtATime
    OBVIOUS
  <2>1. CASE ActiveRuns = {}
    BY <2>1, FS_EmptySet DEF OneRunAtATime
  <2>2. CASE ActiveRuns # {}
    <3>1. PICK r : ActiveRuns = {r}
      BY <2>2 DEF RunInv, OneActive
    <3>2. Cardinality({r}) = 1
      BY FS_Singleton
    <3> QED BY <3>1, <3>2 DEF OneRunAtATime
  <2> QED BY <2>1, <2>2
<1> QED BY RunsHold, <1>1, PTL

\* No slot of the schedule has two runs, so none is sent to the thread twice.
THEOREM SlotOnce == Spec => []SlotIsSentOnce
<1>1. BaseInv /\ RunInv => SlotIsSentOnce
  <2> SUFFICES ASSUME BaseInv, RunInv, NEW r \in Runs, NEW q \in Runs,
                      run[r].slot # 0, run[r].slot = run[q].slot
               PROVE  r = q
    BY DEF SlotIsSentOnce
  <2>1. \A p \in Runs : run[p].slot # 0 => p <= created
    BY Constants DEF RunInv, FreshRuns, NoRun, BaseInv, Types, Runs
  <2> QED BY <2>1 DEF RunInv, SlotInv
<1> QED BY RunsHold, <1>1, PTL

-----------------------------------------------------------------------------
(* The moments at which the automation was written, and the stop checks.   *)

\* updated_at stays, or is set to a moment that no one has written or will write.
StampFresh == \/ definition'.stamp = definition.stamp /\ rewound' = rewound
              \/ /\ Unseen(definition'.stamp) /\ Outstanding' \subseteq Outstanding
                 /\ \A f \in Fibers : fiber[f].now # definition'.stamp
FiberCalm(f) ==
    Writes(fiber'[f]) => /\ Writes(fiber[f]) /\ fiber'[f].now = fiber[f].now
                         /\ HasWritten(f, fiber'[f]) <=> HasWritten(f, fiber[f])

LEMMA StampsKept ==
    ASSUME StampInv, NewChecks, saves' = saves, StampFresh,
           \A f \in Fibers : FiberCalm(f)
    PROVE  StampInv'
<1>1. ~rewound' => CurrentSince(definition.stamp)'
  BY DEF StampInv, NewChecks, StampFresh, Unseen, CurrentSince
<1>2. \A f, g \in Fibers : Writes(fiber'[f]) /\ Writes(fiber'[g]) /\ f # g
                              => fiber'[f].now # fiber'[g].now
  BY DEF StampInv, FiberCalm
<1>3. ASSUME NEW f \in Fibers, Writes(fiber'[f]), ~HasWritten(f, fiber'[f])
      PROVE  Unseen(fiber[f].now)'
  <2>1. Writes(fiber[f]) /\ fiber'[f].now = fiber[f].now /\ ~HasWritten(f, fiber[f])
    BY <1>3 DEF FiberCalm
  <2>2. Unseen(fiber[f].now)
    BY <2>1 DEF StampInv
  <2> QED BY <2>1, <2>2 DEF Unseen, NewChecks, StampFresh
<1> QED BY <1>1, <1>2, <1>3 DEF StampInv, Writes, HasWritten, Capped

\* What the fibers' moves mean for the moments they are about to write.
LEMMA CalmMoves ==
    ASSUME BaseInv, NEW f \in Fibers,
           \/ Rest(f) \/ Done(f)
           \/ \E pc \in {"list", "start", "check", "dispatch", "stop", "fail", "disable", "archive",
                         "interrupt"} : Goto(f, pc)
           \/ \E pc \in {"mark", "retire", "interrupt", "cancel", "archive"}, stage \in Stages,
                 r \in Nat, note \in Notes : Reading(f, pc, stage, r, note)
           \/ \E note \in Notes :
                 fiber' = [fiber EXCEPT ![f].pc = "stop", ![f].note = note]
    PROVE  \A g \in Fibers : FiberCalm(g)
<1>1. fiber \in [Fibers -> FiberType]
  BY DEF BaseInv, Types
<1>2. \A g \in Fibers : g # f => fiber'[g] = fiber[g]
  BY <1>1 DEF Rest, Done, Goto, Reading
<1>3. ~Writes(fiber'[f])
  <2>1. CASE Rest(f) \/ Done(f)
    BY <1>1, <2>1 DEF Rest, Done, Writes, Idle
  <2>2. CASE \E pc \in {"list", "start", "check", "dispatch", "stop", "fail", "disable",
                        "archive", "interrupt"} : Goto(f, pc)
    BY <1>1, <2>2 DEF Goto, Writes, FiberType
  <2>3. CASE \E pc \in {"mark", "retire", "interrupt", "cancel", "archive"}, stage \in Stages,
                r \in Nat, note \in Notes : Reading(f, pc, stage, r, note)
    BY <1>1, <2>3 DEF Reading, Writes, Idle
  <2>4. CASE \E note \in Notes :
                fiber' = [fiber EXCEPT ![f].pc = "stop", ![f].note = note]
    BY <1>1, <2>4 DEF Writes, FiberType
  <2> QED BY <2>1, <2>2, <2>3, <2>4
<1> QED BY <1>2, <1>3 DEF FiberCalm

\* A fiber begins: it will write the moment at which it did.
LEMMA StampBegun ==
    ASSUME BaseInv, StampInv, NEW f \in Fibers, NEW x,
           fiber' = [fiber EXCEPT ![f] = x], x.now = Now,
           UNCHANGED <<definition, created, saves, rewound>>, UNCHANGED checkVars
    PROVE  StampInv'
<1>1. /\ fiber'[f] = x /\ \A g \in Fibers : g # f => fiber'[g] = fiber[g]
  BY DEF BaseInv, Types
<1>2. Unseen(Now) /\ \A g \in Fibers : Now # fiber[g].now
  BY NowIsFresh DEF BaseInv
<1>3. Outstanding' = Outstanding
  BY ChecksKept DEF BaseInv
<1>4. ~rewound' => CurrentSince(definition.stamp)'
  BY <1>3 DEF StampInv, CurrentSince
<1>5. ASSUME NEW g \in Fibers, NEW h \in Fibers, Writes(fiber'[g]), Writes(fiber'[h]), g # h
      PROVE  fiber'[g].now # fiber'[h].now
  BY <1>1, <1>2, <1>5 DEF StampInv
<1>6. ASSUME NEW g \in Fibers, Writes(fiber'[g]), ~HasWritten(g, fiber'[g])
      PROVE  Unseen(fiber[g].now)'
  <2>1. CASE g = f
    BY <1>1, <1>2, <1>3, <2>1 DEF Unseen
  <2>2. CASE g # f
    <3>1. fiber'[g] = fiber[g] /\ (Unseen(fiber[g].now)' <=> Unseen(fiber[g].now))
      BY <1>1, <1>3, <2>2 DEF Unseen
    <3> QED BY <1>6, <3>1 DEF StampInv
  <2> QED BY <2>1, <2>2
<1> QED BY <1>4, <1>5, <1>6 DEF StampInv, Writes, HasWritten, Capped

\* A fiber writes the moment it has kept: for the first time, and then no check was
\* asked for at it, or again, and then the automation is rewound unless it still shows
\* that moment.
LEMMA StampWritten ==
    ASSUME BaseInv, StampInv, NEW f \in Fibers, Writes(fiber[f]), NEW x,
           fiber' = [fiber EXCEPT ![f] = x], definition'.stamp = fiber[f].now,
           UNCHANGED <<created, checkVars>>,
           Writes(x) => HasWritten(f, x) /\ x.now = fiber[f].now,
           \/ ~HasWritten(f, fiber[f])
           \/ /\ saves' = saves
              /\ ~rewound' => ~rewound /\ definition.stamp = fiber[f].now
    PROVE  StampInv'
<1> DEFINE s == fiber[f].now
<1>1. /\ fiber'[f] = x /\ \A g \in Fibers : g # f => fiber'[g] = fiber[g]
  BY DEF BaseInv, Types
<1>2. Outstanding' = Outstanding
  BY ChecksKept DEF BaseInv
<1>3. ~rewound' => CurrentSince(definition.stamp)'
  <2>1. CASE ~HasWritten(f, fiber[f])
    <3>1. Unseen(s)
      BY <2>1 DEF StampInv
    <3> QED BY <1>2, <3>1 DEF CurrentSince, Unseen
  <2>2. CASE HasWritten(f, fiber[f])
    BY <1>2, <2>2 DEF StampInv, CurrentSince
  <2> QED BY <2>1, <2>2
<1>4. ASSUME NEW g \in Fibers, NEW h \in Fibers, Writes(fiber'[g]), Writes(fiber'[h]), g # h
      PROVE  fiber'[g].now # fiber'[h].now
  BY <1>1, <1>4 DEF StampInv
<1>5. ASSUME NEW g \in Fibers, Writes(fiber'[g]), ~HasWritten(g, fiber'[g])
      PROVE  Unseen(fiber[g].now)'
  <2>1. g # f
    BY <1>1, <1>5
  <2>2. fiber'[g] = fiber[g] /\ fiber[g].now # s /\ Unseen(fiber[g].now)
    BY <1>1, <1>5, <2>1 DEF StampInv
  <2> QED BY <1>2, <2>2 DEF Unseen
<1> QED BY <1>3, <1>4, <1>5 DEF StampInv, Writes, HasWritten, Capped

LEMMA StampStep ==
    ASSUME BaseInv, StampInv, [Next]_vars
    PROVE  StampInv'
<1>0. CASE UNCHANGED vars
  BY <1>0 DEF vars, StampInv, CurrentSince, Unseen, Outstanding, Writes, HasWritten, Capped
<1> SUFFICES ASSUME Next PROVE StampInv'
  BY <1>0
<1>1. NewChecks
  BY ChecksStep
<1>2. /\ Unseen(Now) /\ \A f \in Fibers : Now # fiber[f].now
      /\ "pass" \in Fibers /\ "now" \in Fibers /\ "reactor" \in Fibers /\ "edit" \in Fibers
      /\ "cancel" \in Fibers /\ "pass" \in Launchers /\ "now" \in Launchers
      /\ \A f \in Fibers : fiber[f] \in FiberType /\ Fine(f, fiber[f])
      /\ definition \in DefinitionType
      /\ \A f \in Launchers : f \in Fibers
      /\ fiber \in [Fibers -> FiberType]
  BY NowIsFresh DEF BaseInv, Fibers, Launchers, Types, FiberInv
<1>3. ASSUME UNCHANGED <<definition, saves, rewound>>, \A f \in Fibers : FiberCalm(f)
      PROVE  StampInv'
  BY <1>1, <1>3, StampsKept DEF StampFresh
<1>4. ASSUME UNCHANGED <<definition, saves, rewound, fiber>> PROVE StampInv'
  BY <1>3, <1>4 DEF FiberCalm
<1>5. ASSUME NEW w \in Workers, Work(w) PROVE StampInv'
  <2>1. CASE DisableOnMatch(w) /\ Unchanged(worker[w].job)
    <3>1. /\ definition' = [definition EXCEPT !.enabled = FALSE, !.next = 0, !.stamp = Now]
          /\ saves' = saves /\ fiber' = fiber
      BY <2>1 DEF DisableOnMatch
    <3>2. definition'.stamp = Now
      BY <1>2, <3>1 DEF DefinitionType
    <3>3. Outstanding' \subseteq Outstanding
      <4>1. /\ worker[w].pc # "idle" /\ jobs' = jobs /\ worker'[w].job = worker[w].job
            /\ \A v \in Workers : v # w => worker'[v] = worker[v]
        BY <2>1 DEF DisableOnMatch, BaseInv, Types
      <4> QED BY <4>1 DEF Outstanding
    <3>4. StampFresh
      BY <1>2, <3>2, <3>3 DEF StampFresh
    <3> QED BY <1>1, <3>1, <3>4, StampsKept DEF FiberCalm
  <2>2. CASE ~(DisableOnMatch(w) /\ Unchanged(worker[w].job))
    BY <1>4, <1>5, <2>2
       DEF Work, TakeJob, Answer, DisableOnMatch, Record, rowVars, historyVars, stampVars
  <2> QED BY <2>1, <2>2
<1>6. CASE ThreadStep
  BY <1>4, <1>6 DEF ThreadStep, UserSends, UserTurnEnds, QueuedIsSent, TurnStarts, TurnEnds,
                    rowVars, historyVars, stampVars
<1>7. CASE Crash
  <2>1. \A f \in Fibers : ~Writes(fiber'[f])
    BY <1>7 DEF Crash, Writes, Idle
  <2> QED BY <1>3, <1>7, <2>1 DEF Crash, FiberCalm, rowVars, stampVars
<1>8. ASSUME NEW f \in Fibers, Disable(f) \/ (Archive /\ f = "cancel") PROVE StampInv'
  <2>1. definition'.stamp = Now
    BY <1>2, <1>8 DEF Disable, Archive, DefinitionType
  <2>2. Outstanding' = Outstanding /\ saves' = saves
    BY <1>8, ChecksKept DEF Disable, Archive, BaseInv, historyVars, stampVars
  <2>3. StampFresh
    BY <1>2, <2>1, <2>2 DEF StampFresh
  <2>4. \A g \in Fibers : FiberCalm(g)
    BY <1>8, CalmMoves DEF Disable, Archive
  <2> QED BY <1>1, <2>2, <2>3, <2>4, StampsKept
<1>9. ASSUME NEW f \in Fibers, Mark(f) \/ Fail(f) \/ StopLoop(f) \/ InterruptRun(f)
      PROVE  StampInv'
  <2>1. UNCHANGED <<definition, saves, rewound>>
    BY <1>9 DEF Mark, Fail, StopLoop, InterruptRun, rowVars, historyVars, stampVars
  <2>2. CASE Mark(f)
    <3>1. run'[fiber[f].run].status \in Notes
      <4>1. fiber[f].run \in 1..created /\ Outcome[fiber[f].note] \in Terminal
        BY <1>2, <2>2 DEF Mark, At, Fine, Outcome, Ended, Terminal
      <4>2. run'[fiber[f].run].status \in Terminal
        BY <2>2, <4>1, Settled DEF Mark, BaseInv
      <4> QED BY <4>2 DEF Notes
    <3>2. \A g \in Fibers : FiberCalm(g)
      BY <2>2, <3>1, CalmMoves DEF Mark
    <3> QED BY <1>3, <2>1, <3>2
  <2>3. CASE Fail(f)
    <3>1. "failed" \in Notes
      BY DEF Notes, Terminal
    <3>2. \A g \in Fibers : FiberCalm(g)
      BY <2>3, <3>1, CalmMoves DEF Fail
    <3> QED BY <1>3, <2>1, <3>2
  <2>4. CASE StopLoop(f) \/ InterruptRun(f)
    <3>1. \A g \in Fibers : FiberCalm(g)
      BY <2>4, CalmMoves DEF StopLoop, InterruptRun
    <3> QED BY <1>3, <2>1, <3>1
  <2> QED BY <1>9, <2>2, <2>3, <2>4
<1>10. ASSUME Retire \/ CancelRun PROVE StampInv'
  <2>1. \A g \in Fibers : FiberCalm(g)
    BY <1>2, <1>10, CalmMoves DEF Retire, CancelRun
  <2> QED BY <1>3, <1>10, <2>1 DEF Retire, CancelRun, historyVars, stampVars
<1>11. ASSUME FindsOverdue \/ PassStarts \/ Hears \/ Recover \/ CancelStarts
              \/ GoesOn("pass") \/ GoesOn("reactor")
       PROVE  StampInv'
  <2>1. /\ ActiveRuns \subseteq Nat /\ Ended \subseteq Notes /\ 0 \in Nat
        /\ "failed" \in Notes /\ "none" \in Notes
        /\ {"react", "reconcile", "cancel", "delete"} \subseteq Stages
    BY DEF ActiveRuns, Runs, Notes, Terminal, Stages
  <2>2. CASE FindsOverdue \/ Hears \/ CancelStarts
    <3>1. \E f \in Fibers, pc \in {"mark", "retire", "interrupt", "cancel", "archive"},
             stage \in Stages, r \in Nat, note \in Notes : Reading(f, pc, stage, r, note)
      BY <1>2, <2>1, <2>2 DEF FindsOverdue, Hears, CancelStarts
    <3>2. \A g \in Fibers : FiberCalm(g)
      BY <3>1, CalmMoves
    <3> QED BY <1>3, <2>2, <3>2 DEF FindsOverdue, Hears, CancelStarts, rowVars, historyVars, stampVars
  <2>3. CASE PassStarts \/ Recover \/ GoesOn("pass") \/ GoesOn("reactor")
    <3>1. \E f \in Fibers :
             \/ Rest(f) \/ Goto(f, "list")
             \/ \E pc \in {"mark", "retire", "interrupt", "cancel", "archive"},
                   stage \in Stages, r \in Nat, note \in Notes : Reading(f, pc, stage, r, note)
      BY <1>2, <2>1, <2>3 DEF PassStarts, Recover, GoesOn, Requeue
    <3>2. \A g \in Fibers : FiberCalm(g)
      BY <3>1, CalmMoves
    <3> QED BY <1>3, <2>3, <3>2 DEF PassStarts, Recover, GoesOn, rowVars, historyVars, stampVars
  <2> QED BY <1>11, <2>2, <2>3
<1>12. ASSUME ListDue \/ RunNow \/ EditStarts PROVE StampInv'
  <2>1. UNCHANGED <<definition, created, saves, rewound>> /\ UNCHANGED checkVars
    BY <1>12 DEF ListDue, RunNow, EditStarts, rowVars, historyVars, stampVars
  <2>2. CASE Rest("pass")
    BY <1>2, <1>3, <2>1, <2>2, CalmMoves
  <2>3. ASSUME NEW f \in Launchers, NEW pc \in {"active", "disable"}, Launching(f, pc)
        PROVE  StampInv'
    <3> DEFINE x == [Idle EXCEPT !.pc = pc, !.stage = "launch", !.def = Snapshot, !.now = Now]
    <3>1. fiber' = [fiber EXCEPT ![f] = x] /\ x.now = Now /\ x.pc = pc
      BY <2>3 DEF Launching, Idle
    <3> HIDE DEF x
    <3> QED BY <1>2, <2>1, <3>1, StampBegun
  <2>4. CASE EditStarts
    <3> DEFINE x == [Idle EXCEPT !.pc = "save", !.now = Now, !.def = Snapshot]
    <3>1. fiber' = [fiber EXCEPT !["edit"] = x] /\ x.now = Now /\ x.pc = "save"
      BY <2>4 DEF EditStarts, Idle
    <3> HIDE DEF x
    <3> QED BY <1>2, <2>1, <3>1, StampBegun
  <2> QED BY <1>2, <1>12, <2>2, <2>3, <2>4 DEF ListDue, RunNow
<1>13. ASSUME NEW f \in Launchers, ReadActive(f) \/ ReadPending(f) \/ Create(f) \/ Start(f)
                                      \/ CheckRun(f) \/ Dispatch(f)
                      \/ (Skip /\ f = "pass") \/ (SkipFails /\ f = "pass")
       PROVE  StampInv'
  <2>1. UNCHANGED <<definition, saves, rewound>> /\ f \in Fibers
    BY <1>2, <1>13 DEF ReadActive, ReadPending, Create, Start, CheckRun, Dispatch, Skip, SkipFails, rowVars,
                       historyVars, stampVars
  <2>2. CASE Rest(f) \/ \E pc \in {"check", "fail", "dispatch"} : Goto(f, pc)
    BY <1>3, <2>1, <2>2, CalmMoves
  <2>3. ASSUME \A g \in Fibers : g # f => fiber'[g] = fiber[g],
               fiber'[f].pc \in {"pending", "restart", "create", "skip", "advance", "count"},
               Writes(fiber[f]), fiber'[f].now = fiber[f].now,
               HasWritten(f, fiber'[f]) <=> HasWritten(f, fiber[f])
        PROVE  StampInv'
    <3>1. \A g \in Fibers : FiberCalm(g)
      BY <2>3 DEF FiberCalm
    <3> QED BY <1>3, <2>1, <3>1
  <2>4. CASE ReadActive(f)
    BY <1>2, <2>1, <2>3, <2>4 DEF ReadActive, At, Writes, HasWritten, FiberType
  <2>5. CASE ReadPending(f) /\ ~Rest(f)
    BY <1>2, <2>1, <2>3, <2>5 DEF ReadPending, Goto, At, Writes, HasWritten, FiberType
  <2>6. CASE Create(f) /\ ~Rest(f)
    BY <1>2, <2>1, <2>3, <2>6 DEF Create, Goto, At, Writes, HasWritten, FiberType
  <2>7. CASE Skip /\ f = "pass"
    BY <1>2, <2>1, <2>3, <2>7 DEF Skip, Goto, At, Writes, HasWritten, FiberType
  <2> QED BY <1>13, <2>2, <2>4, <2>5, <2>6, <2>7 DEF Start, CheckRun, Dispatch, SkipFails
<1>14. ASSUME NEW f \in Launchers, Count(f) \/ (Restart /\ f = "now") \/ (Advance /\ f = "pass")
       PROVE  StampInv'
  <2>1. PICK x : /\ fiber' = [fiber EXCEPT ![f] = x]
                 /\ Writes(x) => HasWritten(f, x) /\ x.now = fiber[f].now
    <3>1. CASE Count(f)
      <4> DEFINE x == [fiber[f] EXCEPT !.pc = "start", !.now = 0, !.def = NoDefinition,
                                       !.note = "none"]
      <4>1. fiber' = [fiber EXCEPT ![f] = x] /\ x.pc = "start"
        BY <1>2, <3>1 DEF Count, FiberType
      <4> QED BY <4>1 DEF Writes
    <3>2. CASE Restart /\ f = "now"
      <4> DEFINE x == [fiber[f] EXCEPT !.pc = "create"]
      <4>1. fiber' = [fiber EXCEPT ![f] = x] /\ fiber[f].pc = "restart"
        BY <3>2 DEF Restart, Goto, At
      <4>2. x.pc = "create" /\ x.now = fiber[f].now /\ x.def = fiber[f].def
        BY <1>2 DEF FiberType
      <4>3. Capped(x.def)
        BY <1>2, <4>1, <4>2 DEF Fine
      <4> HIDE DEF x
      <4> QED BY <3>2, <4>1, <4>2, <4>3 DEF HasWritten
    <3>3. CASE Advance /\ f = "pass"
      <4>1. CASE Rest(f)
        <5>1. fiber' = [fiber EXCEPT ![f] = Idle] /\ ~Writes(Idle)
          BY <4>1 DEF Rest, Writes, Idle
        <5> QED BY <5>1
      <4>2. CASE ~Rest(f)
        <5> DEFINE x == [fiber[f] EXCEPT !.pc = "count"]
        <5>1. fiber' = [fiber EXCEPT ![f] = x]
          BY <3>3, <4>2 DEF Advance, Goto
        <5>2. x.pc = "count" /\ x.now = fiber[f].now
          BY <1>2 DEF FiberType
        <5> HIDE DEF x
        <5>3. HasWritten(f, x)
          BY <3>3, <5>2 DEF HasWritten
        <5> QED BY <5>1, <5>2, <5>3
      <4> QED BY <4>1, <4>2
    <3> QED BY <1>14, <3>1, <3>2, <3>3
  <2>2. /\ definition'.stamp = fiber[f].now /\ UNCHANGED <<checkVars, saves, created>>
    BY <1>2, <1>14 DEF Count, Restart, Advance, DefinitionType, historyVars, stampVars
  <2>3. f \in Fibers /\ Writes(fiber[f])
    BY <1>2, <1>14 DEF Count, Restart, Advance, At, Writes
  <2>4. \/ ~HasWritten(f, fiber[f])
        \/ /\ saves' = saves
           /\ ~rewound' => ~rewound /\ definition.stamp = fiber[f].now
    <3>1. CASE Count(f)
      <4>1. CASE Written(f)
        BY <2>2, <3>1, <4>1 DEF Count
      <4>2. CASE ~Written(f)
        BY <4>2 DEF Written, HasWritten
      <4> QED BY <4>1, <4>2
    <3>2. CASE (Restart /\ f = "now") \/ (Advance /\ f = "pass")
      BY <3>2 DEF Restart, Advance, At, HasWritten
    <3> QED BY <1>14, <3>1, <3>2
  <2> QED BY <2>1, <2>2, <2>3, <2>4, StampWritten
<1>15. ASSUME EditSaves PROVE StampInv'
  <2>1. /\ fiber' = [fiber EXCEPT !["edit"] = Idle] /\ ~Writes(Idle)
        /\ fiber["edit"].pc = "save" /\ UNCHANGED <<created, checkVars>>
    BY <1>15 DEF EditSaves, Rest, At, Writes, Idle
  <2>2. definition'.stamp = fiber["edit"].now
    <3>1. fiber["edit"].def \in DefinitionType
      BY <1>2 DEF FiberType
    <3> QED BY <1>15, <3>1 DEF EditSaves, DefinitionType
  <2>3. ~HasWritten("edit", fiber["edit"])
    BY DEF HasWritten
  <2> QED BY <1>2, <2>1, <2>2, <2>3, StampWritten DEF Writes
<1>16. ASSUME NEW f \in Launchers, Launch(f) PROVE StampInv'
  BY <1>2, <1>8, <1>9, <1>13, <1>14, <1>16 DEF Launch
<1>17. CASE PassStep
  BY <1>2, <1>9, <1>11, <1>12, <1>13, <1>14, <1>16, <1>17 DEF PassStep
<1>18. CASE ReactorStep
  BY <1>2, <1>8, <1>9, <1>10, <1>11, <1>18 DEF ReactorStep
<1>19. CASE NowStep
  BY <1>2, <1>14, <1>16, <1>19 DEF NowStep
<1>20. CASE UserStep
  BY <1>2, <1>8, <1>9, <1>10, <1>15, <1>20 DEF UserStep
<1>21. ASSUME NEW f \in Fibers, StatementFails(f) PROVE StampInv'
  <2>1. \A g \in Fibers : FiberCalm(g)
    BY <1>21, CalmMoves DEF StatementFails
  <2> QED BY <1>3, <1>21, <2>1 DEF StatementFails, rowVars, stampVars
<1> QED BY <1>2, <1>5, <1>6, <1>7, <1>11, <1>12, <1>13, <1>17, <1>18, <1>19, <1>20, <1>21
        DEF Next

\* A stop check that disables the automation has judged it as the user last saved it,
\* however many edits, restarts and launches were under way when it was asked for,
\* unless a launch has put updated_at back since.
THEOREM StaleChecksAreHarmless == Spec => StaleCheckStopsNothing
<1>1. Init => StampInv
  <2> SUFFICES ASSUME Init PROVE StampInv
    OBVIOUS
  <2>1. \A f \in Fibers : ~Writes(fiber[f])
    BY DEF Init, Writes, Idle
  <2>2. Outstanding = {}
    BY DEF Init, Outstanding, Resting
  <2> QED BY <2>1, <2>2 DEF StampInv, CurrentSince
<1>2. BaseInv /\ StampInv /\ [Next]_vars => (BaseInv /\ StampInv)'
  BY BaseStep, StampStep
<1>3. BaseInv /\ StampInv /\ [Next]_vars =>
        [\A w \in Workers :
            DisableOnMatch(w) /\ definition' # definition
               => worker[w].job.saves = saves \/ rewound]_vars
  <2> SUFFICES ASSUME BaseInv, StampInv, NEW w \in Workers, DisableOnMatch(w),
                      definition' # definition, ~rewound
               PROVE  worker[w].job.saves = saves
    OBVIOUS
  <2>1. worker[w].pc = "disable" /\ definition.stamp = worker[w].job.stamp
    BY DEF DisableOnMatch, Unchanged
  <2>2. worker[w].job \in Outstanding
    BY <2>1 DEF Outstanding
  <2> QED BY <2>1, <2>2 DEF StampInv, CurrentSince
<1> QED BY BaseInit, <1>1, <1>2, <1>3, PTL DEF Spec, StaleCheckStopsNothing
=============================================================================
