------------------------- MODULE DrainableWorkerProofs -------------------------
(***************************************************************************)
(* Proofs about DrainableWorker, for any finite set of items, any set of   *)
(* drainers and every choice of faults.                                    *)
(***************************************************************************)
EXTENDS DrainableWorker, FiniteSetTheorems, TLAPS

\* The queue holds each queued item once, and nothing else.
QueueInv ==
    /\ \A k \in 1..Len(queue) : stage[queue[k]] = "queued"
    /\ \A j, k \in 1..Len(queue) : queue[j] = queue[k] => j = k

\* A deferred that is completed, or that finishOne is about to complete, is an
\* old one, or the current one while nothing is outstanding.
Spent(g) == g <= idle /\ (g = idle => outstanding = 0)

WakeInv ==
    /\ \A g \in completed : Spent(g)
    /\ \A i \in Items : \A g \in wake[i] : Spent(g)

\* A drain waits for the current deferred, or for an older one all of whose
\* items have settled.
DrainInv ==
    \A d \in Drainers :
        /\ \A i \in drainer[d].seen : stage[i] # "new"
        /\ drainer[d].pc = "waiting" =>
              /\ drainer[d].gen <= idle
              /\ drainer[d].gen = idle \/ drainer[d].seen \subseteq Settled
        /\ drainer[d].pc = "returned" => drainer[d].seen \subseteq Settled

IInv == TypeOK /\ QueueInv /\ CounterIsExact /\ WakeInv /\ DrainInv

-----------------------------------------------------------------------------
\* Every step keeps the types of the worker's variables.
LEMMA TypeStep == TypeOK /\ QueueInv /\ [Next]_vars => TypeOK'
<1> SUFFICES ASSUME TypeOK, QueueInv, [Next]_vars PROVE TypeOK'
  OBVIOUS
<1> USE DEF TypeOK, Stages
<1>1. ASSUME NEW i \in Items, CountItem(i) PROVE TypeOK'
  BY <1>1 DEF CountItem
<1>2. ASSUME NEW i \in Items, OfferItem(i) PROVE TypeOK'
  <2>1. queue' \in Seq(Items)
    BY SMTT(30), <1>2 DEF OfferItem
  <2>2. stage' \in [Items -> Stages]
    BY <1>2 DEF OfferItem
  <2> QED BY <1>2, <2>1, <2>2 DEF OfferItem
<1>3. CASE Take
  <2>1. Head(queue) \in Items /\ Tail(queue) \in Seq(Items)
    BY <1>3 DEF Take
  <2> QED BY <1>3, <2>1 DEF Take
<1>4. ASSUME NEW i \in Items, Process(i) PROVE TypeOK'
  BY <1>4 DEF Process
<1>5. ASSUME NEW i \in Items, FinishModify(i) PROVE TypeOK'
  <2>1. outstanding' \in Nat
    BY <1>5 DEF FinishModify
  <2>2. wake' \in [Items -> SUBSET Nat]
    BY <1>5 DEF FinishModify
  <2> QED BY <1>5, <2>1, <2>2 DEF FinishModify
<1>6. ASSUME NEW i \in Items, FinishSignal(i) PROVE TypeOK'
  BY <1>6 DEF FinishSignal
<1>7. CASE StopWorker
  BY <1>7 DEF StopWorker
<1>8. CASE ShutdownQueue
  <2>1. stage' \in [Items -> Stages]
    BY <1>8 DEF ShutdownQueue
  <2>2. queue' \in Seq(Items)
    BY <1>8 DEF ShutdownQueue
  <2> QED BY <1>8, <2>1, <2>2 DEF ShutdownQueue
<1>9. ASSUME NEW d \in Drainers, DrainStart(d) PROVE TypeOK'
  BY <1>9 DEF DrainStart
<1>10. ASSUME NEW d \in Drainers, DrainReturn(d) PROVE TypeOK'
  BY <1>10 DEF DrainReturn
<1>11. CASE UNCHANGED vars
  BY <1>11 DEF vars
<1> QED
  BY <1>1, <1>2, <1>3, <1>4, <1>5, <1>6, <1>7, <1>8, <1>9, <1>10, <1>11 DEF Next, Worker

\* Every step keeps the queue and the items' stages in agreement.
LEMMA QueueStep == TypeOK /\ QueueInv /\ [Next]_vars => QueueInv'
<1> SUFFICES ASSUME TypeOK, QueueInv, [Next]_vars PROVE QueueInv'
  OBVIOUS
<1> USE DEF TypeOK, QueueInv
<1>1. ASSUME NEW i \in Items, CountItem(i) PROVE QueueInv'
  BY <1>1 DEF CountItem
<1>2. ASSUME NEW i \in Items, OfferItem(i) PROVE QueueInv'
  <2>1. CASE open
    <3>1. /\ Len(queue') = Len(queue) + 1
          /\ queue'[Len(queue) + 1] = i
          /\ \A k \in 1..Len(queue) : queue'[k] = queue[k]
      BY <1>2, <2>1 DEF OfferItem
    <3>2. \A k \in 1..Len(queue) : queue[k] # i
      BY <1>2 DEF OfferItem
    <3>3. \A k \in 1..Len(queue) : stage'[queue[k]] = "queued"
      BY <1>2, <2>1 DEF OfferItem
    <3>4. stage'[i] = "queued"
      BY <1>2, <2>1 DEF OfferItem
    <3>5. \A k \in 1..Len(queue') : k \in 1..Len(queue) \/ k = Len(queue) + 1
      BY <3>1
    <3>6. \A k \in 1..Len(queue') : stage'[queue'[k]] = "queued"
      BY <3>1, <3>3, <3>4, <3>5
    <3>7. \A j, k \in 1..Len(queue') : queue'[j] = queue'[k] => j = k
      BY <3>1, <3>2, <3>5
    <3> QED BY <3>6, <3>7
  <2>2. CASE ~open
    BY <1>2, <2>2 DEF OfferItem
  <2> QED BY <2>1, <2>2
<1>3. CASE Take
  <2>1. /\ Len(queue') = Len(queue) - 1
        /\ \A k \in 1..Len(queue') : queue'[k] = queue[k + 1]
    BY <1>3 DEF Take
  <2>2. \A k \in 1..Len(queue') : queue[k + 1] # queue[1]
    BY <2>1, <1>3 DEF Take
  <2>3. stage' = [stage EXCEPT ![queue[1]] = "running"]
    BY <1>3 DEF Take
  <2>4. \A k \in 1..Len(queue') : k + 1 \in 1..Len(queue) /\ queue[k + 1] \in Items
    BY <2>1, <1>3 DEF Take
  <2>5. \A k \in 1..Len(queue') : stage'[queue'[k]] = "queued"
    BY <2>1, <2>2, <2>3, <2>4
  <2>6. \A j, k \in 1..Len(queue') : queue'[j] = queue'[k] => j = k
    BY <2>1, <2>4
  <2> QED BY <2>5, <2>6
<1>4. ASSUME NEW i \in Items, Process(i) PROVE QueueInv'
  BY <1>4 DEF Process
<1>5. ASSUME NEW i \in Items, FinishModify(i) PROVE QueueInv'
  BY <1>5 DEF FinishModify
<1>6. ASSUME NEW i \in Items, FinishSignal(i) PROVE QueueInv'
  BY <1>6 DEF FinishSignal
<1>7. CASE StopWorker
  BY <1>7 DEF StopWorker
<1>8. CASE ShutdownQueue
  BY <1>8 DEF ShutdownQueue
<1>9. ASSUME NEW d \in Drainers, DrainStart(d) PROVE QueueInv'
  BY <1>9 DEF DrainStart
<1>10. ASSUME NEW d \in Drainers, DrainReturn(d) PROVE QueueInv'
  BY <1>10 DEF DrainReturn
<1>11. CASE UNCHANGED vars
  BY <1>11 DEF vars
<1> QED
  BY <1>1, <1>2, <1>3, <1>4, <1>5, <1>6, <1>7, <1>8, <1>9, <1>10, <1>11 DEF Next, Worker

-----------------------------------------------------------------------------
\* The set of pending items is finite, so counting it makes sense.
LEMMA PendingFinite == IsFiniteSet(Pending)
BY ItemsAssumption, FS_Subset DEF Pending

\* A step that leaves the set of pending items alone leaves its size alone.
\* The only steps that change it are the two halves that count.
LEMMA CounterStep ==
  TypeOK /\ QueueInv /\ CounterIsExact /\ [Next]_vars => CounterIsExact'
<1> SUFFICES ASSUME TypeOK, QueueInv, CounterIsExact, [Next]_vars PROVE CounterIsExact'
  OBVIOUS
<1> USE DEF TypeOK, CounterIsExact
<1>1. ASSUME NEW i \in Items, CountItem(i) PROVE CounterIsExact'
  <2>1. i \notin Pending /\ Pending' = Pending \cup {i}
    BY <1>1 DEF CountItem, Pending
  <2>2. Cardinality(Pending') = Cardinality(Pending) + 1
    BY <2>1, PendingFinite, FS_AddElement
  <2> QED BY <1>1, <2>2 DEF CountItem
<1>2. ASSUME NEW i \in Items, OfferItem(i) PROVE CounterIsExact'
  <2>1. Pending' = Pending
    BY <1>2 DEF OfferItem, Pending
  <2> QED BY <1>2, <2>1 DEF OfferItem
<1>3. CASE Take
  <2>1. Head(queue) \in Items /\ stage[Head(queue)] = "queued"
    BY <1>3 DEF Take, QueueInv
  <2>2. Pending' = Pending
    BY <1>3, <2>1 DEF Take, Pending
  <2> QED BY <1>3, <2>2 DEF Take
<1>4. ASSUME NEW i \in Items, Process(i) PROVE CounterIsExact'
  <2>1. Pending' = Pending
    BY <1>4 DEF Process, Pending
  <2> QED BY <1>4, <2>1 DEF Process
<1>5. ASSUME NEW i \in Items, FinishModify(i) PROVE CounterIsExact'
  <2>1. i \in Pending /\ Pending' = Pending \ {i}
    BY <1>5 DEF FinishModify, Pending
  <2>2. Cardinality(Pending') = Cardinality(Pending) - 1
    BY <2>1, PendingFinite, FS_RemoveElement
  <2>3. Cardinality(Pending) # 0
    BY <2>1, PendingFinite, FS_EmptySet
  <2> QED BY <1>5, <2>2, <2>3 DEF FinishModify
<1>6. ASSUME NEW i \in Items, FinishSignal(i) PROVE CounterIsExact'
  <2>1. Pending' = Pending
    BY <1>6 DEF FinishSignal, Pending
  <2> QED BY <1>6, <2>1 DEF FinishSignal
<1>7. CASE StopWorker
  <2>1. Pending' = Pending
    BY <1>7 DEF StopWorker, Pending
  <2> QED BY <1>7, <2>1 DEF StopWorker
<1>8. CASE ShutdownQueue
  <2>1. Pending' = Pending
    BY <1>8 DEF ShutdownQueue, Pending
  <2> QED BY <1>8, <2>1 DEF ShutdownQueue
<1>9. ASSUME NEW d \in Drainers, DrainStart(d) PROVE CounterIsExact'
  BY <1>9 DEF DrainStart, Pending
<1>10. ASSUME NEW d \in Drainers, DrainReturn(d) PROVE CounterIsExact'
  BY <1>10 DEF DrainReturn, Pending
<1>11. CASE UNCHANGED vars
  BY <1>11 DEF vars, Pending
<1> QED
  BY <1>1, <1>2, <1>3, <1>4, <1>5, <1>6, <1>7, <1>8, <1>9, <1>10, <1>11 DEF Next, Worker

\* When nothing is outstanding, every item ever enqueued has settled.
LEMMA NothingOutstanding ==
  TypeOK /\ CounterIsExact /\ outstanding = 0 =>
    \A i \in Items : stage[i] # "new" => i \in Settled
<1> SUFFICES ASSUME TypeOK, CounterIsExact, outstanding = 0
             PROVE  \A i \in Items : stage[i] # "new" => i \in Settled
  OBVIOUS
<1>1. Pending = {}
  BY PendingFinite, FS_EmptySet DEF CounterIsExact
<1> QED BY <1>1 DEF TypeOK, Stages, Pending, Settled

\* A deferred is completed only when it is spent.
LEMMA WakeStep ==
  TypeOK /\ CounterIsExact /\ WakeInv /\ [Next]_vars => WakeInv'
<1> SUFFICES ASSUME TypeOK, CounterIsExact, WakeInv, [Next]_vars PROVE WakeInv'
  OBVIOUS
<1> USE DEF TypeOK, WakeInv, Spent
<1>1. ASSUME NEW i \in Items, CountItem(i) PROVE WakeInv'
  BY <1>1 DEF CountItem
<1>2. ASSUME NEW i \in Items, OfferItem(i) PROVE WakeInv'
  BY <1>2 DEF OfferItem
<1>3. CASE Take
  BY <1>3 DEF Take
<1>4. ASSUME NEW i \in Items, Process(i) PROVE WakeInv'
  BY <1>4 DEF Process
<1>5. ASSUME NEW i \in Items, FinishModify(i) PROVE WakeInv'
  <2>1. i \in Pending
    BY <1>5 DEF FinishModify, Pending
  <2>2. outstanding # 0
    BY <2>1, PendingFinite, FS_EmptySet DEF CounterIsExact
  <2>3. \A g \in completed : g < idle
    BY <2>2
  <2>4. \A j \in Items : \A g \in wake[j] : g < idle
    BY <2>2
  <2>5. \A j \in Items : \A g \in wake'[j] : g < idle \/ (g = idle /\ outstanding' = 0)
    BY <1>5, <2>2, <2>4 DEF FinishModify
  <2> QED BY <1>5, <2>3, <2>5 DEF FinishModify
<1>6. ASSUME NEW i \in Items, FinishSignal(i) PROVE WakeInv'
  BY <1>6 DEF FinishSignal
<1>7. CASE StopWorker
  BY <1>7 DEF StopWorker
<1>8. CASE ShutdownQueue
  BY <1>8 DEF ShutdownQueue
<1>9. ASSUME NEW d \in Drainers, DrainStart(d) PROVE WakeInv'
  BY <1>9 DEF DrainStart
<1>10. ASSUME NEW d \in Drainers, DrainReturn(d) PROVE WakeInv'
  BY <1>10 DEF DrainReturn
<1>11. CASE UNCHANGED vars
  BY <1>11 DEF vars
<1> QED
  BY <1>1, <1>2, <1>3, <1>4, <1>5, <1>6, <1>7, <1>8, <1>9, <1>10, <1>11 DEF Next, Worker

\* An item that has left "new", or has settled, stays so.
LEMMA StagesAdvance ==
  TypeOK /\ QueueInv /\ [Next]_vars =>
    \A i \in Items : /\ stage[i] # "new" => stage'[i] # "new"
                     /\ i \in Settled => i \in Settled'
<1> SUFFICES ASSUME TypeOK, QueueInv, [Next]_vars, NEW i \in Items
             PROVE  /\ stage[i] # "new" => stage'[i] # "new"
                    /\ i \in Settled => i \in Settled'
  OBVIOUS
<1> USE DEF TypeOK, Settled
<1>1. ASSUME NEW j \in Items, CountItem(j) \/ OfferItem(j) \/ Process(j)
                              \/ FinishModify(j) \/ FinishSignal(j)
      PROVE  /\ stage[i] # "new" => stage'[i] # "new"
             /\ i \in Settled => i \in Settled'
  BY <1>1 DEF CountItem, OfferItem, Process, FinishModify, FinishSignal
<1>2. CASE Take
  <2>1. Head(queue) \in Items /\ stage[Head(queue)] = "queued"
    BY <1>2 DEF Take, QueueInv
  <2> QED BY <1>2, <2>1 DEF Take
<1>3. CASE StopWorker \/ ShutdownQueue
  BY <1>3 DEF StopWorker, ShutdownQueue
<1>4. CASE \E d \in Drainers : DrainStart(d) \/ DrainReturn(d)
  BY <1>4 DEF DrainStart, DrainReturn
<1>5. CASE UNCHANGED vars
  BY <1>5 DEF vars
<1> QED BY <1>1, <1>2, <1>3, <1>4, <1>5 DEF Next, Worker

\* Only CountItem replaces the current deferred, and only by a newer one while
\* nothing is outstanding.
LEMMA IdleStep ==
  TypeOK /\ [Next]_vars => idle' = idle \/ (outstanding = 0 /\ idle' = idle + 1)
<1> SUFFICES ASSUME TypeOK, [Next]_vars
             PROVE  idle' = idle \/ (outstanding = 0 /\ idle' = idle + 1)
  OBVIOUS
<1>1. ASSUME NEW i \in Items, CountItem(i)
      PROVE  idle' = idle \/ (outstanding = 0 /\ idle' = idle + 1)
  BY <1>1 DEF CountItem
<1> QED
  BY <1>1 DEF Next, Worker, vars, OfferItem, Take, Process, FinishModify, FinishSignal,
              StopWorker, ShutdownQueue, DrainStart, DrainReturn

\* Every step keeps the drains' promise.
LEMMA DrainStep == IInv /\ [Next]_vars => DrainInv'
<1> SUFFICES ASSUME IInv, [Next]_vars, NEW d \in Drainers
             PROVE  /\ \A i \in drainer'[d].seen : stage'[i] # "new"
                    /\ drainer'[d].pc = "waiting" =>
                          /\ drainer'[d].gen <= idle'
                          /\ drainer'[d].gen = idle' \/ drainer'[d].seen \subseteq Settled'
                    /\ drainer'[d].pc = "returned" => drainer'[d].seen \subseteq Settled'
  BY DEF DrainInv
<1> USE DEF IInv
<1>0. drainer[d] \in [pc : {"out", "waiting", "returned"}, gen : Nat, seen : SUBSET Items]
  BY DEF TypeOK
<1>1. CASE drainer'[d] = drainer[d]
  <2>1. \A i \in drainer[d].seen : stage[i] # "new" /\ stage'[i] # "new"
    BY <1>0, StagesAdvance DEF DrainInv
  <2>2. drainer[d].seen \subseteq Settled => drainer[d].seen \subseteq Settled'
    BY <1>0, StagesAdvance
  <2>3. outstanding = 0 => drainer[d].seen \subseteq Settled
    BY <1>0, <2>1, NothingOutstanding
  <2>4. drainer[d].pc = "waiting" =>
          /\ drainer[d].gen <= idle'
          /\ drainer[d].gen = idle' \/ drainer[d].seen \subseteq Settled'
    <3>1. idle' = idle \/ (outstanding = 0 /\ idle' = idle + 1)
      BY IdleStep
    <3>2. idle \in Nat /\ drainer[d].gen \in Nat
      BY <1>0 DEF TypeOK
    <3> QED BY <3>1, <3>2, <2>2, <2>3 DEF DrainInv
  <2>5. drainer[d].pc = "returned" => drainer[d].seen \subseteq Settled'
    BY <2>2 DEF DrainInv
  <2> QED BY <1>1, <2>1, <2>4, <2>5
<1>2. CASE DrainStart(d)
  <2>1. drainer'[d] = [pc |-> "waiting", gen |-> idle,
                       seen |-> {i \in Items : stage[i] # "new"}]
    BY <1>2 DEF DrainStart, TypeOK
  <2>2. idle' = idle /\ stage' = stage /\ idle \in Nat
    BY <1>2 DEF DrainStart, TypeOK
  <2> QED BY <2>1, <2>2
<1>3. CASE DrainReturn(d)
  <2>1. /\ drainer'[d].pc = "returned"
        /\ drainer'[d].seen = drainer[d].seen
        /\ drainer[d].pc = "waiting" /\ drainer[d].gen \in completed
        /\ stage' = stage /\ Settled' = Settled
    BY <1>0, <1>3 DEF DrainReturn, TypeOK, Settled
  <2>2. \A i \in drainer[d].seen : i \in Items /\ stage[i] # "new"
    BY <1>0 DEF DrainInv
  <2>3. CASE drainer[d].gen = idle
    <3>1. outstanding = 0
      BY <2>1, <2>3 DEF WakeInv, Spent
    <3> QED BY <2>1, <2>2, <3>1, NothingOutstanding
  <2>4. CASE drainer[d].seen \subseteq Settled
    BY <2>1, <2>2, <2>4
  <2> QED BY <2>1, <2>3, <2>4 DEF DrainInv
<1>4. drainer'[d] = drainer[d] \/ DrainStart(d) \/ DrainReturn(d)
  <2>1. ASSUME NEW e \in Drainers, DrainStart(e) \/ DrainReturn(e), e # d
        PROVE  drainer'[d] = drainer[d]
    BY <2>1 DEF DrainStart, DrainReturn, TypeOK
  <2> QED
    BY <2>1 DEF Next, Worker, vars, CountItem, OfferItem, Take, Process, FinishModify,
                FinishSignal, StopWorker, ShutdownQueue
<1> QED BY <1>1, <1>2, <1>3, <1>4

-----------------------------------------------------------------------------
\* The initial state satisfies the inductive invariant.
LEMMA InitInv == Init => IInv
<1> SUFFICES ASSUME Init PROVE IInv
  OBVIOUS
<1> USE DEF Init
<1>1. TypeOK
  BY DEF TypeOK, Stages
<1>2. QueueInv
  BY DEF QueueInv
<1>3. CounterIsExact
  <2>1. Pending = {}
    BY DEF Pending
  <2> QED BY <2>1, FS_EmptySet DEF CounterIsExact
<1>4. WakeInv
  BY DEF WakeInv, Spent
<1>5. DrainInv
  BY DEF DrainInv
<1> QED BY <1>1, <1>2, <1>3, <1>4, <1>5 DEF IInv

\* IInv is an invariant of the worker, whatever fails and however often.
THEOREM Inductive == Spec => []IInv
<1>1. IInv /\ [Next]_vars => IInv'
  BY TypeStep, QueueStep, CounterStep, WakeStep, DrainStep DEF IInv
<1> QED BY InitInv, <1>1, PTL DEF Spec

\* Type correctness of the worker's state.
THEOREM TypeCorrect == Spec => []TypeOK
<1>1. IInv => TypeOK
  BY DEF IInv
<1> QED BY Inductive, <1>1, PTL

\* The counter behind drain is exact for any number of items and producers.
THEOREM CounterCorrect == Spec => []CounterIsExact
<1>1. IInv => CounterIsExact
  BY DEF IInv
<1> QED BY Inductive, <1>1, PTL

\* drain returns only after everything enqueued before it has settled, for any
\* number of items and drainers, failures and shutdowns included.
THEOREM DrainCorrect == Spec => []DrainCoversEarlierItems
<1>1. IInv => DrainCoversEarlierItems
  BY DEF IInv, DrainInv, DrainCoversEarlierItems
<1> QED BY Inductive, <1>1, PTL
=============================================================================
