------------------------ MODULE RuntimeIdleStopProofs ------------------------
(***************************************************************************)
(* Proofs about RuntimeIdleStop, for any callers and any number of calls   *)
(* and of turns and exits of the runtime's own.                            *)
(***************************************************************************)
EXTENDS RuntimeIdleStop, TLAPS

\* While a stop is in flight every call waits or has sent its turn.
CallsWait == InFlight => \A c \in Callers : call[c].pc \in {"idle", "await", "sent"}

\* A stop that holds the runtime to be idle does so of no turn that was sent,
\* and of a turn of the runtime's own only until its turn.started is processed.
StopHoldsIdle ==
    /\ InFlight => stop.generation # None
    /\ stop.pc \in {"recheck", "stopping"} => runtime # "turn"
    /\ (stop.pc = "recheck" /\ IsCurrent(stop.generation) /\ runtime = "own")
          => "turn.started" \in Range(events)

StopInv == TypeOK /\ CallsWait /\ StopHoldsIdle

\* What becomes of an idle runtime: its timer is armed, the stop in flight was
\* armed last, a call will take the runtime on, down, or arm the timer again, or
\* the timer has been lost.
Idling == runtime = "ready" /\ events = <<>>
Armed == timer # None /\ IsCurrent(timer)
Stopping == InFlight /\ IsCurrent(stop.generation)
Owes(c) ==
    /\ call[c].pc \in {"await", "work", "recovered"}
    /\ call[c].displaced \/ call[c].kind \in {"start", "stop", "remove"}

RunsBound == runtime # "none" => bound
LastEvent == runtime = "ready" /\ events # <<>>
                => Last(events) \in {"session.started", "turn.completed"}
AwaitDisplaces == \A c \in Callers : call[c].pc = "await" => call[c].displaced
\* The event of a sent turn's end, once processed, supersedes the stop.
SentSupersedes == (Idling /\ Stopping) => \A c \in Callers : call[c].pc # "sent"
IsCaredFor == Idling => Armed \/ Stopping \/ lost \/ \E c \in Callers : Owes(c)

RestingInv == RunsBound /\ LastEvent /\ AwaitDisplaces /\ SentSupersedes /\ IsCaredFor
TimerInv == StopInv /\ RestingInv

-----------------------------------------------------------------------------
\* There is always a generation that neither the map, the timer nor the stop
\* in flight holds.
LEMMA Fresh ==
    ASSUME TypeOK
    PROVE  FreshSymbol \in Generations /\ FreshSymbol \notin {generation, timer, stop.generation}
<1>1. \E g \in Generations : g \notin {generation, timer, stop.generation}
  <2>1. 1 \in Generations /\ 2 \in Generations /\ 3 \in Generations /\ 4 \in Generations
    BY DEF Generations
  <2> QED BY <2>1
<1> QED BY <1>1 DEF FreshSymbol

\* What appending events to the queue does to its members and its last one.
LEMMA Emitted ==
    ASSUME NEW s \in Seq(EventTypes), NEW t \in Seq(EventTypes)
    PROVE  /\ s \o t \in Seq(EventTypes)
           /\ \A x : x \in Range(s) \/ x \in Range(t) => x \in Range(s \o t)
           /\ t = <<>> => s \o t = s
           /\ t # <<>> => s \o t # <<>> /\ Last(s \o t) = Last(t)
<1>1. s \o t \in Seq(EventTypes) /\ Len(s \o t) = Len(s) + Len(t)
  OBVIOUS
<1>2. \A i \in 1..Len(s) : (s \o t)[i] = s[i] /\ i \in 1..Len(s \o t)
  BY <1>1
<1>3. \A i \in 1..Len(t) : (s \o t)[Len(s) + i] = t[i] /\ Len(s) + i \in 1..Len(s \o t)
  BY <1>1
<1>4. DOMAIN s = 1..Len(s) /\ DOMAIN t = 1..Len(t) /\ DOMAIN (s \o t) = 1..Len(s \o t)
  BY <1>1
<1>5. ASSUME NEW x, x \in Range(s) \/ x \in Range(t) PROVE x \in Range(s \o t)
  BY <1>2, <1>3, <1>4, <1>5 DEF Range
<1>6. t = <<>> => s \o t = s
  OBVIOUS
<1>7. ASSUME t # <<>> PROVE s \o t # <<>> /\ Last(s \o t) = Last(t)
  <2>1. Len(t) \in 1..Len(t)
    BY <1>7
  <2> QED BY <1>1, <1>3, <2>1 DEF Last
<1> QED BY <1>1, <1>5, <1>6, <1>7

\* What taking the first event off the queue does to both.
LEMMA Processed ==
    ASSUME NEW s \in Seq(EventTypes), s # <<>>
    PROVE  /\ Tail(s) \in Seq(EventTypes) /\ Head(s) \in EventTypes
           /\ Range(s) \subseteq {Head(s)} \cup Range(Tail(s))
           /\ Last(s) = IF Tail(s) = <<>> THEN Head(s) ELSE Last(Tail(s))
<1>1. /\ Tail(s) \in Seq(EventTypes) /\ Head(s) \in EventTypes /\ Head(s) = s[1]
      /\ Len(Tail(s)) = Len(s) - 1
      /\ \A i \in 1..Len(Tail(s)) : Tail(s)[i] = s[i + 1]
  OBVIOUS
<1>2. DOMAIN s = 1..Len(s) /\ DOMAIN Tail(s) = 1..Len(Tail(s))
  BY <1>1
<1>3. ASSUME NEW i \in DOMAIN s PROVE s[i] \in {Head(s)} \cup Range(Tail(s))
  <2>1. CASE i = 1
    BY <1>1, <2>1
  <2>2. CASE i # 1
    <3>1. i - 1 \in 1..Len(Tail(s)) /\ Tail(s)[i - 1] = s[i]
      BY <1>1, <1>2, <2>2
    <3> QED BY <3>1, <1>2 DEF Range
  <2> QED BY <2>1, <2>2
<1>4. Len(s) \in Nat /\ Len(s) # 0 /\ (Tail(s) = <<>> <=> Len(Tail(s)) = 0)
  <2>1. \A q \in Seq(EventTypes) : Len(q) \in Nat /\ (q = <<>> <=> Len(q) = 0)
    OBVIOUS
  <2> QED BY <1>1, <2>1
<1>5. Last(s) = IF Tail(s) = <<>> THEN Head(s) ELSE Last(Tail(s))
  <2>1. CASE Len(s) = 1
    BY <1>1, <1>4, <2>1 DEF Last
  <2>2. CASE Len(s) # 1
    <3>1. Len(Tail(s)) \in 1..Len(Tail(s)) /\ Tail(s) # <<>>
      BY <1>1, <1>4, <2>2
    <3>2. Tail(s)[Len(Tail(s))] = s[Len(s)]
      BY <1>1, <1>4, <3>1
    <3> QED BY <3>1, <3>2 DEF Last
  <2> QED BY <2>1, <2>2
<1> QED BY <1>1, <1>3, <1>5 DEF Range

\* The sequences of events the actions emit.
LEMMA Emissions ==
    /\ Gone \in Seq(EventTypes) /\ (runtime # "none" <=> Gone # <<>>)
    /\ Gone \o <<"session.started">> \in Seq(EventTypes)
    /\ Gone \o <<"session.started">> # <<>>
    /\ Last(Gone \o <<"session.started">>) = "session.started"
    /\ \A x \in EventTypes : <<x>> \in Seq(EventTypes) /\ <<x>> # <<>>
                             /\ Last(<<x>>) = x /\ x \in Range(<<x>>)
<1>1. \A x \in EventTypes : <<x>> \in Seq(EventTypes) /\ <<x>> # <<>>
                            /\ Last(<<x>>) = x /\ x \in Range(<<x>>)
  <2> TAKE x \in EventTypes
  <2>1. <<x>> \in Seq(EventTypes) /\ Len(<<x>>) = 1 /\ <<x>>[1] = x /\ DOMAIN <<x>> = 1..1
    OBVIOUS
  <2> QED BY <2>1 DEF Last, Range
<1>2. "session.started" \in EventTypes /\ "session.exited" \in EventTypes
  BY DEF EventTypes
<1>3. Gone \in Seq(EventTypes) /\ (runtime # "none" <=> Gone # <<>>)
  BY <1>1, <1>2 DEF Gone
<1>4. <<"session.started">> \in Seq(EventTypes) /\ <<"session.started">> # <<>>
        /\ Last(<<"session.started">>) = "session.started"
  BY <1>1, <1>2
<1> HIDE DEF Gone
<1> QED BY <1>1, <1>3, <1>4, Emitted

-----------------------------------------------------------------------------
LEMMA TypeStep ==
    ASSUME TypeOK, [Next]_vars
    PROVE  TypeOK'
<1> USE DEF TypeOK
<1>1. FreshSymbol \in Generations \cup {None}
  BY Fresh
<1>2. \A q \in Seq(EventTypes) : events \o q \in Seq(EventTypes)
  BY Emitted
<1>3. /\ Gone \in Seq(EventTypes) /\ Gone \o <<"session.started">> \in Seq(EventTypes)
      /\ <<"session.started">> \in Seq(EventTypes) /\ <<"turn.started">> \in Seq(EventTypes)
      /\ <<"turn.completed">> \in Seq(EventTypes)
  BY Emissions DEF EventTypes
<1>4. Idle \in [pc : {"idle", "await", "work", "recovered", "sent"},
                kind : {"turn", "start", "stop", "brief", "remove"}, displaced : BOOLEAN]
  BY DEF Idle
<1>5. events # <<>> => Tail(events) \in Seq(EventTypes) /\ Head(events) \in EventTypes
  BY Processed
<1>6. CASE UNCHANGED vars
  BY <1>6 DEF vars
<1>7. ASSUME NEW c \in Callers, NEW kind \in Kinds(c), Enter(c, kind)
      PROVE  TypeOK'
  BY <1>1, <1>7, RuntimeIdleStopAssumption DEF Enter, ClearTimer, timerVars, Kinds
<1>8. ASSUME NEW c \in Callers, Resume(c) PROVE TypeOK'
  BY <1>1, <1>8 DEF Resume, MovesTo, ClearTimer, timerVars, countVars
<1>9. ASSUME NEW c \in Callers, Recover(c) PROVE TypeOK'
  BY <1>2, <1>3, <1>9 DEF Recover, MovesTo, Emit, timerVars, countVars
<1>10. ASSUME NEW c \in Callers, SendTurn(c) PROVE TypeOK'
  BY <1>2, <1>3, <1>10 DEF SendTurn, MovesTo, Emit, timerVars, countVars
<1>11. ASSUME NEW c \in Callers, Return(c) PROVE TypeOK'
  BY <1>4, <1>11 DEF Return, Done, timerVars, countVars
<1>12. ASSUME NEW c \in Callers, Finish(c) PROVE TypeOK'
  BY <1>1, <1>4, <1>12 DEF Finish, Done, ScheduleStop, countVars
<1>13. ASSUME NEW c \in Callers, Fail(c) PROVE TypeOK'
  BY <1>1, <1>4, <1>13 DEF Fail, Done, ScheduleStop, Retire, LoseIf, countVars
<1>14. ASSUME NEW c \in Callers, StartRuntime(c) PROVE TypeOK'
  BY <1>2, <1>3, <1>4, <1>14 DEF StartRuntime, Done, Emit, timerVars, countVars
<1>15. ASSUME NEW c \in Callers, FailStartOrStop(c) PROVE TypeOK'
  BY <1>2, <1>3, <1>4, <1>15 DEF FailStartOrStop, Done, Emit, LoseIf, countVars
<1>16. ASSUME NEW c \in Callers, StopRuntime(c) PROVE TypeOK'
  BY <1>2, <1>3, <1>4, <1>16 DEF StopRuntime, Done, Emit, Retire, timerVars, countVars
<1>17. CASE BeginOwnTurn
  BY <1>2, <1>3, <1>17, RuntimeIdleStopAssumption
  DEF BeginOwnTurn, Emit, timerVars
<1>18. CASE EndTurn
  BY <1>2, <1>3, <1>18 DEF EndTurn, Emit, timerVars, countVars
<1>19. CASE Exit
  BY <1>2, <1>3, <1>19, RuntimeIdleStopAssumption
  DEF Exit, Emit, timerVars
<1>20. CASE ProcessRuntimeEvent
  BY <1>1, <1>5, <1>20
  DEF ProcessRuntimeEvent, Reconcile, ClearTimer, ScheduleStop, countVars, EventTypes
<1>21. CASE Fire
  BY <1>21 DEF Fire, countVars
<1>22. CASE Look
  BY <1>22 DEF Look, RetireOnly, LoseIf, Ends, Over, countVars
<1>23. CASE Recheck
  BY <1>23 DEF Recheck, RetireOnly, Ends, Over, countVars
<1>24. CASE Stopped
  BY <1>2, <1>3, <1>24 DEF Stopped, RetireOnly, Ends, Over, Emit, countVars
<1>25. CASE FailStop
  BY <1>25 DEF FailStop, LoseIf, Ends, Over, countVars
<1> QED BY <1>6, <1>7, <1>8, <1>9, <1>10, <1>11, <1>12, <1>13, <1>14, <1>15, <1>16,
       <1>17, <1>18, <1>19, <1>20, <1>21, <1>22, <1>23, <1>24, <1>25 DEF Next

-----------------------------------------------------------------------------
\* A call that is at work keeps every stop out, for as long as it is.
LEMMA WorkExcludesStop ==
    ASSUME TypeOK, CallsWait, NEW c \in Callers, call[c].pc \in {"work", "recovered"}
    PROVE  stop.pc = "over"
BY DEF TypeOK, CallsWait, InFlight

LEMMA StopStep ==
    ASSUME StopInv, [Next]_vars
    PROVE  CallsWait' /\ StopHoldsIdle'
<1> USE DEF StopInv, StopHoldsIdle, CallsWait, InFlight, IsCurrent
<1>1. FreshSymbol # stop.generation
  BY Fresh
<1>2. \A q \in Seq(EventTypes), x \in Range(events) : x \in Range(events \o q)
  BY Emitted DEF TypeOK
<1>3. /\ Gone \in Seq(EventTypes) /\ <<"turn.completed">> \in Seq(EventTypes)
      /\ <<"turn.started">> \in Seq(EventTypes)
      /\ "turn.started" \in Range(events \o <<"turn.started">>)
  BY Emissions, Emitted DEF EventTypes, TypeOK
<1>4. CASE UNCHANGED vars
  BY <1>4 DEF vars
<1>5. ASSUME NEW c \in Callers, NEW kind \in Kinds(c), Enter(c, kind)
      PROVE  CallsWait' /\ StopHoldsIdle'
  BY <1>1, <1>5 DEF TypeOK, Enter, ClearTimer, timerVars
<1>6. ASSUME NEW c \in Callers, Resume(c) PROVE CallsWait' /\ StopHoldsIdle'
  BY <1>6 DEF Resume
<1>7. ASSUME NEW c \in Callers,
             Recover(c) \/ SendTurn(c) \/ Finish(c) \/ StartRuntime(c)
               \/ FailStartOrStop(c) \/ StopRuntime(c)
      PROVE  CallsWait' /\ StopHoldsIdle'
  <2>1. stop.pc = "over" /\ UNCHANGED stop
    BY <1>7, WorkExcludesStop
       DEF Recover, SendTurn, Finish, StartRuntime, FailStartOrStop, StopRuntime, AtWork
  <2> QED BY <2>1
<1>8. ASSUME NEW c \in Callers, Return(c) PROVE CallsWait' /\ StopHoldsIdle'
  BY <1>8 DEF TypeOK, Return, Done, Idle, timerVars
<1>9. ASSUME NEW c \in Callers, Fail(c) PROVE CallsWait' /\ StopHoldsIdle'
  BY <1>1, <1>9 DEF TypeOK, Fail, Done, Idle, ScheduleStop, Retire
<1>10. CASE BeginOwnTurn
  BY <1>3, <1>10 DEF BeginOwnTurn, Emit, timerVars
<1>11. CASE EndTurn
  BY <1>11 DEF EndTurn, timerVars
<1>12. CASE Exit
  BY <1>12 DEF Exit, timerVars
<1>13. CASE ProcessRuntimeEvent
  <2>1. generation' # stop.generation \/ stop.pc = "over"
    BY <1>1, <1>13, Processed
       DEF TypeOK, EventTypes, ProcessRuntimeEvent, Reconcile, ClearTimer, ScheduleStop
  <2> QED BY <2>1, <1>13 DEF ProcessRuntimeEvent
<1>14. CASE Fire
  BY <1>14 DEF Fire
<1>15. CASE Look
  BY <1>15 DEF Look, RetireOnly, Ends, Over, TypeOK
<1>16. CASE Recheck
  BY <1>16 DEF Recheck, RetireOnly, Ends, Over, TypeOK
<1>17. CASE Stopped \/ FailStop
  BY <1>17 DEF Stopped, FailStop, Ends, Over
<1> QED BY <1>4, <1>5, <1>6, <1>7, <1>8, <1>9, <1>10, <1>11, <1>12, <1>13, <1>14,
       <1>15, <1>16, <1>17 DEF Next

\* What a stop that calls adapter.stopSession finds.
LEMMA StopFindsNoWork ==
    ASSUME StopInv, StopInv', [Next]_vars, stop'.pc = "stopping"
    PROVE  /\ \A c \in Callers : call'[c].pc \notin {"work", "recovered"}
           /\ runtime' # "turn"
           /\ stop.pc # "stopping" => ~Announced
<1>1. \A c \in Callers : call'[c].pc \notin {"work", "recovered"}
  BY DEF StopInv, CallsWait, InFlight
<1>2. runtime' # "turn"
  BY DEF StopInv, StopHoldsIdle
<1>3. ASSUME stop.pc # "stopping" PROVE ~Announced
  <2>1. Recheck /\ stop.pc = "recheck" /\ IsCurrent(stop.generation)
    <3>1. stop' # stop
      BY <1>3
    <3>2. Fire \/ Look \/ Recheck \/ Stopped \/ FailStop
      BY <3>1 DEF Next, vars, Enter, Resume, Recover, SendTurn, Return, Finish, Fail,
         StartRuntime, FailStartOrStop, StopRuntime, BeginOwnTurn, EndTurn, Exit,
         ProcessRuntimeEvent
    <3> QED BY <3>2 DEF Fire, Look, Recheck, Stopped, FailStop, Ends, Over, MayStop,
               StopInv, TypeOK
  <2> QED BY <2>1 DEF StopInv, StopHoldsIdle, Announced
<1> QED BY <1>1, <1>2, <1>3

-----------------------------------------------------------------------------
LEMMA InitTypes ==
    ASSUME Init
    PROVE  TypeOK
<1>1. events \in Seq(EventTypes)
  BY DEF Init
<1>2. call \in [Callers -> [pc : {"idle", "await", "work", "recovered", "sent"},
                            kind : {"turn", "start", "stop", "brief", "remove"},
                            displaced : BOOLEAN]]
  BY DEF Init, Idle
<1>3. calls \in 0..MaxCalls /\ surprises \in 0..MaxSurprises
  BY RuntimeIdleStopAssumption DEF Init
<1> QED BY <1>1, <1>2, <1>3 DEF Init, TypeOK, Over

\* Every variable stays in its type.
THEOREM TypeCorrect == Spec => []TypeOK
BY InitTypes, TypeStep, PTL DEF Spec

LEMMA StopInvariant == Spec => []StopInv
<1>1. Init => StopInv
  <2> SUFFICES ASSUME Init PROVE StopInv
    OBVIOUS
  <2>1. stop.pc = "over"
    BY DEF Init, Over
  <2> QED BY <2>1, InitTypes DEF StopInv, CallsWait, StopHoldsIdle, InFlight
<1>2. StopInv /\ [Next]_vars => StopInv'
  BY TypeStep, StopStep DEF StopInv
<1> QED BY <1>1, <1>2, PTL DEF Spec

\* A stop takes down no runtime that a call was let through to, that runs a turn
\* a call has sent, or whose own turn the service has heard of.
THEOREM IdleStopsStopNoWork == Spec => NoWorkIsStopped
<1>1. StopInv /\ StopInv' /\ [Next]_vars =>
        [stop'.pc = "stopping" =>
           /\ \A c \in Callers : call'[c].pc \notin {"work", "recovered"}
           /\ runtime' # "turn"
           /\ stop.pc # "stopping" => ~Announced]_vars
  BY StopFindsNoWork
<1> QED BY <1>1, StopInvariant, PTL DEF Spec, NoWorkIsStopped

-----------------------------------------------------------------------------
\* A runtime that is up has a binding, and a call that met a stop in flight
\* counts as having displaced its timer.
LEMMA BoundStep ==
    ASSUME TimerInv, [Next]_vars
    PROVE  RunsBound' /\ AwaitDisplaces'
<1> USE DEF TimerInv, RestingInv, RunsBound, AwaitDisplaces, StopInv, TypeOK
<1>1. ASSUME NEW c \in Callers,
             \/ \E kind \in Kinds(c) : Enter(c, kind)
             \/ Resume(c) \/ Recover(c) \/ SendTurn(c) \/ Return(c)
      PROVE  RunsBound' /\ AwaitDisplaces'
  <2>1. ASSUME NEW kind \in Kinds(c), Enter(c, kind)
        PROVE  RunsBound' /\ AwaitDisplaces'
    BY <2>1 DEF Enter, InFlight
  <2>2. CASE Resume(c) \/ Recover(c) \/ SendTurn(c)
    BY <2>2 DEF Resume, Recover, SendTurn, MovesTo
  <2>3. CASE Return(c)
    BY <2>3 DEF Return, Done, Idle
  <2> QED BY <1>1, <2>1, <2>2, <2>3
<1>2. ASSUME NEW c \in Callers,
             Finish(c) \/ Fail(c) \/ StartRuntime(c) \/ FailStartOrStop(c) \/ StopRuntime(c)
      PROVE  RunsBound' /\ AwaitDisplaces'
  <2>1. call' = [call EXCEPT ![c] = Idle]
    BY <1>2 DEF Finish, Fail, StartRuntime, FailStartOrStop, StopRuntime, Done
  <2>2. AwaitDisplaces'
    BY <2>1 DEF Idle
  <2>3. CASE StopRuntime(c)
    BY <2>2, <2>3 DEF StopRuntime
  <2>4. CASE Finish(c) \/ Fail(c) \/ StartRuntime(c) \/ FailStartOrStop(c)
    BY <2>2, <2>4 DEF Finish, Fail, StartRuntime, FailStartOrStop
  <2> QED BY <1>2, <2>3, <2>4
<1>3. CASE BeginOwnTurn \/ EndTurn \/ Exit \/ ProcessRuntimeEvent
  BY <1>3 DEF BeginOwnTurn, EndTurn, Exit, ProcessRuntimeEvent
<1>4. CASE Fire \/ Look \/ Recheck \/ Stopped \/ FailStop \/ UNCHANGED vars
  BY <1>4 DEF Fire, Look, Recheck, Stopped, FailStop, vars
<1> QED BY <1>1, <1>2, <1>3, <1>4 DEF Next

\* The last event of a runtime at rest arms its timer.
LEMMA LastEventStep ==
    ASSUME TimerInv, [Next]_vars
    PROVE  LastEvent'
<1> USE DEF TimerInv, RestingInv, LastEvent, StopInv
<1>1. \A q \in Seq(EventTypes) : q # <<>> => Last(events \o q) = Last(q)
  BY Emitted DEF TypeOK
<1>2. ASSUME NEW c \in Callers, Recover(c) \/ StartRuntime(c)
      PROVE  LastEvent'
  BY <1>1, <1>2, Emissions DEF Recover, StartRuntime, Emit, EventTypes
<1>3. CASE EndTurn
  BY <1>1, <1>3, Emissions DEF EndTurn, Emit, EventTypes
<1>4. CASE ProcessRuntimeEvent
  BY <1>4, Processed DEF ProcessRuntimeEvent, TypeOK
<1>5. ASSUME NEW c \in Callers,
             \/ \E kind \in Kinds(c) : Enter(c, kind)
             \/ Resume(c) \/ SendTurn(c) \/ Return(c) \/ Finish(c) \/ Fail(c)
             \/ FailStartOrStop(c) \/ StopRuntime(c)
      PROVE  LastEvent'
  BY <1>5 DEF Enter, Resume, SendTurn, Return, Finish, Fail, FailStartOrStop, StopRuntime
<1>6. CASE \/ BeginOwnTurn \/ Exit \/ Fire \/ Look \/ Recheck \/ Stopped \/ FailStop
        \/ UNCHANGED vars
  BY <1>6 DEF BeginOwnTurn, Exit, Fire, Look, Recheck, Stopped, FailStop, vars
<1> QED BY <1>2, <1>3, <1>4, <1>5, <1>6 DEF Next

\* Steps after which the runtime is not at rest.
LEMMA NotIdling ==
    ASSUME TimerInv, NEW c \in Callers,
           \/ Recover(c) \/ SendTurn(c) \/ StartRuntime(c)
           \/ StopRuntime(c) \/ BeginOwnTurn \/ EndTurn \/ Exit \/ Stopped
    PROVE  ~Idling'
<1> USE DEF Idling
<1>1. \A q \in Seq(EventTypes) : q # <<>> => events \o q # <<>>
  BY Emitted DEF TimerInv, StopInv, TypeOK
<1>2. CASE Recover(c) \/ StartRuntime(c) \/ EndTurn
  BY <1>1, <1>2, Emissions DEF Recover, StartRuntime, EndTurn, Emit, EventTypes
<1>3. CASE StopRuntime(c)
  BY <1>3 DEF StopRuntime, TimerInv, RestingInv, RunsBound
<1>4. CASE SendTurn(c) \/ BeginOwnTurn \/ Exit \/ Stopped
  BY <1>4 DEF SendTurn, BeginOwnTurn, Exit, Stopped
<1> QED BY <1>2, <1>3, <1>4

\* While a stop that was armed last is in flight, no sent turn has ended whose
\* end has been processed: that would have armed a timer of its own.
LEMMA SentStep ==
    ASSUME TimerInv, [Next]_vars
    PROVE  SentSupersedes'
<1> USE DEF TimerInv, RestingInv, SentSupersedes, Stopping, InFlight, IsCurrent, StopInv
<1>1. FreshSymbol # stop.generation
  BY Fresh
<1>2. ASSUME NEW c \in Callers, NEW kind \in Kinds(c), Enter(c, kind)
      PROVE  SentSupersedes'
  BY <1>1, <1>2 DEF Enter, ClearTimer, timerVars, TypeOK, Idling, InFlight
<1>3. ASSUME NEW c \in Callers, Resume(c) \/ Finish(c) \/ FailStartOrStop(c)
      PROVE  SentSupersedes'
  <2>1. stop.pc = "over" /\ UNCHANGED stop
    BY <1>3, WorkExcludesStop DEF Resume, Finish, FailStartOrStop, AtWork
  <2> QED BY <2>1
<1>4. ASSUME NEW c \in Callers, Return(c) PROVE SentSupersedes'
  BY <1>4 DEF Return, Done, Idle, timerVars, TypeOK, Idling
<1>5. ASSUME NEW c \in Callers, Fail(c) PROVE SentSupersedes'
  <2>1. stop.pc = "over" \/ generation' # stop.generation
    BY <1>1, <1>5 DEF Fail, ScheduleStop, Retire, StopHoldsIdle
  <2> QED BY <1>5, <2>1 DEF Fail
<1>6. ASSUME NEW c \in Callers,
             \/ Recover(c) \/ SendTurn(c) \/ StartRuntime(c)
             \/ StopRuntime(c) \/ BeginOwnTurn \/ EndTurn \/ Exit \/ Stopped
      PROVE  SentSupersedes'
  BY <1>6, NotIdling
<1>7. CASE ProcessRuntimeEvent
  <2>1. generation' # stop.generation \/ stop.pc = "over"
    BY <1>1, <1>7, Processed DEF TypeOK, EventTypes, StopHoldsIdle,
       ProcessRuntimeEvent, Reconcile, ClearTimer, ScheduleStop
  <2> QED BY <1>7, <2>1 DEF ProcessRuntimeEvent
<1>8. CASE Fire
  BY <1>8 DEF Fire, Idling
<1>9. CASE Look \/ FailStop
  BY <1>9 DEF Look, FailStop, RetireOnly, Ends, Over, Idling, TypeOK
<1>10. CASE Recheck
  BY <1>10 DEF Recheck, RetireOnly, Ends, Over, Idling, TypeOK
<1>11. CASE UNCHANGED vars
  BY <1>11 DEF vars, Idling
<1>12. "reactor" \in Callers
  BY DEF Callers
<1> QED BY <1>2, <1>3, <1>4, <1>5, <1>6, <1>7, <1>8, <1>9, <1>10, <1>11, <1>12 DEF Next

\* A call that owes the runtime something still owes it, or has paid.
LEMMA CaredForStep ==
    ASSUME TimerInv, [Next]_vars
    PROVE  IsCaredFor'
<1> USE DEF IsCaredFor, Stopping, InFlight, IsCurrent
<1>1. FreshSymbol # None
  BY Fresh DEF TimerInv, StopInv, Generations, None
<1>2. "reactor" \in Callers /\ TypeOK /\ CallsWait /\ IsCaredFor /\ RunsBound
  BY DEF Callers, TimerInv, StopInv, RestingInv
<1>3. ASSUME NEW c \in Callers, NEW kind \in Kinds(c), Enter(c, kind)
      PROVE  IsCaredFor'
  <2>1. \A d \in Callers : d # c => call'[d] = call[d]
    BY <1>2, <1>3 DEF Enter, TypeOK
  <2>2. Idling' => Idling
    BY <1>3 DEF Enter, Idling
  <2>3. CASE InFlight \/ timer # None
    <3>1. Owes(c)'
      BY <1>2, <1>3, <2>3 DEF Enter, Owes, TypeOK
    <3> QED BY <3>1
  <2>4. CASE ~InFlight /\ timer = None
    <3>1. \A d \in Callers : Owes(d) => Owes(d)'
      BY <1>2, <1>3, <2>1 DEF Enter, Owes
    <3>2. lost' = lost
      BY <1>3 DEF Enter, timerVars, ClearTimer
    <3> QED BY <1>2, <2>2, <2>4, <3>1, <3>2 DEF Armed
  <2> QED BY <2>3, <2>4
<1>4. ASSUME NEW c \in Callers, Resume(c) PROVE IsCaredFor'
  <2>1. Owes(c)'
    BY <1>2, <1>4 DEF Resume, MovesTo, Owes, TypeOK, TimerInv, RestingInv, AwaitDisplaces
  <2> QED BY <2>1
<1>5. ASSUME NEW c \in Callers, Return(c) PROVE IsCaredFor'
  <2>1. \A d \in Callers : Owes(d) => Owes(d)'
    BY <1>2, <1>5 DEF Return, Done, Owes, TypeOK
  <2> QED BY <1>2, <1>5, <2>1 DEF Return, timerVars, Armed, Idling
<1>6. ASSUME NEW c \in Callers, Finish(c) PROVE IsCaredFor'
  BY <1>1, <1>6 DEF Finish, ScheduleStop, Armed
<1>7. ASSUME NEW c \in Callers, Fail(c) PROVE IsCaredFor'
  <2> USE DEF LoseIf
  <2>1. CASE call[c].displaced
    BY <1>1, <1>7, <2>1 DEF Fail, RestoresTimer, ScheduleStop, Armed
  <2>2. CASE ~call[c].displaced
    <3>1. Armed => lost'
      BY <1>7, <2>2 DEF Fail, RestoresTimer, Armed
    <3>2. ~(Idling /\ Stopping)
      BY <1>2, <1>7, WorkExcludesStop
         DEF Fail, AtWork, TimerInv, RestingInv, SentSupersedes
    <3>3. \A d \in Callers : Owes(d) => d # c
      BY <1>7, <2>2 DEF Fail, AtWork, Owes
    <3>4. \A d \in Callers : Owes(d) => Owes(d)'
      BY <1>2, <1>7, <3>3 DEF Fail, Done, Owes, TypeOK
    <3>5. lost => lost'
      BY <1>7, <2>2 DEF Fail, RestoresTimer
    <3> QED BY <1>2, <1>7, <3>1, <3>2, <3>4, <3>5 DEF Fail, Idling
  <2> QED BY <2>1, <2>2
<1>8. ASSUME NEW c \in Callers,
             \/ Recover(c) \/ SendTurn(c) \/ StartRuntime(c)
             \/ StopRuntime(c) \/ BeginOwnTurn \/ EndTurn \/ Exit \/ Stopped
      PROVE  IsCaredFor'
  BY <1>8, NotIdling
<1>9. CASE ProcessRuntimeEvent
  <2>1. ASSUME Idling' PROVE Head(events) \in {"session.started", "turn.completed"}
    BY <1>9, <2>1, Processed
       DEF ProcessRuntimeEvent, Idling, TypeOK, TimerInv, StopInv, RestingInv, LastEvent
  <2>2. ASSUME Idling' PROVE Armed'
    BY <1>1, <1>9, <2>1, <2>2 DEF ProcessRuntimeEvent, Reconcile, ScheduleStop, Armed
  <2> QED BY <2>2
<1>10. CASE Fire
  <2>1. \A d \in Callers : ~Owes(d)
    BY <1>10 DEF Fire, Owes
  <2>2. Idling' => Idling
    BY <1>10 DEF Fire, Idling
  <2>3. CASE generation = timer
    BY <1>10, <2>3 DEF Fire
  <2>4. CASE generation # timer
    BY <1>2, <1>10, <2>1, <2>2, <2>4 DEF Fire, Armed
  <2> QED BY <2>3, <2>4
<1>11. CASE Look
  <2>1. \A d \in Callers : Owes(d) => Owes(d)'
    BY <1>11 DEF Look, Owes
  <2>2. Idling' => Idling /\ bound /\ runtime = "ready"
    BY <1>2, <1>11 DEF Look, Idling, RunsBound
  <2>3. ASSUME Idling' PROVE (Armed => Armed' \/ lost') /\ (lost => lost')
    <3>1. \/ UNCHANGED <<generation, timer, lost>>
          \/ /\ RetireOnly(stop.generation) /\ LoseIf(IsCurrent(stop.generation))
             /\ UNCHANGED timer
      BY <1>11, <2>2, <2>3 DEF Look
    <3> QED BY <1>2, <3>1 DEF LoseIf, RetireOnly, Armed, TypeOK
  <2>4. ASSUME Idling', Stopping PROVE Stopping' \/ lost'
    BY <1>2, <1>11, <2>2, <2>4 DEF Look, LoseIf, TypeOK
  <2> QED BY <1>2, <2>1, <2>2, <2>3, <2>4
<1>12. CASE Recheck
  <2>1. \A d \in Callers : Owes(d) => Owes(d)'
    BY <1>12 DEF Recheck, Owes
  <2> QED BY <1>2, <1>12, <2>1
          DEF Recheck, MayStop, Ends, Over, Armed, Idling, RunsBound, TypeOK
<1>13. CASE UNCHANGED vars
  BY <1>2, <1>13 DEF vars, Owes, Armed, Idling
<1>14. ASSUME NEW c \in Callers, FailStartOrStop(c) PROVE IsCaredFor'
  BY <1>14 DEF FailStartOrStop, LoseIf, Idling
<1>15. CASE FailStop
  <2>1. \A d \in Callers : Owes(d) => Owes(d)'
    BY <1>15 DEF FailStop, Owes
  <2> QED BY <1>2, <1>15, <2>1 DEF FailStop, LoseIf, Ends, Over, Armed, Idling
<1> QED BY <1>2, <1>3, <1>4, <1>5, <1>6, <1>7, <1>8, <1>9, <1>10, <1>11, <1>12, <1>13,
       <1>14, <1>15 DEF Next

\* A runtime at rest has a timer that will be honoured, unless it was lost since
\* it was last armed.
THEOREM IdleRuntimesAreTimed == Spec => []IdleRuntimeIsTimed
<1>1. Init => TimerInv
  <2> SUFFICES ASSUME Init PROVE TimerInv
    OBVIOUS
  <2>1. StopInv
    BY InitTypes DEF Init, StopInv, CallsWait, StopHoldsIdle, InFlight, Over
  <2>2. RestingInv
    BY DEF Init, Idle, RestingInv, RunsBound, LastEvent, AwaitDisplaces, SentSupersedes,
           IsCaredFor, Idling
  <2> QED BY <2>1, <2>2 DEF TimerInv
<1>2. TimerInv /\ [Next]_vars => TimerInv'
  BY TypeStep, StopStep, BoundStep, LastEventStep, SentStep, CaredForStep
     DEF TimerInv, StopInv, RestingInv
<1>3. TimerInv => IdleRuntimeIsTimed
  BY DEF TimerInv, RestingInv, IsCaredFor, IdleRuntimeIsTimed, Resting, Idling, Armed, Stopping, Owes
<1> QED BY <1>1, <1>2, <1>3, PTL DEF Spec
=============================================================================
