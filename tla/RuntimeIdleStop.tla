--------------------------- MODULE RuntimeIdleStop ---------------------------
(***************************************************************************)
(* ProviderService stops a thread's runtime that has been idle for ten     *)
(* minutes, while calls for the thread come from the command reactor's     *)
(* worker, from the checkpoint reactor, from clients and from the reaper,  *)
(* and while the runtime itself begins and ends turns.  Nothing locks the  *)
(* thread: a stop that has fired compares the generation it was armed with *)
(* after every await, and a call waits for the promise of a stop in        *)
(* flight.  The maps are keyed by thread, so one thread is modelled.       *)
(*                                                                         *)
(* Timing: the ten minutes are longer than a stop takes, and longer than a *)
(* call takes to reach the adapter; see Fire.                              *)
(***************************************************************************)
EXTENDS Naturals, Sequences, SequencesExt

CONSTANTS
    Others,     \* fibers that call beside the command reactor's worker
    MaxCalls,   \* calls made in all
    MaxSurprises \* turns and exits of the runtime that nobody called for

ASSUME RuntimeIdleStopAssumption ==
    /\ "reactor" \notin Others
    /\ MaxCalls \in Nat /\ MaxSurprises \in Nat

VARIABLES
    generation, \* runtimeIdleGenerations
    timer,      \* runtimeIdleTimers: the generation the timer was armed with
    lost,       \* (history) a failure or a missing cursor has taken the timer,
                \* or given its stop up, since it was last armed
    stop,       \* runtimeIdleStopsInFlight: how far the stop that fired is
    runtime,    \* what the adapter's session is doing
    bound,      \* the directory has a binding for the thread
    events,     \* runtime events the service has not processed
    call,       \* how far the call of each fiber is
    calls,      \* calls made so far
    surprises   \* turns and exits of the runtime's own so far

vars == <<generation, timer, lost, stop, runtime, bound, events, call, calls, surprises>>
timerVars == <<generation, timer, lost>>
countVars == <<calls, surprises>>

Callers == {"reactor"} \cup Others
Kinds(c) ==
    IF c = "reactor" THEN {"turn", "start", "stop", "remove"} ELSE {"brief", "remove"}
None == 0
Generations == 1..4     \* one more than can be compared at once
Over == [pc |-> "over", generation |-> None]
Idle == [pc |-> "idle", kind |-> "turn", displaced |-> FALSE]
EventTypes == {"session.started", "session.exited", "turn.started", "turn.completed"}

Init ==
    /\ generation = None /\ timer = None /\ lost = FALSE /\ stop = Over
    /\ runtime = "none" /\ bound = FALSE /\ events = <<>>
    /\ call = [c \in Callers |-> Idle]
    /\ calls = 0 /\ surprises = 0

-----------------------------------------------------------------------------
\* The timer and its generation.

FreshSymbol == CHOOSE g \in Generations : g \notin {generation, timer, stop.generation}
ClearTimer == generation' = FreshSymbol /\ timer' = None /\ UNCHANGED lost
ScheduleStop == generation' = FreshSymbol /\ timer' = FreshSymbol /\ lost' = FALSE
Retire == generation' = None /\ UNCHANGED timer
IsCurrent(g) == generation = g
RetireOnly(g) == generation' = IF IsCurrent(g) THEN None ELSE generation
LoseIf(condition) == lost' = (lost \/ condition)

InFlight == stop.pc # "over"
Emit(types) == events' = events \o types
Gone == IF runtime = "none" THEN <<>> ELSE <<"session.exited">>

-----------------------------------------------------------------------------
\* The calls.

AtWork(c, kinds) == call[c].pc \in {"work", "recovered"} /\ call[c].kind \in kinds
MovesTo(c, pc) == call' = [call EXCEPT ![c].pc = pc]
Done(c) == call' = [call EXCEPT ![c] = Idle]

\* A call meets a stop in flight and waits for its promise, or clears the
\* timer and goes on.  startSession clears before it waits.
Enter(c, kind) ==
    /\ call[c].pc = "idle" /\ calls < MaxCalls
    /\ call' = [call EXCEPT ![c] = [pc |-> IF InFlight THEN "await" ELSE "work",
                                    kind |-> kind,
                                    displaced |-> InFlight \/ timer # None]]
    /\ IF InFlight /\ kind # "start" THEN UNCHANGED timerVars ELSE ClearTimer
    /\ calls' = calls + 1
    /\ UNCHANGED <<stop, runtime, bound, events, surprises>>

Resume(c) ==
    /\ call[c].pc = "await" /\ ~InFlight
    /\ MovesTo(c, "work")
    /\ IF call[c].kind = "start" THEN UNCHANGED timerVars ELSE ClearTimer
    /\ UNCHANGED <<stop, runtime, bound, events, countVars>>

\* recoverSessionForThread
Recover(c) ==
    /\ AtWork(c, {"turn", "brief"}) /\ call[c].pc = "work"
    /\ bound /\ runtime = "none"
    /\ runtime' = "ready" /\ Emit(<<"session.started">>)
    /\ MovesTo(c, "recovered")
    /\ UNCHANGED <<timerVars, stop, bound, countVars>>

\* sendTurn, steerTurn, startReview: the turn begins, or the input joins the
\* turn that is running.
SendTurn(c) ==
    /\ AtWork(c, {"turn"}) /\ runtime # "none"
    /\ runtime' = "turn"
    /\ IF runtime = "ready" THEN Emit(<<"turn.started">>) ELSE UNCHANGED events
    /\ MovesTo(c, "sent")
    /\ UNCHANGED <<timerVars, stop, bound, countVars>>

\* The upsert of the binding after the adapter has taken the turn.
Return(c) ==
    /\ call[c].pc = "sent"
    /\ bound' = TRUE /\ Done(c)
    /\ UNCHANGED <<timerVars, stop, runtime, events, countVars>>

\* rollbackConversation, compactThread
Finish(c) ==
    /\ AtWork(c, {"brief"}) /\ runtime # "none"
    /\ ScheduleStop /\ Done(c)
    /\ UNCHANGED <<stop, runtime, bound, events, countVars>>

\* A failed call arms the timer it displaced; one that displaced none retires
\* the generation, and with it the timer an event has armed meanwhile.
\* mutant: a failed call never arms the timer it displaced.
RestoresNoTimer(c) == FALSE
RestoresTimer(c) == call[c].displaced
Fail(c) ==
    /\ AtWork(c, {"turn", "brief"}) \/ call[c].pc = "sent"
    /\ IF RestoresTimer(c) THEN ScheduleStop ELSE Retire /\ LoseIf(timer # None)
    /\ Done(c)
    /\ UNCHANGED <<stop, runtime, bound, events, countVars>>

\* startSession replaces a runtime that is up.
StartRuntime(c) ==
    /\ AtWork(c, {"start"})
    /\ runtime' = "ready" /\ bound' = TRUE
    /\ Emit(Gone \o <<"session.started">>) /\ Done(c)
    /\ UNCHANGED <<timerVars, stop, countVars>>

\* stopRuntimeSession, which needs the binding and keeps it, and stopSession,
\* which needs the binding or a runtime that is up.  No runtime comes up in
\* the moment between the adapter's answer and the retirement.
StopRuntime(c) ==
    /\ AtWork(c, {"stop", "remove"})
    /\ IF bound \/ (call[c].kind = "remove" /\ runtime # "none")
       THEN /\ runtime' = "none" /\ Emit(Gone)
            /\ bound' = (call[c].kind = "stop")
            /\ Retire /\ UNCHANGED lost
       ELSE UNCHANGED <<runtime, events, bound, timerVars>>
    /\ Done(c)
    /\ UNCHANGED <<stop, countVars>>

\* A start or a stop fails before it has taken the runtime down, or after; it
\* has cleared the timer and arms no other.
FailStartOrStop(c) ==
    /\ AtWork(c, {"start", "stop", "remove"})
    /\ \/ runtime' = "none" /\ Emit(Gone) /\ UNCHANGED lost
       \/ UNCHANGED <<runtime, events>> /\ LoseIf(TRUE)
    /\ Done(c)
    /\ UNCHANGED <<generation, timer, stop, bound, countVars>>

-----------------------------------------------------------------------------
\* The runtime and its events.

BeginOwnTurn ==
    /\ runtime = "ready" /\ stop.pc # "stopping" /\ surprises < MaxSurprises
    /\ runtime' = "own" /\ Emit(<<"turn.started">>)
    /\ surprises' = surprises + 1
    /\ UNCHANGED <<timerVars, stop, bound, call, calls>>

EndTurn ==
    /\ runtime \in {"turn", "own"}
    /\ runtime' = "ready" /\ Emit(<<"turn.completed">>)
    /\ UNCHANGED <<timerVars, stop, bound, call, countVars>>

Exit ==
    /\ runtime # "none" /\ surprises < MaxSurprises
    /\ runtime' = "none" /\ Emit(Gone)
    /\ surprises' = surprises + 1
    /\ UNCHANGED <<timerVars, stop, bound, call, calls>>

Reconcile(type) ==
    CASE type = "turn.started" -> ClearTimer
      [] type \in {"session.started", "turn.completed"} -> ScheduleStop
      [] type = "session.exited" -> generation' = None /\ timer' = None /\ UNCHANGED lost

ProcessRuntimeEvent ==
    /\ events # <<>>
    /\ Reconcile(Head(events))
    /\ events' = Tail(events)
    /\ UNCHANGED <<stop, runtime, bound, call, countVars>>

-----------------------------------------------------------------------------
\* The stop.

Ends == stop' = Over

\* The timer fires.  It was armed ten minutes ago: no stop is still in
\* flight, and no call armed or cleared before is still on its way to the
\* adapter.  A call may last as long as the turn it has sent.
Fire ==
    /\ timer # None /\ ~InFlight
    /\ \A c \in Callers :
        call[c].pc = "idle" \/ (call[c].pc = "sent" /\ runtime \in {"turn", "own"})
    /\ stop' = [pc |-> "look", generation |-> timer] /\ timer' = None
    /\ UNCHANGED <<generation, lost, runtime, bound, events, call, countVars>>

\* stopIdleRuntimeSession, up to its call of stopRuntimeSessionInternal: it
\* finds no idle runtime, or one that neither the session nor the binding has
\* a resume cursor for, or goes on.
Look ==
    /\ stop.pc = "look"
    /\ \/ /\ ~bound \/ runtime # "ready"
          /\ RetireOnly(stop.generation) /\ Ends /\ UNCHANGED lost
       \/ /\ bound /\ runtime = "ready"
          /\ RetireOnly(stop.generation) /\ Ends /\ LoseIf(IsCurrent(stop.generation))
       \/ /\ bound /\ runtime = "ready"
          /\ IF IsCurrent(stop.generation)
             THEN stop' = [stop EXCEPT !.pc = "recheck"] ELSE Ends
          /\ UNCHANGED <<generation, lost>>
    /\ UNCHANGED <<timer, runtime, bound, events, call, countVars>>

\* stopRuntimeSessionInternal, up to adapter.stopSession; a runtime that has
\* gone is only marked as stopped.
\* mutant: the generation is not compared again after hasSession.
MayStopAsLooked == bound
MayStop == bound /\ IsCurrent(stop.generation)
Recheck ==
    /\ stop.pc = "recheck"
    /\ \/ ~MayStop /\ Ends /\ UNCHANGED generation
       \/ MayStop /\ runtime = "none" /\ RetireOnly(stop.generation) /\ Ends
       \/ /\ MayStop /\ runtime # "none"
          /\ stop' = [stop EXCEPT !.pc = "stopping"]
          /\ UNCHANGED generation
    /\ UNCHANGED <<timer, lost, runtime, bound, events, call, countVars>>

\* adapter.stopSession has returned.
Stopped ==
    /\ stop.pc = "stopping" /\ Ends
    /\ runtime' = "none" /\ Emit(Gone) /\ RetireOnly(stop.generation)
    /\ UNCHANGED <<timer, lost, bound, call, countVars>>

\* A read of the directory or of the adapter, or adapter.stopSession, fails:
\* the failure is logged, and the generation stays.
FailStop ==
    /\ InFlight /\ Ends
    /\ LoseIf(IsCurrent(stop.generation))
    /\ UNCHANGED <<generation, timer, runtime, bound, events, call, countVars>>

-----------------------------------------------------------------------------
Next ==
    \/ \E c \in Callers :
        \/ \E kind \in Kinds(c) : Enter(c, kind)
        \/ Resume(c) \/ Recover(c) \/ SendTurn(c) \/ Return(c) \/ Finish(c)
        \/ Fail(c) \/ StartRuntime(c) \/ StopRuntime(c) \/ FailStartOrStop(c)
    \/ BeginOwnTurn \/ EndTurn \/ Exit \/ ProcessRuntimeEvent
    \/ Fire \/ Look \/ Recheck \/ Stopped \/ FailStop

Spec == Init /\ [][Next]_vars

-----------------------------------------------------------------------------
TypeOK ==
    /\ generation \in Generations \cup {None} /\ timer \in Generations \cup {None}
    /\ lost \in BOOLEAN
    /\ stop \in [pc : {"over", "look", "recheck", "stopping"},
                 generation : Generations \cup {None}]
    /\ runtime \in {"none", "ready", "turn", "own"} /\ bound \in BOOLEAN
    /\ events \in Seq(EventTypes)
    /\ call \in [Callers -> [pc : {"idle", "await", "work", "recovered", "sent"},
                             kind : {"turn", "start", "stop", "brief", "remove"},
                             displaced : BOOLEAN]]
    /\ calls \in 0..MaxCalls /\ surprises \in 0..MaxSurprises

\* The running turn's turn.started has been processed.
Announced == runtime \in {"turn", "own"} /\ "turn.started" \notin Range(events)

\* From the call of adapter.stopSession until it returns, no call is at work
\* on the runtime and no turn a call has sent is running; and a stop does not
\* call it once the service has seen the running turn's turn.started
\* (ProviderService.ts:257, "use generations to invalidate async stop work").
NoWorkIsStopped ==
    [][stop'.pc = "stopping" =>
        /\ \A c \in Callers : call'[c].pc \notin {"work", "recovered"}
        /\ runtime' # "turn"
        /\ stop.pc # "stopping" => ~Announced]_vars

Resting ==
    /\ runtime = "ready" /\ bound /\ events = <<>> /\ ~InFlight
    /\ \A c \in Callers : call[c].pc = "idle"

\* A runtime at rest has a timer whose stop will not be refused, unless one of
\* the losses that `lost' names came after the timer was last armed: with no
\* call, event or stop on its way, nothing else would ever end it but the
\* reaper (ProviderService.ts:325, the exits of runIdleSensitiveProviderWork).
IdleRuntimeIsTimed == Resting => (timer # None /\ IsCurrent(timer)) \/ lost

\* A dispatch of a turn that fails, or is interrupted, leaves a runtime at rest
\* with a timer that will be honoured (ProviderService.test.ts:1711, "restores idle cleanup
\* when new turn dispatch is interrupted").
FailedCallRestoresCleanup ==
    [][\A c \in Callers :
        call[c].kind = "turn" /\ Fail(c) /\ Resting' => timer' # None /\ generation' = timer']_vars

=============================================================================
