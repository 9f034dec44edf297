------------------------------ MODULE TurnQueue ------------------------------
(***************************************************************************)
(* How a message typed into one thread becomes a turn of the provider:     *)
(* the decider starts or queues it, ProviderCommandReactor's worker hands  *)
(* it to the provider, a second fiber of the reactor promotes queued       *)
(* messages when the provider ends a turn, and ProviderRuntimeIngestion    *)
(* moves the thread's session along with the provider's events.  The two   *)
(* subscribers of the provider's events run at their own pace, so each     *)
(* acts on what the other has not seen yet.  The queue lives in memory;    *)
(* a restart reconciles the session that the dead runtime left behind.     *)
(*                                                                         *)
(* A message is a number in the order of acceptance, a turn is the number  *)
(* of the message that started it, 0 is "none".                            *)
(***************************************************************************)
EXTENDS Naturals, Sequences, FiniteSets, SequencesExt

CONSTANTS
    N,              \* messages the user sends
    Providers,      \* provider kinds: "codex" steers natively, "claude" does not
    MaxDisturbances \* stops, interrupts, failing calls, exits and restarts

ASSUME TurnQueueAssumption ==
    /\ N \in Nat
    /\ Providers \subseteq {"codex", "claude"}
    /\ MaxDisturbances \in Nat

VARIABLES
    provider,   \* the provider the thread is bound to
    session,    \* the thread's session in the read model
    inbox,      \* domain events on their way to the reactor's worker
    worker,     \* the event the worker is in the middle of
    queue,      \* queuedTurnStartsByThread
    draining,   \* drainingQueuedTurns
    promoting,  \* the message each drain has dequeued and not yet dispatched
    alive,      \* the provider runtime is up
    turns,      \* turns the runtime is running
    orphans,    \* turns of runtimes replaced while they were running them
    toIngest,   \* provider events the ingestion has not taken
    ingesting,  \* the session the ingestion decided on and has not dispatched
    toDrain,    \* turn ends the drain fiber has not taken
    accepted,   \* messages the engine has accepted
    sent,       \* messages the provider has taken, in order
    promoted,   \* queued messages dispatched, in order
    failed,     \* messages whose start failed, reported on the thread
    dropped,    \* messages whose promotion or announcement failed: only logged
    unreported, \* messages whose start failed, and the report of it as well
    discarded,  \* queued messages a stop threw away
    lost,       \* messages a restart forgot
    escaped,    \* a stop has freed the drain while a promotion was under way
    disturbances \* stops, interrupts and faults so far

vars == <<provider, session, inbox, worker, queue, draining, promoting, alive,
          turns, orphans, toIngest, ingesting, toDrain, accepted, sent, promoted,
          failed, dropped, unreported, discarded, lost, escaped, disturbances>>

providerVars == <<alive, turns, orphans, toIngest, toDrain>>
historyVars == <<accepted, sent, promoted, failed, dropped, unreported,
                 discarded, lost, escaped>>

Modes == {"queue", "steer"}
Messages == 1..N
Drainers == {"fiber", "worker"}
Idle == [pc |-> "idle", msg |-> 0, mode |-> "queue"]
Undecided == [status |-> "undecided", turn |-> 0]

Session(status, turn) == [status |-> status, turn |-> turn]
Item(m, mode) == [msg |-> m, mode |-> mode]
NoItem == Item(0, "queue")
Intent(type, m, mode, turn) ==
    [type |-> type, msg |-> m, mode |-> mode, turn |-> turn]
Signal(type, turn) == [type |-> type, turn |-> turn]

Init ==
    /\ provider \in Providers
    /\ session = Session("none", 0)
    /\ inbox = <<>> /\ worker = Idle
    /\ queue = <<>> /\ draining = FALSE /\ promoting = [d \in Drainers |-> NoItem]
    /\ alive = FALSE /\ turns = {} /\ orphans = {}
    /\ toIngest = <<>> /\ ingesting = Undecided /\ toDrain = <<>>
    /\ accepted = 0 /\ sent = <<>> /\ promoted = <<>>
    /\ failed = {} /\ dropped = {} /\ unreported = {}
    /\ discarded = {} /\ lost = {} /\ escaped = FALSE
    /\ disturbances = 0

-----------------------------------------------------------------------------
(* The user's commands, as the decider turns them into events.             *)

Running == session.status = "running" /\ session.turn # 0

\* thread.turn.start: queue behind a running turn, unless the provider takes a
\* steering message itself; a queued steering message also interrupts the turn.
SendMessage(mode) ==
    LET m == accepted + 1
        shouldQueue == Running /\ (mode = "queue" \/ provider # "codex")
        request == Intent(IF shouldQueue THEN "queued" ELSE "start", m, mode, 0)
        interrupt == Intent("interrupt", 0, mode, session.turn)
    IN /\ accepted < N
       /\ accepted' = m
       /\ inbox' = IF shouldQueue /\ mode = "steer"
                   THEN inbox \o <<request, interrupt>>
                   ELSE Append(inbox, request)
       /\ UNCHANGED <<provider, session, worker, queue, draining, promoting,
                      providerVars, ingesting, sent, promoted, failed, dropped,
                      unreported, discarded, lost, escaped, disturbances>>

\* thread.turn.interrupt, with the turn the user sees or with none.
InterruptTurn ==
    /\ disturbances < MaxDisturbances
    /\ disturbances' = disturbances + 1
    /\ \E turn \in {0, session.turn} :
          inbox' = Append(inbox, Intent("interrupt", 0, "queue", turn))
    /\ UNCHANGED <<provider, session, worker, queue, draining, promoting,
                   providerVars, ingesting, historyVars>>

\* thread.session.stop
StopSession ==
    /\ disturbances < MaxDisturbances
    /\ disturbances' = disturbances + 1
    /\ inbox' = Append(inbox, Intent("stop", 0, "queue", 0))
    /\ UNCHANGED <<provider, session, worker, queue, draining, promoting,
                   providerVars, ingesting, historyVars>>

-----------------------------------------------------------------------------
(* The provider, as the reactor and the ingestion see it.                  *)

\* Both subscribers get every event; the drain fiber skips all but turn ends.
Emit(signals) ==
    /\ toIngest' = toIngest \o signals
    /\ toDrain' = toDrain \o SelectSeq(signals, LAMBDA s : s.type = "ended")

Ends(ts) == SetToSeq({Signal("ended", t) : t \in ts})

\* What a runtime that comes up says: Codex that it is starting, Claude that
\* its session has started, then both that they are ready.
Opening == <<Signal(IF provider = "codex" THEN "starting" ELSE "session", 0),
             Signal("ready", 0)>>

\* What a runtime that goes down says: Claude ends its turn first.
Closing == (IF provider = "codex" THEN <<>> ELSE Ends(turns))
             \o <<Signal("exited", 0)>>

\* The provider ends a turn, on its own or because it was interrupted.
EndTurn(t) ==
    /\ t \in turns \cup orphans
    /\ turns' = turns \ {t}
    /\ orphans' = orphans \ {t}
    /\ Emit(Ends({t}))
    /\ UNCHANGED <<provider, session, inbox, worker, queue, draining, promoting,
                   alive, ingesting, historyVars, disturbances>>

\* The runtime exits by itself, its turns with it; Claude's failure ends a turn
\* even when none is active.
RuntimeExits ==
    /\ alive /\ disturbances < MaxDisturbances
    /\ disturbances' = disturbances + 1
    /\ alive' = FALSE /\ turns' = {}
    /\ \/ Emit(Closing)
       \/ provider = "claude" /\ turns = {} /\ Emit(Ends({0}) \o Closing)
    /\ UNCHANGED <<provider, session, inbox, worker, queue, draining, promoting,
                   orphans, ingesting, historyVars>>

\* startSession: Codex stops the runtime the thread has, Claude only replaces
\* it, and its turn runs on without an owner.
StartRuntime ==
    /\ alive' = TRUE
    /\ turns' = {}
    /\ IF provider = "codex"
       THEN /\ Emit((IF alive THEN Closing ELSE <<>>) \o Opening)
            /\ UNCHANGED orphans
       ELSE /\ Emit(Opening)
            /\ orphans' = orphans \cup turns

\* sendTurn or steerTurn of message m; a runtime that has gone is resumed.
\* Codex adds a turn, or joins the active turn when the message steers; Claude
\* closes the active turn and opens a new one.
TakeMessage(m, mode) ==
    LET resumed == IF alive THEN <<>> ELSE Opening
        opened == <<Signal("started", m)>>
    IN /\ alive' = TRUE
       /\ UNCHANGED orphans
       /\ IF provider = "codex"
          THEN IF mode = "steer" /\ turns # {}
               THEN UNCHANGED <<turns, toIngest, toDrain>>
               ELSE turns' = turns \cup {m} /\ Emit(resumed \o opened)
          ELSE turns' = {m} /\ Emit(resumed \o Ends(turns) \o opened)

\* The turns an interrupt ends: Codex's is the one it is given, or the active
\* one; Claude's is the active one whatever it is given.
Interrupted(turn) ==
    IF provider = "codex" /\ turn # 0 THEN turns \cap {turn} ELSE turns

-----------------------------------------------------------------------------
(* The reactor's queue, shared by the worker and the drain fiber.          *)

\* mutant: the head is read and not removed
DequeueByPeeking(d) ==
    IF draining \/ queue = <<>>
    THEN UNCHANGED <<queue, draining, promoting>>
    ELSE /\ draining' = TRUE
         /\ promoting' = [promoting EXCEPT ![d] = Head(queue)]
         /\ queue' = queue
\* drainQueuedTurnsForThread up to its dispatch: nothing while another drain
\* is under way, otherwise the head of the queue.
Dequeue(d) ==
    IF draining \/ queue = <<>>
    THEN UNCHANGED <<queue, draining, promoting>>
    ELSE /\ draining' = TRUE
         /\ promoting' = [promoting EXCEPT ![d] = Head(queue)]
         /\ queue' = Tail(queue)

\* thread.turn.dispatch-queued is committed: the message becomes a turn start.
Promote(d) ==
    /\ promoting[d] # NoItem
    /\ LET item == promoting[d]
       IN /\ inbox' = Append(inbox, Intent("start", item.msg, item.mode, 0))
          /\ promoted' = Append(promoted, item)
    /\ promoting' = [promoting EXCEPT ![d] = NoItem]
    /\ draining' = FALSE
    /\ worker' = IF d = "worker" THEN Idle ELSE worker
    /\ UNCHANGED <<provider, session, queue, providerVars, ingesting,
                   accepted, sent, failed, dropped, unreported, discarded, lost,
                   escaped, disturbances>>

\* thread.turn.dispatch-queued fails: the message has left the queue, and all
\* that is left of it is a warning in the log.
PromoteFails(d) ==
    /\ promoting[d] # NoItem
    /\ disturbances < MaxDisturbances
    /\ disturbances' = disturbances + 1
    /\ dropped' = dropped \cup {promoting[d].msg}
    /\ promoting' = [promoting EXCEPT ![d] = NoItem]
    /\ draining' = FALSE
    /\ worker' = IF d = "worker" THEN Idle ELSE worker
    /\ UNCHANGED <<provider, session, inbox, queue, providerVars, ingesting,
                   accepted, sent, promoted, failed, unreported, discarded,
                   lost, escaped>>

\* The drain fiber takes a turn end once it is done with the one before.
TakeTurnEnd ==
    /\ toDrain # <<>> /\ promoting["fiber"] = NoItem
    /\ toDrain' = Tail(toDrain)
    /\ Dequeue("fiber")
    /\ UNCHANGED <<provider, session, inbox, worker, alive, turns, orphans,
                   toIngest, ingesting, historyVars, disturbances>>

-----------------------------------------------------------------------------
(* The reactor's worker: one domain event at a time.                       *)

Reads(type) == worker.pc = "idle" /\ inbox # <<>> /\ Head(inbox).type = type

\* mutant: every message goes to the front
EnqueuedInFront(item) == <<item>> \o queue
\* enqueueQueuedTurnStart: a steering message goes to the front.
Enqueued(item) ==
    IF item.mode = "steer" THEN <<item>> \o queue ELSE Append(queue, item)

TakeQueued ==
    /\ Reads("queued")
    /\ queue' = Enqueued(Item(Head(inbox).msg, Head(inbox).mode))
    /\ inbox' = Tail(inbox)
    /\ UNCHANGED <<provider, session, worker, draining, promoting,
                   providerVars, ingesting, historyVars, disturbances>>

\* processTurnStartRequested reads the session and, unless it is at work,
\* goes on to announce it as starting.  Its return for a start it has handled
\* already is for an event published twice, which the inbox never holds here.
TakeStart ==
    /\ Reads("start")
    /\ worker' = [pc |-> IF session.status \in {"running", "starting"}
                         THEN "ensure" ELSE "announce",
                  msg |-> Head(inbox).msg,
                  mode |-> IF provider = "codex" THEN Head(inbox).mode
                                                 ELSE "queue"]
    /\ inbox' = Tail(inbox)
    /\ UNCHANGED <<provider, session, queue, draining, promoting, providerVars,
                   ingesting, historyVars, disturbances>>

\* The message has left the thread meanwhile: reported, and nothing else.
RefuseStart ==
    /\ Reads("start")
    /\ disturbances < MaxDisturbances
    /\ disturbances' = disturbances + 1
    /\ failed' = failed \cup {Head(inbox).msg}
    /\ inbox' = Tail(inbox)
    /\ UNCHANGED <<provider, session, worker, queue, draining, promoting,
                   providerVars, ingesting, accepted, sent, promoted, dropped,
                   unreported, discarded, lost, escaped>>

Announce ==
    /\ worker.pc = "announce"
    /\ session' = Session("starting", 0)
    /\ worker' = [worker EXCEPT !.pc = "ensure"]
    /\ UNCHANGED <<provider, inbox, queue, draining, promoting, providerVars,
                   ingesting, historyVars, disturbances>>

\* The session cannot be set: no handler of the start covers this dispatch, so
\* the message is dropped with a warning in the log.
AnnounceFails ==
    /\ worker.pc = "announce"
    /\ disturbances < MaxDisturbances
    /\ disturbances' = disturbances + 1
    /\ dropped' = dropped \cup {worker.msg}
    /\ worker' = Idle
    /\ UNCHANGED <<provider, session, inbox, queue, draining, promoting,
                   providerVars, ingesting, accepted, sent, promoted, failed,
                   unreported, discarded, lost, escaped>>

\* ensureSessionForThread: reuse the live runtime, or start one.
EnsureSession ==
    /\ worker.pc = "ensure"
    /\ IF alive /\ session.status \notin {"none", "stopped"}
       THEN worker' = [worker EXCEPT !.pc = "send"] /\ UNCHANGED providerVars
       ELSE worker' = [worker EXCEPT !.pc = "bind"] /\ StartRuntime
    /\ UNCHANGED <<provider, session, inbox, queue, draining, promoting,
                   ingesting, historyVars, disturbances>>

BindSession ==
    /\ worker.pc = "bind"
    /\ session' = Session("ready", 0)
    /\ worker' = [worker EXCEPT !.pc = "send"]
    /\ UNCHANGED <<provider, inbox, queue, draining, promoting, providerVars,
                   ingesting, historyVars, disturbances>>

SendTurn ==
    /\ worker.pc = "send"
    /\ TakeMessage(worker.msg, worker.mode)
    /\ sent' = Append(sent, worker.msg)
    /\ worker' = Idle
    /\ UNCHANGED <<provider, session, inbox, queue, draining, promoting,
                   ingesting, accepted, promoted, failed, dropped, unreported,
                   discarded, lost, escaped, disturbances>>

\* Starting the session, binding it or starting the turn fails.
StartFails ==
    /\ worker.pc \in {"ensure", "bind", "send"}
    /\ disturbances < MaxDisturbances
    /\ disturbances' = disturbances + 1
    /\ worker' = [worker EXCEPT !.pc = "fail"]
    /\ UNCHANGED <<provider, session, inbox, queue, draining, promoting,
                   providerVars, ingesting, historyVars>>

\* The failure is recorded on the thread; the next queued message gets its turn.
ReportFailure ==
    /\ worker.pc = "fail"
    /\ session' = Session("error", 0)
    /\ failed' = failed \cup {worker.msg}
    /\ Dequeue("worker")
    /\ worker' = IF promoting'["worker"] = NoItem THEN Idle
                                                  ELSE [Idle EXCEPT !.pc = "drain"]
    /\ UNCHANGED <<provider, inbox, providerVars, ingesting, accepted, sent,
                   promoted, dropped, unreported, discarded, lost, escaped,
                   disturbances>>

\* The failure cannot be recorded either: the session stays as it is and the
\* queue waits for the next turn end.
ReportFails ==
    /\ worker.pc = "fail"
    /\ disturbances < MaxDisturbances
    /\ disturbances' = disturbances + 1
    /\ unreported' = unreported \cup {worker.msg}
    /\ worker' = Idle
    /\ UNCHANGED <<provider, session, inbox, queue, draining, promoting,
                   providerVars, ingesting, accepted, sent, promoted, failed,
                   dropped, discarded, lost, escaped>>

\* processTurnInterruptRequested: the turn it was given, else the active one;
\* a runtime that has gone is resumed to be interrupted.
TakeInterrupt ==
    /\ Reads("interrupt")
    /\ LET given == Head(inbox).turn
           hit == Interrupted(IF given # 0 THEN given ELSE session.turn)
       IN IF session.status \in {"none", "stopped"}
          THEN UNCHANGED providerVars
          ELSE /\ turns' = turns \ hit
               /\ alive' = TRUE
               /\ Emit((IF alive THEN <<>> ELSE Opening) \o Ends(hit))
               /\ UNCHANGED orphans
    /\ inbox' = Tail(inbox)
    /\ UNCHANGED <<provider, session, worker, queue, draining, promoting,
                   ingesting, historyVars, disturbances>>

\* processSessionStopRequested: forget the queue, stop the runtime, ...
TakeStop ==
    /\ Reads("stop")
    /\ discarded' = discarded \cup {queue[i].msg : i \in DOMAIN queue}
    /\ queue' = <<>>
    /\ draining' = FALSE
    /\ escaped' = (escaped \/ \E d \in Drainers : promoting[d] # NoItem)
    /\ IF session.status \notin {"none", "stopped"} /\ alive
       THEN alive' = FALSE /\ turns' = {} /\ UNCHANGED orphans /\ Emit(Closing)
       ELSE UNCHANGED providerVars
    /\ worker' = [Idle EXCEPT !.pc = "stopped"]
    /\ inbox' = Tail(inbox)
    /\ UNCHANGED <<provider, session, promoting, ingesting, accepted, sent,
                   promoted, failed, dropped, unreported, lost, disturbances>>

\* ... and record the stop.
RecordStop ==
    /\ worker.pc = "stopped"
    /\ session' = Session("stopped", 0)
    /\ worker' = Idle
    /\ UNCHANGED <<provider, inbox, queue, draining, promoting, providerVars,
                   ingesting, historyVars, disturbances>>

-----------------------------------------------------------------------------
(* ProviderRuntimeIngestion: the session's lifecycle.                      *)

\* mutant: only the active turn's events are applied, exits included
LifecycleOfActiveTurn(s) ==
    LET active == session.turn
    IN CASE active # 0 /\ s.turn # active /\ s.type # "ready" -> Undecided
         [] s.type = "started" -> Session("running", s.turn)
         [] s.type = "exited" -> Session("stopped", 0)
         [] OTHER -> Session("ready", 0)
\* The session a provider event asks for; undecided when the event is about a
\* turn that is not the active one.  How a turn ended decides between ready,
\* interrupted and error, which no guard tells apart.
Lifecycle(s) ==
    LET active == session.turn
        foreign == active # 0 /\ s.turn # active
                     /\ (s.type = "ended" => s.turn # 0)
    IN CASE s.type = "started" /\ ~foreign -> Session("running", s.turn)
         [] s.type = "ended" /\ ~foreign -> Session("ready", 0)
         [] s.type = "exited" -> Session("stopped", 0)
         [] s.type = "starting" -> Session("starting", active)
         [] s.type = "session" ->
               Session(IF active # 0 THEN "running" ELSE "ready", active)
         [] s.type = "ready" -> Session("ready", 0)
         [] OTHER -> Undecided

TakeSignal ==
    /\ toIngest # <<>> /\ ingesting = Undecided
    /\ ingesting' = Lifecycle(Head(toIngest))
    /\ toIngest' = Tail(toIngest)
    /\ UNCHANGED <<provider, session, inbox, worker, queue, draining, promoting,
                   alive, turns, orphans, toDrain, historyVars, disturbances>>

\* mutant: the session is set whatever was decided
SetSessionAnyway ==
    /\ session' = ingesting
    /\ ingesting' = Undecided
    /\ UNCHANGED <<provider, inbox, worker, queue, draining, promoting,
                   providerVars, historyVars, disturbances>>
SetSession ==
    /\ ingesting # Undecided
    /\ session' = ingesting
    /\ ingesting' = Undecided
    /\ UNCHANGED <<provider, inbox, worker, queue, draining, promoting,
                   providerVars, historyVars, disturbances>>

-----------------------------------------------------------------------------
(* The server's end and its next start.                                    *)

\* mutant: only a session with an active turn is reconciled
NeedsReconciliationOfTurn(s) == s.turn # 0
\* needsRestartReconciliation: a session only a dead runtime could advance.
NeedsReconciliation(s) == s.turn # 0 \/ s.status \in {"running", "starting"}

\* Messages that are somewhere between the engine and the provider.
InFlight ==
    {inbox[i].msg : i \in DOMAIN inbox} \cup {queue[i].msg : i \in DOMAIN queue}
        \cup {promoting[d].msg : d \in {e \in Drainers : promoting[e] # NoItem}}
        \cup {worker.msg}

\* The process ends and starts again; everything in memory is gone, the
\* runtimes died with it, and the session is reconciled before any command.
Restart ==
    /\ disturbances < MaxDisturbances
    /\ disturbances' = disturbances + 1
    /\ session' = IF NeedsReconciliation(session) THEN Session("interrupted", 0)
                                                  ELSE session
    /\ inbox' = <<>> /\ worker' = Idle
    /\ queue' = <<>> /\ draining' = FALSE /\ promoting' = [d \in Drainers |-> NoItem]
    /\ alive' = FALSE /\ turns' = {} /\ orphans' = {}
    /\ toIngest' = <<>> /\ ingesting' = Undecided /\ toDrain' = <<>>
    /\ lost' = lost \cup (InFlight \ {0})
    /\ UNCHANGED <<provider, accepted, sent, promoted, failed, dropped, unreported,
                   discarded, escaped>>

-----------------------------------------------------------------------------
Reactor ==
    \/ TakeQueued \/ TakeStart \/ Announce \/ EnsureSession \/ BindSession
    \/ SendTurn \/ ReportFailure \/ TakeInterrupt \/ TakeStop
    \/ RecordStop

Next ==
    \/ \E mode \in Modes : SendMessage(mode)
    \/ InterruptTurn \/ StopSession
    \/ Reactor \/ RefuseStart \/ AnnounceFails \/ StartFails \/ ReportFails
    \/ TakeTurnEnd
    \/ \E d \in Drainers : Promote(d) \/ PromoteFails(d)
    \/ TakeSignal \/ SetSession
    \/ \E t \in Messages : EndTurn(t)
    \/ RuntimeExits \/ Restart

Spec == Init /\ [][Next]_vars

\* The worker, the drain fiber, the engine and the ingestion run on, and the
\* provider ends every turn it has started.
FairSpec ==
    /\ Spec
    /\ WF_vars(Reactor)
    /\ WF_vars(TakeTurnEnd)
    /\ \A d \in Drainers : WF_vars(Promote(d))
    /\ WF_vars(TakeSignal) /\ WF_vars(SetSession)
    /\ \A t \in Messages : WF_vars(EndTurn(t))

-----------------------------------------------------------------------------
(* Properties.                                                             *)

TypeOK ==
    /\ provider \in Providers
    /\ session.turn \in 0..N
    /\ session.status \in {"none", "starting", "running", "ready",
                           "interrupted", "error", "stopped"}
    /\ worker.pc \in {"idle", "announce", "ensure", "bind", "send", "fail",
                      "drain", "stopped"}
    /\ draining \in BOOLEAN /\ alive \in BOOLEAN
    /\ turns \subseteq Messages
    /\ accepted \in 0..N

Times(m, seq) == Cardinality({i \in DOMAIN seq : seq[i].msg = m})
One(cond) == IF cond THEN 1 ELSE 0

\* Every accepted message is in exactly one place: on its way to the worker, in
\* the queue, being promoted, in the worker's hands, with the provider, reported
\* as failed, discarded by a stop, forgotten by a restart, or named in the log
\* by the failing call that dropped it.  So no interleaving of the worker with
\* the drain fiber sends a message twice, and none drops one by itself.
EachMessageInOnePlace ==
    \A m \in 1..accepted :
        Times(m, inbox) + Times(m, queue)
          + Cardinality({d \in Drainers : promoting[d] # NoItem /\ promoting[d].msg = m})
          + One(worker.msg = m)
          + Cardinality({i \in DOMAIN sent : sent[i] = m})
          + One(m \in failed) + One(m \in dropped) + One(m \in unreported)
          + One(m \in discarded) + One(m \in lost) = 1

\* The worker and the drain fiber, each promoting what it finds at the head of
\* the queue, keep the order the user sent the queued messages in; only a
\* steering message overtakes.  That is what draining is for: once a stop has
\* freed it under a promotion, the next drain can be ahead of that one.
PromotedInOrder ==
    ~escaped => \A i, j \in DOMAIN promoted :
        (i < j /\ promoted[i].mode = "queue" /\ promoted[j].mode = "queue")
            => promoted[i].msg < promoted[j].msg

\* A session that shows a running turn has its end to come: the turn is still
\* running somewhere, or an event that closes it is on its way to the session.
NoPhantomTurn ==
    session.turn # 0 =>
        \/ session.turn \in turns \cup orphans
        \/ \E s \in Range(toIngest) :
              \/ s.type \in {"exited", "ready"}
              \/ s.type = "ended" /\ s.turn \in {session.turn, 0}
        \/ ingesting # Undecided /\ ingesting.turn # session.turn

\* The thread does not show work for ever: a session that is starting or
\* running settles, whatever fails, exits, is stopped or restarts, unless the
\* failure of a start could not be recorded either.
WorkSettles ==
    session.status \in {"starting", "running"}
        ~> session.status \notin {"starting", "running"} \/ unreported # {}

\* When nothing is left to do, nothing is left in the queue.
Quiet ==
    /\ inbox = <<>> /\ worker = Idle /\ turns = {} /\ orphans = {}
    /\ toIngest = <<>> /\ toDrain = <<>> /\ ingesting = Undecided
    /\ \A d \in Drainers : promoting[d] = NoItem
QueuedMessagesAreSent == Quiet => queue = <<>>
=============================================================================
