--------------------------- MODULE TurnCheckpoints ---------------------------
(***************************************************************************)
(* One thread's turns and their filesystem checkpoints.  Two workers take  *)
(* the provider's events from queues of their own and meet only in the     *)
(* database: ProviderRuntimeIngestion opens and closes turns and records a *)
(* placeholder for every live diff, CheckpointReactor captures git refs    *)
(* before and after each turn and reverts to them.  Both read the thread,  *)
(* work, and dispatch afterwards; the projector is ThreadTurns.            *)
(*                                                                         *)
(* A dispatched command is committed and projected in one step (see        *)
(* OrchestrationEngine for what happens in between).  The user's messages, *)
(* ProviderCommandReactor's sends and the provider are the environment:    *)
(* message t is the one that starts turn t.  A workspace is the set of the *)
(* edits it contains; edits are numbered as the provider makes them.       *)
(***************************************************************************)
EXTENDS ThreadTurns, Sequences

CONSTANTS
    MaxTurns,    \* bound: the messages sent, and the turns they start
    MaxEdits,    \* bound: the edits made by all turns
    MaxTexts,    \* bound: the pieces of assistant text streamed
    MaxReverts,  \* bound: the reverts requested
    Endings,     \* how a turn may end, a subset of AllEndings
    Overlap,     \* may a message be sent while an earlier one awaits its turn?
    LiveDiff,    \* does the provider have supportsLiveTurnDiffPatch?
    GitFails     \* may a capture fail?

\* turn.completed with its state; turn.aborted; session.exited.
Completions == {"completed", "failed", "interrupted"}
AllEndings == Completions \cup {"aborted", "exited"}

ASSUME MaxTurnsAssumption == MaxTurns \in Nat
ASSUME TurnsAssumption == Turns = 1..MaxTurns
ASSUME BoundsAssumption == MaxEdits \in Nat /\ MaxTexts \in Nat /\ MaxReverts \in Nat
ASSUME EndingsAssumption == Endings \subseteq AllEndings
ASSUME SwitchesAssumption == {Overlap, LiveDiff, GitFails} \subseteq BOOLEAN

VARIABLES
    \* the environment
    requested, sent, started,  \* the last message requested, sent, and started as a turn
    running,                   \* the provider's running turn
    live,                      \* does the provider have a session?
    author,                    \* author[i]: the turn that made edit i
    texts, reverts,            \* what has been spent of MaxTexts and MaxReverts
    \* the workspace and its refs
    tree,                      \* the edits in the worktree
    refs,                      \* the checkpoint refs: ref name -> edits
    \* history
    prepared,                  \* messages whose baseline was captured before they were sent
    orphaned,                  \* refs deleted by reverts that failed afterwards
    \* the database
    session,                   \* the thread's session: status, activeTurnId
    rows,                      \* projection_turns
    pendingStart,              \* the message of the pending turn start row
    \* ProviderRuntimeIngestion
    ingestQueue, ingesting,    \* its worker's queue, and the event half handled
    tracked,                   \* providerDiffPlaceholdersRef: turn -> turn count
    spoken,                    \* turns with keys in turnMessageIdsByTurnKey
    \* CheckpointReactor
    reactQueue, reacting,      \* its worker's queue, and the input half handled
    pendingMessage             \* pendingMessageStartByThread

environment == <<requested, sent, started, running, live, author, texts, reverts>>
git == <<tree, refs>>
history == <<prepared, orphaned>>
database == <<session, rows, pendingStart>>
ingestion == <<ingestQueue, ingesting, tracked, spoken>>
reactor == <<reactQueue, reacting, pendingMessage>>
vars == <<environment, git, history, database, ingestion, reactor>>

RefNames == ({"turn"} \X Nat) \cup ({"message-start", "turn-start"} \X Turns)
RefOf(row) == <<IF row.ref = "git" THEN "turn" ELSE row.ref, row.count>>
UpdateRef(name, edits, into) ==
    [r \in DOMAIN into \cup {name} |-> IF r = name THEN edits ELSE into[r]]
Capture(name, into) == UpdateRef(name, tree, into)
CaptureIfMissing(name, into) == IF name \in DOMAIN into THEN into ELSE Capture(name, into)
EditsOf(t) == {i \in DOMAIN author : author[i] = t}

SessionStatuses == {"none", "starting", "running", "ready", "error", "interrupted",
                    "stopped"}
IngestedKinds == AllEndings \cup {"started", "text", "diff"}
ReactedKinds == Completions \cup {"started", "user-message", "turn-start-requested"}
IngestingStates == [op : {"idle", "placeholder", "finalize", "exit"},
                    turn : 0..MaxTurns, count : Nat]
ReactingStates == [op : {"idle", "capture", "dispatch", "rollback", "reverted"},
                   turn : 0..MaxTurns, count : Nat, status : CheckpointStatuses,
                   stale : SUBSET (({"turn"} \cup RefKinds) \X Nat)]
Event(kind, t) == [kind |-> kind, turn |-> t]
NotIngesting == [op |-> "idle", turn |-> NoTurn, count |-> NoCount]
NotReacting == [op |-> "idle", turn |-> NoTurn, count |-> NoCount,
                status |-> "none", stale |-> {}]

Init ==
    /\ requested = 0 /\ sent = 0 /\ started = 0
    /\ running = NoTurn /\ live = FALSE
    /\ author = <<>> /\ texts = 0 /\ reverts = 0
    /\ tree = {} /\ refs = <<>> /\ prepared = {} /\ orphaned = {}
    /\ session = [status |-> "none", active |-> NoTurn]
    /\ rows = [t \in Turns |-> NoRow] /\ pendingStart = NoTurn
    /\ ingestQueue = <<>> /\ ingesting = NotIngesting
    /\ tracked = [t \in Turns |-> NoCount] /\ spoken = {}
    /\ reactQueue = <<>> /\ reacting = NotReacting /\ pendingMessage = NoTurn

-----------------------------------------------------------------------------
(* The user, ProviderCommandReactor and the provider.                      *)

\* thread.turn.start, or thread.turn.dispatch-queued once the turn that made
\* the decider queue the message has ended.
RequestTurn ==
    /\ requested < MaxTurns
    /\ \/ ~(session.status = "running" /\ session.active # NoTurn)
       \/ running = NoTurn
    /\ Overlap \/ (running = NoTurn /\ started = requested)
    /\ requested' = requested + 1
    /\ pendingStart' = requested'
    /\ reactQueue' = reactQueue \o <<Event("user-message", requested'),
                                     Event("turn-start-requested", requested')>>
    /\ UNCHANGED <<sent, started, running, live, author, texts, reverts, git, history,
                   session, rows, ingestion, reacting, pendingMessage>>

\* The message's baseline is captured before the message goes out, but not that
\* of a steering message or a review; a capture that fails is only logged.
SendTurn ==
    /\ sent < requested
    /\ sent' = sent + 1
    /\ live' = TRUE
    /\ session' = IF session.status \in {"running", "starting"} THEN session
                  ELSE [status |-> "starting", active |-> NoTurn]
    /\ \/ /\ refs' = Capture(<<"message-start", sent'>>, refs)
          /\ prepared' = prepared \cup {sent'}
       \/ UNCHANGED <<refs, prepared>>
    /\ UNCHANGED <<requested, started, running, author, texts, reverts, tree, orphaned,
                   rows, pendingStart, ingestion, reactor>>

StartTurn ==
    /\ running = NoTurn /\ started < sent
    /\ started' = started + 1
    /\ running' = started'
    /\ ingestQueue' = Append(ingestQueue, Event("started", started'))
    /\ reactQueue' = Append(reactQueue, Event("started", started'))
    /\ UNCHANGED <<requested, sent, live, author, texts, reverts, git, history, database,
                   ingesting, tracked, spoken, reacting, pendingMessage>>

EditWorkspace ==
    /\ running # NoTurn /\ Len(author) < MaxEdits
    /\ author' = Append(author, running)
    /\ tree' = tree \cup {Len(author')}
    /\ \E reported \in BOOLEAN :
          ingestQueue' = IF reported THEN Append(ingestQueue, Event("diff", running))
                         ELSE ingestQueue
    /\ UNCHANGED <<requested, sent, started, running, live, texts, reverts, refs,
                   history, database, ingesting, tracked, spoken, reactor>>

StreamText ==
    /\ running # NoTurn /\ texts < MaxTexts
    /\ texts' = texts + 1
    /\ ingestQueue' = Append(ingestQueue, Event("text", running))
    /\ UNCHANGED <<requested, sent, started, running, live, author, reverts, git, history,
                   database, ingesting, tracked, spoken, reactor>>

EndTurn(ending) ==
    /\ running # NoTurn
    /\ ending = "exited" => sent = started
    /\ running' = NoTurn
    /\ live' = (ending # "exited")
    /\ ingestQueue' = Append(ingestQueue, Event(ending, running))
    /\ reactQueue' = IF ending \in Completions
                     THEN Append(reactQueue, Event(ending, running)) ELSE reactQueue
    /\ UNCHANGED <<requested, sent, started, author, texts, reverts, git, history, database,
                   ingesting, tracked, spoken, reacting, pendingMessage>>

RequestRevert(n) ==
    /\ reverts < MaxReverts
    /\ reverts' = reverts + 1
    /\ reactQueue' = Append(reactQueue, Event("revert", n))
    /\ UNCHANGED <<requested, sent, started, running, live, author, texts, git, history,
                   database, ingestion, reacting, pendingMessage>>

-----------------------------------------------------------------------------
(* ProviderRuntimeIngestion.                                               *)

Ingest(kinds) ==
    /\ ingesting.op = "idle"
    /\ ingestQueue # <<>>
    /\ Head(ingestQueue).kind \in kinds
    /\ ingestQueue' = Tail(ingestQueue)

SetSession(status, active) ==
    /\ session' = [status |-> status, active |-> active]
    /\ rows' = AfterSessionSet(rows, status, active)
    /\ pendingStart' = IF status = "running" /\ active # NoTurn THEN NoTurn
                       ELSE pendingStart

IngestTurnStarted ==
    LET t == Head(ingestQueue).turn IN
    /\ Ingest({"started"})
    /\ IF session.active \in {NoTurn, t}
       THEN SetSession("running", t)
       ELSE UNCHANGED database
    /\ UNCHANGED <<environment, git, history, ingesting, tracked, spoken, reactor>>

\* The text is buffered, or dispatched: streaming mode, or a full buffer.
IngestText ==
    LET t == Head(ingestQueue).turn IN
    /\ Ingest({"text"})
    /\ spoken' = spoken \cup {t}
    /\ rows' \in {rows, AfterAssistantText(rows, t)}
    /\ UNCHANGED <<environment, git, history, session, pendingStart, ingesting, tracked, reactor>>

\* The thread is read here; the placeholder computed from it is dispatched by
\* RecordPlaceholder.  A checkpoint with a git ref is left alone.
IngestDiff ==
    LET t == Head(ingestQueue).turn
        recorded == IF t \in Checkpoints(rows) THEN rows[t].count ELSE NoCount
    IN
    /\ Ingest({"diff"})
    /\ IF recorded # NoCount /\ rows[t].ref = "git"
       THEN /\ tracked' = [tracked EXCEPT ![t] = NoCount]
            /\ UNCHANGED ingesting
       ELSE /\ ingesting' = [op |-> "placeholder", turn |-> t,
                             count |-> CASE tracked[t] # NoCount -> tracked[t]
                                         [] recorded # NoCount -> recorded
                                         [] OTHER -> LatestCount(rows) + 1]
            /\ UNCHANGED tracked
    /\ UNCHANGED <<environment, git, history, database, spoken, reactor>>

\* mutant: the reactor captures when it sees the placeholder
RecordPlaceholderAndCapture ==
    /\ ingesting.op = "placeholder"
    /\ rows' = AfterDiffCompleted(rows, ingesting.turn, ingesting.count,
                                  "provider-diff", "missing")
    /\ tracked' = tracked
    /\ ingesting' = NotIngesting
    /\ reactQueue' = Append(reactQueue, Event("completed", ingesting.turn))
    /\ UNCHANGED <<environment, git, history, session, pendingStart, ingestQueue, spoken,
                   reacting, pendingMessage>>

RecordPlaceholder ==
    /\ ingesting.op = "placeholder"
    /\ rows' = AfterDiffCompleted(rows, ingesting.turn, ingesting.count,
                                  "provider-diff", "missing")
    /\ tracked' = IF LiveDiff THEN [tracked EXCEPT ![ingesting.turn] = ingesting.count]
                  ELSE tracked
    /\ ingesting' = NotIngesting
    /\ UNCHANGED <<environment, git, history, session, pendingStart, ingestQueue, spoken, reactor>>

SessionStatusAt(ending) ==
    CASE ending = "exited" -> "stopped"
      [] ending = "aborted" -> "interrupted"
      [] ending = "failed" -> "error"
      [] OTHER -> "ready"

IngestTurnEnded ==
    LET e == Head(ingestQueue) IN
    /\ Ingest(AllEndings)
    /\ IF e.kind = "exited" \/ session.active \in {NoTurn, e.turn}
       THEN SetSession(SessionStatusAt(e.kind), NoTurn)
       ELSE UNCHANGED database
    /\ ingesting' = [op |-> IF e.kind = "exited" THEN "exit" ELSE "finalize",
                      turn |-> e.turn, count |-> NoCount]
    /\ UNCHANGED <<environment, git, history, tracked, spoken, reactor>>

\* The turn's buffered answers are dispatched after its session update.
FinalizeMessages ==
    LET t == ingesting.turn IN
    /\ ingesting.op \in {"finalize", "exit"}
    /\ rows' = IF t \in spoken THEN AfterAssistantText(rows, t) ELSE rows
    /\ spoken' = IF ingesting.op = "exit" THEN {} ELSE spoken \ {t}
    /\ tracked' = [tracked EXCEPT ![t] = NoCount]
    /\ ingesting' = NotIngesting
    /\ UNCHANGED <<environment, git, history, session, pendingStart, ingestQueue, reactor>>

-----------------------------------------------------------------------------
(* CheckpointReactor.                                                      *)

React(kinds) ==
    /\ reacting.op = "idle"
    /\ reactQueue # <<>>
    /\ Head(reactQueue).kind \in kinds
    /\ reactQueue' = Tail(reactQueue)

EnsureLegacyBaseline(into) == CaptureIfMissing(<<"turn", LatestCount(rows)>>, into)

ReactToUserMessage ==
    /\ React({"user-message"})
    /\ refs' = EnsureLegacyBaseline(refs)
    /\ UNCHANGED <<environment, tree, history, database, ingestion, reacting, pendingMessage>>

ReactToTurnStartRequested ==
    LET m == Head(reactQueue).turn IN
    /\ React({"turn-start-requested"})
    /\ pendingMessage' = m
    /\ refs' = EnsureLegacyBaseline(CaptureIfMissing(<<"message-start", m>>, refs))
    /\ UNCHANGED <<environment, tree, history, database, ingestion, reacting>>

\* mutant: the baseline is taken when the turn's start is processed
ReactToTurnStartedByCapture ==
    LET start == <<"turn-start", Head(reactQueue).turn>> IN
    /\ React({"started"})
    /\ refs' = EnsureLegacyBaseline(CaptureIfMissing(start, refs))
    /\ pendingMessage' = NoTurn
    /\ UNCHANGED <<environment, tree, history, database, ingestion, reacting>>

ReactToTurnStarted ==
    LET t == Head(reactQueue).turn
        m == IF pendingMessage # NoTurn THEN pendingMessage ELSE pendingStart
        start == <<"turn-start", t>>
    IN
    /\ React({"started"})
    /\ refs' = EnsureLegacyBaseline(
                  IF <<"message-start", m>> \in DOMAIN refs
                  THEN UpdateRef(start, refs[<<"message-start", m>>], refs)
                  ELSE CaptureIfMissing(start, refs))
    /\ pendingMessage' = NoTurn
    /\ UNCHANGED <<environment, tree, history, database, ingestion, reacting>>

CheckpointStatus(ending) ==
    CASE ending = "failed" -> "error" [] ending = "interrupted" -> "missing" [] OTHER -> "ready"

HasRealCheckpoint(t) == t \in Checkpoints(rows) /\ rows[t].status # "missing"

\* The thread is read here.  Only the active turn is captured, once, and a
\* placeholder's turn count is used again.
ReactToTurnCompleted ==
    LET e == Head(reactQueue) IN
    /\ React(Completions)
    /\ reacting' =
          IF session.active \in {NoTurn, e.turn} /\ ~HasRealCheckpoint(e.turn)
          THEN [NotReacting EXCEPT
                   !.op = "capture", !.turn = e.turn, !.status = CheckpointStatus(e.kind),
                   !.count = IF e.turn \in Checkpoints(rows) THEN rows[e.turn].count
                             ELSE LatestCount(rows) + 1]
          ELSE NotReacting
    /\ UNCHANGED <<environment, git, history, database, ingestion, pendingMessage>>

CaptureCheckpoint ==
    /\ reacting.op = "capture"
    /\ refs' = Capture(<<"turn", reacting.count>>, refs)
    /\ reacting' = [reacting EXCEPT
                       !.op = "dispatch",
                       !.status = IF <<"turn-start", reacting.turn>> \in DOMAIN refs
                                  THEN @ ELSE "missing"]
    /\ UNCHANGED <<environment, tree, history, database, ingestion, reactQueue, pendingMessage>>

CaptureFails ==
    /\ GitFails
    /\ reacting.op = "capture"
    /\ reacting' = NotReacting
    /\ UNCHANGED <<environment, git, history, database, ingestion, reactQueue, pendingMessage>>

RecordCheckpoint ==
    /\ reacting.op = "dispatch"
    /\ rows' = AfterDiffCompleted(rows, reacting.turn, reacting.count, "git", reacting.status)
    /\ reacting' = NotReacting
    /\ UNCHANGED <<environment, git, history, session, pendingStart, ingestion, reactQueue,
                   pendingMessage>>

\* The refs a revert to n can restore: those of the checkpoints counted n.
RevertTargets(n) ==
    IF n = 0 THEN {<<"turn", 0>>}
    ELSE {RefOf(rows[t]) : t \in {u \in Checkpoints(rows) : rows[u].count = n}}

\* The thread is read and the worktree restored; a revert to 0 falls back to
\* HEAD.  Without a session, a recorded target or its ref the revert fails.
Revert ==
    LET n == Head(reactQueue).turn
        targets == RevertTargets(n)
        restorable == targets \cap DOMAIN refs
    IN
    /\ React({"revert"})
    /\ IF live /\ n <= LatestCount(rows) /\ (restorable # {} \/ n = 0)
       THEN /\ tree' = IF restorable = {} THEN {} ELSE refs[CHOOSE r \in restorable : TRUE]
            /\ reacting' = [NotReacting EXCEPT
                   !.op = "rollback", !.count = n,
                   !.stale = {RefOf(rows[t]) :
                                 t \in {u \in Checkpoints(rows) : rows[u].count > n}}]
       ELSE UNCHANGED <<tree, reacting>>
    /\ UNCHANGED <<environment, refs, history, database, ingestion, pendingMessage>>

\* mutant: the checkpoint reverted to is deleted too
RollBackProviderAndTarget ==
    /\ reacting.op = "rollback"
    /\ refs' = [r \in DOMAIN refs \ (reacting.stale \cup {<<"turn", reacting.count>>})
                  |-> refs[r]]
    /\ reacting' = [reacting EXCEPT !.op = "reverted"]
    /\ UNCHANGED <<environment, tree, history, database, ingestion, reactQueue, pendingMessage>>

\* The provider forgets the reverted turns, or refuses to; the stale refs are
\* deleted one by one, and a deletion that fails ends the revert.
RollBackProvider ==
    /\ reacting.op = "rollback"
    /\ \/ /\ refs' = [r \in DOMAIN refs \ reacting.stale |-> refs[r]]
          /\ reacting' = [reacting EXCEPT !.op = "reverted"]
          /\ UNCHANGED orphaned
       \/ \E deleted \in SUBSET reacting.stale :
          /\ reacting.stale # {}
          /\ refs' = [r \in DOMAIN refs \ deleted |-> refs[r]]
          /\ orphaned' = orphaned \cup deleted
          /\ reacting' = NotReacting
    /\ UNCHANGED <<environment, tree, prepared, database, ingestion, reactQueue, pendingMessage>>

RecordRevert ==
    /\ reacting.op = "reverted"
    /\ rows' = AfterReverted(rows, reacting.count)
    /\ pendingStart' = NoTurn
    /\ reacting' = NotReacting
    /\ UNCHANGED <<environment, git, history, session, ingestion, reactQueue, pendingMessage>>

\* thread.revert.complete fails: an activity says so, the rows stay as they are.
RevertFails ==
    /\ reacting.op = "reverted"
    /\ orphaned' = orphaned \cup reacting.stale
    /\ reacting' = NotReacting
    /\ UNCHANGED <<environment, git, prepared, database, ingestion, reactQueue, pendingMessage>>

-----------------------------------------------------------------------------
Next ==
    \/ RequestTurn \/ SendTurn \/ StartTurn \/ EditWorkspace \/ StreamText
    \/ \E ending \in Endings : EndTurn(ending)
    \/ \E n \in 0..MaxTurns : RequestRevert(n)
    \/ IngestTurnStarted \/ IngestText \/ IngestDiff \/ RecordPlaceholder
    \/ IngestTurnEnded \/ FinalizeMessages
    \/ ReactToUserMessage \/ ReactToTurnStartRequested \/ ReactToTurnStarted
    \/ ReactToTurnCompleted \/ CaptureCheckpoint \/ CaptureFails \/ RecordCheckpoint
    \/ Revert \/ RollBackProvider \/ RecordRevert \/ RevertFails

Spec == Init /\ [][Next]_vars

-----------------------------------------------------------------------------
TypeOK ==
    /\ {requested, sent, started, running} \subseteq 0..MaxTurns
    /\ live \in BOOLEAN
    /\ author \in Seq(Turns) /\ texts \in Nat /\ reverts \in Nat
    /\ tree \subseteq DOMAIN author
    /\ DOMAIN refs \subseteq RefNames
    /\ \A r \in DOMAIN refs : refs[r] \subseteq DOMAIN author
    /\ prepared \subseteq Turns /\ orphaned \subseteq ({"turn"} \cup RefKinds) \X Nat
    /\ session \in [status : SessionStatuses, active : 0..MaxTurns]
    /\ rows \in [Turns -> Row]
    /\ pendingStart \in 0..MaxTurns /\ pendingMessage \in 0..MaxTurns
    /\ ingestQueue \in Seq([kind : IngestedKinds, turn : Turns])
    /\ ingesting \in IngestingStates
    /\ ingesting.op # "idle" => ingesting.turn # NoTurn
    /\ tracked \in [Turns -> Nat] /\ spoken \subseteq Turns
    /\ reactQueue \in Seq([kind : ReactedKinds, turn : Turns]
                            \cup [kind : {"revert"}, turn : 0..MaxTurns])
    /\ reacting \in ReactingStates
    /\ reacting.op \in {"capture", "dispatch"} => reacting.turn # NoTurn

\* No two turns of a thread are recorded under the same checkpoint turn count,
\* although ingestion and the reactor compute counts from threads read before
\* the other one's dispatch: clearCheckpointTurnConflict.
CountsUnique ==
    \A t, u \in Turns : t # u /\ rows[t].count # NoCount => rows[t].count # rows[u].count

\* The projector closes one open turn, the newest, when a session settles: a
\* second open one would stay open.  There never is one.
AtMostOneOpenTurn == \A t, u \in OpenTurns(rows) : t = u

\* Once the provider is idle and its events are ingested, no turn is left open:
\* a thread does not show a running turn that nothing will ever end.
SettledTurnsAreClosed ==
    running = NoTurn /\ ingestQueue = <<>> /\ ingesting.op = "idle"
        => OpenTurns(rows) = {}

\* A recorded checkpoint can be restored: the git ref its row names exists,
\* except while the revert that deletes it is on its way to the log, or when
\* such a revert has failed after it deleted the ref.
CheckpointsAreRestorable ==
    \A t \in Checkpoints(rows) :
        rows[t].ref = "git" =>
            \/ RefOf(rows[t]) \in DOMAIN refs \cup orphaned
            \/ reacting.op = "reverted" /\ RefOf(rows[t]) \in reacting.stale

\* A turn's checkpoint holds all the edits the turn made: no intermediate tree
\* is recorded, and no other turn's capture moves its ref.
CheckpointHoldsItsTurn ==
    \A t \in Checkpoints(rows) :
        rows[t].ref = "git" /\ RefOf(rows[t]) \in DOMAIN refs
            => EditsOf(t) \subseteq refs[RefOf(rows[t])]

\* The tree a turn is compared with was taken before the turn's first edit, if
\* the message's baseline was captured before it was sent
\* (ProviderCommandReactor.ts:981, "Capture before provider dispatch so the
\* later turn diff is bounded by the user's submit moment").
BaselinePrecedesTurn ==
    \A t \in prepared :
        <<"turn-start", t>> \in DOMAIN refs => refs[<<"turn-start", t>>] \cap EditsOf(t) = {}

\* A real checkpoint stays authoritative: later placeholders do not replace it
\* (ProviderRuntimeIngestion.ts:2511, "A real checkpoint from CheckpointReactor is
\* the terminal turn diff and must stay authoritative").
RealCheckpointStays ==
    [][\A t \in Turns :
         rows[t].ref = "git" /\ rows'[t].ref # "git" => reacting.op = "reverted"]_vars
=============================================================================
