----------------------------- MODULE ThreadTurns -----------------------------
(***************************************************************************)
(* The rows of projection_turns of one thread, and what the projector      *)
(* projection.thread-turns makes of each domain event                      *)
(* (ProjectionPipeline.ts, persistence/Layers/ProjectionTurns.ts).         *)
(*                                                                         *)
(* Turns are numbered in the order the provider starts them, which is the  *)
(* order of their requestedAt.  A row is open while completed_at is NULL.  *)
(* A checkpoint's git ref is a function of its turn count, so a row keeps  *)
(* only whether its ref is a provider-diff placeholder or a git ref.       *)
(***************************************************************************)
EXTENDS Integers, FiniteSetsExt

CONSTANT Turns

NoTurn == 0
NoCount == 0

RowStates == {"none", "running", "completed", "interrupted", "error"}
RefKinds == {"none", "provider-diff", "git"}
CheckpointStatuses == {"none", "missing", "ready", "error"}

Row == [state : RowStates, open : BOOLEAN, count : Nat,
        ref : RefKinds, status : CheckpointStatuses]

NoRow == [state |-> "none", open |-> FALSE, count |-> NoCount,
          ref |-> "none", status |-> "none"]
RunningRow == [NoRow EXCEPT !.state = "running", !.open = TRUE]

HasRow(rows, t) == rows[t].state # "none"
OpenTurns(rows) == {t \in Turns : rows[t].open}

\* thread.checkpoints as every reader gets it: incomplete turns are left out.
Checkpoints(rows) == {t \in Turns : rows[t].count # NoCount /\ ~rows[t].open}

\* mutant: the maximum starts below the first turn count
LatestCountFromMinusOne(rows) == Max({NoCount - 1} \cup {rows[t].count : t \in Checkpoints(rows)})

LatestCount(rows) == Max({NoCount} \cup {rows[t].count : t \in Checkpoints(rows)})

-----------------------------------------------------------------------------
\* mutant: an interrupted session closes no turn
SettledStatusesButInterrupted == {"ready", "error", "stopped"}

\* thread.session-set
SettledStatuses == {"ready", "error", "interrupted", "stopped"}

FinalState(status, state) ==
    CASE status \in {"error", "interrupted"} -> status
      [] status \in {"ready", "stopped"} ->
           IF state \in {"error", "interrupted"} THEN state ELSE "completed"

\* mutant: the turn's state is finalized and its completed_at is not set
CloseNewestOpenTurnButTime(rows, status) ==
    IF OpenTurns(rows) = {}
    THEN rows
    ELSE [rows EXCEPT ![Max(OpenTurns(rows))].state = FinalState(status, @)]

CloseNewestOpenTurn(rows, status) ==
    IF OpenTurns(rows) = {}
    THEN rows
    ELSE LET t == Max(OpenTurns(rows)) IN
         [rows EXCEPT ![t].state = FinalState(status, @), ![t].open = FALSE]

MarkRunning(rows, t) ==
    IF HasRow(rows, t)
    THEN [rows EXCEPT ![t].state = IF @ \in {"completed", "error"} THEN @ ELSE "running"]
    ELSE [rows EXCEPT ![t] = RunningRow]

AfterSessionSet(rows, status, active) ==
    IF status = "running" /\ active # NoTurn
    THEN MarkRunning(rows, active)
    ELSE IF active = NoTurn /\ status \in SettledStatuses
         THEN CloseNewestOpenTurn(rows, status)
         ELSE rows

\* thread.message-sent with a streamed piece of turn t's answer; the message
\* that completes the answer changes nothing once the row exists.
AfterAssistantText(rows, t) ==
    IF HasRow(rows, t) /\ rows[t].state # "running"
    THEN rows
    ELSE IF HasRow(rows, t)
         THEN [rows EXCEPT ![t].open = TRUE]
         ELSE [rows EXCEPT ![t] = RunningRow]

\* mutant: the other turn keeps the count
KeepCheckpointTurnConflict(rows, t, count) == rows

\* thread.turn-diff-completed
ClearCheckpointTurnConflict(rows, t, count) ==
    [u \in Turns |->
        IF u # t /\ rows[u].count = count
        THEN [rows[u] EXCEPT !.count = NoCount, !.ref = "none", !.status = "none"]
        ELSE rows[u]]

AfterDiffCompleted(rows, t, count, ref, status) ==
    LET placeholder == status = "missing" /\ ref = "provider-diff"
        old == IF HasRow(rows, t) THEN rows[t] ELSE RunningRow
        state == CASE placeholder -> old.state
                   [] status = "error" -> "error"
                   [] OTHER -> "completed"
    IN [ClearCheckpointTurnConflict(rows, t, count) EXCEPT
           ![t] = [state |-> state, open |-> placeholder /\ old.open,
                   count |-> count, ref |-> ref, status |-> status]]

\* thread.reverted
AfterReverted(rows, n) ==
    [t \in Turns |-> IF rows[t].count # NoCount /\ rows[t].count <= n
                     THEN rows[t] ELSE NoRow]
=============================================================================
