------------------------ MODULE TurnCheckpointsProofs ------------------------
(***************************************************************************)
(* Proofs about TurnCheckpoints, for any number of turns and any bounds,   *)
(* endings and switches.                                                   *)
(***************************************************************************)
EXTENDS TurnCheckpoints, WellFoundedInduction, TLAPS

\* Every row with a git ref has it, and whatever the reactor is half way
\* through keeps it so: a captured ref waits for its row, a revert deletes no
\* ref it will leave a row for, unless it fails after the deletion.
RestorableInv ==
    /\ \A t \in Turns :
          rows[t].ref = "git" =>
              \/ <<"turn", rows[t].count>> \in DOMAIN refs \cup orphaned
              \/ reacting.op = "reverted" /\ <<"turn", rows[t].count>> \in reacting.stale
    /\ reacting.op = "dispatch" => <<"turn", reacting.count>> \in DOMAIN refs
    /\ reacting.op \in {"rollback", "reverted"} =>
          \A r \in reacting.stale : r[2] > reacting.count

IInv == TypeOK /\ CountsUnique /\ RestorableInv

-----------------------------------------------------------------------------
\* A non-empty set of naturals has a least element.
LEMMA LeastNat ==
    ASSUME NEW T, T \subseteq Nat, T # {}
    PROVE  \E n \in T : \A k \in T : n <= k
<1>1. PICK n \in T : \A k \in T : ~(<<k, n>> \in OpToRel(<, Nat))
  BY NatLessThanWellFounded, WFMin
<1>2. ASSUME NEW k \in T PROVE n <= k
  <2>1. <<k, n>> \in Nat \X Nat
    OBVIOUS
  <2>2. ~(k < n)
    BY <1>1, <2>1 DEF OpToRel
  <2> QED BY <2>2
<1> QED BY <1>2

\* Finitely many naturals have an upper bound.
LEMMA BoundExists ==
    ASSUME NEW N \in Nat, NEW f \in [1..N -> Nat]
    PROVE  \E b \in Nat : \A t \in 1..N : f[t] <= b
<1> DEFINE Bounded(k) == \E b \in Nat : \A t \in 1..k : f[t] <= b
           Unbounded == {k \in 0..N : ~Bounded(k)}
<1>1. SUFFICES ASSUME Unbounded # {} PROVE FALSE
  <2>1. N \in 0..N
    OBVIOUS
  <2>2. ~Bounded(N) => N \in Unbounded
    BY <2>1
  <2> HIDE DEF Unbounded
  <2> QED BY <2>2
<1>2. PICK k \in Unbounded : \A j \in Unbounded : k <= j
  <2>1. Unbounded \subseteq Nat
    OBVIOUS
  <2> QED BY <1>1, <2>1, LeastNat
<1>3. k # 0
  <2>1. \A t \in 1..0 : f[t] <= 0
    OBVIOUS
  <2>2. Bounded(0)
    BY <2>1
  <2> QED BY <2>2, <1>2
<1>4. k \in 1..N /\ k - 1 \in 0..N /\ Bounded(k - 1)
  <2>1. k \in 1..N /\ k - 1 \in 0..N
    BY <1>2, <1>3
  <2>2. k - 1 \notin Unbounded
    <3>1. k \in Nat /\ ~(k <= k - 1)
      BY <2>1
    <3> HIDE DEF Unbounded
    <3> QED BY <1>2, <3>1
  <2> QED BY <2>1, <2>2
<1>5. PICK b \in Nat : \A t \in 1..(k - 1) : f[t] <= b
  BY <1>4
<1>6. PICK c \in Nat : b <= c /\ f[k] <= c
  <2>1. f[k] \in Nat
    BY <1>4
  <2> QED BY <2>1, <1>5
<1>7. \A t \in 1..k : f[t] <= c
  <2> SUFFICES ASSUME NEW t \in 1..k PROVE f[t] <= c
    OBVIOUS
  <2>1. f[t] \in Nat /\ (t = k \/ t \in 1..(k - 1))
    BY <1>4
  <2> QED BY <2>1, <1>5, <1>6
<1> QED
  <2>1. Bounded(k)
    BY <1>7
  <2> QED BY <2>1, <1>2

\* A bounded set of naturals with 0 in it has a greatest element.
LEMMA MaxOfNaturals ==
    ASSUME NEW S, S \subseteq Nat, 0 \in S, NEW b \in Nat, \A x \in S : x <= b
    PROVE  Max(S) \in S /\ \A x \in S : x <= Max(S)
<1> DEFINE Bounds == {n \in Nat : \A x \in S : x <= n}
<1>1. PICK n \in Bounds : \A k \in Bounds : n <= k
  <2>1. Bounds \subseteq Nat /\ b \in Bounds
    OBVIOUS
  <2> QED BY <2>1, LeastNat
<1>2. n \in S
  <2>1. SUFFICES ASSUME n \notin S PROVE FALSE
    OBVIOUS
  <2>2. n # 0 /\ n - 1 \in Nat
    BY <2>1, <1>1
  <2>3. ASSUME NEW x \in S PROVE x <= n - 1
    <3>1. x \in Nat /\ x <= n /\ x # n
      BY <2>1, <1>1
    <3> QED BY <3>1, <1>1
  <2> QED BY <2>2, <2>3, <1>1
<1>3. \A x \in S : n >= x
  BY <1>1
<1> QED BY <1>2, <1>3 DEF Max

-----------------------------------------------------------------------------
\* The latest turn count is a count, and no checkpoint has a greater one.
LEMMA LatestCountIsLatest ==
    ASSUME NEW N \in Nat, Turns = 1..N, NEW r \in [Turns -> Row]
    PROVE  /\ LatestCount(r) \in Nat
           /\ \A t \in Checkpoints(r) : r[t].count <= LatestCount(r)
<1> DEFINE f == [t \in 1..N |-> r[t].count]
           S == {NoCount} \cup {r[t].count : t \in Checkpoints(r)}
<1>1. \A t \in 1..N : r[t].count \in Nat
  BY DEF Row
<1>2. f \in [1..N -> Nat]
  BY <1>1
<1>3. PICK b \in Nat : \A t \in 1..N : f[t] <= b
  BY <1>2, BoundExists
<1>4. Checkpoints(r) \subseteq 1..N
  BY DEF Checkpoints
<1>5. S \subseteq Nat /\ 0 \in S
  BY <1>1, <1>4 DEF NoCount
<1>6. \A x \in S : x <= b
  BY <1>3, <1>4 DEF NoCount
<1>7. Max(S) \in S /\ \A x \in S : x <= Max(S)
  <2> HIDE DEF S
  <2> QED BY <1>5, <1>6, MaxOfNaturals
<1>8. LatestCount(r) = Max(S)
  BY DEF LatestCount
<1> QED BY <1>5, <1>7, <1>8

-----------------------------------------------------------------------------
\* What an event may do to the rows without touching checkpoints: take a turn
\* count or a git ref away, never give one.
GivesNothing(old, new) ==
    \A t \in Turns :
        /\ new[t].count \in {NoCount, old[t].count}
        /\ new[t].ref = "git" => old[t].ref = "git" /\ new[t].count = old[t].count

LEMMA SettlingRows ==
    ASSUME NEW r \in [Turns -> Row], NEW status \in SettledStatuses
    PROVE  /\ CloseNewestOpenTurn(r, status) \in [Turns -> Row]
           /\ GivesNothing(r, CloseNewestOpenTurn(r, status))
<1> DEFINE u == Max(OpenTurns(r))
           new == CloseNewestOpenTurn(r, status)
<1>1. CASE OpenTurns(r) = {}
  BY <1>1 DEF CloseNewestOpenTurn, GivesNothing
<1>2. CASE OpenTurns(r) # {}
  <2>1. new = [r EXCEPT ![u] = [r[u] EXCEPT !.state = FinalState(status, r[u].state),
                                            !.open = FALSE]]
    BY <1>2 DEF CloseNewestOpenTurn
  <2>2. ASSUME NEW t \in Turns PROVE FinalState(status, r[t].state) \in RowStates
    <3>1. r[t].state \in RowStates
      BY DEF Row
    <3> QED BY <3>1 DEF FinalState, SettledStatuses, RowStates
  <2>3. ASSUME NEW t \in Turns
        PROVE  /\ new[t] \in Row
               /\ new[t].count = r[t].count /\ new[t].ref = r[t].ref
    <3>1. CASE t = u
      BY <2>1, <2>2, <3>1 DEF Row
    <3>2. CASE t # u
      BY <2>1, <3>2 DEF Row
    <3> QED BY <3>1, <3>2
  <2>4. DOMAIN new = Turns /\ new = [t \in Turns |-> new[t]]
    BY <2>1
  <2>5. new \in [Turns -> Row] /\ GivesNothing(r, new)
    <3> HIDE DEF new
    <3> QED BY <2>3, <2>4 DEF GivesNothing
  <2> QED BY <2>5
<1> QED BY <1>1, <1>2

LEMMA StartedRows ==
    ASSUME NEW r \in [Turns -> Row], NEW t \in Turns
    PROVE  /\ MarkRunning(r, t) \in [Turns -> Row]
           /\ GivesNothing(r, MarkRunning(r, t))
  BY ZenonT(40) DEF MarkRunning, GivesNothing, RunningRow, NoRow, Row, RowStates, RefKinds,
         CheckpointStatuses, NoCount

LEMMA SessionRows ==
    ASSUME NEW r \in [Turns -> Row], NEW status, NEW active \in Turns \cup {NoTurn}
    PROVE  /\ AfterSessionSet(r, status, active) \in [Turns -> Row]
           /\ GivesNothing(r, AfterSessionSet(r, status, active))
<1>1. CASE status = "running" /\ active # NoTurn
  BY <1>1, StartedRows DEF AfterSessionSet
<1>2. CASE ~(status = "running" /\ active # NoTurn) /\ active = NoTurn
           /\ status \in SettledStatuses
  BY <1>2, SettlingRows DEF AfterSessionSet
<1>3. CASE /\ ~(status = "running" /\ active # NoTurn)
           /\ ~(active = NoTurn /\ status \in SettledStatuses)
  BY <1>3 DEF AfterSessionSet, GivesNothing
<1> QED BY <1>1, <1>2, <1>3

LEMMA SpokenRows ==
    ASSUME NEW r \in [Turns -> Row], NEW t \in Turns
    PROVE  /\ AfterAssistantText(r, t) \in [Turns -> Row]
           /\ GivesNothing(r, AfterAssistantText(r, t))
  BY DEF AfterAssistantText, GivesNothing, RunningRow, NoRow, Row, RowStates, RefKinds,
         CheckpointStatuses, NoCount

LEMMA RevertedRows ==
    ASSUME NEW r \in [Turns -> Row], NEW n \in Nat
    PROVE  /\ AfterReverted(r, n) \in [Turns -> Row]
           /\ GivesNothing(r, AfterReverted(r, n))
           /\ \A t \in Turns : AfterReverted(r, n)[t].ref = "git" => r[t].count <= n
  BY DEF AfterReverted, GivesNothing, NoRow, Row, RowStates, RefKinds,
         CheckpointStatuses, NoCount

\* A recorded diff gives its turn the count and takes it from every other turn.
LEMMA DiffRows ==
    ASSUME NEW r \in [Turns -> Row], NEW t \in Turns, NEW count \in Nat,
           NEW ref \in RefKinds, NEW status \in CheckpointStatuses
    PROVE  LET new == AfterDiffCompleted(r, t, count, ref, status) IN
           /\ new \in [Turns -> Row]
           /\ new[t].count = count /\ new[t].ref = ref
           /\ \A u \in Turns \ {t} :
                 /\ new[u].count = IF r[u].count = count THEN NoCount ELSE r[u].count
                 /\ new[u].ref = "git" => r[u].ref = "git" /\ new[u].count = r[u].count
<1> DEFINE cleared == ClearCheckpointTurnConflict(r, t, count)
           placeholder == status = "missing" /\ ref = "provider-diff"
           old == IF HasRow(r, t) THEN r[t] ELSE RunningRow
           state == CASE placeholder -> old.state
                      [] status = "error" -> "error"
                      [] OTHER -> "completed"
           row == [state |-> state, open |-> placeholder /\ old.open,
                   count |-> count, ref |-> ref, status |-> status]
           new == AfterDiffCompleted(r, t, count, ref, status)
<1>1. cleared \in [Turns -> Row]
  BY DEF ClearCheckpointTurnConflict, Row, RefKinds, CheckpointStatuses, NoCount
<1>2. row \in Row
  <2>1. old \in Row
    BY DEF RunningRow, NoRow, Row, RowStates, RefKinds, CheckpointStatuses, NoCount
  <2>2. state \in RowStates
    <3> HIDE DEF old
    <3> QED BY <2>1 DEF Row, RowStates
  <2>3. (placeholder /\ old.open) \in BOOLEAN
    OBVIOUS
  <2> HIDE DEF state, old, placeholder
  <2> QED BY <2>2, <2>3 DEF Row
<1>3. new = [cleared EXCEPT ![t] = row]
  BY DEF AfterDiffCompleted
<1>4. new \in [Turns -> Row] /\ new[t] = row
  <2> HIDE DEF new, cleared, row
  <2> QED BY <1>1, <1>2, <1>3
<1>5. ASSUME NEW u \in Turns \ {t}
      PROVE  /\ new[u].count = IF r[u].count = count THEN NoCount ELSE r[u].count
             /\ new[u].ref = "git" => r[u].ref = "git" /\ new[u].count = r[u].count
  <2>1. new[u] = cleared[u]
    <3> HIDE DEF new, cleared, row
    <3> QED BY <1>1, <1>3
  <2>2. cleared[u] = IF r[u].count = count
                     THEN [r[u] EXCEPT !.count = NoCount, !.ref = "none", !.status = "none"]
                     ELSE r[u]
    BY DEF ClearCheckpointTurnConflict
  <2>3. r[u] \in Row
    OBVIOUS
  <2> HIDE DEF new, cleared, row
  <2> QED BY <2>1, <2>2, <2>3 DEF Row
<1>6. row.count = count /\ row.ref = ref
  OBVIOUS
<1> QED
  <2> HIDE DEF new, cleared, row
  <2> SUFFICES /\ new \in [Turns -> Row]
               /\ new[t].count = count /\ new[t].ref = ref
               /\ \A u \in Turns \ {t} :
                     /\ new[u].count = IF r[u].count = count THEN NoCount ELSE r[u].count
                     /\ new[u].ref = "git" => r[u].ref = "git" /\ new[u].count = r[u].count
    BY DEF new
  <2> QED BY <1>4, <1>5, <1>6

-----------------------------------------------------------------------------
\* Refs that are captured, copied or deleted stay refs to edits that were made.
RefsOK(f, edits) == DOMAIN f \subseteq RefNames /\ \A r \in DOMAIN f : f[r] \subseteq edits

LEMMA UpdatedRefs ==
    ASSUME NEW f, NEW edits, NEW name \in RefNames, NEW content \in SUBSET edits,
           RefsOK(f, edits)
    PROVE  /\ RefsOK(UpdateRef(name, content, f), edits)
           /\ DOMAIN UpdateRef(name, content, f) = DOMAIN f \cup {name}
  BY DEF RefsOK, UpdateRef

LEMMA CapturedRefs ==
    ASSUME TypeOK, NEW f, NEW name \in RefNames, RefsOK(f, DOMAIN author)
    PROVE  /\ RefsOK(Capture(name, f), DOMAIN author)
           /\ DOMAIN Capture(name, f) = DOMAIN f \cup {name}
           /\ RefsOK(CaptureIfMissing(name, f), DOMAIN author)
           /\ DOMAIN CaptureIfMissing(name, f) = DOMAIN f \cup {name}
<1>1. tree \in SUBSET DOMAIN author
  BY DEF TypeOK
<1>2. RefsOK(Capture(name, f), DOMAIN author) /\ DOMAIN Capture(name, f) = DOMAIN f \cup {name}
  BY <1>1, UpdatedRefs DEF Capture
<1> QED
  <2>1. CASE name \in DOMAIN f
    BY <1>2, <2>1 DEF CaptureIfMissing
  <2>2. CASE name \notin DOMAIN f
    BY <1>2, <2>2 DEF CaptureIfMissing
  <2> QED BY <2>1, <2>2

\* The baseline of the latest checkpoint only adds a ref.
LEMMA LegacyRefs ==
    ASSUME TypeOK, NEW f, RefsOK(f, DOMAIN author)
    PROVE  /\ RefsOK(EnsureLegacyBaseline(f), DOMAIN author)
           /\ DOMAIN f \subseteq DOMAIN EnsureLegacyBaseline(f)
<1>1. <<"turn", LatestCount(rows)>> \in RefNames
  BY LatestCountIsLatest, MaxTurnsAssumption, TurnsAssumption DEF TypeOK, RefNames
<1> QED BY <1>1, CapturedRefs DEF EnsureLegacyBaseline

\* What is at the head of a queue, and what is left of it.
LEMMA Heads ==
    ASSUME TypeOK
    PROVE  /\ ingestQueue # <<>> =>
                 /\ Head(ingestQueue) \in [kind : IngestedKinds, turn : Turns]
                 /\ Tail(ingestQueue) \in Seq([kind : IngestedKinds, turn : Turns])
           /\ reactQueue # <<>> =>
                 /\ Head(reactQueue) \in [kind : ReactedKinds, turn : Turns]
                                          \cup [kind : {"revert"}, turn : 0..MaxTurns]
                 /\ Tail(reactQueue) \in Seq([kind : ReactedKinds, turn : Turns]
                                              \cup [kind : {"revert"}, turn : 0..MaxTurns])
<1> DEFINE R == [kind : ReactedKinds, turn : Turns] \cup [kind : {"revert"}, turn : 0..MaxTurns]
           I == [kind : IngestedKinds, turn : Turns]
<1>1. ingestQueue \in Seq(I) /\ reactQueue \in Seq(R)
  BY DEF TypeOK
<1> HIDE DEF R, I
<1>2. ingestQueue # <<>> => Head(ingestQueue) \in I /\ Tail(ingestQueue) \in Seq(I)
  BY <1>1
<1>3. reactQueue # <<>> => Head(reactQueue) \in R /\ Tail(reactQueue) \in Seq(R)
  BY <1>1
<1> QED BY <1>2, <1>3 DEF R, I

\* What is half handled is typed.
LEMMA HalfHandled ==
    ASSUME TypeOK
    PROVE  /\ ingesting.op # "idle" => ingesting.turn \in Turns
           /\ reacting.op \in {"capture", "dispatch"} => reacting.turn \in Turns
           /\ ingesting.count \in Nat /\ reacting.count \in Nat
           /\ reacting.status \in CheckpointStatuses
  BY MaxTurnsAssumption, TurnsAssumption
  DEF TypeOK, IngestingStates, ReactingStates, NoTurn

-----------------------------------------------------------------------------
(* Every step keeps the types: first those of the rows and the refs.       *)

LEMMA RowsStep ==
    TypeOK /\ [Next]_vars =>
        /\ rows' \in [Turns -> Row]
        /\ RecordPlaceholder \/ RecordCheckpoint \/ GivesNothing(rows, rows')
<1> DEFINE Goal == /\ rows' \in [Turns -> Row]
                   /\ RecordPlaceholder \/ RecordCheckpoint \/ GivesNothing(rows, rows')
<1> SUFFICES ASSUME TypeOK, [Next]_vars PROVE Goal
  OBVIOUS
<1>0. rows \in [Turns -> Row]
  BY DEF TypeOK
<1>10. GivesNothing(rows, rows)
  BY DEF GivesNothing
<1>1. ASSUME RequestTurn \/ SendTurn \/ StartTurn \/ EditWorkspace \/ StreamText
             \/ (\E ending \in Endings : EndTurn(ending))
             \/ (\E n \in 0..MaxTurns : RequestRevert(n))
      PROVE  Goal
  BY <1>0, <1>10, <1>1 DEF RequestTurn, SendTurn, StartTurn, EditWorkspace, StreamText, EndTurn,
                    RequestRevert, database
<1>2. CASE IngestTurnStarted
  <2>1. Head(ingestQueue).turn \in Turns
    BY <1>2, Heads DEF IngestTurnStarted, Ingest
  <2>2. rows' \in {rows, AfterSessionSet(rows, "running", Head(ingestQueue).turn)}
    BY <1>2 DEF IngestTurnStarted, SetSession, database
  <2> QED BY <1>0, <1>10, <2>1, <2>2, SessionRows
<1>3. CASE IngestText
  <2>1. Head(ingestQueue).turn \in Turns
    BY <1>3, Heads DEF IngestText, Ingest
  <2> QED BY <1>0, <1>10, <1>3, <2>1, SpokenRows DEF IngestText
<1>4. CASE RecordPlaceholder
  <2>1. ingesting.turn \in Turns /\ ingesting.count \in Nat
    BY <1>4, HalfHandled DEF RecordPlaceholder
  <2>2. rows' = AfterDiffCompleted(rows, ingesting.turn, ingesting.count,
                                   "provider-diff", "missing")
    BY <1>4 DEF RecordPlaceholder
  <2>3. "provider-diff" \in RefKinds /\ "missing" \in CheckpointStatuses
    BY DEF RefKinds, CheckpointStatuses
  <2> QED BY <1>0, <2>1, <2>2, <2>3, DiffRows, <1>4
<1>5. CASE IngestTurnEnded
  <2>1. rows' \in {rows} \cup {AfterSessionSet(rows, status, NoTurn) : status \in SessionStatuses}
    <3>1. SessionStatusAt(Head(ingestQueue).kind) \in SessionStatuses
      BY DEF SessionStatusAt, SessionStatuses
    <3> QED BY <1>5, <3>1 DEF IngestTurnEnded, SetSession, database
  <2>2. NoTurn \in Turns \cup {NoTurn}
    OBVIOUS
  <2>3. ASSUME NEW status \in SessionStatuses, rows' = AfterSessionSet(rows, status, NoTurn)
        PROVE  Goal
    BY <1>0, <2>2, <2>3, SessionRows
  <2> QED BY <1>0, <1>10, <2>1, <2>3
<1>6. CASE FinalizeMessages
  <2>1. ingesting.turn \in Turns
    BY <1>6, HalfHandled DEF FinalizeMessages
  <2>2. rows' \in {rows, AfterAssistantText(rows, ingesting.turn)}
    BY <1>6 DEF FinalizeMessages
  <2> QED BY <1>0, <1>10, <2>1, <2>2, SpokenRows
<1>7. CASE RecordCheckpoint
  <2>1. /\ reacting.turn \in Turns /\ reacting.count \in Nat
        /\ reacting.status \in CheckpointStatuses
    BY <1>7, HalfHandled DEF RecordCheckpoint
  <2>2. rows' = AfterDiffCompleted(rows, reacting.turn, reacting.count, "git", reacting.status)
    BY <1>7 DEF RecordCheckpoint
  <2>3. "git" \in RefKinds
    BY DEF RefKinds
  <2> QED BY <1>0, <2>1, <2>2, <2>3, DiffRows, <1>7
<1>8. CASE RecordRevert
  <2>1. reacting.count \in Nat
    BY HalfHandled
  <2> QED BY <1>0, <1>8, <2>1, RevertedRows DEF RecordRevert
<1>9. ASSUME IngestDiff \/ ReactToUserMessage \/ ReactToTurnStartRequested
             \/ ReactToTurnStarted \/ ReactToTurnCompleted \/ CaptureCheckpoint
             \/ CaptureFails \/ Revert \/ RollBackProvider \/ RevertFails \/ UNCHANGED vars
      PROVE  Goal
  BY <1>0, <1>10, <1>9 DEF IngestDiff, ReactToUserMessage, ReactToTurnStartRequested,
                    ReactToTurnStarted, ReactToTurnCompleted, CaptureCheckpoint,
                    CaptureFails, Revert, RollBackProvider, RevertFails, vars, database
<1> QED BY <1>1, <1>2, <1>3, <1>4, <1>5, <1>6, <1>7, <1>8, <1>9 DEF Next

\* The refs stay well formed; only a rollback deletes any.
LEMMA RefsStep ==
    TypeOK /\ [Next]_vars =>
        /\ RefsOK(refs', DOMAIN author')
        /\ RollBackProvider \/ DOMAIN refs \subseteq DOMAIN refs'
<1> DEFINE Goal == /\ RefsOK(refs', DOMAIN author')
                   /\ RollBackProvider \/ DOMAIN refs \subseteq DOMAIN refs'
<1> SUFFICES ASSUME TypeOK, [Next]_vars PROVE Goal
  OBVIOUS
<1>0. RefsOK(refs, DOMAIN author)
  BY DEF TypeOK, RefsOK
<1>1. CASE EditWorkspace
  <2>1. DOMAIN author \subseteq DOMAIN author'
    <3>1. running \in Turns /\ author \in Seq(Turns) /\ author' = Append(author, running)
      BY <1>1, MaxTurnsAssumption, TurnsAssumption DEF EditWorkspace, TypeOK, NoTurn
    <3> QED BY <3>1
  <2>2. refs' = refs
    BY <1>1 DEF EditWorkspace
  <2> QED BY <1>0, <2>1, <2>2 DEF RefsOK
<1>2. CASE SendTurn
  <2>1. <<"message-start", sent'>> \in RefNames
    BY <1>2, MaxTurnsAssumption, TurnsAssumption DEF SendTurn, TypeOK, RefNames
  <2>2. author' = author /\ (refs' = Capture(<<"message-start", sent'>>, refs) \/ refs' = refs)
    BY <1>2 DEF SendTurn
  <2> QED BY <1>0, <2>1, <2>2, CapturedRefs
<1>3. CASE ReactToUserMessage
  BY <1>0, <1>3, LegacyRefs DEF ReactToUserMessage, environment
<1>4. CASE ReactToTurnStartRequested
  <2>1. Head(reactQueue).turn \in Turns
    BY <1>4, Heads DEF ReactToTurnStartRequested, React
  <2> DEFINE name == <<"message-start", Head(reactQueue).turn>>
             f == CaptureIfMissing(name, refs)
  <2>2. name \in RefNames
    BY <2>1 DEF RefNames
  <2>3. RefsOK(f, DOMAIN author) /\ DOMAIN refs \subseteq DOMAIN f
    BY <1>0, <2>2, CapturedRefs
  <2>4. refs' = EnsureLegacyBaseline(f) /\ author' = author
    BY <1>4 DEF ReactToTurnStartRequested, environment
  <2> HIDE DEF f
  <2> QED BY <2>3, <2>4, LegacyRefs
<1>5. CASE ReactToTurnStarted
  <2>1. Head(reactQueue).turn \in Turns
    BY <1>5, Heads DEF ReactToTurnStarted, React
  <2> DEFINE start == <<"turn-start", Head(reactQueue).turn>>
  <2>2. start \in RefNames
    BY <2>1 DEF RefNames
  <2>3. PICK f : /\ refs' = EnsureLegacyBaseline(f)
                 /\ \/ f = CaptureIfMissing(start, refs)
                    \/ \E r \in DOMAIN refs : f = UpdateRef(start, refs[r], refs)
    BY <1>5 DEF ReactToTurnStarted
  <2> HIDE DEF start
  <2>4. RefsOK(f, DOMAIN author) /\ DOMAIN refs \subseteq DOMAIN f
    <3>1. CASE f = CaptureIfMissing(start, refs)
      BY <1>0, <2>2, <3>1, CapturedRefs
    <3>2. ASSUME NEW r \in DOMAIN refs, f = UpdateRef(start, refs[r], refs)
          PROVE  RefsOK(f, DOMAIN author) /\ DOMAIN refs \subseteq DOMAIN f
      <4>1. refs[r] \in SUBSET DOMAIN author
        BY <1>0 DEF RefsOK
      <4>2. /\ RefsOK(UpdateRef(start, refs[r], refs), DOMAIN author)
            /\ DOMAIN UpdateRef(start, refs[r], refs) = DOMAIN refs \cup {start}
        BY <1>0, <2>2, <4>1, UpdatedRefs
      <4> QED BY <3>2, <4>2
    <3> QED BY <2>3, <3>1, <3>2
  <2>5. author' = author
    BY <1>5 DEF ReactToTurnStarted, environment
  <2> QED BY <2>3, <2>4, <2>5, LegacyRefs
<1>6. CASE CaptureCheckpoint
  <2>1. <<"turn", reacting.count>> \in RefNames
    BY HalfHandled DEF RefNames
  <2> QED BY <1>0, <1>6, <2>1, CapturedRefs DEF CaptureCheckpoint, environment
<1>7. CASE RollBackProvider
  BY <1>0, <1>7 DEF RollBackProvider, environment, RefsOK
<1>8. ASSUME RequestTurn \/ StartTurn \/ StreamText
             \/ (\E ending \in Endings : EndTurn(ending))
             \/ (\E n \in 0..MaxTurns : RequestRevert(n))
      PROVE  Goal
  BY <1>0, <1>8 DEF RequestTurn, StartTurn, StreamText, EndTurn, RequestRevert, git
<1>9. ASSUME IngestTurnStarted \/ IngestText \/ IngestDiff \/ RecordPlaceholder
             \/ IngestTurnEnded \/ FinalizeMessages \/ ReactToTurnCompleted
             \/ CaptureFails \/ RecordCheckpoint \/ Revert \/ RecordRevert
             \/ RevertFails \/ UNCHANGED vars
      PROVE  Goal
  BY <1>0, <1>9 DEF IngestTurnStarted, IngestText, IngestDiff, RecordPlaceholder,
                    IngestTurnEnded, FinalizeMessages, ReactToTurnCompleted, CaptureFails,
                    RecordCheckpoint, Revert, RecordRevert, RevertFails, vars, git, environment
<1> QED BY <1>1, <1>2, <1>3, <1>4, <1>5, <1>6, <1>7, <1>8, <1>9 DEF Next

\* Only a message sent is prepared, and what a failing revert deleted stays
\* remembered.
LEMMA HistoryStep ==
    TypeOK /\ [Next]_vars =>
        /\ prepared' \subseteq Turns /\ orphaned' \subseteq ({"turn"} \cup RefKinds) \X Nat
        /\ orphaned \subseteq orphaned'
        /\ orphaned' = orphaned \/ RollBackProvider \/ RevertFails
        /\ prepared' = prepared \/ (SendTurn /\ prepared' = prepared \cup {sent'})
<1> SUFFICES ASSUME TypeOK, [Next]_vars
             PROVE  /\ prepared' \subseteq Turns
                    /\ orphaned' \subseteq ({"turn"} \cup RefKinds) \X Nat
                    /\ orphaned \subseteq orphaned'
                    /\ orphaned' = orphaned \/ RollBackProvider \/ RevertFails
                    /\ prepared' = prepared \/ (SendTurn /\ prepared' = prepared \cup {sent'})
  OBVIOUS
<1>0. /\ prepared \subseteq Turns /\ orphaned \subseteq ({"turn"} \cup RefKinds) \X Nat
      /\ reacting.stale \subseteq ({"turn"} \cup RefKinds) \X Nat
  BY DEF TypeOK, ReactingStates
<1>1. CASE SendTurn
  <2>1. sent' \in Turns
    BY <1>1, MaxTurnsAssumption, TurnsAssumption DEF SendTurn, TypeOK
  <2>2. orphaned' = orphaned /\ prepared' \in {prepared, prepared \cup {sent'}}
    BY <1>1 DEF SendTurn
  <2> QED BY <1>0, <1>1, <2>1, <2>2
<1>2. CASE RollBackProvider \/ RevertFails
  <2>1. prepared' = prepared
    BY <1>2 DEF RollBackProvider, RevertFails
  <2>2. \E deleted \in SUBSET reacting.stale : orphaned' = orphaned \cup deleted
    <3>1. CASE RevertFails
      BY <3>1 DEF RevertFails
    <3>2. CASE RollBackProvider
      <4>1. orphaned' = orphaned
            \/ \E deleted \in SUBSET reacting.stale : orphaned' = orphaned \cup deleted
        BY <3>2 DEF RollBackProvider
      <4>2. {} \in SUBSET reacting.stale /\ orphaned = orphaned \cup {}
        OBVIOUS
      <4> QED BY <4>1, <4>2
    <3> QED BY <1>2, <3>1, <3>2
  <2> QED BY <1>0, <1>2, <2>1, <2>2
<1>3. CASE ~SendTurn /\ ~RollBackProvider /\ ~RevertFails
  <2>1. prepared' = prepared /\ orphaned' = orphaned
    BY <1>3 DEF Next, RequestTurn, StartTurn, EditWorkspace, StreamText, EndTurn,
           RequestRevert, IngestTurnStarted, IngestText, IngestDiff, RecordPlaceholder,
           IngestTurnEnded, FinalizeMessages, ReactToUserMessage,
           ReactToTurnStartRequested, ReactToTurnStarted, ReactToTurnCompleted,
           CaptureCheckpoint, CaptureFails, RecordCheckpoint, Revert, RecordRevert,
           history, vars
  <2> QED BY <1>0, <2>1
<1> QED BY <1>1, <1>2, <1>3

IngestStep ==
    IngestTurnStarted \/ IngestText \/ IngestDiff \/ RecordPlaceholder
    \/ IngestTurnEnded \/ FinalizeMessages

ReactStep ==
    ReactToUserMessage \/ ReactToTurnStartRequested \/ ReactToTurnStarted
    \/ ReactToTurnCompleted \/ CaptureCheckpoint \/ CaptureFails \/ RecordCheckpoint
    \/ Revert \/ RollBackProvider \/ RecordRevert \/ RevertFails

\* Ingestion keeps the types.
LEMMA IngestType == TypeOK /\ IngestStep => TypeOK'
<1> SUFFICES ASSUME TypeOK, IngestStep PROVE TypeOK'
  OBVIOUS
<1>1. /\ rows' \in [Turns -> Row]
      /\ LatestCount(rows) \in Nat /\ NoTurn = 0 /\ NoCount = 0
      /\ MaxTurns \in Nat /\ Turns = 1..MaxTurns
      /\ ingesting.op # "idle" => ingesting.turn \in Turns
  BY RowsStep, LatestCountIsLatest, HalfHandled, MaxTurnsAssumption, TurnsAssumption
  DEF IngestStep, Next, TypeOK, NoTurn, NoCount
<1>2. ingestQueue # <<>> =>
          /\ Head(ingestQueue).kind \in IngestedKinds /\ Head(ingestQueue).turn \in Turns
          /\ Tail(ingestQueue) \in Seq([kind : IngestedKinds, turn : Turns])
  BY Heads
<1>9. NotIngesting \in IngestingStates /\ NotIngesting.op = "idle"
  BY <1>1 DEF NotIngesting, IngestingStates
<1> DEFINE IngestingOK ==
             /\ ingesting' \in IngestingStates
             /\ ingesting'.op # "idle" => ingesting'.turn # NoTurn
<1>3. CASE IngestTurnStarted
  <2>1. /\ session' \in [status : SessionStatuses, active : 0..MaxTurns]
        /\ pendingStart' \in 0..MaxTurns
    <3>1. \/ session' = session /\ pendingStart' = pendingStart
          \/ /\ session' = [status |-> "running", active |-> Head(ingestQueue).turn]
             /\ pendingStart' \in {NoTurn, pendingStart}
      BY <1>3 DEF IngestTurnStarted, SetSession, database
    <3>2. "running" \in SessionStatuses /\ Head(ingestQueue).turn \in 0..MaxTurns
      BY <1>1, <1>2, <1>3 DEF IngestTurnStarted, Ingest, SessionStatuses
    <3> QED BY SMTT(30), <1>1, <3>1, <3>2 DEF TypeOK
  <2> QED BY <1>1, <1>2, <1>3, <2>1 DEF IngestTurnStarted, Ingest, TypeOK, environment, git, history, reactor
<1>4. CASE IngestText
  BY <1>1, <1>2, <1>4 DEF IngestText, Ingest, TypeOK, environment, git, history, reactor
<1>5. CASE IngestDiff
  <2>1. tracked' \in [Turns -> Nat] /\ IngestingOK
    <3> DEFINE t == Head(ingestQueue).turn
               recorded == IF t \in Checkpoints(rows) THEN rows[t].count ELSE NoCount
               count == CASE tracked[t] # NoCount -> tracked[t]
                          [] recorded # NoCount -> recorded
                          [] OTHER -> LatestCount(rows) + 1
    <3>1. t \in Turns
      BY <1>2, <1>5 DEF IngestDiff, Ingest
    <3>2. recorded \in Nat
      BY <1>1, <3>1 DEF TypeOK, Row
    <3>3. count \in Nat
      <4>1. tracked[t] \in Nat /\ LatestCount(rows) + 1 \in Nat
        BY <1>1, <3>1 DEF TypeOK
      <4> HIDE DEF recorded, t
      <4> QED BY <3>2, <4>1
    <3>4. CASE recorded # NoCount /\ rows[t].ref = "git"
      <4>1. tracked' = [tracked EXCEPT ![t] = NoCount] /\ ingesting' = ingesting
        BY <1>5, <3>4 DEF IngestDiff
      <4> HIDE DEF t
      <4> QED BY <1>1, <3>1, <4>1 DEF TypeOK
    <3>5. CASE ~(recorded # NoCount /\ rows[t].ref = "git")
      <4>1. ingesting' = [op |-> "placeholder", turn |-> t, count |-> count] /\ tracked' = tracked
        BY <1>5, <3>5 DEF IngestDiff
      <4> HIDE DEF count, recorded, t
      <4> QED BY <1>1, <3>1, <3>3, <4>1 DEF TypeOK, IngestingStates
    <3> QED BY <3>4, <3>5
  <2> QED BY <1>1, <1>2, <1>5, <2>1
          DEF IngestDiff, Ingest, TypeOK, environment, git, history, database, reactor
<1>6. CASE RecordPlaceholder
  <2>1. tracked' \in [Turns -> Nat]
    BY <1>6, HalfHandled DEF RecordPlaceholder, TypeOK
  <2> QED BY <1>1, <1>6, <1>9, <2>1
          DEF RecordPlaceholder, TypeOK, environment, git, history, reactor
<1>7. CASE IngestTurnEnded
  <2>1. SessionStatusAt(Head(ingestQueue).kind) \in SessionStatuses
    BY DEF SessionStatusAt, SessionStatuses
  <2>2. /\ session' \in [status : SessionStatuses, active : 0..MaxTurns]
        /\ pendingStart' \in 0..MaxTurns
    <3>1. \/ session' = session /\ pendingStart' = pendingStart
          \/ /\ session' = [status |-> SessionStatusAt(Head(ingestQueue).kind), active |-> NoTurn]
             /\ pendingStart' \in {NoTurn, pendingStart}
      BY <1>7 DEF IngestTurnEnded, SetSession, database
    <3> QED BY SMTT(30), <1>1, <2>1, <3>1 DEF TypeOK
  <2>3. IngestingOK
    <3>1. PICK op \in {"finalize", "exit"} :
              ingesting' = [op |-> op, turn |-> Head(ingestQueue).turn, count |-> NoCount]
      BY <1>7 DEF IngestTurnEnded
    <3>2. Head(ingestQueue).turn \in Turns
      BY <1>2, <1>7 DEF IngestTurnEnded, Ingest
    <3> QED BY <1>1, <3>1, <3>2 DEF IngestingStates
  <2> QED BY <1>1, <1>2, <1>7, <2>2, <2>3
          DEF IngestTurnEnded, Ingest, TypeOK, environment, git, history, reactor
<1>8. CASE FinalizeMessages
  <2>1. tracked' \in [Turns -> Nat]
    BY <1>1, <1>8 DEF FinalizeMessages, TypeOK
  <2> QED BY <1>1, <1>8, <1>9, <2>1
          DEF FinalizeMessages, TypeOK, environment, git, history, reactor
<1> QED BY <1>3, <1>4, <1>5, <1>6, <1>7, <1>8 DEF IngestStep

\* The reactor keeps the types.
LEMMA ReactType == TypeOK /\ ReactStep => TypeOK'
<1> SUFFICES ASSUME TypeOK, ReactStep PROVE TypeOK'
  OBVIOUS
<1> DEFINE R == [kind : ReactedKinds, turn : Turns] \cup [kind : {"revert"}, turn : 0..MaxTurns]
           ReactingOK == /\ reacting' \in ReactingStates
                         /\ reacting'.op \in {"capture", "dispatch"} => reacting'.turn # NoTurn
<1>1. /\ rows' \in [Turns -> Row]
      /\ DOMAIN refs' \subseteq RefNames /\ \A r \in DOMAIN refs' : refs'[r] \subseteq DOMAIN author'
  BY RowsStep, RefsStep DEF RefsOK, ReactStep, Next
<1>2. /\ LatestCount(rows) \in Nat /\ NoTurn = 0 /\ NoCount = 0
      /\ MaxTurns \in Nat /\ Turns = 1..MaxTurns
  BY LatestCountIsLatest, MaxTurnsAssumption, TurnsAssumption DEF TypeOK, NoTurn, NoCount
<1>3. reactQueue # <<>> => Head(reactQueue) \in R /\ Tail(reactQueue) \in Seq(R)
  BY Heads
<1>4. /\ reactQueue' \in Seq(R)
      /\ reactQueue' = reactQueue \/ Head(reactQueue).kind = "revert" \/ Head(reactQueue).turn \in Turns
  <2>1. reactQueue \in Seq(R)
    BY DEF TypeOK
  <2>2. reactQueue' = reactQueue \/ (reactQueue # <<>> /\ reactQueue' = Tail(reactQueue))
    BY DEF ReactStep, ReactToUserMessage, ReactToTurnStartRequested, ReactToTurnStarted,
           ReactToTurnCompleted, CaptureCheckpoint, CaptureFails, RecordCheckpoint, Revert,
           RollBackProvider, RecordRevert, RevertFails, React
  <2> QED BY <1>3, <2>1, <2>2
<1>5. NotReacting \in ReactingStates /\ NotReacting.op = "idle"
  BY <1>2 DEF NotReacting, ReactingStates, CheckpointStatuses
<1>17. prepared' \subseteq Turns /\ orphaned' \subseteq ({"turn"} \cup RefKinds) \X Nat
  BY HistoryStep DEF ReactStep, Next
<1>16. ASSUME UNCHANGED <<environment, session, ingestion>>,
              tree' \subseteq DOMAIN author, ReactingOK,
              pendingStart' \in 0..MaxTurns, pendingMessage' \in 0..MaxTurns
       PROVE  TypeOK'
  BY <1>1, <1>4, <1>16, <1>17 DEF TypeOK, environment, ingestion
<1>6. CASE ReactToUserMessage
  BY <1>1, <1>4, <1>6 DEF ReactToUserMessage, TypeOK, environment, history, database, ingestion
<1>7. CASE ReactToTurnStartRequested
  <2>1. pendingMessage' \in 0..MaxTurns
    BY <1>2, <1>3, <1>7 DEF ReactToTurnStartRequested, React, ReactedKinds
  <2> QED BY <1>1, <1>4, <1>7, <2>1
          DEF ReactToTurnStartRequested, TypeOK, environment, history, database, ingestion
<1>8. CASE ReactToTurnStarted
  <2>1. pendingMessage' \in 0..MaxTurns
    BY <1>2, <1>8 DEF ReactToTurnStarted
  <2> QED BY <1>1, <1>4, <1>8, <2>1
          DEF ReactToTurnStarted, TypeOK, environment, history, database, ingestion
<1>9. CASE ReactToTurnCompleted
  <2>1. ReactingOK
    <3> DEFINE t == Head(reactQueue).turn
               count == IF t \in Checkpoints(rows) THEN rows[t].count ELSE LatestCount(rows) + 1
               status == CheckpointStatus(Head(reactQueue).kind)
    <3>1. t \in Turns
      BY <1>3, <1>9 DEF ReactToTurnCompleted, React, Completions
    <3>2. count \in Nat
      BY SMTT(30), <1>2, <3>1 DEF TypeOK, Row
    <3>3. status \in CheckpointStatuses
      BY DEF CheckpointStatus, CheckpointStatuses
    <3>4. \/ reacting' = NotReacting
          \/ reacting' = [NotReacting EXCEPT !.op = "capture", !.turn = t, !.status = status,
                                             !.count = count]
      BY <1>9 DEF ReactToTurnCompleted
    <3>5. /\ NotReacting \in ReactingStates /\ t \in 0..MaxTurns /\ t # NoTurn
          /\ NotReacting.op = "idle"
      BY <1>2, <1>5, <3>1
    <3> HIDE DEF t, count, status
    <3> QED BY ZenonT(40), <3>5, <3>1, <3>2, <3>3, <3>4 DEF NotReacting, ReactingStates
  <2> QED BY <1>1, <1>4, <1>9, <2>1
          DEF ReactToTurnCompleted, TypeOK, environment, git, history, database, ingestion
<1>10. CASE CaptureCheckpoint
  <2>1. ReactingOK
    <3>1. reacting \in ReactingStates /\ reacting.turn # NoTurn /\ "missing" \in CheckpointStatuses
      BY <1>10 DEF CaptureCheckpoint, TypeOK, CheckpointStatuses
    <3>2. PICK status \in {reacting.status, "missing"} :
              reacting' = [reacting EXCEPT !.op = "dispatch", !.status = status]
      BY <1>10 DEF CaptureCheckpoint
    <3> QED BY <3>1, <3>2 DEF ReactingStates
  <2> QED BY <1>1, <1>4, <1>10, <2>1
          DEF CaptureCheckpoint, TypeOK, environment, history, database, ingestion
<1>11. CASE CaptureFails
  BY <1>1, <1>4, <1>5, <1>11 DEF CaptureFails, TypeOK, environment, git, history, database, ingestion
<1>12. CASE RecordCheckpoint
  BY <1>1, <1>4, <1>5, <1>12 DEF RecordCheckpoint, TypeOK, environment, git, history, ingestion
<1>13. CASE Revert
  <2> DEFINE n == Head(reactQueue).turn
             restorable == RevertTargets(n) \cap DOMAIN refs
  <2>1. n \in Nat
    BY <1>2, <1>3, <1>13 DEF Revert, React
  <2>2. ReactingOK
    <3> DEFINE stale == {RefOf(rows[t]) : t \in {u \in Checkpoints(rows) : rows[u].count > n}}
    <3>1. \/ reacting' = reacting
          \/ reacting' = [NotReacting EXCEPT !.op = "rollback", !.count = n, !.stale = stale]
      BY <1>13 DEF Revert
    <3>2. stale \subseteq ({"turn"} \cup RefKinds) \X Nat
      BY DEF TypeOK, RefOf, Checkpoints, Row
    <3> HIDE DEF stale, n
    <3> QED BY ZenonT(40), <1>5, <2>1, <3>1, <3>2 DEF NotReacting, ReactingStates, TypeOK
  <2>3. tree' \subseteq DOMAIN author
    <3>1. \/ tree' = tree \/ tree' = {}
          \/ restorable # {} /\ tree' = refs[CHOOSE r \in restorable : TRUE]
      BY <1>13 DEF Revert
    <3>2. restorable # {} => (CHOOSE r \in restorable : TRUE) \in DOMAIN refs
      OBVIOUS
    <3> HIDE DEF restorable
    <3> QED BY <3>1, <3>2 DEF TypeOK
  <2>4. UNCHANGED <<environment, history, database, ingestion, pendingMessage>>
    BY <1>13 DEF Revert
  <2> HIDE DEF n, restorable
  <2> QED BY <1>1, <1>4, <2>2, <2>3, <2>4 DEF TypeOK, environment, history, database, ingestion
<1>14. CASE RollBackProvider
  <2>1. ReactingOK
    <3>1. reacting' \in {NotReacting, [reacting EXCEPT !.op = "reverted"]}
      BY <1>14 DEF RollBackProvider
    <3> QED BY <1>5, <3>1 DEF TypeOK, ReactingStates
  <2>2. UNCHANGED <<environment, tree, database, ingestion, pendingMessage>>
    BY <1>14 DEF RollBackProvider
  <2>3. /\ tree' \subseteq DOMAIN author
        /\ pendingStart' \in 0..MaxTurns /\ pendingMessage' \in 0..MaxTurns
    BY <2>2 DEF TypeOK, database
  <2> QED BY <1>16, <2>1, <2>2, <2>3 DEF database
<1>18. CASE RevertFails
  <2>1. ReactingOK
    BY <1>5, <1>18 DEF RevertFails
  <2>2. UNCHANGED <<environment, git, database, ingestion, pendingMessage>>
    BY <1>18 DEF RevertFails
  <2>3. /\ tree' \subseteq DOMAIN author
        /\ pendingStart' \in 0..MaxTurns /\ pendingMessage' \in 0..MaxTurns
    BY <2>2 DEF TypeOK, database, git
  <2> QED BY <1>16, <2>1, <2>2, <2>3 DEF database
<1>15. CASE RecordRevert
  <2>1. ReactingOK
    BY <1>5, <1>15 DEF RecordRevert
  <2>2. /\ pendingStart' = NoTurn
        /\ UNCHANGED <<environment, git, history, session, ingestion, pendingMessage>>
    BY <1>15 DEF RecordRevert
  <2>3. /\ tree' \subseteq DOMAIN author
        /\ pendingStart' \in 0..MaxTurns /\ pendingMessage' \in 0..MaxTurns
    BY <1>2, <2>2 DEF TypeOK, git
  <2> QED BY <1>16, <2>1, <2>2, <2>3
<1> QED BY <1>6, <1>7, <1>8, <1>9, <1>10, <1>11, <1>12, <1>13, <1>14, <1>15, <1>18 DEF ReactStep

\* Every step keeps the types of all variables.
LEMMA TypeStep == TypeOK /\ [Next]_vars => TypeOK'
<1> SUFFICES ASSUME TypeOK, [Next]_vars PROVE TypeOK'
  OBVIOUS
<1> DEFINE I == [kind : IngestedKinds, turn : Turns]
           R == [kind : ReactedKinds, turn : Turns] \cup [kind : {"revert"}, turn : 0..MaxTurns]
<1>1. /\ rows' \in [Turns -> Row]
      /\ DOMAIN refs' \subseteq RefNames /\ \A r \in DOMAIN refs' : refs'[r] \subseteq DOMAIN author'
  BY RowsStep, RefsStep DEF RefsOK
<1>2. /\ MaxTurns \in Nat /\ Turns = 1..MaxTurns /\ NoTurn = 0 /\ NoCount = 0
      /\ LatestCount(rows) \in Nat
  BY LatestCountIsLatest, MaxTurnsAssumption, TurnsAssumption DEF NoTurn, NoCount, TypeOK
<1>3. ingestQueue \in Seq(I) /\ reactQueue \in Seq(R)
  BY DEF TypeOK
<1>4. CASE RequestTurn
  <2>1. requested' \in Turns
    BY <1>2, <1>4 DEF RequestTurn, TypeOK
  <2>2. {Event("user-message", requested'), Event("turn-start-requested", requested')} \subseteq R
    BY <2>1 DEF Event, ReactedKinds
  <2>3. reactQueue' \in Seq(R)
    <3> HIDE DEF R
    <3> QED BY <1>3, <1>4, <2>2 DEF RequestTurn
  <2>4. /\ pendingStart' = requested'
        /\ UNCHANGED <<sent, started, running, live, author, texts, reverts, git, history,
                       session, rows, ingestion, reacting, pendingMessage>>
    BY <1>4 DEF RequestTurn
  <2> QED BY SMTT(30), <1>1, <1>2, <2>1, <2>3, <2>4 DEF TypeOK, git, history, ingestion
<1>5. CASE SendTurn
  <2>1. session' \in [status : SessionStatuses, active : 0..MaxTurns]
    BY <1>2, <1>5 DEF SendTurn, TypeOK, SessionStatuses
  <2>2. sent' \in 0..MaxTurns
    BY SMTT(30), <1>2, <1>5 DEF SendTurn, TypeOK
  <2>3. prepared' \subseteq Turns /\ orphaned' \subseteq ({"turn"} \cup RefKinds) \X Nat
    BY HistoryStep
  <2> QED BY <1>1, <1>2, <1>5, <2>1, <2>2, <2>3 DEF SendTurn, TypeOK, ingestion, reactor
<1>6. CASE StartTurn
  <2>1. started' \in Turns
    BY <1>2, <1>6 DEF StartTurn, TypeOK
  <2>2. Event("started", started') \in I /\ Event("started", started') \in R
    BY <2>1 DEF Event, IngestedKinds, ReactedKinds
  <2>3. ingestQueue' \in Seq(I) /\ reactQueue' \in Seq(R)
    <3> HIDE DEF I, R
    <3> QED BY <1>3, <1>6, <2>2 DEF StartTurn
  <2>4. /\ running' = started'
        /\ UNCHANGED <<requested, sent, live, author, texts, reverts, git, history, database,
                       ingesting, tracked, spoken, reacting, pendingMessage>>
    BY <1>6 DEF StartTurn
  <2> QED BY SMTT(30), <1>1, <1>2, <2>1, <2>3, <2>4 DEF TypeOK, git, history, database
<1>7. CASE EditWorkspace
  <2>1. running \in Turns
    BY <1>2, <1>7 DEF EditWorkspace, TypeOK
  <2>2. /\ author' \in Seq(Turns) /\ DOMAIN author \subseteq DOMAIN author'
        /\ Len(author') \in DOMAIN author'
    <3>1. author \in Seq(Turns) /\ author' = Append(author, running)
      BY <1>7 DEF EditWorkspace, TypeOK
    <3> QED BY <2>1, <3>1
  <2>3. tree' \subseteq DOMAIN author'
    BY <1>7, <2>2 DEF EditWorkspace, TypeOK
  <2>4. ingestQueue' \in Seq(I)
    <3>1. Event("diff", running) \in I
      BY <2>1 DEF Event, IngestedKinds
    <3> HIDE DEF I
    <3> QED BY <1>3, <1>7, <3>1 DEF EditWorkspace
  <2> QED BY <1>1, <1>2, <1>7, <2>2, <2>3, <2>4 DEF EditWorkspace, TypeOK, history, database, reactor
<1>8. CASE StreamText
  <2>1. Event("text", running) \in I
    BY <1>2, <1>8 DEF Event, IngestedKinds, StreamText, TypeOK
  <2>2. ingestQueue' \in Seq(I)
    <3> HIDE DEF I
    <3> QED BY <1>3, <1>8, <2>1 DEF StreamText
  <2> QED BY SMTT(30), <1>1, <1>2, <1>8, <2>2 DEF StreamText, TypeOK, git, history, database, reactor
<1>9. ASSUME NEW ending \in Endings, EndTurn(ending) PROVE TypeOK'
  <2>1. running \in Turns /\ ending \in AllEndings
    BY <1>2, <1>9, EndingsAssumption DEF EndTurn, TypeOK
  <2>2. Event(ending, running) \in I
    BY <2>1 DEF Event, IngestedKinds
  <2>3. ending \in Completions => Event(ending, running) \in R
    BY <2>1 DEF Event, ReactedKinds
  <2>4. ingestQueue' \in Seq(I) /\ reactQueue' \in Seq(R)
    <3> HIDE DEF I, R
    <3> QED BY <1>3, <1>9, <2>2, <2>3 DEF EndTurn
  <2>5. /\ running' = NoTurn /\ live' \in BOOLEAN
        /\ UNCHANGED <<requested, sent, started, author, texts, reverts, git, history, database,
                       ingesting, tracked, spoken, reacting, pendingMessage>>
    BY <1>9 DEF EndTurn
  <2> QED BY <1>1, <1>2, <2>4, <2>5 DEF TypeOK, git, history, database
<1>10. ASSUME NEW n \in 0..MaxTurns, RequestRevert(n) PROVE TypeOK'
  <2>1. Event("revert", n) \in R
    BY DEF Event
  <2>2. reactQueue' \in Seq(R)
    <3> HIDE DEF R
    <3> QED BY <1>3, <1>10, <2>1 DEF RequestRevert
  <2>3. /\ reverts' = reverts + 1
        /\ UNCHANGED <<requested, sent, started, running, live, author, texts, git, history,
                       database, ingestion, reacting, pendingMessage>>
    BY <1>10 DEF RequestRevert
  <2> QED BY SMTT(30), <1>1, <1>2, <2>2, <2>3 DEF TypeOK, git, history, database, ingestion
<1>11. ASSUME UNCHANGED vars PROVE TypeOK'
  BY <1>11 DEF vars, environment, git, history, database, ingestion, reactor, TypeOK
<1>12. ASSUME IngestStep PROVE TypeOK'
  BY <1>12, IngestType
<1>13. ASSUME ReactStep PROVE TypeOK'
  BY <1>13, ReactType
<1> QED BY <1>4, <1>5, <1>6, <1>7, <1>8, <1>9, <1>10, <1>11, <1>12, <1>13 DEF Next, IngestStep, ReactStep

-----------------------------------------------------------------------------
\* Turn counts stay unique: only a recorded diff gives one.
LEMMA CountsStep == TypeOK /\ CountsUnique /\ [Next]_vars => CountsUnique'
<1> SUFFICES ASSUME TypeOK, CountsUnique, [Next]_vars PROVE CountsUnique'
  OBVIOUS
<1>0. rows \in [Turns -> Row]
  BY DEF TypeOK
<1>1. CASE GivesNothing(rows, rows')
  BY <1>1 DEF GivesNothing, CountsUnique
<1>2. ASSUME NEW t \in Turns, NEW count \in Nat,
             \A u \in Turns \ {t} :
                 rows'[u].count = IF rows[u].count = count THEN NoCount ELSE rows[u].count,
             rows'[t].count = count
      PROVE  CountsUnique'
  BY <1>2 DEF CountsUnique
<1>3. CASE RecordPlaceholder
  <2>1. ingesting.turn \in Turns /\ ingesting.count \in Nat
    BY <1>3, HalfHandled DEF RecordPlaceholder
  <2>2. "provider-diff" \in RefKinds /\ "missing" \in CheckpointStatuses
    BY DEF RefKinds, CheckpointStatuses
  <2>3. rows' = AfterDiffCompleted(rows, ingesting.turn, ingesting.count,
                                   "provider-diff", "missing")
    BY <1>3 DEF RecordPlaceholder
  <2> QED BY <1>0, <1>2, <2>1, <2>2, <2>3, DiffRows
<1>4. CASE RecordCheckpoint
  <2>1. /\ reacting.turn \in Turns /\ reacting.count \in Nat
        /\ reacting.status \in CheckpointStatuses
    BY <1>4, HalfHandled DEF RecordCheckpoint
  <2>2. "git" \in RefKinds
    BY DEF RefKinds
  <2>3. rows' = AfterDiffCompleted(rows, reacting.turn, reacting.count, "git", reacting.status)
    BY <1>4 DEF RecordCheckpoint
  <2> QED BY <1>0, <1>2, <2>1, <2>2, <2>3, DiffRows
<1> QED BY <1>1, <1>3, <1>4, RowsStep

\* Whatever git ref a row names stays there, or is on its way out of the row.
LEMMA RestorableStep == TypeOK /\ RestorableInv /\ [Next]_vars => RestorableInv'
<1> SUFFICES ASSUME TypeOK, RestorableInv, [Next]_vars PROVE RestorableInv'
  OBVIOUS
<1> DEFINE Named(t) == <<"turn", rows[t].count>>
<1>0. rows \in [Turns -> Row] /\ rows' \in [Turns -> Row]
  BY RowsStep DEF TypeOK
<1>1. NotReacting.op = "idle"
  BY DEF NotReacting
<1>11. orphaned \subseteq orphaned'
  BY HistoryStep
<1>2. CASE RecordPlaceholder
  <2>1. ingesting.turn \in Turns /\ ingesting.count \in Nat
    BY <1>2, HalfHandled DEF RecordPlaceholder
  <2>2. "provider-diff" \in RefKinds /\ "missing" \in CheckpointStatuses
    BY DEF RefKinds, CheckpointStatuses
  <2>3. rows' = AfterDiffCompleted(rows, ingesting.turn, ingesting.count,
                                   "provider-diff", "missing")
    BY <1>2 DEF RecordPlaceholder
  <2>4. /\ rows'[ingesting.turn].ref = "provider-diff"
        /\ \A t \in Turns \ {ingesting.turn} : rows'[t].ref = "git" =>
               rows[t].ref = "git" /\ rows'[t].count = rows[t].count
    BY <1>0, <2>1, <2>2, <2>3, DiffRows
  <2>5. reacting' = reacting /\ refs' = refs
    BY <1>2 DEF RecordPlaceholder, git, reactor
  <2> QED BY <1>11, <2>4, <2>5 DEF RestorableInv
<1>3. CASE RecordCheckpoint
  <2>1. /\ reacting.turn \in Turns /\ reacting.count \in Nat
        /\ reacting.status \in CheckpointStatuses /\ "git" \in RefKinds
    BY <1>3, HalfHandled DEF RecordCheckpoint, RefKinds
  <2>2. rows' = AfterDiffCompleted(rows, reacting.turn, reacting.count, "git", reacting.status)
    BY <1>3 DEF RecordCheckpoint
  <2>3. /\ rows'[reacting.turn].count = reacting.count
        /\ \A t \in Turns \ {reacting.turn} : rows'[t].ref = "git" =>
               rows[t].ref = "git" /\ rows'[t].count = rows[t].count
    BY <1>0, <2>1, <2>2, DiffRows
  <2>4. reacting.op = "dispatch" /\ reacting' = NotReacting /\ refs' = refs
    BY <1>3 DEF RecordCheckpoint, git
  <2> QED BY <1>1, <1>11, <2>3, <2>4 DEF RestorableInv
<1>4. CASE CaptureCheckpoint
  <2>1. DOMAIN refs' = DOMAIN refs \cup {<<"turn", reacting.count>>}
    <3>1. <<"turn", reacting.count>> \in RefNames /\ RefsOK(refs, DOMAIN author)
      BY HalfHandled DEF RefNames, RefsOK, TypeOK
    <3> QED BY <1>4, <3>1, CapturedRefs DEF CaptureCheckpoint
  <2>2. /\ reacting.op = "capture" /\ rows' = rows
        /\ reacting'.op = "dispatch" /\ reacting'.count = reacting.count
    BY <1>4 DEF CaptureCheckpoint, database, TypeOK, ReactingStates
  <2> QED BY <1>11, <2>1, <2>2 DEF RestorableInv
<1>5. CASE Revert
  <2>1. /\ reacting.op = "idle" /\ rows' = rows /\ refs' = refs
    BY <1>5 DEF Revert, React, database
  <2> DEFINE n == Head(reactQueue).turn
             stale == {RefOf(rows[t]) : t \in {u \in Checkpoints(rows) : rows[u].count > n}}
  <2>2. \/ reacting' = reacting
        \/ reacting' = [NotReacting EXCEPT !.op = "rollback", !.count = n, !.stale = stale]
    BY <1>5 DEF Revert
  <2>3. \A r \in stale : r[2] > n
    BY DEF RefOf
  <2>4. \/ reacting' = reacting
        \/ /\ reacting'.op = "rollback"
           /\ \A r \in reacting'.stale : r[2] > reacting'.count
    <3> HIDE DEF n, stale
    <3> QED BY <2>2, <2>3 DEF NotReacting
  <2> QED BY <1>11, <2>1, <2>4 DEF RestorableInv
<1>6. CASE RollBackProvider
  <2>1. /\ reacting.op = "rollback" /\ rows' = rows
        /\ \A r \in reacting.stale : r[2] > reacting.count
    BY <1>6 DEF RollBackProvider, database, RestorableInv
  <2>2. CASE refs' = [r \in DOMAIN refs \ reacting.stale |-> refs[r]]
             /\ reacting' = [reacting EXCEPT !.op = "reverted"]
    <3>1. /\ reacting'.op = "reverted" /\ reacting'.count = reacting.count
          /\ reacting'.stale = reacting.stale
      BY <2>2 DEF TypeOK, ReactingStates
    <3>2. DOMAIN refs' = DOMAIN refs \ reacting.stale
      BY <2>2
    <3> HIDE <2>2
    <3> QED BY <1>11, <2>1, <3>1, <3>2 DEF RestorableInv
  <2>3. ASSUME NEW deleted \in SUBSET reacting.stale,
               refs' = [r \in DOMAIN refs \ deleted |-> refs[r]],
               orphaned' = orphaned \cup deleted, reacting' = NotReacting
        PROVE  RestorableInv'
    <3>1. DOMAIN refs' = DOMAIN refs \ deleted
      BY <2>3
    <3>2. DOMAIN refs \cup orphaned \subseteq DOMAIN refs' \cup orphaned'
      BY <2>3, <3>1
    <3>3. reacting'.op = "idle"
      BY <1>1, <2>3
    <3> QED BY <2>1, <3>2, <3>3 DEF RestorableInv
  <2> QED BY <1>6, <2>2, <2>3 DEF RollBackProvider
<1>7. CASE RecordRevert
  <2>1. /\ reacting.op = "reverted" /\ reacting' = NotReacting /\ refs' = refs
        /\ rows' = AfterReverted(rows, reacting.count)
    BY <1>7 DEF RecordRevert, git
  <2>2. \A t \in Turns : rows'[t].ref = "git" =>
            /\ rows[t].ref = "git" /\ rows'[t].count = rows[t].count
            /\ rows[t].count <= reacting.count
    BY <1>0, <2>1, HalfHandled, RevertedRows DEF GivesNothing
  <2>3. reacting.count \in Nat /\ \A t \in Turns : rows[t].count \in Nat
    BY <1>0, HalfHandled DEF Row
  <2>4. ASSUME NEW t \in Turns, rows'[t].ref = "git"
        PROVE  <<"turn", rows[t].count>> \notin reacting.stale
    <3>1. ~(rows[t].count > reacting.count)
      BY <2>2, <2>3, <2>4
    <3>2. \A r \in reacting.stale : r[2] > reacting.count
      BY <2>1 DEF RestorableInv
    <3> QED BY <3>1, <3>2
  <2>5. reacting'.op = "idle"
    BY <1>1, <2>1
  <2> QED BY <1>11, <2>1, <2>2, <2>4, <2>5 DEF RestorableInv
<1>12. CASE RevertFails
  <2>1. /\ reacting.op = "reverted" /\ reacting' = NotReacting /\ refs' = refs /\ rows' = rows
        /\ orphaned' = orphaned \cup reacting.stale
    BY <1>12 DEF RevertFails, git, database
  <2>2. reacting'.op = "idle"
    BY <1>1, <2>1
  <2> HIDE <1>12
  <2> QED BY <2>1, <2>2 DEF RestorableInv
<1>8. CASE ReactToTurnCompleted \/ CaptureFails
  <2>1. /\ reacting.op \in {"idle", "capture"} /\ reacting'.op \in {"idle", "capture"}
        /\ rows' = rows /\ refs' = refs
    <3>1. CASE ReactToTurnCompleted
      <4>1. PICK t, status, count :
                \/ reacting' = NotReacting
                \/ reacting' = [NotReacting EXCEPT !.op = "capture", !.turn = t,
                                                   !.status = status, !.count = count]
        BY <3>1 DEF ReactToTurnCompleted
      <4>2. reacting'.op \in {"idle", "capture"}
        <5>1. [NotReacting EXCEPT !.op = "capture", !.turn = t,
                                  !.status = status, !.count = count].op = "capture"
          BY DEF NotReacting
        <5> QED BY <1>1, <4>1, <5>1
      <4> QED BY <3>1, <4>2 DEF ReactToTurnCompleted, React, database, git
    <3>2. CASE CaptureFails
      BY <1>1, <3>2 DEF CaptureFails, database, git
    <3> QED BY <1>8, <3>1, <3>2
  <2> QED BY <1>11, <2>1 DEF RestorableInv
<1>9. CASE /\ ~(RecordPlaceholder \/ RecordCheckpoint \/ RollBackProvider)
           /\ reacting' = reacting
  <2>1. GivesNothing(rows, rows') /\ DOMAIN refs \subseteq DOMAIN refs'
    BY <1>9, RowsStep, RefsStep
  <2> QED BY <1>9, <1>11, <2>1 DEF GivesNothing, RestorableInv
<1>10. \/ RecordPlaceholder \/ RecordCheckpoint \/ CaptureCheckpoint \/ Revert
       \/ RollBackProvider \/ RecordRevert \/ RevertFails \/ ReactToTurnCompleted \/ CaptureFails
       \/ reacting' = reacting
  BY DEF Next, RequestTurn, SendTurn, StartTurn, EditWorkspace, StreamText, EndTurn,
         RequestRevert, IngestTurnStarted, IngestText, IngestDiff, IngestTurnEnded,
         FinalizeMessages, ReactToUserMessage, ReactToTurnStartRequested,
         ReactToTurnStarted, reactor, vars
<1> QED BY <1>2, <1>3, <1>4, <1>5, <1>6, <1>7, <1>8, <1>9, <1>10, <1>12

-----------------------------------------------------------------------------
\* The invariant holds at first and after every step.
LEMMA Inductive == Spec => []IInv
<1>1. Init => IInv
  <2> SUFFICES ASSUME Init PROVE IInv
    OBVIOUS
  <2>1. MaxTurns \in Nat /\ Turns = 1..MaxTurns
    BY MaxTurnsAssumption, TurnsAssumption
  <2>2. NoRow \in Row /\ NoRow.count = NoCount /\ NoRow.ref # "git"
    BY DEF NoRow, Row, RowStates, RefKinds, CheckpointStatuses, NoCount
  <2>3. /\ NotIngesting \in IngestingStates /\ NotIngesting.op = "idle"
        /\ NotReacting \in ReactingStates /\ NotReacting.op = "idle"
    BY <2>1 DEF NotIngesting, NotReacting, IngestingStates, ReactingStates, NoTurn,
                NoCount, CheckpointStatuses
  <2>4. TypeOK
    <3>1. /\ {requested, sent, started, running} \subseteq 0..MaxTurns
          /\ pendingStart \in 0..MaxTurns /\ pendingMessage \in 0..MaxTurns
          /\ texts \in Nat /\ reverts \in Nat
      BY <2>1 DEF Init, NoTurn
    <3>5. live \in BOOLEAN
      BY DEF Init
    <3>2. /\ author \in Seq(Turns) /\ tree = {} /\ DOMAIN refs = {}
          /\ ingestQueue \in Seq([kind : IngestedKinds, turn : Turns])
          /\ reactQueue \in Seq([kind : ReactedKinds, turn : Turns]
                                   \cup [kind : {"revert"}, turn : 0..MaxTurns])
      BY DEF Init
    <3>3. session \in [status : SessionStatuses, active : 0..MaxTurns]
      BY <2>1 DEF Init, SessionStatuses, NoTurn
    <3>4. /\ rows \in [Turns -> Row] /\ tracked \in [Turns -> Nat] /\ spoken \subseteq Turns
          /\ ingesting = NotIngesting /\ reacting = NotReacting
      BY <2>2 DEF Init, NoCount
    <3>6. prepared = {} /\ orphaned = {}
      BY DEF Init
    <3> QED BY <2>3, <3>1, <3>2, <3>3, <3>4, <3>5, <3>6 DEF TypeOK
  <2>5. CountsUnique /\ RestorableInv
    BY <2>2, <2>3 DEF Init, CountsUnique, RestorableInv
  <2> QED BY <2>4, <2>5 DEF IInv
<1>2. IInv /\ [Next]_vars => IInv'
  BY TypeStep, CountsStep, RestorableStep DEF IInv
<1> QED BY <1>1, <1>2, PTL DEF Spec

\* The variables keep their types, for any number of turns: in particular no
\* checkpoint is computed for a turn that does not exist.
THEOREM TypeCorrect == Spec => []TypeOK
<1>1. IInv => TypeOK
  BY DEF IInv
<1> QED BY <1>1, Inductive, PTL

\* No two turns ever share a checkpoint turn count, however the ingestion's and
\* the reactor's stale reads are interleaved, captures fail and reverts run.
THEOREM TurnCountsUnique == Spec => []CountsUnique
<1>1. IInv => CountsUnique
  BY DEF IInv
<1> QED BY <1>1, Inductive, PTL

\* The git ref of every recorded checkpoint exists, so that the thread can be
\* reverted to it, until the revert that deletes it has deleted it from the row.
THEOREM RecordedCheckpointsRestorable == Spec => []CheckpointsAreRestorable
<1>1. IInv => CheckpointsAreRestorable
  BY DEF IInv, RestorableInv, CheckpointsAreRestorable, Checkpoints, RefOf
<1> QED BY <1>1, Inductive, PTL

-----------------------------------------------------------------------------
(* The life of a turn, from its first event to its checkpoint.             *)

\* The provider's events as the workers have them.
Ingested == [kind : IngestedKinds, turn : Turns]
Reacted == [kind : ReactedKinds, turn : Turns] \cup [kind : {"revert"}, turn : 0..MaxTurns]

\* With q to be ingested and turn r running: the end of turn t is still to be
\* ingested, and nothing of an earlier turn is.
EndComes(q, r, t) ==
    r = t \/ \E i \in 1..Len(q) : q[i].turn = t /\ q[i].kind \in AllEndings
Current(q, r, t) == EndComes(q, r, t) /\ \A i \in 1..Len(q) : t <= q[i].turn

\* The start of turn t has been ingested, s being the last turn started.
Begun(q, s, t) ==
    t <= s /\ \A i \in 1..Len(q) : ~(q[i].turn = t /\ q[i].kind = "started")

\* The provider's events come turn by turn, each from its start to its end.
InOrder(q, r, s) ==
    /\ r \in {NoTurn, s}
    /\ \A i \in 1..Len(q) :
          /\ q[i].turn <= s /\ EndComes(q, r, q[i].turn)
          /\ q[i].turn = r => q[i].kind \notin AllEndings
    /\ \A i, k \in 1..Len(q) : i < k =>
          /\ q[i].turn <= q[k].turn
          /\ q[i].turn = q[k].turn => q[k].kind # "started" /\ q[i].kind \notin AllEndings

IsCurrent(t) == Current(ingestQueue, running, t)
HasBegun(t) == Begun(ingestQueue, started, t)
HasEnded(t) == t <= started /\ running # t

\* While no revert has been requested none is under way or has failed.
NoRevertInv ==
    /\ reacting.op \notin {"rollback", "reverted"} /\ orphaned = {}
    /\ \A i \in 1..Len(reactQueue) : reactQueue[i].kind # "revert"

\* Only the turn whose events are being ingested is open, or about to be opened.
OpenInv ==
    /\ \A t \in Turns :
          /\ rows[t].open <=> rows[t].state = "running"
          /\ rows[t].open => IsCurrent(t)
          /\ HasBegun(t) => HasRow(rows, t)
          /\ rows[t].state = "interrupted" => HasBegun(t)
    /\ session.active # NoTurn => IsCurrent(session.active)
    /\ ingesting.op = "placeholder" => IsCurrent(ingesting.turn)
    /\ ingesting.op \in {"finalize", "exit"} =>
          HasRow(rows, ingesting.turn) /\ rows[ingesting.turn].state # "running"

\* A turn is captured when it has ended, from a tree that nothing was taken out of.
CapturedInv ==
    /\ tree = DOMAIN author
    /\ \A i \in 1..Len(reactQueue) :
          reactQueue[i].kind \in Completions => HasEnded(reactQueue[i].turn)
    /\ reacting.op \in {"capture", "dispatch"} => HasEnded(reacting.turn)
    /\ reacting.op = "dispatch" => EditsOf(reacting.turn) \subseteq refs[<<"turn", reacting.count>>]
    /\ \A t \in Turns : rows[t].ref = "git" =>
          HasEnded(t) /\ EditsOf(t) \subseteq refs[<<"turn", rows[t].count>>]

\* Before the first revert.
LifeInv ==
    /\ InOrder(ingestQueue, running, started)
    /\ reverts = 0 => NoRevertInv /\ OpenInv /\ CapturedInv

\* The first k - 1 inputs of q leave the request for turn t pending, m being
\* the request that was pending before them.
Matters == {"turn-start-requested", "started"}
Announced(q, m, t, k) ==
    \/ \E j \in 1..(k - 1) :
          /\ q[j].kind = "turn-start-requested" /\ q[j].turn = t
          /\ \A i \in (j + 1)..(k - 1) : q[i].kind \notin Matters
    \/ m = t /\ \A i \in 1..(k - 1) : q[i].kind \notin Matters

\* With s turns started of n requested, every start in q finds its own request
\* pending, and so will the start of the turn that is requested and not started.
StartsAnnounced(q, m, s, n) ==
    /\ \A k \in 1..Len(q) : q[k].kind = "started" =>
          q[k].turn <= s /\ Announced(q, m, q[k].turn, k)
    /\ s < n => Announced(q, m, n, Len(q) + 1)

\* Without overlap one turn at a time is on its way.
OneAtATime ==
    /\ started <= sent /\ sent <= requested /\ requested <= started + 1
    /\ running <= started
    /\ \A i \in DOMAIN author : author[i] <= started

\* The tree captured before a message was sent, and the copy that its turn's
\* start takes, have no edit of the turn; before the message is sent no tree has.
BaselineRefs ==
    \A t \in Turns :
        /\ t \in prepared => t <= sent /\ <<"message-start", t>> \in DOMAIN refs
        /\ t \in prepared \/ sent < t =>
              \A kind \in {"message-start", "turn-start"} :
                  <<kind, t>> \in DOMAIN refs => refs[<<kind, t>>] \cap EditsOf(t) = {}

BaselineInv ==
    /\ OneAtATime /\ BaselineRefs
    /\ StartsAnnounced(reactQueue, pendingMessage, started, requested)

-----------------------------------------------------------------------------
\* What Append and Tail do to the elements of a sequence.
LEMMA Appended ==
    ASSUME NEW T, NEW s \in Seq(T), NEW x \in T
    PROVE  /\ Append(s, x) \in Seq(T) /\ Len(s) \in Nat /\ Len(Append(s, x)) = Len(s) + 1
           /\ \A i \in 1..Len(s) : Append(s, x)[i] = s[i]
           /\ Append(s, x)[Len(s) + 1] = x
OBVIOUS

LEMMA Popped ==
    ASSUME NEW T, NEW s \in Seq(T), s # <<>>
    PROVE  /\ Tail(s) \in Seq(T) /\ Head(s) = s[1] /\ Head(s) \in T
           /\ Len(s) \in Nat /\ Len(s) # 0 /\ Len(Tail(s)) = Len(s) - 1
           /\ \A i \in 1..Len(Tail(s)) : Tail(s)[i] = s[i + 1] /\ i + 1 \in 1..Len(s)
<1>1. Len(s) \in Nat /\ Len(s) # 0
  OBVIOUS
<1>2. Tail(s) \in Seq(T) /\ Head(s) \in T /\ Head(s) = s[1] /\ Len(Tail(s)) = Len(s) - 1
  OBVIOUS
<1>3. \A i \in 1..(Len(s) - 1) : Tail(s)[i] = s[i + 1] /\ i + 1 \in 1..Len(s)
  OBVIOUS
<1> QED BY <1>1, <1>2, <1>3

LEMMA Fixed ==
    /\ MaxTurns \in Nat /\ Turns = 1..MaxTurns /\ NoTurn = 0 /\ NoCount = 0
    /\ Turns \subseteq Nat /\ NoTurn \notin Turns
    /\ NotReacting.op = "idle" /\ NotIngesting.op = "idle"
BY MaxTurnsAssumption, TurnsAssumption DEF NoTurn, NoCount, NotReacting, NotIngesting

LEMMA Queues ==
    ASSUME TypeOK
    PROVE  /\ ingestQueue \in Seq(Ingested) /\ reactQueue \in Seq(Reacted)
           /\ started \in Nat /\ running \in Nat /\ sent \in Nat /\ requested \in Nat
           /\ author \in Seq(Turns)
<1>1. ingestQueue \in Seq(Ingested) /\ reactQueue \in Seq(Reacted)
  BY DEF TypeOK, Ingested, Reacted
<1>2. /\ started \in Nat /\ running \in Nat /\ sent \in Nat /\ requested \in Nat
      /\ author \in Seq(Turns)
  BY Fixed DEF TypeOK
<1> QED BY <1>1, <1>2

\* Turns are positive numbers, and every event is of one.
LEMMA TurnNumbers == Turns \subseteq Nat /\ 0 \notin Turns /\ NoTurn = 0
BY Fixed

LEMMA EventTurns ==
    ASSUME NEW q \in Seq(Ingested), NEW i \in 1..Len(q)
    PROVE  q[i].turn \in Turns
<1>1. q[i] \in Ingested
  OBVIOUS
<1> QED BY <1>1 DEF Ingested

\* An event e of the turn that runs, or of the one that starts, goes from turn r
\* running and s started to r2 and s2.
Comes(e, r, s, r2, s2) ==
    \/ e.kind = "started" /\ r = NoTurn /\ s2 = s + 1 /\ r2 = s2 /\ e.turn = s2
    \/ e.kind \in {"text", "diff"} /\ r # NoTurn /\ e.turn = r /\ s2 = s /\ r2 = r
    \/ e.kind \in AllEndings /\ r # NoTurn /\ e.turn = r /\ s2 = s /\ r2 = NoTurn

LEMMA EventAppended ==
    ASSUME NEW q \in Seq(Ingested), NEW r \in Nat, NEW s \in Nat, InOrder(q, r, s),
           NEW r2 \in Nat, NEW s2 \in Nat, NEW e \in Ingested, Comes(e, r, s, r2, s2),
           NEW p, Len(p) = Len(q) + 1, p[Len(q) + 1] = e, \A i \in 1..Len(q) : p[i] = q[i]
    PROVE  /\ InOrder(p, r2, s2)
           /\ \A t \in Turns : /\ Current(q, r, t) => Current(p, r2, t)
                               /\ Begun(q, s, t) <=> Begun(p, s2, t)
<1> DEFINE L == Len(q)
<1>1. /\ L \in Nat /\ Len(p) = L + 1 /\ p[L + 1] = e
      /\ \A i \in 1..L : p[i] = q[i]
  OBVIOUS
<1>2. /\ NoTurn = 0 /\ e.turn \in Turns /\ Turns \subseteq Nat
      /\ \A i \in 1..L : q[i].turn \in Turns
      /\ 0 \notin Turns
  <2>1. e.turn \in Turns
    BY DEF Ingested
  <2> QED BY <2>1, TurnNumbers, EventTurns
<1>3. "started" \notin AllEndings /\ "text" \notin AllEndings /\ "diff" \notin AllEndings
  BY DEF AllEndings, Completions
<1>4. /\ r \in {0, s} /\ \A i \in 1..L : q[i].turn <= s
  BY <1>2 DEF InOrder
<1>5. e.turn = s2 /\ s <= s2 /\ r2 \in {0, s2}
  BY <1>2, <1>4 DEF Comes
<1>6. \A i \in 1..Len(p) : i \in 1..L \/ i = L + 1
  BY <1>1
<1>7. L + 1 \in 1..Len(p) /\ \A i \in 1..L : i \in 1..Len(p)
  BY <1>1
<1> HIDE DEF L
<1>8. ASSUME NEW t \in Turns, EndComes(q, r, t) PROVE EndComes(p, r2, t)
  <2>1. CASE r = t
    <3>1. r2 = t \/ (e.turn = t /\ e.kind \in AllEndings)
      BY <1>2, <2>1 DEF Comes
    <3> QED BY <3>1, <1>1, <1>7 DEF EndComes
  <2>2. CASE \E i \in 1..L : q[i].turn = t /\ q[i].kind \in AllEndings
    BY <1>1, <1>7, <2>2 DEF EndComes
  <2> QED BY <1>8, <2>1, <2>2 DEF EndComes, L
<1>9. EndComes(p, r2, e.turn)
  <2>1. r2 = e.turn \/ e.kind \in AllEndings
    BY DEF Comes
  <2> QED BY <2>1, <1>1, <1>7 DEF EndComes
<1>10. InOrder(p, r2, s2)
  <2>1. ASSUME NEW i \in 1..Len(p)
        PROVE  /\ p[i].turn <= s2 /\ EndComes(p, r2, p[i].turn)
               /\ p[i].turn = r2 => p[i].kind \notin AllEndings
    <3>1. CASE i \in 1..L
      <4>1. p[i] = q[i] /\ q[i].turn \in Turns
        BY <1>1, <1>2, <3>1
      <4>2. EndComes(q, r, q[i].turn) /\ q[i].turn <= s
        BY <3>1 DEF InOrder, L
      <4>3. q[i].turn = r2 => q[i].kind \notin AllEndings
        <5>1. q[i].turn = r => q[i].kind \notin AllEndings
          BY <3>1 DEF InOrder, L
        <5>2. r2 # r => r2 = 0 \/ r2 = s + 1
          BY <1>2 DEF Comes
        <5> QED BY <5>1, <5>2, <4>1, <4>2, <1>2
      <4>4. EndComes(p, r2, q[i].turn)
        BY <4>1, <4>2, <1>8
      <4>5. q[i].turn <= s2
        <5>1. q[i].turn \in Nat
          BY <4>1, <1>2
        <5> QED BY <5>1, <4>2, <1>5
      <4> QED BY <4>1, <4>3, <4>4, <4>5
    <3>2. CASE i = L + 1
      <4>1. e.turn = r2 => e.kind \notin AllEndings
        BY <1>2, <1>3 DEF Comes
      <4> QED BY <3>2, <4>1, <1>1, <1>2, <1>5, <1>9
    <3> QED BY <3>1, <3>2, <1>6
  <2>2. ASSUME NEW i \in 1..Len(p), NEW k \in 1..Len(p), i < k
        PROVE  /\ p[i].turn <= p[k].turn
               /\ p[i].turn = p[k].turn => p[k].kind # "started" /\ p[i].kind \notin AllEndings
    <3>1. i \in 1..L /\ p[i] = q[i]
      BY <1>1, <2>2
    <3>2. CASE k \in 1..L
      BY <1>1, <2>2, <3>1, <3>2 DEF InOrder, L
    <3>3. CASE k = L + 1
      <4>1. q[i].turn <= s /\ q[i].turn \in Nat
        BY <1>2, <1>4, <3>1
      <4>2. e.kind = "started" => q[i].turn # e.turn
        BY <4>1, <1>2, <1>3 DEF Comes
      <4>3. e.kind # "started" /\ q[i].turn = e.turn => q[i].kind \notin AllEndings
        BY <3>1 DEF Comes, InOrder, L
      <4> QED BY <3>1, <3>3, <4>1, <4>2, <4>3, <1>1, <1>2, <1>5
    <3> QED BY <3>2, <3>3, <1>6
  <2>3. r2 \in {NoTurn, s2}
    BY <1>2, <1>5
  <2> QED BY <2>1, <2>2, <2>3 DEF InOrder
<1>11. ASSUME NEW t \in Turns, Current(q, r, t) PROVE Current(p, r2, t)
  <2>1. EndComes(p, r2, t)
    BY <1>8, <1>11 DEF Current
  <2>2. t <= s
    <3>1. r = t => t <= s
      BY <1>2, <1>4
    <3> QED BY <3>1, <1>4, <1>11 DEF Current, EndComes, L
  <2>3. ASSUME NEW i \in 1..Len(p) PROVE t <= p[i].turn
    <3>1. CASE i \in 1..L
      BY <3>1, <1>1, <1>11 DEF Current, L
    <3>2. CASE i = L + 1
      BY <3>2, <2>2, <1>1, <1>2, <1>5
    <3> QED BY <3>1, <3>2, <1>6
  <2> QED BY <2>1, <2>3 DEF Current
<1>12. ASSUME NEW t \in Turns PROVE Begun(q, s, t) <=> Begun(p, s2, t)
  <2>1. e.kind = "started" => e.turn = s + 1
    BY <1>2, <1>3 DEF Comes
  <2>2. e.kind # "started" => s2 = s
    BY DEF Comes
  <2>3. ASSUME Begun(q, s, t) PROVE Begun(p, s2, t)
    <3>1. t <= s /\ t <= s2
      BY <1>2, <1>5, <2>3 DEF Begun
    <3>2. ASSUME NEW i \in 1..Len(p) PROVE ~(p[i].turn = t /\ p[i].kind = "started")
      <4>1. CASE i \in 1..L
        BY <4>1, <1>1, <2>3 DEF Begun, L
      <4>2. CASE i = L + 1
        BY <4>2, <1>1, <1>2, <2>1, <3>1
      <4> QED BY <4>1, <4>2, <1>6
    <3> QED BY <3>1, <3>2 DEF Begun
  <2>4. ASSUME Begun(p, s2, t) PROVE Begun(q, s, t)
    <3>1. ~(e.turn = t /\ e.kind = "started")
      BY <1>1, <1>7, <2>4 DEF Begun
    <3>2. t <= s
      <4>1. t <= s2
        BY <2>4 DEF Begun
      <4>2. s2 # s => e.kind = "started" /\ s2 = s + 1
        BY <2>2 DEF Comes
      <4> QED BY <3>1, <4>1, <4>2, <1>2, <1>5
    <3>3. \A i \in 1..L : ~(q[i].turn = t /\ q[i].kind = "started")
      BY <1>1, <1>7, <2>4 DEF Begun
    <3> QED BY <3>2, <3>3 DEF Begun, L
  <2> QED BY <2>3, <2>4
<1> QED BY <1>10, <1>11, <1>12

\* What is known when the oldest event e of q has been taken and p is left.
Taken(e, q, p, r, s) ==
    /\ InOrder(p, r, s) /\ e.turn \in Turns
    /\ e.kind \notin AllEndings => Current(p, r, e.turn)
    /\ e.kind # "started" => Begun(q, s, e.turn)
    /\ e.kind = "started" => ~Begun(q, s, e.turn)
    /\ Begun(p, s, e.turn)
    /\ \A t \in Turns :
          /\ Current(q, r, t) => t = e.turn
          /\ Begun(q, s, t) => Begun(p, s, t)
          /\ Begun(p, s, t) => Begun(q, s, t) \/ t = e.turn

LEMMA EventTaken ==
    ASSUME NEW q \in Seq(Ingested), NEW r \in Nat, NEW s \in Nat, InOrder(q, r, s),
           Len(q) # 0, NEW p, Len(p) = Len(q) - 1, NEW e \in Ingested, e = q[1],
           \A i \in 1..Len(p) : p[i] = q[i + 1]
    PROVE  Taken(e, q, p, r, s)
<1> DEFINE L == Len(q)
<1>1. /\ L \in Nat /\ L # 0 /\ Len(p) = L - 1 /\ e = q[1] /\ e \in Ingested
      /\ \A i \in 1..(L - 1) : p[i] = q[i + 1] /\ i + 1 \in 1..L
  OBVIOUS
<1>2. /\ NoTurn = 0 /\ e.turn \in Turns /\ Turns \subseteq Nat
      /\ \A i \in 1..L : q[i].turn \in Turns
      /\ 0 \notin Turns
  <2>1. e.turn \in Turns
    BY <1>1 DEF Ingested
  <2> QED BY <2>1, TurnNumbers, EventTurns
<1>3. 1 \in 1..L /\ \A i \in 1..L : i # 1 => i - 1 \in 1..(L - 1) /\ (i - 1) + 1 = i /\ 1 < i
  BY <1>1
<1>4. \A i \in 1..(L - 1) : i + 1 \in 1..L /\ 1 < i + 1
  BY <1>1
<1> HIDE DEF L
<1>5. \A i \in 1..L : e.turn <= q[i].turn
  <2>1. ASSUME NEW i \in 1..L, i # 1 PROVE e.turn <= q[i].turn
    BY <2>1, <1>1, <1>3 DEF InOrder, L
  <2>2. ASSUME NEW i \in 1..L, i = 1 PROVE e.turn <= q[i].turn
    <3>1. q[i].turn \in Nat /\ q[i].turn = e.turn
      BY <2>2, <1>1, <1>2
    <3> QED BY <3>1
  <2> QED BY <2>1, <2>2
<1>6. ASSUME NEW t \in Turns, EndComes(q, r, t), ~(e.turn = t /\ e.kind \in AllEndings)
      PROVE  EndComes(p, r, t)
  <2>1. CASE r = t
    BY <2>1 DEF EndComes
  <2>2. CASE \E i \in 1..L : q[i].turn = t /\ q[i].kind \in AllEndings
    <3>1. PICK i \in 1..L : q[i].turn = t /\ q[i].kind \in AllEndings
      BY <2>2
    <3>2. i # 1
      BY <3>1, <1>1, <1>6
    <3>3. i - 1 \in 1..(L - 1) /\ p[i - 1] = q[i]
      BY <1>1, <1>3, <3>2
    <3> QED BY <3>1, <3>3, <1>1 DEF EndComes
  <2> QED BY <1>6, <2>1, <2>2 DEF EndComes, L
<1>7. InOrder(p, r, s)
  <2>1. ASSUME NEW i \in 1..Len(p)
        PROVE  /\ p[i].turn <= s /\ EndComes(p, r, p[i].turn)
               /\ p[i].turn = r => p[i].kind \notin AllEndings
    <3> DEFINE k == i + 1
    <3>1. k \in 1..L /\ p[i] = q[k] /\ 1 < k
      BY <1>1, <1>4
    <3> HIDE DEF k
    <3>2. /\ q[k].turn \in Turns /\ q[k].turn <= s /\ EndComes(q, r, q[k].turn)
          /\ q[k].turn = r => q[k].kind \notin AllEndings
      BY <3>1, <1>2 DEF InOrder, L
    <3>3. ~(e.turn = q[k].turn /\ e.kind \in AllEndings)
      BY <3>1, <1>1, <1>3 DEF InOrder, L
    <3> QED BY <3>1, <3>2, <3>3, <1>6
  <2>2. ASSUME NEW i \in 1..Len(p), NEW k \in 1..Len(p), i < k
        PROVE  /\ p[i].turn <= p[k].turn
               /\ p[i].turn = p[k].turn => p[k].kind # "started" /\ p[i].kind \notin AllEndings
    <3> DEFINE j == i + 1
               l == k + 1
    <3>1. j \in 1..L /\ l \in 1..L /\ j < l /\ p[i] = q[j] /\ p[k] = q[l]
      BY <1>1, <2>2
    <3> HIDE DEF j, l
    <3> QED BY <3>1 DEF InOrder, L
  <2>3. r \in {NoTurn, s}
    BY DEF InOrder
  <2> QED BY <2>1, <2>2, <2>3 DEF InOrder
<1>8. ASSUME NEW t \in Turns, Current(q, r, t) PROVE t = e.turn
  <2>1. t <= e.turn
    BY <1>1, <1>3, <1>8 DEF Current, L
  <2>2. CASE r = t
    <3>1. e.turn <= s /\ r \in {0, s}
      BY <1>1, <1>2, <1>3 DEF InOrder, L
    <3>2. t \in Nat /\ t # 0 /\ e.turn \in Nat
      BY <1>2
    <3> QED BY <3>1, <3>2, <2>1, <2>2
  <2>3. CASE \E i \in 1..L : q[i].turn = t
    <3>1. e.turn <= t /\ t \in Nat /\ e.turn \in Nat
      BY <1>2, <1>5, <2>3
    <3> QED BY <3>1, <2>1
  <2> QED BY <1>8, <2>2, <2>3 DEF Current, EndComes, L
<1>9. e.kind \notin AllEndings => Current(p, r, e.turn)
  <2>1. EndComes(q, r, e.turn)
    BY <1>1, <1>3 DEF InOrder, L
  <2>2. e.kind \notin AllEndings => EndComes(p, r, e.turn)
    BY <2>1, <1>2, <1>6
  <2>3. \A i \in 1..Len(p) : e.turn <= p[i].turn
    BY <1>1, <1>5
  <2> QED BY <2>2, <2>3 DEF Current
<1>10. \A i \in 1..L : i # 1 /\ q[i].turn = e.turn => q[i].kind # "started"
  BY <1>1, <1>3 DEF InOrder, L
<1>11. e.turn <= s
  BY <1>1, <1>3 DEF InOrder, L
<1>12. Begun(p, s, e.turn) /\ (e.kind # "started" => Begun(q, s, e.turn))
  <2>1. \A i \in 1..Len(p) : ~(p[i].turn = e.turn /\ p[i].kind = "started")
    <3> SUFFICES ASSUME NEW i \in 1..Len(p), p[i].turn = e.turn PROVE p[i].kind # "started"
      OBVIOUS
    <3> DEFINE k == i + 1
    <3>1. k \in 1..L /\ p[i] = q[k] /\ k # 1
      BY <1>1, <1>4
    <3> HIDE DEF k
    <3> QED BY <3>1, <1>10
  <2>2. e.kind # "started" => \A i \in 1..L : ~(q[i].turn = e.turn /\ q[i].kind = "started")
    BY <1>1, <1>10
  <2> QED BY <2>1, <2>2, <1>11 DEF Begun, L
<1>13. e.kind = "started" => ~Begun(q, s, e.turn)
  BY <1>1, <1>3 DEF Begun, L
<1>14. ASSUME NEW t \in Turns
       PROVE  /\ Begun(q, s, t) => Begun(p, s, t)
              /\ Begun(p, s, t) => Begun(q, s, t) \/ t = e.turn
  <2>1. Begun(q, s, t) => Begun(p, s, t)
    BY <1>1 DEF Begun, L
  <2>2. ASSUME Begun(p, s, t), t # e.turn PROVE Begun(q, s, t)
    <3>1. ASSUME NEW i \in 1..L PROVE ~(q[i].turn = t /\ q[i].kind = "started")
      <4>1. CASE i = 1
        BY <4>1, <1>1, <2>2
      <4>2. CASE i # 1
        <5>1. i - 1 \in 1..Len(p) /\ p[i - 1] = q[i]
          BY <4>2, <1>1, <1>3
        <5> QED BY <5>1, <2>2 DEF Begun
      <4> QED BY <4>1, <4>2
    <3> QED BY <3>1, <2>2 DEF Begun, L
  <2> QED BY <2>1, <2>2
<1> QED BY <1>1, <1>2, <1>7, <1>8, <1>9, <1>12, <1>13, <1>14 DEF Taken

-----------------------------------------------------------------------------
(* The order of the provider's events.                                     *)

\* What has become current or has begun does not change while no event is taken.
LEMMA Feeding ==
    ASSUME TypeOK, InOrder(ingestQueue, running, started), [Next]_vars,
           ~(IngestTurnStarted \/ IngestText \/ IngestDiff \/ IngestTurnEnded)
    PROVE  /\ InOrder(ingestQueue', running', started')
           /\ \A t \in Turns :
                 /\ IsCurrent(t) => Current(ingestQueue', running', t)
                 /\ HasBegun(t) <=> Begun(ingestQueue', started', t)
<1> DEFINE Goal == /\ InOrder(ingestQueue', running', started')
                   /\ \A t \in Turns :
                         /\ IsCurrent(t) => Current(ingestQueue', running', t)
                         /\ HasBegun(t) <=> Begun(ingestQueue', started', t)
<1>1. CASE ingestQueue' = ingestQueue /\ running' = running /\ started' = started
  BY <1>1 DEF IsCurrent, HasBegun
<1>2. ASSUME NEW e \in Ingested, ingestQueue' = Append(ingestQueue, e),
             Comes(e, running, started, running', started')
      PROVE  Goal
  <2>1. /\ ingestQueue \in Seq(Ingested) /\ running \in Nat /\ started \in Nat
    BY Queues
  <2>2. running' \in Nat /\ started' \in Nat
    BY <1>2, <2>1, TurnNumbers DEF Comes
  <2>3. /\ Len(ingestQueue') = Len(ingestQueue) + 1 /\ ingestQueue'[Len(ingestQueue) + 1] = e
        /\ \A i \in 1..Len(ingestQueue) : ingestQueue'[i] = ingestQueue[i]
    BY <1>2, <2>1, Appended
  <2> QED BY ZenonT(40), <1>2, <2>1, <2>2, <2>3, EventAppended DEF IsCurrent, HasBegun
<1>3. CASE StartTurn
  <2> DEFINE e == Event("started", started')
  <2>1. started' \in Turns
    <3>1. started' \in 1..MaxTurns
      BY <1>3, Fixed DEF StartTurn, TypeOK
    <3> QED BY <3>1, Fixed
  <2>2. e \in Ingested
    BY <2>1 DEF Event, Ingested, IngestedKinds
  <2>3. Comes(e, running, started, running', started')
    BY <1>3 DEF Comes, StartTurn, Event
  <2> QED BY <1>2, <1>3, <2>2, <2>3 DEF StartTurn
<1>4. running # NoTurn => running \in Turns
  BY Fixed DEF TypeOK
<1>5. CASE EditWorkspace
  <2> DEFINE e == Event("diff", running)
  <2>1. e \in Ingested /\ Comes(e, running, started, running', started')
    BY <1>4, <1>5 DEF Event, Ingested, IngestedKinds, Comes, EditWorkspace
  <2>2. ingestQueue' = Append(ingestQueue, e) \/ ingestQueue' = ingestQueue
    BY <1>5 DEF EditWorkspace
  <2>3. running' = running /\ started' = started
    BY <1>5 DEF EditWorkspace
  <2> QED BY <1>1, <1>2, <2>1, <2>2, <2>3
<1>6. CASE StreamText
  <2> DEFINE e == Event("text", running)
  <2>1. e \in Ingested /\ Comes(e, running, started, running', started')
    BY <1>4, <1>6 DEF Event, Ingested, IngestedKinds, Comes, StreamText
  <2> QED BY <1>2, <1>6, <2>1 DEF StreamText
<1>7. ASSUME NEW ending \in Endings, EndTurn(ending) PROVE Goal
  <2> DEFINE e == Event(ending, running)
  <2>1. ending \in AllEndings
    BY EndingsAssumption
  <2>2. e \in Ingested /\ Comes(e, running, started, running', started')
    BY <1>4, <1>7, <2>1 DEF Event, Ingested, IngestedKinds, Comes, EndTurn
  <2> QED BY <1>2, <1>7, <2>2 DEF EndTurn
<1>8. ASSUME RequestTurn \/ SendTurn \/ (\E n \in 0..MaxTurns : RequestRevert(n))
      PROVE  Goal
  BY <1>1, <1>8 DEF RequestTurn, SendTurn, RequestRevert, ingestion
<1>9. ASSUME RecordPlaceholder \/ FinalizeMessages PROVE Goal
  BY <1>1, <1>9 DEF RecordPlaceholder, FinalizeMessages, environment
<1>10. ASSUME ReactStep PROVE Goal
  BY <1>1, <1>10 DEF ReactStep, ReactToUserMessage, ReactToTurnStartRequested,
         ReactToTurnStarted, ReactToTurnCompleted, CaptureCheckpoint, CaptureFails,
         RecordCheckpoint, Revert, RollBackProvider, RecordRevert, RevertFails, environment, ingestion
<1>11. ASSUME UNCHANGED vars PROVE Goal
  BY <1>1, <1>11 DEF vars, environment, ingestion
<1> QED BY <1>3, <1>5, <1>6, <1>7, <1>8, <1>9, <1>10, <1>11 DEF Next, ReactStep

\* The event that is taken is of the current turn.
LEMMA Taking ==
    ASSUME TypeOK, InOrder(ingestQueue, running, started), NEW kinds, Ingest(kinds),
           running' = running, started' = started
    PROVE  /\ Head(ingestQueue).kind \in kinds
           /\ Taken(Head(ingestQueue), ingestQueue, ingestQueue', running', started')
<1> DEFINE e == Head(ingestQueue)
           p == ingestQueue'
<1>1. /\ ingestQueue \in Seq(Ingested) /\ running \in Nat /\ started \in Nat
      /\ ingestQueue # <<>> /\ p = Tail(ingestQueue) /\ e.kind \in kinds
  BY Queues DEF Ingest
<1>2. /\ Len(ingestQueue) # 0 /\ Len(p) = Len(ingestQueue) - 1
      /\ e \in Ingested /\ e = ingestQueue[1]
      /\ \A i \in 1..Len(p) : p[i] = ingestQueue[i + 1]
  BY <1>1, Popped
<1> HIDE DEF e, p
<1>3. Taken(e, ingestQueue, p, running, started)
  BY <1>1, <1>2, EventTaken
<1> QED BY <1>1, <1>3 DEF e, p

-----------------------------------------------------------------------------
(* Which turns are open.                                                   *)

\* Of all rows only that of turn t has changed its state, and if it was settled it
\* still is.
StateOf(r, t) == r[t].open <=> r[t].state = "running"
Settled(r, t) == HasRow(r, t) /\ r[t].state # "running"
Opens(old, new, t) ==
    /\ \A u \in Turns \ {t} : new[u].open = old[u].open /\ new[u].state = old[u].state
    /\ StateOf(new, t) /\ HasRow(new, t)
    /\ new[t].state = "interrupted" => old[t].state = "interrupted"
    /\ Settled(old, t) => Settled(new, t)

LEMMA ClosedTurn ==
    ASSUME NEW r \in [Turns -> Row], NEW status \in SettledStatuses, NEW h \in Turns,
           OpenTurns(r) \subseteq {h}, HasRow(r, h), StateOf(r, h)
    PROVE  LET new == CloseNewestOpenTurn(r, status) IN
           /\ \A t \in Turns \ {h} : new[t] = r[t]
           /\ ~new[h].open /\ Settled(new, h)
<1> DEFINE new == CloseNewestOpenTurn(r, status)
<1>1. CASE OpenTurns(r) = {}
  <2>1. new = r /\ ~r[h].open
    BY <1>1 DEF CloseNewestOpenTurn, OpenTurns
  <2> QED BY <2>1 DEF StateOf, Settled
<1>2. CASE OpenTurns(r) = {h}
  <2>1. Max({h}) = h
    <3>1. h >= h
      BY TurnNumbers
    <3> QED BY <3>1 DEF Max
  <2>2. new = [r EXCEPT ![h] = [r[h] EXCEPT !.state = FinalState(status, r[h].state),
                                            !.open = FALSE]]
    BY <1>2, <2>1 DEF CloseNewestOpenTurn
  <2>3. FinalState(status, r[h].state) \in {"completed", "interrupted", "error"}
    BY DEF FinalState, SettledStatuses
  <2>4. r[h] \in Row
    OBVIOUS
  <2>5. new[h].state = FinalState(status, r[h].state) /\ new[h].open = FALSE
    BY <2>2, <2>4 DEF Row
  <2>6. \A t \in Turns \ {h} : new[t] = r[t]
    BY <2>2
  <2> HIDE DEF new
  <2>7. ~new[h].open /\ Settled(new, h)
    BY <2>3, <2>5 DEF Settled, HasRow
  <2> QED BY <2>6, <2>7 DEF new
<1> QED BY <1>1, <1>2

LEMMA RunningRowOpen == RunningRow.open = TRUE /\ RunningRow.state = "running"
BY DEF RunningRow, NoRow

LEMMA MarkedTurn ==
    ASSUME NEW r \in [Turns -> Row], NEW t \in Turns, StateOf(r, t), r[t].state # "interrupted"
    PROVE  Opens(r, MarkRunning(r, t), t)
<1>1. r[t] \in Row
  OBVIOUS
<1> DEFINE new == MarkRunning(r, t)
<1>2. CASE HasRow(r, t)
  <2>1. r[t].state \in {"running", "completed", "error"}
    BY <1>1, <1>2 DEF Row, RowStates, HasRow
  <2>2. new = [r EXCEPT ![t] = [r[t] EXCEPT !.state = IF r[t].state \in {"completed", "error"}
                                                    THEN r[t].state ELSE "running"]]
    BY <1>2 DEF MarkRunning
  <2>3. new[t].open = r[t].open /\ new[t].state = r[t].state
    BY <1>1, <2>1, <2>2 DEF Row
  <2>4. \A u \in Turns \ {t} : new[u] = r[u]
    BY <2>2
  <2> HIDE DEF new
  <2>5. Opens(r, new, t)
    BY <2>1, <2>3, <2>4 DEF Opens, StateOf, HasRow, Settled
  <2> QED BY <2>5 DEF new
<1>3. CASE ~HasRow(r, t)
  <2>1. new[t] = RunningRow /\ \A u \in Turns \ {t} : new[u] = r[u]
    BY <1>3 DEF MarkRunning
  <2> HIDE DEF new
  <2>2. Opens(r, new, t)
    BY <1>3, <2>1, RunningRowOpen DEF Opens, StateOf, HasRow, Settled
  <2> QED BY <2>2 DEF new
<1> QED BY <1>2, <1>3

LEMMA SpokenTurn ==
    ASSUME NEW r \in [Turns -> Row], NEW t \in Turns, StateOf(r, t)
    PROVE  /\ Opens(r, AfterAssistantText(r, t), t)
           /\ Settled(r, t) => AfterAssistantText(r, t) = r
<1> DEFINE new == AfterAssistantText(r, t)
<1>1. r[t] \in Row
  OBVIOUS
<1>2. CASE Settled(r, t)
  <2>1. new = r
    BY <1>2 DEF AfterAssistantText, Settled
  <2> QED BY <1>2, <2>1 DEF Opens, Settled
<1>3. CASE ~Settled(r, t)
  <2>1. /\ \A u \in Turns \ {t} : new[u] = r[u]
        /\ new[t].open = TRUE /\ new[t].state = "running"
    <3>1. CASE HasRow(r, t)
      <4>1. r[t].state = "running" /\ new = [r EXCEPT ![t] = [r[t] EXCEPT !.open = TRUE]]
        BY <1>3, <3>1 DEF AfterAssistantText, Settled
      <4> QED BY <1>1, <4>1 DEF Row
    <3>2. CASE ~HasRow(r, t)
      <4>1. new = [r EXCEPT ![t] = RunningRow]
        BY <3>2 DEF AfterAssistantText
      <4> QED BY <4>1, RunningRowOpen
    <3> QED BY <3>1, <3>2
  <2> HIDE DEF new
  <2>2. Opens(r, new, t)
    BY <1>3, <2>1 DEF Opens, StateOf, HasRow, Settled
  <2> QED BY <1>3, <2>2 DEF new
<1> QED BY <1>2, <1>3

LEMMA DiffTurn ==
    ASSUME NEW r \in [Turns -> Row], NEW t \in Turns, NEW count \in Nat, NEW ref, NEW status,
           StateOf(r, t)
    PROVE  /\ Opens(r, AfterDiffCompleted(r, t, count, ref, status), t)
           /\ ref = "git" => Settled(AfterDiffCompleted(r, t, count, ref, status), t)
<1> DEFINE placeholder == status = "missing" /\ ref = "provider-diff"
           old == IF HasRow(r, t) THEN r[t] ELSE RunningRow
           state == CASE placeholder -> old.state
                      [] status = "error" -> "error"
                      [] OTHER -> "completed"
           cleared == ClearCheckpointTurnConflict(r, t, count)
           new == AfterDiffCompleted(r, t, count, ref, status)
<1>1. /\ new[t].state = state /\ new[t].open = (placeholder /\ old.open)
      /\ \A u \in Turns \ {t} : new[u] = cleared[u]
  BY DEF AfterDiffCompleted, ClearCheckpointTurnConflict
<1>2. \A u \in Turns \ {t} : new[u].open = r[u].open /\ new[u].state = r[u].state
  <2>1. ASSUME NEW u \in Turns \ {t}
        PROVE  cleared[u].open = r[u].open /\ cleared[u].state = r[u].state
    <3>1. r[u] \in Row
      OBVIOUS
    <3> QED BY <3>1 DEF ClearCheckpointTurnConflict, Row
  <2> HIDE DEF new, cleared
  <2> QED BY <1>1, <2>1
<1>3. old.open <=> old.state = "running"
  BY RunningRowOpen DEF StateOf
<1>4. old.state # "none"
  BY RunningRowOpen DEF HasRow
<1>5. HasRow(r, t) => old.state = r[t].state
  OBVIOUS
<1>6. ~HasRow(r, t) => old.state = "running"
  BY RunningRowOpen
<1> HIDE DEF new, old, cleared
<1>7. ~placeholder => state \in {"error", "completed"}
  OBVIOUS
<1>8. placeholder => state = old.state
  OBVIOUS
<1> HIDE DEF state
<1>9. Opens(r, new, t)
  <2>1. CASE placeholder
    BY <2>1, <1>1, <1>2, <1>3, <1>4, <1>5, <1>6, <1>8 DEF Opens, StateOf, HasRow, Settled
  <2>2. CASE ~placeholder
    BY <2>2, <1>1, <1>2, <1>7 DEF Opens, StateOf, HasRow, Settled
  <2> QED BY <2>1, <2>2
<1>10. ref = "git" => Settled(new, t)
  BY <1>1, <1>7 DEF HasRow, Settled
<1> QED BY <1>9, <1>10 DEF new

\* An event of the current turn is taken, and at most that turn's row is opened.
LEMMA OpenTaken ==
    ASSUME TypeOK, OpenInv, NEW e,
           Taken(e, ingestQueue, ingestQueue', running', started'),
           running' = running, started' = started, e.kind \notin AllEndings,
           \/ rows' = rows /\ e.kind # "started"
           \/ Opens(rows, rows', e.turn),
           session'.active \in {session.active, e.turn},
           \/ ingesting'.op = "idle"
           \/ ingesting'.op = "placeholder" /\ ingesting'.turn = e.turn
    PROVE  OpenInv'
<1> DEFINE NowCurrent(t) == Current(ingestQueue', running', t)
           NowBegun(t) == Begun(ingestQueue', started', t)
<1>1. /\ e.turn \in Turns /\ NowCurrent(e.turn) /\ NowBegun(e.turn)
      /\ e.kind # "started" => HasBegun(e.turn)
      /\ \A t \in Turns : /\ IsCurrent(t) => t = e.turn
                          /\ HasBegun(t) => NowBegun(t)
                          /\ NowBegun(t) => HasBegun(t) \/ t = e.turn
  BY DEF Taken, IsCurrent, HasBegun
<1> HIDE DEF NowCurrent, NowBegun
<1>2. ASSUME NEW t \in Turns \ {e.turn}
      PROVE  rows'[t].open = rows[t].open /\ rows'[t].state = rows[t].state
  BY <1>2 DEF Opens
<1>3. ASSUME NEW t \in Turns
      PROVE  /\ rows'[t].open <=> rows'[t].state = "running"
             /\ rows'[t].open => NowCurrent(t)
             /\ NowBegun(t) => HasRow(rows', t)
             /\ rows'[t].state = "interrupted" => NowBegun(t)
  <2>1. CASE t = e.turn
    <3>1. StateOf(rows', t) /\ HasRow(rows', t)
      BY <1>1, <2>1 DEF OpenInv, StateOf, Opens
    <3> QED BY <3>1, <2>1, <1>1 DEF StateOf
  <2>2. CASE t # e.turn
    BY <2>2, <1>1, <1>2 DEF OpenInv, HasRow
  <2> QED BY <2>1, <2>2
<1>4. session'.active # NoTurn => NowCurrent(session'.active)
  <2>1. session.active # NoTurn => session.active \in Turns /\ IsCurrent(session.active)
    BY Fixed DEF OpenInv, TypeOK
  <2> QED BY <2>1, <1>1
<1>5. ingesting'.op = "placeholder" => NowCurrent(ingesting'.turn)
  BY <1>1
<1> QED BY <1>3, <1>4, <1>5 DEF OpenInv, IsCurrent, HasBegun, NowCurrent, NowBegun

\* No event is taken, and at most a current or a settled turn's row changes.
LEMMA OpenFed ==
    ASSUME TypeOK, InOrder(ingestQueue, running, started), OpenInv, [Next]_vars,
           ~(IngestTurnStarted \/ IngestText \/ IngestDiff \/ IngestTurnEnded),
           \/ rows' = rows
           \/ \E t \in Turns : /\ Opens(rows, rows', t)
                               /\ IsCurrent(t) \/ Settled(rows', t),
           session'.active \in {session.active, NoTurn},
           ingesting'.op = "idle" \/ ingesting' = ingesting
    PROVE  OpenInv'
<1> DEFINE NowCurrent(t) == Current(ingestQueue', running', t)
           NowBegun(t) == Begun(ingestQueue', started', t)
<1>1. \A t \in Turns : /\ IsCurrent(t) => NowCurrent(t)
                       /\ HasBegun(t) <=> NowBegun(t)
  BY Feeding
<1> HIDE DEF NowCurrent, NowBegun
<1>2. PICK t \in Turns \cup {NoTurn} :
          /\ \A u \in Turns \ {t} : rows'[u].open = rows[u].open /\ rows'[u].state = rows[u].state
          /\ t # NoTurn => Opens(rows, rows', t) /\ (IsCurrent(t) \/ Settled(rows', t))
  <2>1. CASE rows' = rows
    BY <2>1
  <2>2. CASE \E t \in Turns : Opens(rows, rows', t) /\ (IsCurrent(t) \/ Settled(rows', t))
    BY <2>2 DEF Opens
  <2> QED BY <2>1, <2>2
<1>3. ASSUME NEW u \in Turns
      PROVE  /\ rows'[u].open <=> rows'[u].state = "running"
             /\ rows'[u].open => NowCurrent(u)
             /\ NowBegun(u) => HasRow(rows', u)
             /\ rows'[u].state = "interrupted" => NowBegun(u)
             /\ Settled(rows, u) => Settled(rows', u)
  <2>1. CASE u = t
    <3>1. t # NoTurn
      BY <2>1, TurnNumbers
    <3>2. /\ StateOf(rows', u) /\ HasRow(rows', u) /\ (IsCurrent(u) \/ Settled(rows', u))
          /\ rows'[u].state = "interrupted" => rows[u].state = "interrupted"
          /\ Settled(rows, u) => Settled(rows', u)
      BY <1>2, <2>1, <3>1 DEF Opens
    <3> QED BY <3>2, <1>1 DEF OpenInv, StateOf, Settled
  <2>2. CASE u # t
    BY <1>1, <1>2, <2>2 DEF OpenInv, HasRow, Settled
  <2> QED BY <2>1, <2>2
<1>4. session'.active # NoTurn => NowCurrent(session'.active)
  <2>1. session.active # NoTurn => session.active \in Turns /\ IsCurrent(session.active)
    BY Fixed DEF OpenInv, TypeOK
  <2> QED BY <2>1, <1>1
<1>5. /\ ingesting'.op = "placeholder" => NowCurrent(ingesting'.turn)
      /\ ingesting'.op \in {"finalize", "exit"} => Settled(rows', ingesting'.turn)
  <2>1. ingesting.op # "idle" => ingesting.turn \in Turns
    BY HalfHandled
  <2>2. /\ ingesting.op = "placeholder" => IsCurrent(ingesting.turn)
        /\ ingesting.op \in {"finalize", "exit"} => Settled(rows, ingesting.turn)
    BY DEF OpenInv, Settled
  <2> QED BY <2>1, <2>2, <1>1, <1>3
<1> QED BY <1>3, <1>4, <1>5 DEF OpenInv, IsCurrent, HasBegun, NowCurrent, NowBegun, Settled

\* The end of the current turn is taken: its row is closed and its session ended.
LEMMA OpenEnded ==
    ASSUME TypeOK, InOrder(ingestQueue, running, started), OpenInv, IngestTurnEnded
    PROVE  OpenInv'
<1> DEFINE e == Head(ingestQueue)
           NowCurrent(t) == Current(ingestQueue', running', t)
           NowBegun(t) == Begun(ingestQueue', started', t)
           status == SessionStatusAt(e.kind)
<1>1. running' = running /\ started' = started /\ Ingest(AllEndings)
  BY DEF IngestTurnEnded, environment
<1>2. e.kind \in AllEndings /\ Taken(e, ingestQueue, ingestQueue', running', started')
  BY <1>1, Taking
<1>3. e.kind # "started"
  BY <1>2 DEF AllEndings, Completions
<1>4. /\ ingesting' = [op |-> IF e.kind = "exited" THEN "exit" ELSE "finalize",
                       turn |-> e.turn, count |-> NoCount]
      /\ \/ SetSession(status, NoTurn)
         \/ e.kind # "exited" /\ session.active \notin {NoTurn, e.turn}
  BY DEF IngestTurnEnded
<1>5. status \in SettledStatuses /\ status # "running"
  BY DEF SessionStatusAt, SettledStatuses
<1> HIDE DEF e, status
<1>6. /\ e.turn \in Turns /\ NowBegun(e.turn) /\ HasBegun(e.turn)
      /\ \A t \in Turns : /\ IsCurrent(t) => t = e.turn
                          /\ HasBegun(t) => NowBegun(t)
                          /\ NowBegun(t) => HasBegun(t) \/ t = e.turn
  BY <1>1, <1>2, <1>3 DEF Taken, IsCurrent, HasBegun
<1> HIDE DEF NowCurrent, NowBegun
<1>7. session.active \in {NoTurn, e.turn}
  <2>1. session.active # NoTurn => session.active \in Turns /\ IsCurrent(session.active)
    BY Fixed DEF OpenInv, TypeOK
  <2> QED BY <2>1, <1>6
<1>8. session'.active = NoTurn /\ rows' = CloseNewestOpenTurn(rows, status)
  BY <1>4, <1>5, <1>7 DEF SetSession, AfterSessionSet
<1>9. /\ \A t \in Turns \ {e.turn} : rows'[t] = rows[t]
      /\ ~rows'[e.turn].open /\ Settled(rows', e.turn)
  <2>1. rows \in [Turns -> Row] /\ OpenTurns(rows) \subseteq {e.turn}
    BY <1>6 DEF TypeOK, OpenTurns, OpenInv
  <2>2. HasRow(rows, e.turn) /\ StateOf(rows, e.turn)
    BY <1>6 DEF OpenInv, StateOf
  <2> QED BY <1>5, <1>6, <1>8, <2>1, <2>2, ClosedTurn
<1>10. ASSUME NEW t \in Turns
       PROVE  /\ rows'[t].open <=> rows'[t].state = "running"
              /\ ~rows'[t].open
              /\ NowBegun(t) => HasRow(rows', t)
              /\ rows'[t].state = "interrupted" => NowBegun(t)
  <2>1. CASE t = e.turn
    BY <2>1, <1>6, <1>9 DEF Settled
  <2>2. CASE t # e.turn
    BY <2>2, <1>6, <1>9 DEF OpenInv, HasRow
  <2> QED BY <2>1, <2>2
<1>11. /\ ingesting'.op \in {"exit", "finalize"} /\ ingesting'.turn = e.turn
  BY <1>4
<1> QED BY <1>8, <1>9, <1>10, <1>11 DEF OpenInv, IsCurrent, HasBegun, NowCurrent, NowBegun, Settled

\* Only the turn whose events are being ingested is open, through every step.
LEMMA OpenStep ==
    ASSUME TypeOK, InOrder(ingestQueue, running, started), NoRevertInv, OpenInv, [Next]_vars
    PROVE  OpenInv'
<1>1. CASE IngestTurnStarted
  <2> DEFINE e == Head(ingestQueue)
  <2>1. /\ running' = running /\ started' = started /\ Ingest({"started"})
        /\ ingesting' = ingesting /\ ingesting.op = "idle"
    BY <1>1 DEF IngestTurnStarted, environment, Ingest
  <2>2. e.kind = "started" /\ Taken(e, ingestQueue, ingestQueue', running', started')
    BY <2>1, Taking
  <2>3. "started" \notin AllEndings
    BY DEF AllEndings, Completions
  <2>4. e.turn \in Turns /\ ~HasBegun(e.turn) /\ \A t \in Turns : IsCurrent(t) => t = e.turn
    BY <2>1, <2>2 DEF Taken, IsCurrent, HasBegun
  <2>5. session.active \in {NoTurn, e.turn}
    <3>1. session.active # NoTurn => session.active \in Turns /\ IsCurrent(session.active)
      BY Fixed DEF OpenInv, TypeOK
    <3> QED BY <3>1, <2>4
  <2>6. session'.active = e.turn /\ rows' = MarkRunning(rows, e.turn)
    <3>1. SetSession("running", e.turn) /\ e.turn # NoTurn
      BY <1>1, <2>4, <2>5, TurnNumbers DEF IngestTurnStarted
    <3> QED BY <3>1 DEF SetSession, AfterSessionSet
  <2> HIDE DEF e
  <2>7. Opens(rows, rows', e.turn)
    <3>1. rows \in [Turns -> Row] /\ StateOf(rows, e.turn) /\ rows[e.turn].state # "interrupted"
      BY <2>4 DEF TypeOK, OpenInv, StateOf
    <3> QED BY <3>1, <2>4, <2>6, MarkedTurn
  <2> QED BY <2>1, <2>2, <2>3, <2>6, <2>7, OpenTaken
<1>2. CASE IngestText
  <2> DEFINE e == Head(ingestQueue)
  <2>1. /\ running' = running /\ started' = started /\ Ingest({"text"})
        /\ ingesting' = ingesting /\ ingesting.op = "idle" /\ session' = session
        /\ rows' = rows \/ rows' = AfterAssistantText(rows, e.turn)
    BY <1>2 DEF IngestText, environment, Ingest
  <2>2. e.kind = "text" /\ Taken(e, ingestQueue, ingestQueue', running', started')
    BY <2>1, Taking
  <2>3. "text" \notin AllEndings
    BY DEF AllEndings, Completions
  <2> HIDE DEF e
  <2>4. rows' = rows \/ Opens(rows, rows', e.turn)
    <3>1. e.turn \in Turns
      BY <2>2 DEF Taken
    <3>2. rows \in [Turns -> Row] /\ StateOf(rows, e.turn)
      BY <3>1 DEF TypeOK, OpenInv, StateOf
    <3> QED BY <3>1, <3>2, <2>1, SpokenTurn
  <2> QED BY <2>1, <2>2, <2>3, <2>4, OpenTaken
<1>3. CASE IngestDiff
  <2> DEFINE e == Head(ingestQueue)
  <2>1. /\ running' = running /\ started' = started /\ Ingest({"diff"})
        /\ ingesting.op = "idle" /\ session' = session /\ rows' = rows
        /\ \/ ingesting' = ingesting
           \/ ingesting'.op = "placeholder" /\ ingesting'.turn = e.turn
    BY <1>3 DEF IngestDiff, environment, Ingest, database
  <2>2. e.kind = "diff" /\ Taken(e, ingestQueue, ingestQueue', running', started')
    BY <2>1, Taking
  <2>3. "diff" \notin AllEndings
    BY DEF AllEndings, Completions
  <2> HIDE DEF e
  <2> QED BY <2>1, <2>2, <2>3, OpenTaken
<1>4. CASE IngestTurnEnded
  BY <1>4, OpenEnded
<1>5. CASE ~(IngestTurnStarted \/ IngestText \/ IngestDiff \/ IngestTurnEnded)
  <2>0. rows \in [Turns -> Row] /\ \A t \in Turns : StateOf(rows, t)
    BY DEF TypeOK, OpenInv, StateOf
  <2>1. CASE RecordPlaceholder
    <3> DEFINE t == ingesting.turn
    <3>1. /\ t \in Turns /\ ingesting.count \in Nat /\ IsCurrent(t)
      BY <2>1, HalfHandled DEF RecordPlaceholder, OpenInv
    <3>2. /\ rows' = AfterDiffCompleted(rows, t, ingesting.count, "provider-diff", "missing")
          /\ session' = session /\ ingesting' = NotIngesting
      BY <2>1 DEF RecordPlaceholder
    <3> HIDE DEF t
    <3>3. Opens(rows, rows', t)
      BY <3>1, <3>2, <2>0, DiffTurn
    <3> QED BY <3>1, <3>2, <3>3, <1>5, Fixed, OpenFed
  <2>2. CASE FinalizeMessages
    <3> DEFINE t == ingesting.turn
    <3>1. /\ t \in Turns /\ Settled(rows, t)
      BY <2>2, HalfHandled DEF FinalizeMessages, OpenInv, Settled
    <3>2. /\ rows' = rows \/ rows' = AfterAssistantText(rows, t)
          /\ session' = session /\ ingesting' = NotIngesting
      BY <2>2 DEF FinalizeMessages
    <3> HIDE DEF t
    <3>3. rows' = rows
      BY <3>1, <3>2, <2>0, SpokenTurn
    <3> QED BY <3>2, <3>3, <1>5, Fixed, OpenFed
  <2>3. CASE RecordCheckpoint
    <3> DEFINE t == reacting.turn
    <3>1. t \in Turns /\ reacting.count \in Nat
      BY <2>3, HalfHandled DEF RecordCheckpoint
    <3>2. /\ rows' = AfterDiffCompleted(rows, t, reacting.count, "git", reacting.status)
          /\ session' = session /\ ingesting' = ingesting
      BY <2>3 DEF RecordCheckpoint, ingestion
    <3> HIDE DEF t
    <3>3. Opens(rows, rows', t) /\ Settled(rows', t)
      BY <3>1, <3>2, <2>0, DiffTurn
    <3> QED BY <3>1, <3>2, <3>3, <1>5, OpenFed
  <2>4. CASE RequestTurn \/ StartTurn \/ EditWorkspace \/ StreamText
              \/ (\E ending \in Endings : EndTurn(ending))
              \/ (\E n \in 0..MaxTurns : RequestRevert(n))
              \/ ReactToUserMessage \/ ReactToTurnStartRequested \/ ReactToTurnStarted
              \/ ReactToTurnCompleted \/ CaptureCheckpoint \/ CaptureFails \/ UNCHANGED vars
    <3>1. rows' = rows /\ session' = session /\ ingesting' = ingesting
      BY <2>4 DEF RequestTurn, StartTurn, EditWorkspace, StreamText, EndTurn, RequestRevert,
              ReactToUserMessage, ReactToTurnStartRequested, ReactToTurnStarted,
              ReactToTurnCompleted, CaptureCheckpoint, CaptureFails, vars, database, ingestion
    <3> QED BY <3>1, <1>5, OpenFed
  <2>5. CASE SendTurn
    <3>1. rows' = rows /\ session'.active \in {session.active, NoTurn} /\ ingesting' = ingesting
      BY <2>5 DEF SendTurn, ingestion
    <3> QED BY <3>1, <1>5, OpenFed
  <2>6. CASE Revert \/ RollBackProvider \/ RecordRevert \/ RevertFails
    <3>1. reactQueue # <<>> => Head(reactQueue).kind # "revert"
      <4>1. reactQueue # <<>> => 1 \in 1..Len(reactQueue) /\ Head(reactQueue) = reactQueue[1]
        <5>1. reactQueue \in Seq(Reacted)
          BY Queues
        <5> QED BY <5>1, Popped
      <4> QED BY <4>1 DEF NoRevertInv
    <3> QED BY <2>6, <3>1 DEF Revert, React, RollBackProvider, RecordRevert, RevertFails, NoRevertInv
  <2> QED BY <1>5, <2>1, <2>2, <2>3, <2>4, <2>5, <2>6 DEF Next
<1> QED BY <1>1, <1>2, <1>3, <1>4, <1>5

\* The order of the events holds in every step.
LEMMA InOrderStep ==
    ASSUME TypeOK, InOrder(ingestQueue, running, started), [Next]_vars
    PROVE  InOrder(ingestQueue', running', started')
<1>1. CASE ~(IngestTurnStarted \/ IngestText \/ IngestDiff \/ IngestTurnEnded)
  BY <1>1, Feeding
<1>2. CASE IngestTurnStarted \/ IngestText \/ IngestDiff \/ IngestTurnEnded
  <2>1. PICK kinds : Ingest(kinds)
    BY <1>2 DEF IngestTurnStarted, IngestText, IngestDiff, IngestTurnEnded
  <2>2. running' = running /\ started' = started
    BY <1>2 DEF IngestTurnStarted, IngestText, IngestDiff, IngestTurnEnded, environment
  <2> QED BY <2>1, <2>2, Taking DEF Taken
<1> QED BY <1>1, <1>2

-----------------------------------------------------------------------------
(* What the reactor has before it, and the refs it leaves alone.           *)

\* An input of the reactor was there before, or has just come.
LEMMA NewInputs ==
    ASSUME TypeOK, [Next]_vars, NEW i \in 1..Len(reactQueue')
    PROVE  \/ \E k \in 1..Len(reactQueue) : reactQueue'[i] = reactQueue[k]
           \/ RequestTurn /\ reactQueue'[i].kind \in {"user-message", "turn-start-requested"}
           \/ StartTurn /\ reactQueue'[i] = Event("started", started')
           \/ \E ending \in Endings : EndTurn(ending) /\ reactQueue'[i] = Event(ending, running)
           \/ \E n \in 0..MaxTurns : RequestRevert(n)
<1> DEFINE Goal ==
        \/ \E k \in 1..Len(reactQueue) : reactQueue'[i] = reactQueue[k]
        \/ RequestTurn /\ reactQueue'[i].kind \in {"user-message", "turn-start-requested"}
        \/ StartTurn /\ reactQueue'[i] = Event("started", started')
        \/ \E ending \in Endings : EndTurn(ending) /\ reactQueue'[i] = Event(ending, running)
        \/ \E n \in 0..MaxTurns : RequestRevert(n)
<1>1. reactQueue \in Seq(Reacted)
  BY Queues
<1>2. ASSUME reactQueue' = reactQueue PROVE Goal
  BY <1>2
<1>3. ASSUME reactQueue # <<>>, reactQueue' = Tail(reactQueue) PROVE Goal
  <2>1. reactQueue'[i] = reactQueue[i + 1] /\ i + 1 \in 1..Len(reactQueue)
    BY <1>1, <1>3, Popped
  <2> QED BY <2>1
<1>4. ASSUME NEW e, reactQueue' = Append(reactQueue, e)
      PROVE  (\E k \in 1..Len(reactQueue) : reactQueue'[i] = reactQueue[k]) \/ reactQueue'[i] = e
  BY <1>1, <1>4
<1>5. CASE RequestTurn
  <2> DEFINE e == Event("user-message", requested')
             f == Event("turn-start-requested", requested')
  <2>1. reactQueue' = reactQueue \o <<e, f>>
    BY <1>5 DEF RequestTurn
  <2>2. (\E k \in 1..Len(reactQueue) : reactQueue'[i] = reactQueue[k])
           \/ reactQueue'[i] \in {e, f}
    <3> HIDE DEF e, f
    <3> QED BY <1>1, <2>1
  <2>3. e.kind = "user-message" /\ f.kind = "turn-start-requested"
    BY DEF Event
  <2> QED BY <1>5, <2>2, <2>3
<1>6. CASE StartTurn
  BY <1>4, <1>6 DEF StartTurn
<1>7. ASSUME NEW ending \in Endings, EndTurn(ending) PROVE Goal
  <2>1. reactQueue' = reactQueue \/ reactQueue' = Append(reactQueue, Event(ending, running))
    BY <1>7 DEF EndTurn
  <2> QED BY <1>2, <1>4, <1>7, <2>1
<1>8. ASSUME SendTurn \/ EditWorkspace \/ StreamText \/ IngestStep \/ CaptureCheckpoint
             \/ CaptureFails \/ RecordCheckpoint \/ RollBackProvider \/ RecordRevert \/ RevertFails
             \/ UNCHANGED vars
      PROVE  Goal
  <2>1. reactQueue' = reactQueue
    BY <1>8 DEF SendTurn, EditWorkspace, StreamText, IngestStep, IngestTurnStarted, IngestText,
           IngestDiff, RecordPlaceholder, IngestTurnEnded, FinalizeMessages, CaptureCheckpoint,
           CaptureFails, RecordCheckpoint, RollBackProvider, RecordRevert, RevertFails, vars, reactor
  <2> QED BY <1>2, <2>1
<1>9. ASSUME ReactToUserMessage \/ ReactToTurnStartRequested \/ ReactToTurnStarted
             \/ ReactToTurnCompleted \/ Revert
      PROVE  Goal
  <2>1. reactQueue # <<>> /\ reactQueue' = Tail(reactQueue)
    BY <1>9 DEF React, ReactToUserMessage, ReactToTurnStartRequested, ReactToTurnStarted,
           ReactToTurnCompleted, Revert
  <2> QED BY <1>3, <2>1
<1> QED BY <1>5, <1>6, <1>7, <1>8, <1>9 DEF Next, IngestStep

\* What an input's handler takes is the first of its inputs.
LEMMA FirstInput ==
    ASSUME TypeOK, reactQueue # <<>>
    PROVE  1 \in 1..Len(reactQueue) /\ Head(reactQueue) = reactQueue[1]
<1>1. reactQueue \in Seq(Reacted)
  BY Queues
<1> QED BY <1>1, Popped

\* Without a request there is no revert.
LEMMA NoRevertStep ==
    ASSUME TypeOK, NoRevertInv, [Next]_vars, ~\E n \in 0..MaxTurns : RequestRevert(n)
    PROVE  NoRevertInv'
<1>1. ASSUME NEW i \in 1..Len(reactQueue') PROVE reactQueue'[i].kind # "revert"
  <2>1. ASSUME NEW ending \in Endings, reactQueue'[i] = Event(ending, running)
        PROVE  reactQueue'[i].kind # "revert"
    BY <2>1, EndingsAssumption DEF Event, AllEndings, Completions
  <2>2. ASSUME NEW k \in 1..Len(reactQueue), reactQueue'[i] = reactQueue[k]
        PROVE  reactQueue'[i].kind # "revert"
    BY <2>2 DEF NoRevertInv
  <2>3. Event("started", started').kind # "revert"
    BY DEF Event
  <2> QED BY <2>1, <2>2, <2>3, NewInputs
<1>2. ~Revert
  BY FirstInput DEF Revert, React, NoRevertInv
<1>3. ~RollBackProvider /\ ~RecordRevert /\ ~RevertFails
  BY DEF NoRevertInv, RollBackProvider, RecordRevert, RevertFails
<1>4. reacting'.op \notin {"rollback", "reverted"}
  <2>1. CASE ReactToTurnCompleted
    <3>1. PICK t, status, count :
              \/ reacting' = NotReacting
              \/ reacting' = [NotReacting EXCEPT !.op = "capture", !.turn = t,
                                                 !.status = status, !.count = count]
      BY <2>1 DEF ReactToTurnCompleted
    <3>2. [NotReacting EXCEPT !.op = "capture", !.turn = t,
                              !.status = status, !.count = count].op = "capture"
      BY DEF NotReacting
    <3> QED BY <3>1, <3>2, Fixed
  <2>2. CASE CaptureCheckpoint
    BY <2>2 DEF CaptureCheckpoint, TypeOK, ReactingStates
  <2>3. CASE CaptureFails \/ RecordCheckpoint
    BY <2>3, Fixed DEF CaptureFails, RecordCheckpoint
  <2>4. CASE reacting' = reacting
    BY <2>4 DEF NoRevertInv
  <2>5. ReactToTurnCompleted \/ CaptureCheckpoint \/ CaptureFails \/ RecordCheckpoint
           \/ reacting' = reacting
    BY <1>2, <1>3 DEF Next, RequestTurn, SendTurn, StartTurn, EditWorkspace, StreamText, EndTurn,
         RequestRevert, IngestTurnStarted, IngestText, IngestDiff, RecordPlaceholder,
         IngestTurnEnded, FinalizeMessages, ReactToUserMessage, ReactToTurnStartRequested,
         ReactToTurnStarted, reactor, vars
  <2> QED BY <2>1, <2>2, <2>3, <2>4, <2>5
<1>5. orphaned' = {}
  BY <1>3, HistoryStep DEF NoRevertInv
<1> QED BY <1>1, <1>4, <1>5 DEF NoRevertInv

\* Capturing a missing ref leaves the others; the legacy baseline only adds one of a turn.
LEMMA CapturedOnce ==
    ASSUME NEW f, NEW name
    PROVE  /\ \A r \in DOMAIN f : CaptureIfMissing(name, f)[r] = f[r]
           /\ name \notin DOMAIN f => CaptureIfMissing(name, f)[name] = tree
           /\ DOMAIN CaptureIfMissing(name, f) = DOMAIN f \cup {name}
<1>1. CASE name \in DOMAIN f
  BY <1>1 DEF CaptureIfMissing
<1>2. CASE name \notin DOMAIN f
  BY <1>2 DEF CaptureIfMissing, Capture, UpdateRef
<1> QED BY <1>1, <1>2

LEMMA LegacyBaseline ==
    ASSUME NEW f
    PROVE  /\ \A r \in DOMAIN f : EnsureLegacyBaseline(f)[r] = f[r]
           /\ DOMAIN EnsureLegacyBaseline(f) = DOMAIN f \cup {<<"turn", LatestCount(rows)>>}
BY ZenonT(40), CapturedOnce DEF EnsureLegacyBaseline

\* Which refs a step may change.
LEMMA KeptRefs ==
    ASSUME TypeOK, [Next]_vars, NEW r \in DOMAIN refs
    PROVE  \/ r \in DOMAIN refs' /\ refs'[r] = refs[r]
           \/ CaptureCheckpoint /\ r = <<"turn", reacting.count>>
           \/ RollBackProvider /\ r \in reacting.stale
           \/ SendTurn /\ r = <<"message-start", sent'>>
           \/ ReactToTurnStarted /\ r = <<"turn-start", Head(reactQueue).turn>>
<1> DEFINE Kept == r \in DOMAIN refs' /\ refs'[r] = refs[r]
<1>1. CASE SendTurn
  <2> DEFINE name == <<"message-start", sent'>>
  <2>1. refs' = UpdateRef(name, tree, refs) \/ refs' = refs
    BY <1>1 DEF SendTurn, Capture
  <2> HIDE DEF name
  <2>2. r # name => Kept
    BY <2>1 DEF UpdateRef
  <2> QED BY <1>1, <2>2 DEF name
<1>2. CASE ReactToUserMessage
  BY <1>2, LegacyBaseline DEF ReactToUserMessage
<1>3. CASE ReactToTurnStartRequested
  <2> DEFINE name == <<"message-start", Head(reactQueue).turn>>
             f == CaptureIfMissing(name, refs)
  <2> HIDE DEF name
  <2>1. r \in DOMAIN f /\ f[r] = refs[r]
    BY DEF CaptureIfMissing, Capture, UpdateRef
  <2>2. refs' = EnsureLegacyBaseline(f)
    BY <1>3 DEF ReactToTurnStartRequested, name
  <2> HIDE DEF f
  <2> QED BY <2>1, <2>2, LegacyBaseline
<1>4. CASE ReactToTurnStarted
  <2> DEFINE start == <<"turn-start", Head(reactQueue).turn>>
  <2>1. PICK f : /\ refs' = EnsureLegacyBaseline(f)
                 /\ \/ f = CaptureIfMissing(start, refs)
                    \/ \E u \in DOMAIN refs : f = UpdateRef(start, refs[u], refs)
    BY <1>4 DEF ReactToTurnStarted
  <2>2. r # start => r \in DOMAIN f /\ f[r] = refs[r]
    <3> HIDE DEF start
    <3>1. ASSUME NEW u \in DOMAIN refs, f = UpdateRef(start, refs[u], refs)
          PROVE  r # start => r \in DOMAIN f /\ f[r] = refs[r]
      BY <3>1 DEF UpdateRef
    <3>2. ASSUME f = CaptureIfMissing(start, refs) PROVE r \in DOMAIN f /\ f[r] = refs[r]
      BY <3>2 DEF CaptureIfMissing, Capture, UpdateRef
    <3> QED BY <2>1, <3>1, <3>2
  <2> QED BY <1>4, <2>1, <2>2, LegacyBaseline
<1>5. CASE CaptureCheckpoint
  <2> DEFINE name == <<"turn", reacting.count>>
  <2>1. refs' = UpdateRef(name, tree, refs)
    BY <1>5 DEF CaptureCheckpoint, Capture
  <2> HIDE DEF name
  <2>2. r # name => Kept
    BY <2>1 DEF UpdateRef
  <2> QED BY <1>5, <2>2 DEF name
<1>6. CASE RollBackProvider
  BY <1>6 DEF RollBackProvider
<1>7. ASSUME RequestTurn \/ StartTurn \/ EditWorkspace \/ StreamText
             \/ (\E ending \in Endings : EndTurn(ending))
             \/ (\E n \in 0..MaxTurns : RequestRevert(n))
             \/ IngestStep \/ ReactToTurnCompleted
             \/ CaptureFails \/ RecordCheckpoint \/ Revert \/ RecordRevert \/ RevertFails \/ UNCHANGED vars
      PROVE  Kept
  <2>1. refs' = refs
    BY <1>7 DEF RequestTurn, StartTurn, EditWorkspace, StreamText, EndTurn, RequestRevert,
           IngestStep, IngestTurnStarted, IngestText, IngestDiff, RecordPlaceholder,
           IngestTurnEnded, FinalizeMessages, ReactToTurnCompleted, CaptureFails,
           RecordCheckpoint, Revert, RecordRevert, RevertFails, vars, git
  <2> QED BY <2>1
<1> QED BY <1>1, <1>2, <1>3, <1>4, <1>5, <1>6, <1>7 DEF Next, IngestStep

-----------------------------------------------------------------------------
(* What a checkpoint holds.                                                *)

\* A turn that has ended makes no more edits.
LEMMA EndedStays ==
    ASSUME TypeOK, [Next]_vars, NEW t \in Turns, HasEnded(t)
    PROVE  HasEnded(t)' /\ EditsOf(t)' = EditsOf(t)
<1>1. started \in Nat /\ running \in Nat /\ author \in Seq(Turns) /\ t \in Nat /\ t # 0
  BY Queues, TurnNumbers
<1>2. CASE EditWorkspace
  <2>1. started' = started /\ running' = running /\ author' = Append(author, running) /\ running # t
    BY <1>2 DEF EditWorkspace, HasEnded
  <2>2. /\ DOMAIN author = 1..Len(author) /\ DOMAIN author' = 1..(Len(author) + 1)
        /\ Len(author) \in Nat
        /\ \A i \in 1..Len(author) : author'[i] = author[i]
        /\ author'[Len(author) + 1] = running
    BY <1>1, <2>1
  <2>3. \A i \in DOMAIN author' : author'[i] = t <=> i \in DOMAIN author /\ author[i] = t
    BY <2>1, <2>2
  <2>4. DOMAIN author \subseteq DOMAIN author'
    BY <2>2
  <2>5. EditsOf(t)' = EditsOf(t)
    BY <2>3, <2>4 DEF EditsOf
  <2> QED BY <2>1, <2>5 DEF HasEnded
<1>3. CASE StartTurn
  BY <1>1, <1>3 DEF StartTurn, HasEnded, EditsOf
<1>4. CASE \E ending \in Endings : EndTurn(ending)
  BY <1>1, <1>4, TurnNumbers DEF EndTurn, HasEnded, EditsOf
<1>5. CASE ~(EditWorkspace \/ StartTurn \/ \E ending \in Endings : EndTurn(ending))
  <2>1. started' = started /\ running' = running /\ author' = author
    BY <1>5 DEF Next, RequestTurn, SendTurn, StreamText, RequestRevert, IngestTurnStarted,
           IngestText, IngestDiff, RecordPlaceholder, IngestTurnEnded, FinalizeMessages,
           ReactToUserMessage, ReactToTurnStartRequested, ReactToTurnStarted,
           ReactToTurnCompleted, CaptureCheckpoint, CaptureFails, RecordCheckpoint, Revert,
           RollBackProvider, RecordRevert, RevertFails, environment, vars
  <2> QED BY <2>1 DEF HasEnded, EditsOf
<1> QED BY <1>2, <1>3, <1>4, <1>5

\* The worktree has every edit, and a captured ref keeps what it has.
LEMMA CapturedStep ==
    ASSUME TypeOK, InOrder(ingestQueue, running, started), RestorableInv,
           NoRevertInv, CapturedInv, [Next]_vars
    PROVE  \/ CapturedInv'
           \/ \E n \in 0..MaxTurns : RequestRevert(n)
<1> SUFFICES ASSUME ~\E n \in 0..MaxTurns : RequestRevert(n) PROVE CapturedInv'
  OBVIOUS
<1>1. ~Revert /\ ~RollBackProvider /\ ~RecordRevert /\ ~RevertFails
  BY FirstInput DEF Revert, React, RollBackProvider, RecordRevert, RevertFails, NoRevertInv
<1>2. tree' = DOMAIN author'
  <2>1. CASE EditWorkspace
    <3>1. running \in Turns /\ author \in Seq(Turns)
      BY <2>1, Queues, Fixed DEF EditWorkspace, TypeOK
    <3>2. author' = Append(author, running) /\ tree' = tree \cup {Len(author')}
      BY <2>1 DEF EditWorkspace
    <3>3. /\ DOMAIN author = 1..Len(author) /\ DOMAIN author' = 1..(Len(author) + 1)
          /\ Len(author') = Len(author) + 1 /\ Len(author) \in Nat
      BY <3>1, <3>2
    <3> QED BY <3>2, <3>3 DEF CapturedInv
  <2>2. CASE ~EditWorkspace
    <3>1. tree' = tree /\ author' = author
      BY <1>1, <2>2 DEF Next, RequestTurn, SendTurn, StartTurn, StreamText, EndTurn, RequestRevert,
           IngestTurnStarted, IngestText, IngestDiff, RecordPlaceholder, IngestTurnEnded,
           FinalizeMessages, ReactToUserMessage, ReactToTurnStartRequested, ReactToTurnStarted,
           ReactToTurnCompleted, CaptureCheckpoint, CaptureFails, RecordCheckpoint,
           environment, git, vars
    <3> QED BY <3>1 DEF CapturedInv
  <2> QED BY <2>1, <2>2
<1>3. ASSUME NEW i \in 1..Len(reactQueue'), reactQueue'[i].kind \in Completions
      PROVE  reactQueue'[i].turn <= started' /\ running' # reactQueue'[i].turn
  <2>1. reactQueue'[i].kind \notin {"user-message", "turn-start-requested", "started"}
    BY <1>3 DEF Completions
  <2>2. ASSUME NEW k \in 1..Len(reactQueue), reactQueue'[i] = reactQueue[k]
        PROVE  reactQueue'[i].turn <= started' /\ running' # reactQueue'[i].turn
    <3>1. HasEnded(reactQueue[k].turn) /\ reactQueue[k].turn \in Turns
      <4>1. reactQueue[k] \in Reacted /\ reactQueue[k].kind # "revert"
        <5>1. reactQueue[k] \in Reacted
          BY Queues
        <5> QED BY <5>1, <2>2, <1>3 DEF Completions
      <4> QED BY <1>3, <2>2, <4>1 DEF CapturedInv, Reacted
    <3>2. ASSUME NEW u \in Turns, HasEnded(u) PROVE u <= started' /\ running' # u
      BY <3>2, EndedStays DEF HasEnded
    <3> QED BY <2>2, <3>1, <3>2
  <2>3. ASSUME NEW ending \in Endings, EndTurn(ending), reactQueue'[i] = Event(ending, running)
        PROVE  reactQueue'[i].turn <= started' /\ running' # reactQueue'[i].turn
    <3>1. reactQueue'[i].turn = running /\ running # NoTurn /\ running' = NoTurn /\ started' = started
      BY <2>3 DEF EndTurn, Event
    <3>2. running = started /\ started \in Nat
      BY <3>1, Queues DEF InOrder
    <3> QED BY <3>1, <3>2
  <2>4. Event("started", started').kind = "started"
    BY DEF Event
  <2> QED BY <2>1, <2>2, <2>3, <2>4, NewInputs
<1>4. \A c : /\ <<"turn", c>> \in DOMAIN refs
             /\ ~(CaptureCheckpoint /\ c = reacting.count)
             => refs'[<<"turn", c>>] = refs[<<"turn", c>>]
  <2> SUFFICES ASSUME NEW c, <<"turn", c>> \in DOMAIN refs,
                      ~(CaptureCheckpoint /\ c = reacting.count)
               PROVE  refs'[<<"turn", c>>] = refs[<<"turn", c>>]
    OBVIOUS
  <2> DEFINE r == <<"turn", c>>
  <2>1. /\ r # <<"message-start", sent'>> /\ r # <<"turn-start", Head(reactQueue).turn>>
        /\ r = <<"turn", reacting.count>> => c = reacting.count
    OBVIOUS
  <2>2. r \in DOMAIN refs
    OBVIOUS
  <2> HIDE DEF r
  <2>3. refs'[r] = refs[r]
    BY <2>1, <2>2, <1>1, KeptRefs
  <2> QED BY <2>3 DEF r
<1>5. CASE CaptureCheckpoint
  <2> DEFINE name == <<"turn", reacting.count>>
  <2>1. /\ reacting.op = "capture" /\ reacting'.op = "dispatch"
        /\ reacting'.turn = reacting.turn /\ reacting'.count = reacting.count
        /\ rows' = rows /\ author' = author /\ tree' = tree
        /\ started' = started /\ running' = running
    BY <1>5 DEF CaptureCheckpoint, database, environment, TypeOK, ReactingStates
  <2>2. refs' = UpdateRef(name, tree, refs)
    BY <1>5 DEF CaptureCheckpoint, Capture
  <2>3. refs'[name] = DOMAIN author
    <3> HIDE DEF name
    <3> QED BY <2>2 DEF CapturedInv, UpdateRef
  <2>4. \A t : EditsOf(t)' = EditsOf(t) /\ EditsOf(t) \subseteq DOMAIN author
    BY <2>1 DEF EditsOf
  <2>5. HasEnded(reacting.turn)
    BY <2>1 DEF CapturedInv
  <2>6. EditsOf(reacting.turn)' \subseteq refs'[<<"turn", reacting'.count>>]
    BY <2>1, <2>3 DEF EditsOf
  <2>7. ASSUME NEW t \in Turns, rows'[t].ref = "git"
        PROVE  HasEnded(t)' /\ EditsOf(t)' \subseteq refs'[<<"turn", rows'[t].count>>]
    <3>1. /\ HasEnded(t) /\ EditsOf(t) \subseteq refs[<<"turn", rows[t].count>>]
          /\ <<"turn", rows[t].count>> \in DOMAIN refs
      BY <2>1, <2>7 DEF CapturedInv, RestorableInv, NoRevertInv
    <3>2. CASE rows[t].count = reacting.count
      BY <2>1, <2>3, <2>4, <3>1, <3>2 DEF HasEnded
    <3>3. CASE rows[t].count # reacting.count
      BY <2>1, <2>4, <3>1, <3>3, <1>4 DEF HasEnded
    <3> QED BY <3>2, <3>3
  <2> QED BY <1>2, <1>3, <2>1, <2>5, <2>6, <2>7 DEF CapturedInv, HasEnded
<1>6. CASE ~CaptureCheckpoint
  <2>1. ASSUME NEW t \in Turns, HasEnded(t)
        PROVE  t <= started' /\ running' # t /\ EditsOf(t)' = EditsOf(t)
    BY <2>1, EndedStays DEF HasEnded
  <2>2. ASSUME NEW t \in Turns, rows[t].ref = "git"
        PROVE  /\ t <= started' /\ running' # t
               /\ EditsOf(t)' \subseteq refs'[<<"turn", rows[t].count>>]
    <3>1. /\ HasEnded(t) /\ EditsOf(t) \subseteq refs[<<"turn", rows[t].count>>]
          /\ <<"turn", rows[t].count>> \in DOMAIN refs
      BY <2>2 DEF CapturedInv, RestorableInv, NoRevertInv
    <3> QED BY <2>1, <3>1, <1>4, <1>6
  <2>3. ASSUME NEW t \in Turns, rows'[t].ref = "git"
        PROVE  /\ t <= started' /\ running' # t
               /\ EditsOf(t)' \subseteq refs'[<<"turn", rows'[t].count>>]
    <3>0. rows \in [Turns -> Row]
      BY DEF TypeOK
    <3>1. CASE RecordCheckpoint
      <4>1. /\ reacting.turn \in Turns /\ reacting.count \in Nat
            /\ reacting.status \in CheckpointStatuses /\ "git" \in RefKinds
        BY <3>1, HalfHandled DEF RecordCheckpoint, RefKinds
      <4>2. rows' = AfterDiffCompleted(rows, reacting.turn, reacting.count, "git", reacting.status)
        BY <3>1 DEF RecordCheckpoint
      <4>3. /\ rows'[reacting.turn].count = reacting.count
            /\ \A u \in Turns \ {reacting.turn} : rows'[u].ref = "git" =>
                   rows[u].ref = "git" /\ rows'[u].count = rows[u].count
        BY <3>0, <4>1, <4>2, DiffRows
      <4>4. CASE t = reacting.turn
        <5>1. /\ HasEnded(t) /\ EditsOf(t) \subseteq refs[<<"turn", reacting.count>>]
              /\ <<"turn", reacting.count>> \in DOMAIN refs
          BY <3>1, <4>4 DEF RecordCheckpoint, CapturedInv, RestorableInv
        <5> QED BY <2>1, <4>3, <4>4, <5>1, <1>4, <1>6
      <4>5. CASE t # reacting.turn
        BY <2>2, <2>3, <4>3, <4>5
      <4> QED BY <4>4, <4>5
    <3>2. CASE RecordPlaceholder
      <4>1. /\ ingesting.turn \in Turns /\ ingesting.count \in Nat
            /\ "provider-diff" \in RefKinds /\ "missing" \in CheckpointStatuses
        BY <3>2, HalfHandled DEF RecordPlaceholder, RefKinds, CheckpointStatuses
      <4>2. rows' = AfterDiffCompleted(rows, ingesting.turn, ingesting.count,
                                       "provider-diff", "missing")
        BY <3>2 DEF RecordPlaceholder
      <4>3. /\ rows'[ingesting.turn].ref = "provider-diff"
            /\ \A u \in Turns \ {ingesting.turn} : rows'[u].ref = "git" =>
                   rows[u].ref = "git" /\ rows'[u].count = rows[u].count
        BY <3>0, <4>1, <4>2, DiffRows
      <4> QED BY <2>2, <2>3, <4>3
    <3>3. CASE GivesNothing(rows, rows')
      BY <2>2, <2>3, <3>3 DEF GivesNothing
    <3> QED BY <3>1, <3>2, <3>3, RowsStep
  <2>4. /\ reacting'.op \in {"capture", "dispatch"} =>
              reacting'.turn <= started' /\ running' # reacting'.turn
        /\ reacting'.op = "dispatch" =>
              {k \in DOMAIN author' : author'[k] = reacting'.turn}
                 \subseteq refs'[<<"turn", reacting'.count>>]
    <3>1. CASE reacting' = reacting
      <4>1. reacting.op \in {"capture", "dispatch"} =>
                reacting.turn \in Turns /\ HasEnded(reacting.turn)
        BY HalfHandled DEF CapturedInv
      <4>2. reacting.op = "dispatch" =>
                /\ <<"turn", reacting.count>> \in DOMAIN refs
                /\ EditsOf(reacting.turn) \subseteq refs[<<"turn", reacting.count>>]
        BY DEF CapturedInv, RestorableInv
      <4>3. \A t \in Turns : HasEnded(t) =>
                {k \in DOMAIN author' : author'[k] = t} = EditsOf(t)
        BY <2>1 DEF EditsOf
      <4> QED BY <3>1, <4>1, <4>2, <4>3, <2>1, <1>4, <1>6
    <3>2. CASE ReactToTurnCompleted
      <4> DEFINE e == Head(reactQueue)
      <4>1. /\ e.kind \in Completions /\ reactQueue # <<>>
            /\ started' = started /\ running' = running
        BY <3>2 DEF ReactToTurnCompleted, React, environment
      <4>2. HasEnded(e.turn)
        BY <4>1, FirstInput DEF CapturedInv
      <4>3. PICK status, count :
                \/ reacting' = NotReacting
                \/ reacting' = [NotReacting EXCEPT !.op = "capture", !.turn = e.turn,
                                                   !.status = status, !.count = count]
        BY <3>2 DEF ReactToTurnCompleted
      <4> HIDE DEF e
      <4>4. reacting'.op = "idle" \/ (reacting'.op = "capture" /\ reacting'.turn = e.turn)
        <5>1. CASE reacting' = NotReacting
          BY <5>1, Fixed
        <5>2. CASE reacting' = [NotReacting EXCEPT !.op = "capture", !.turn = e.turn,
                                                   !.status = status, !.count = count]
          BY <5>2 DEF NotReacting
        <5> QED BY <4>3, <5>1, <5>2
      <4> QED BY <4>1, <4>2, <4>4 DEF HasEnded
    <3>3. CASE CaptureFails \/ RecordCheckpoint
      BY <3>3, Fixed DEF CaptureFails, RecordCheckpoint
    <3>4. reacting' = reacting \/ ReactToTurnCompleted \/ CaptureFails \/ RecordCheckpoint
      BY <1>1, <1>6 DEF Next, RequestTurn, SendTurn, StartTurn, EditWorkspace, StreamText, EndTurn,
         RequestRevert, IngestTurnStarted, IngestText, IngestDiff, RecordPlaceholder,
         IngestTurnEnded, FinalizeMessages, ReactToUserMessage, ReactToTurnStartRequested,
         ReactToTurnStarted, reactor, vars
    <3> QED BY <3>1, <3>2, <3>3, <3>4
  <2> QED BY <1>2, <1>3, <2>3, <2>4 DEF CapturedInv, HasEnded, EditsOf
<1> QED BY <1>5, <1>6

-----------------------------------------------------------------------------
(* Before the first revert.                                                *)

LEMMA LifeInit == Init => LifeInv
<1> SUFFICES ASSUME Init PROVE LifeInv
  OBVIOUS
<1>1. /\ Len(ingestQueue) = 0 /\ Len(reactQueue) = 0 /\ 1..0 = {}
      /\ running = 0 /\ started = 0 /\ reacting.op = "idle" /\ ingesting.op = "idle"
  BY Fixed DEF Init
<1>2. InOrder(ingestQueue, running, started)
  BY <1>1, Fixed DEF InOrder
<1>3. NoRevertInv
  BY <1>1 DEF NoRevertInv, Init
<1>4. \A t \in Turns : rows[t].open = FALSE /\ rows[t].state = "none" /\ rows[t].ref = "none"
  BY DEF Init, NoRow
<1>5. \A t \in Turns : ~HasBegun(t)
  BY <1>1, Fixed DEF HasBegun, Begun
<1>6. OpenInv
  BY <1>1, <1>4, <1>5 DEF OpenInv, Init
<1>7. CapturedInv
  BY <1>1, <1>4 DEF CapturedInv, Init
<1> QED BY <1>2, <1>3, <1>6, <1>7 DEF LifeInv

LEMMA LifeStep == IInv /\ LifeInv /\ [Next]_vars => LifeInv'
<1> SUFFICES ASSUME IInv, LifeInv, [Next]_vars PROVE LifeInv'
  OBVIOUS
<1>1. TypeOK /\ RestorableInv /\ InOrder(ingestQueue, running, started)
  BY DEF IInv, LifeInv
<1>2. InOrder(ingestQueue', running', started')
  BY <1>1, InOrderStep
<1>3. ASSUME reverts' = 0 PROVE NoRevertInv' /\ OpenInv' /\ CapturedInv'
  <2>1. reverts = 0 /\ ~\E n \in 0..MaxTurns : RequestRevert(n)
    <3>1. reverts \in Nat
      BY <1>1 DEF TypeOK
    <3>2. CASE \E n \in 0..MaxTurns : RequestRevert(n)
      BY <1>3, <3>1, <3>2 DEF RequestRevert
    <3>3. CASE ~\E n \in 0..MaxTurns : RequestRevert(n)
      <4>1. reverts' = reverts
        BY <3>3 DEF Next, RequestTurn, SendTurn, StartTurn, EditWorkspace, StreamText, EndTurn,
           IngestTurnStarted, IngestText, IngestDiff, RecordPlaceholder, IngestTurnEnded,
           FinalizeMessages, ReactToUserMessage, ReactToTurnStartRequested, ReactToTurnStarted,
           ReactToTurnCompleted, CaptureCheckpoint, CaptureFails, RecordCheckpoint, Revert,
           RollBackProvider, RecordRevert, RevertFails, environment, vars
      <4> QED BY <1>3, <3>3, <4>1
    <3> QED BY <3>2, <3>3
  <2>2. NoRevertInv /\ OpenInv /\ CapturedInv
    BY <2>1 DEF LifeInv
  <2> QED BY <1>1, <2>1, <2>2, NoRevertStep, OpenStep, CapturedStep
<1> QED BY <1>2, <1>3 DEF LifeInv

LEMMA LifeInductive == Spec => []LifeInv
<1> QED BY LifeInit, LifeStep, Inductive, PTL DEF Spec

\* Until a revert is requested a thread never has two open turns: the turn that a
\* settling session closes, CloseNewestOpenTurn, is the only one there is.
THEOREM OneOpenTurn == Spec => [](reverts = 0 => AtMostOneOpenTurn)
<1>1. IInv /\ LifeInv => (reverts = 0 => AtMostOneOpenTurn)
  <2> SUFFICES ASSUME IInv, LifeInv, reverts = 0,
                      NEW t \in OpenTurns(rows), NEW u \in OpenTurns(rows), t < u
               PROVE  FALSE
    <3>1. OpenTurns(rows) \subseteq Nat
      BY Fixed DEF OpenTurns
    <3> QED BY <3>1 DEF AtMostOneOpenTurn
  <2>1. TypeOK /\ t \in Turns /\ u \in Turns /\ IsCurrent(t) /\ IsCurrent(u)
    BY DEF IInv, LifeInv, OpenInv, OpenTurns
  <2>2. /\ ingestQueue \in Seq(Ingested) /\ started \in Nat /\ t \in Nat /\ u \in Nat /\ t # 0
        /\ \A i \in 1..Len(ingestQueue) : ingestQueue[i].turn \in Nat
    BY <2>1, Queues, TurnNumbers, EventTurns
  <2>3. running = t
    BY <2>1, <2>2 DEF IsCurrent, Current, EndComes
  <2>4. PICK i \in 1..Len(ingestQueue) : ingestQueue[i].turn = u
    BY <2>1, <2>2, <2>3 DEF IsCurrent, Current, EndComes
  <2>5. started = t /\ u <= started
    BY <2>2, <2>3, <2>4, TurnNumbers DEF LifeInv, InOrder
  <2> QED BY <2>2, <2>5
<1> QED BY <1>1, Inductive, LifeInductive, PTL

\* Until a revert is requested, when the provider is idle and its events are
\* ingested every turn is closed, although the text, the diffs and the ends of
\* turns are written by two workers from threads they read earlier.
THEOREM IdleThreadsAreClosed == Spec => [](reverts = 0 => SettledTurnsAreClosed)
<1>1. LifeInv => (reverts = 0 => SettledTurnsAreClosed)
  <2> SUFFICES ASSUME LifeInv, reverts = 0, running = NoTurn, ingestQueue = <<>>,
                      NEW t \in OpenTurns(rows)
               PROVE  FALSE
    BY DEF SettledTurnsAreClosed
  <2>1. t \in Turns /\ IsCurrent(t)
    BY DEF LifeInv, OpenInv, OpenTurns
  <2>2. Len(ingestQueue) = 0 /\ 1..0 = {}
    OBVIOUS
  <2> QED BY <2>1, <2>2, TurnNumbers DEF IsCurrent, Current, EndComes
<1> QED BY <1>1, LifeInductive, PTL

\* Until a revert takes edits out of the worktree, the git ref of every recorded
\* checkpoint holds all the edits of its turn, however many turns' captures and
\* placeholders competed for its turn count.
THEOREM CheckpointsHoldTheirTurns == Spec => [](reverts = 0 => CheckpointHoldsItsTurn)
<1>1. LifeInv => (reverts = 0 => CheckpointHoldsItsTurn)
  BY DEF LifeInv, CapturedInv, CheckpointHoldsItsTurn, Checkpoints, RefOf
<1> QED BY <1>1, LifeInductive, PTL

-----------------------------------------------------------------------------
(* Without overlap.                                                        *)

\* An input taken from the queue sets what is pending.
LEMMA AnnouncedTaken ==
    ASSUME NEW q, Len(q) \in Nat, Len(q) # 0, NEW p, Len(p) = Len(q) - 1,
           \A i \in 1..Len(p) : p[i] = q[i + 1],
           NEW m, NEW s, NEW n, StartsAnnounced(q, m, s, n),
           NEW m2, q[1].kind = "turn-start-requested" => m2 = q[1].turn,
           q[1].kind \notin Matters => m2 = m
    PROVE  StartsAnnounced(p, m2, s, n)
<1>1. ASSUME NEW k \in 1..Len(q), NEW t, Announced(q, m, t, k + 1)
      PROVE  Announced(p, m2, t, k)
  <2>1. \A i \in 1..(k - 1) : p[i] = q[i + 1]
    OBVIOUS
  <2>2. CASE \E j \in 1..k : /\ q[j].kind = "turn-start-requested" /\ q[j].turn = t
                             /\ \A i \in (j + 1)..k : q[i].kind \notin Matters
    <3>1. PICK j \in 1..k : /\ q[j].kind = "turn-start-requested" /\ q[j].turn = t
                            /\ \A i \in (j + 1)..k : q[i].kind \notin Matters
      BY <2>2
    <3>2. CASE j = 1
      <4>1. m2 = t
        BY <3>1, <3>2
      <4>2. ASSUME NEW i \in 1..(k - 1) PROVE p[i].kind \notin Matters
        <5>1. i + 1 \in (j + 1)..k /\ p[i] = q[i + 1]
          BY <2>1, <3>2
        <5> QED BY <3>1, <5>1
      <4> QED BY <4>1, <4>2 DEF Announced
    <3>3. CASE j # 1
      <4> DEFINE h == j - 1
      <4>1. h \in 1..(k - 1) /\ p[h] = q[j]
        BY <2>1, <3>3
      <4>2. ASSUME NEW i \in (h + 1)..(k - 1) PROVE p[i].kind \notin Matters
        <5>1. i + 1 \in (j + 1)..k /\ p[i] = q[i + 1]
          BY <2>1
        <5> QED BY <3>1, <5>1
      <4> HIDE DEF h
      <4> QED BY <3>1, <4>1, <4>2 DEF Announced
    <3> QED BY <3>2, <3>3
  <2>3. CASE m = t /\ \A i \in 1..k : q[i].kind \notin Matters
    <3>1. m2 = t
      BY <2>3
    <3>2. ASSUME NEW i \in 1..(k - 1) PROVE p[i].kind \notin Matters
      <4>1. i + 1 \in 1..k /\ p[i] = q[i + 1]
        BY <2>1
      <4> QED BY <2>3, <4>1
    <3> QED BY <3>1, <3>2 DEF Announced
  <2>4. k + 1 - 1 = k
    OBVIOUS
  <2> QED BY <1>1, <2>2, <2>3, <2>4 DEF Announced
<1>2. ASSUME NEW k \in 1..Len(p), p[k].kind = "started"
      PROVE  p[k].turn <= s /\ Announced(p, m2, p[k].turn, k)
  <2>1. k \in 1..Len(q) /\ k + 1 \in 1..Len(q) /\ p[k] = q[k + 1]
    OBVIOUS
  <2>2. q[k + 1].turn <= s /\ Announced(q, m, q[k + 1].turn, k + 1)
    BY <1>2, <2>1 DEF StartsAnnounced
  <2> QED BY <1>1, <2>1, <2>2
<1>3. ASSUME s < n PROVE Announced(p, m2, n, Len(p) + 1)
  <2>1. Announced(q, m, n, Len(q) + 1) /\ Len(q) \in 1..Len(q)
    BY <1>3 DEF StartsAnnounced
  <2>2. Announced(p, m2, n, Len(q))
    BY <1>1, <2>1
  <2> QED BY <2>2
<1> QED BY <1>2, <1>3 DEF StartsAnnounced

\* An input e comes to the queue, when s turns have been started of n requested
\* and then s2 of n2.
Grows(q, p, e) ==
    /\ Len(q) \in Nat /\ Len(p) = Len(q) + 1 /\ p[Len(q) + 1] = e
    /\ \A i \in 1..Len(q) : p[i] = q[i] /\ q[i].turn \in Nat
Announces(e, s, n, s2, n2) ==
    /\ s \in Nat /\ n \in Nat /\ s2 \in Nat /\ n2 \in Nat /\ s <= s2
    /\ \/ e.kind \notin Matters /\ s2 = s /\ n2 = n
       \/ e.kind = "turn-start-requested" /\ e.turn = n2 /\ s2 = s
       \/ e.kind = "started" /\ e.turn = s2 /\ s2 = n /\ n2 = n /\ s < n

LEMMA AnnouncedGrows ==
    ASSUME NEW q, NEW p, NEW e, NEW m, NEW s, NEW n, NEW s2, NEW n2,
           StartsAnnounced(q, m, s, n), Grows(q, p, e), Announces(e, s, n, s2, n2)
    PROVE  StartsAnnounced(p, m, s2, n2)
<1> USE DEF Grows, Announces
<1> DEFINE L == Len(q)
<1>1. ASSUME NEW k \in 1..(L + 1), NEW t, Announced(q, m, t, k) PROVE Announced(p, m, t, k)
  <2>1. \A i \in 1..(k - 1) : p[i] = q[i]
    OBVIOUS
  <2>2. CASE m = t /\ \A i \in 1..(k - 1) : q[i].kind \notin Matters
    BY <2>1, <2>2 DEF Announced
  <2>3. CASE \E j \in 1..(k - 1) : /\ q[j].kind = "turn-start-requested" /\ q[j].turn = t
                                   /\ \A i \in (j + 1)..(k - 1) : q[i].kind \notin Matters
    <3>1. PICK j \in 1..(k - 1) : /\ q[j].kind = "turn-start-requested" /\ q[j].turn = t
                                  /\ \A i \in (j + 1)..(k - 1) : q[i].kind \notin Matters
      BY <2>3
    <3>2. ASSUME NEW i \in (j + 1)..(k - 1) PROVE p[i].kind \notin Matters
      <4>1. i \in 1..(k - 1)
        OBVIOUS
      <4> QED BY <2>1, <3>1, <4>1
    <3> QED BY <2>1, <3>1, <3>2 DEF Announced
  <2> QED BY <1>1, <2>2, <2>3 DEF Announced
<1>2. ASSUME NEW k \in 1..L, p[k].kind = "started"
      PROVE  p[k].turn <= s2 /\ Announced(p, m, p[k].turn, k)
  <2>1. p[k] = q[k] /\ k \in 1..(L + 1) /\ q[k].turn \in Nat
    OBVIOUS
  <2>2. q[k].turn <= s /\ Announced(q, m, q[k].turn, k)
    BY <1>2, <2>1 DEF StartsAnnounced
  <2>3. q[k].turn <= s2
    BY <2>1, <2>2
  <2> QED BY <1>1, <2>1, <2>2, <2>3
<1>3. ASSUME s < n PROVE Announced(p, m, n, L + 1)
  <2>1. Announced(q, m, n, L + 1) /\ L + 1 \in 1..(L + 1)
    BY <1>3 DEF StartsAnnounced
  <2> QED BY <1>1, <2>1
<1>4. ASSUME e.kind = "started" PROVE e.turn <= s2 /\ Announced(p, m, e.turn, L + 1)
  <2>1. e.turn = s2 /\ s2 = n /\ s < n
    BY <1>4 DEF Matters
  <2> QED BY <1>3, <2>1
<1>5. ASSUME s2 < n2 PROVE Announced(p, m, n2, L + 2)
  <2>1. L + 2 - 1 = L + 1 /\ L + 1 \in 1..(L + 1)
    OBVIOUS
  <2>2. CASE e.kind = "turn-start-requested"
    <3>1. e.turn = n2 /\ p[L + 1] = e
      BY <2>2 DEF Matters
    <3>2. \A i \in (L + 2)..(L + 1) : p[i].kind \notin Matters
      OBVIOUS
    <3>3. /\ p[L + 1].kind = "turn-start-requested" /\ p[L + 1].turn = n2
          /\ \A i \in (L + 1 + 1)..(L + 1) : p[i].kind \notin Matters
      BY <2>2, <3>1, <3>2
    <3> QED BY <2>1, <3>3 DEF Announced
  <2>3. CASE e.kind # "turn-start-requested"
    <3>1. e.kind \notin Matters /\ s2 = s /\ n2 = n /\ p[L + 1] = e
      BY <1>5, <2>3
    <3>2. Announced(p, m, n2, L + 1)
      BY <1>3, <1>5, <3>1
    <3>3. CASE m = n2 /\ \A i \in 1..L : p[i].kind \notin Matters
      <4>1. ASSUME NEW i \in 1..(L + 1) PROVE p[i].kind \notin Matters
        <5>1. i \in 1..L \/ i = L + 1
          OBVIOUS
        <5> QED BY <3>1, <3>3, <5>1
      <4> QED BY <2>1, <3>3, <4>1 DEF Announced
    <3>4. CASE \E j \in 1..L : /\ p[j].kind = "turn-start-requested" /\ p[j].turn = n2
                               /\ \A i \in (j + 1)..L : p[i].kind \notin Matters
      <4>1. PICK j \in 1..L : /\ p[j].kind = "turn-start-requested" /\ p[j].turn = n2
                              /\ \A i \in (j + 1)..L : p[i].kind \notin Matters
        BY <3>4
      <4>2. ASSUME NEW i \in (j + 1)..(L + 1) PROVE p[i].kind \notin Matters
        <5>1. i \in (j + 1)..L \/ i = L + 1
          BY SMTT(30)
        <5> QED BY <3>1, <4>1, <5>1
      <4>3. j \in 1..(L + 1)
        OBVIOUS
      <4> QED BY <2>1, <4>1, <4>2, <4>3 DEF Announced
    <3>5. L + 1 - 1 = L
      OBVIOUS
    <3> QED BY <3>2, <3>3, <3>4, <3>5 DEF Announced
  <2> QED BY <2>2, <2>3
<1>6. ASSUME NEW k \in 1..Len(p), p[k].kind = "started"
      PROVE  p[k].turn <= s2 /\ Announced(p, m, p[k].turn, k)
  <2>1. k \in 1..L \/ (k = L + 1 /\ p[k] = e)
    OBVIOUS
  <2> QED BY <1>2, <1>4, <1>6, <2>1
<1>7. Len(p) + 1 = L + 2
  OBVIOUS
<1> QED BY <1>5, <1>6, <1>7 DEF StartsAnnounced

\* The refs that are not legacy baselines or a turn's checkpoint, and where they come from.
LEMMA NewRefs ==
    ASSUME TypeOK, [Next]_vars, NEW r \in DOMAIN refs', r[1] # "turn"
    PROVE  \/ r \in DOMAIN refs /\ refs'[r] = refs[r]
           \/ SendTurn /\ r = <<"message-start", sent'>> /\ refs'[r] = tree
           \/ /\ ReactToTurnStartRequested /\ r = <<"message-start", Head(reactQueue).turn>>
              /\ r \notin DOMAIN refs /\ refs'[r] = tree
           \/ ReactToTurnStarted /\ r = <<"turn-start", Head(reactQueue).turn>>
<1> DEFINE Kept == r \in DOMAIN refs /\ refs'[r] = refs[r]
<1>0. ASSUME NEW f, refs' = EnsureLegacyBaseline(f) PROVE r \in DOMAIN f /\ refs'[r] = f[r]
  <2> DEFINE name == <<"turn", LatestCount(rows)>>
  <2>1. name[1] = "turn" /\ refs' = CaptureIfMissing(name, f)
    BY <1>0 DEF EnsureLegacyBaseline
  <2> HIDE DEF name
  <2>2. r # name
    BY <2>1
  <2> QED BY <2>1, <2>2 DEF CaptureIfMissing, Capture, UpdateRef
<1>1. CASE SendTurn
  <2> DEFINE name == <<"message-start", sent'>>
  <2>1. refs' = UpdateRef(name, tree, refs) \/ refs' = refs
    BY <1>1 DEF SendTurn, Capture
  <2> HIDE DEF name
  <2>2. (r # name => Kept) /\ (r = name => Kept \/ refs'[r] = tree)
    BY <2>1 DEF UpdateRef
  <2> QED BY <1>1, <2>2 DEF name
<1>2. CASE ReactToUserMessage
  <2>1. refs' = EnsureLegacyBaseline(refs)
    BY <1>2 DEF ReactToUserMessage
  <2> QED BY <1>0, <2>1
<1>3. CASE ReactToTurnStartRequested
  <2> DEFINE name == <<"message-start", Head(reactQueue).turn>>
             f == CaptureIfMissing(name, refs)
  <2>1. refs' = EnsureLegacyBaseline(f)
    BY <1>3 DEF ReactToTurnStartRequested
  <2> HIDE DEF f
  <2>2. r \in DOMAIN f /\ refs'[r] = f[r]
    BY <1>0, <2>1
  <2> HIDE DEF name
  <2>3. Kept \/ (r = name /\ r \notin DOMAIN refs /\ refs'[r] = tree)
    BY <2>2 DEF f, CaptureIfMissing, Capture, UpdateRef
  <2> QED BY <1>3, <2>3 DEF name
<1>4. CASE ReactToTurnStarted
  <2> DEFINE start == <<"turn-start", Head(reactQueue).turn>>
  <2>1. PICK f : /\ refs' = EnsureLegacyBaseline(f)
                 /\ \/ f = CaptureIfMissing(start, refs)
                    \/ \E u \in DOMAIN refs : f = UpdateRef(start, refs[u], refs)
    BY <1>4 DEF ReactToTurnStarted
  <2>2. r \in DOMAIN f /\ refs'[r] = f[r]
    BY <1>0, <2>1
  <2> HIDE DEF start
  <2>3. r # start => Kept
    <3>1. ASSUME NEW u \in DOMAIN refs, f = UpdateRef(start, refs[u], refs)
          PROVE  r # start => Kept
      BY <2>2, <3>1 DEF UpdateRef
    <3>2. ASSUME f = CaptureIfMissing(start, refs) PROVE r # start => Kept
      BY <2>2, <3>2 DEF CaptureIfMissing, Capture, UpdateRef
    <3> QED BY <2>1, <3>1, <3>2
  <2> QED BY <1>4, <2>3 DEF start
<1>5. CASE CaptureCheckpoint
  <2> DEFINE name == <<"turn", reacting.count>>
  <2>1. refs' = UpdateRef(name, tree, refs) /\ name[1] = "turn"
    BY <1>5 DEF CaptureCheckpoint, Capture
  <2> HIDE DEF name
  <2>2. r # name
    BY <2>1
  <2> QED BY <2>1, <2>2 DEF UpdateRef
<1>6. CASE RollBackProvider
  BY <1>6 DEF RollBackProvider
<1>7. ASSUME RequestTurn \/ StartTurn \/ EditWorkspace \/ StreamText
             \/ (\E ending \in Endings : EndTurn(ending))
             \/ (\E n \in 0..MaxTurns : RequestRevert(n))
             \/ IngestStep \/ ReactToTurnCompleted
             \/ CaptureFails \/ RecordCheckpoint \/ Revert \/ RecordRevert \/ RevertFails \/ UNCHANGED vars
      PROVE  Kept
  <2>1. refs' = refs
    BY <1>7 DEF RequestTurn, StartTurn, EditWorkspace, StreamText, EndTurn, RequestRevert,
           IngestStep, IngestTurnStarted, IngestText, IngestDiff, RecordPlaceholder,
           IngestTurnEnded, FinalizeMessages, ReactToTurnCompleted, CaptureFails,
           RecordCheckpoint, Revert, RecordRevert, RevertFails, vars, git
  <2> QED BY <2>1
<1> QED BY <1>1, <1>2, <1>3, <1>4, <1>5, <1>6, <1>7 DEF Next, IngestStep

\* Which steps change the numbers and the edits.
LEMMA NumbersKept ==
    ASSUME [Next]_vars, ~RequestTurn, ~SendTurn, ~StartTurn, ~EditWorkspace,
           ~\E ending \in Endings : EndTurn(ending)
    PROVE  /\ requested' = requested /\ sent' = sent /\ started' = started
           /\ running' = running /\ author' = author
BY DEF Next, StreamText, RequestRevert, IngestTurnStarted,
       IngestText, IngestDiff, RecordPlaceholder, IngestTurnEnded, FinalizeMessages,
       ReactToUserMessage, ReactToTurnStartRequested, ReactToTurnStarted,
       ReactToTurnCompleted, CaptureCheckpoint, CaptureFails, RecordCheckpoint, Revert,
       RollBackProvider, RecordRevert, RevertFails, environment, vars

\* The provider's edits.
LEMMA NewEdit ==
    ASSUME TypeOK, EditWorkspace
    PROVE  /\ requested' = requested /\ sent' = sent /\ started' = started
           /\ running' = running /\ running \in Turns /\ refs' = refs
           /\ DOMAIN author' = DOMAIN author \cup {Len(author) + 1}
           /\ Len(author) + 1 \notin DOMAIN author
           /\ \A i \in DOMAIN author : author'[i] = author[i]
           /\ author'[Len(author) + 1] = running
<1>1. running \in Turns /\ author \in Seq(Turns)
  BY Queues, Fixed DEF EditWorkspace, TypeOK
<1>2. author' = Append(author, running)
  BY DEF EditWorkspace
<1>3. /\ DOMAIN author = 1..Len(author) /\ DOMAIN author' = 1..(Len(author) + 1)
      /\ Len(author) \in Nat
      /\ \A i \in 1..Len(author) : author'[i] = author[i]
      /\ author'[Len(author) + 1] = running
  BY <1>1, <1>2
<1>4. 1..(Len(author) + 1) = (1..Len(author)) \cup {Len(author) + 1}
  BY <1>3
<1>5. Len(author) + 1 \notin 1..Len(author)
  BY <1>3
<1> QED BY <1>1, <1>3, <1>4, <1>5 DEF EditWorkspace, git

LEMMA OneAtATimeStep ==
    ASSUME ~Overlap, TypeOK, OneAtATime, [Next]_vars
    PROVE  OneAtATime'
<1>1. /\ requested \in Nat /\ sent \in Nat /\ started \in Nat /\ running \in Nat /\ NoTurn = 0
      /\ started <= sent /\ sent <= requested /\ requested <= started + 1 /\ running <= started
      /\ author \in Seq(Turns) /\ \A i \in DOMAIN author : author[i] <= started /\ author[i] \in Nat
  <2>1. author \in Seq(Turns)
    BY Queues
  <2>2. \A i \in DOMAIN author : author[i] \in Turns
    BY <2>1
  <2> QED BY <2>1, <2>2, Queues, TurnNumbers DEF OneAtATime
<1>2. CASE RequestTurn
  BY <1>1, <1>2 DEF RequestTurn, OneAtATime
<1>3. CASE SendTurn
  BY <1>1, <1>3 DEF SendTurn, OneAtATime
<1>4. CASE StartTurn
  BY <1>1, <1>4 DEF StartTurn, OneAtATime
<1>5. CASE EditWorkspace
  <2>1. \A i \in DOMAIN author' : author'[i] <= started
    BY <1>1, <1>5, NewEdit
  <2> QED BY <1>1, <1>5, <2>1, NewEdit DEF OneAtATime
<1>6. CASE \E ending \in Endings : EndTurn(ending)
  BY <1>1, <1>6 DEF EndTurn, OneAtATime
<1>7. CASE ~RequestTurn /\ ~SendTurn /\ ~StartTurn /\ ~EditWorkspace
           /\ ~\E ending \in Endings : EndTurn(ending)
  BY <1>1, <1>7, NumbersKept DEF OneAtATime
<1> QED BY <1>2, <1>3, <1>4, <1>5, <1>6, <1>7

LEMMA AnnouncedStep ==
    ASSUME ~Overlap, TypeOK, OneAtATime, [Next]_vars,
           StartsAnnounced(reactQueue, pendingMessage, started, requested)
    PROVE  StartsAnnounced(reactQueue', pendingMessage', started', requested')
<1> DEFINE q == reactQueue
           Goal == StartsAnnounced(reactQueue', pendingMessage', started', requested')
<1>1. /\ q \in Seq(Reacted) /\ Len(q) \in Nat /\ started \in Nat /\ requested \in Nat
      /\ \A k \in 1..Len(q) : q[k].turn \in Nat
      /\ StartsAnnounced(q, pendingMessage, started, requested)
  <2>1. q \in Seq(Reacted) /\ started \in Nat /\ requested \in Nat
    BY Queues
  <2>2. \A k \in 1..Len(q) : q[k] \in Reacted
    BY <2>1
  <2>3. \A e \in Reacted : e.turn \in Nat
    BY TurnNumbers, Fixed DEF Reacted
  <2> QED BY <2>1, <2>2, <2>3
<1>2. ASSUME NEW e \in Reacted, NEW p, p = Append(q, e)
      PROVE  p \in Seq(Reacted) /\ Grows(q, p, e)
  BY <1>1, <1>2, Appended DEF Grows
<1>3. ASSUME NEW e \in Reacted, reactQueue' = Append(q, e), e.kind \notin Matters,
             started' = started, requested' = requested, pendingMessage' = pendingMessage
      PROVE  Goal
  <2> DEFINE p == reactQueue'
  <2>1. Grows(q, p, e)
    BY <1>2, <1>3
  <2>2. Announces(e, started, requested, started, requested)
    BY <1>1, <1>3 DEF Announces
  <2>3. StartsAnnounced(p, pendingMessage, started, requested)
    <3> HIDE DEF p
    <3> QED BY <2>1, <2>2, AnnouncedGrows
  <2> QED BY <1>3, <2>3
<1>4. CASE RequestTurn
  <2> DEFINE e == Event("user-message", requested')
             f == Event("turn-start-requested", requested')
             p == Append(q, e)
  <2>1. /\ requested' = requested + 1 /\ requested' \in Turns /\ requested' \in Nat
        /\ started' = started /\ pendingMessage' = pendingMessage
        /\ reactQueue' = q \o <<e, f>>
    <3>1. requested' = requested + 1 /\ requested < MaxTurns
      BY <1>4 DEF RequestTurn
    <3>2. requested' \in Turns
      BY <1>1, <3>1, Fixed
    <3> QED BY <1>4, <3>1, <3>2, TurnNumbers DEF RequestTurn
  <2>2. /\ e \in Reacted /\ e.kind \notin Matters
        /\ f \in Reacted /\ f.kind = "turn-start-requested" /\ f.turn = requested'
    BY <2>1 DEF Event, Reacted, ReactedKinds, Matters
  <2> HIDE DEF e, f
  <2>3. p = Append(q, e)
    OBVIOUS
  <2> HIDE DEF p
  <2>4. p \in Seq(Reacted) /\ Grows(q, p, e)
    BY <1>2, <2>2, <2>3
  <2>5. StartsAnnounced(p, pendingMessage, started, requested)
    <3>1. Announces(e, started, requested, started, requested)
      BY <1>1, <2>2 DEF Announces
    <3> QED BY <2>4, <3>1, AnnouncedGrows
  <2>6. \A k \in 1..Len(p) : p[k].turn \in Nat
    <3>1. \A k \in 1..Len(p) : p[k] \in Reacted
      BY <2>4
    <3>2. \A x \in Reacted : x.turn \in Nat
      BY TurnNumbers, Fixed DEF Reacted
    <3> QED BY <3>1, <3>2
  <2>7. Grows(p, reactQueue', f)
    <3>1. /\ Len(reactQueue') = Len(q) + 2 /\ reactQueue'[Len(q) + 2] = f
          /\ reactQueue'[Len(q) + 1] = e /\ \A i \in 1..Len(q) : reactQueue'[i] = q[i]
      BY <1>1, <2>1, <2>2
    <3>2. \A i \in 1..(Len(q) + 1) : i \in 1..Len(q) \/ i = Len(q) + 1
      BY <1>1
    <3>3. /\ Len(p) = Len(q) + 1 /\ p[Len(q) + 1] = e
          /\ \A i \in 1..Len(q) : p[i] = q[i]
      BY <2>4 DEF Grows
    <3> QED BY <1>1, <2>6, <3>1, <3>2, <3>3 DEF Grows
  <2>8. StartsAnnounced(reactQueue', pendingMessage, started, requested')
    <3>1. Announces(f, started, requested, started, requested')
      BY <1>1, <2>1, <2>2 DEF Announces
    <3> QED BY <2>5, <2>7, <3>1, AnnouncedGrows
  <2> QED BY <2>1, <2>8
<1>5. CASE StartTurn
  <2> DEFINE e == Event("started", started')
  <2>1. /\ started' = started + 1 /\ requested = started + 1 /\ requested' = requested
        /\ reactQueue' = Append(q, e) /\ pendingMessage' = pendingMessage
    <3>1. started < sent
      BY <1>5 DEF StartTurn
    <3>2. sent <= requested /\ requested <= started + 1 /\ sent \in Nat
      BY Queues DEF OneAtATime
    <3>3. requested = started + 1
      BY <1>1, <3>1, <3>2
    <3> QED BY <1>5, <3>3 DEF StartTurn
  <2>2. e \in Reacted /\ e.kind = "started" /\ e.turn = started'
    <3>1. started' \in Turns
      BY <1>1, <2>1, Fixed DEF TypeOK
    <3> QED BY <3>1 DEF Event, Reacted, ReactedKinds
  <2> HIDE DEF e
  <2>3. Grows(q, reactQueue', e)
    BY <1>2, <2>1, <2>2
  <2>4. started' \in Nat /\ started <= started' /\ started' = requested /\ started < requested
    BY <1>1, <2>1
  <2>5. StartsAnnounced(reactQueue', pendingMessage, started', requested)
    <3>1. Announces(e, started, requested, started', requested)
      BY <1>1, <2>2, <2>4 DEF Announces
    <3> QED BY <2>3, <3>1, AnnouncedGrows
  <2> QED BY <2>1, <2>5
<1>6. CASE \E ending \in Endings : EndTurn(ending)
  <2>1. PICK ending \in Endings : EndTurn(ending)
    BY <1>6
  <2>2. /\ started' = started /\ requested' = requested /\ pendingMessage' = pendingMessage
        /\ \/ reactQueue' = q
           \/ ending \in Completions /\ reactQueue' = Append(q, Event(ending, running))
    BY <2>1 DEF EndTurn
  <2>3. ending \in Completions =>
            Event(ending, running) \in Reacted /\ Event(ending, running).kind \notin Matters
    <3>1. running \in Turns
      BY <2>1, Fixed DEF EndTurn, TypeOK
    <3> QED BY <3>1 DEF Event, Reacted, ReactedKinds, Completions, Matters
  <2> QED BY <1>3, <2>2, <2>3
<1>7. CASE \E n \in 0..MaxTurns : RequestRevert(n)
  <2>1. PICK n \in 0..MaxTurns : RequestRevert(n)
    BY <1>7
  <2>2. /\ started' = started /\ requested' = requested /\ pendingMessage' = pendingMessage
        /\ reactQueue' = Append(q, Event("revert", n))
    BY <2>1 DEF RequestRevert
  <2>3. Event("revert", n) \in Reacted /\ Event("revert", n).kind \notin Matters
    BY DEF Event, Reacted, Matters
  <2> QED BY <1>3, <2>2, <2>3
<1>8. ASSUME q # <<>>, reactQueue' = Tail(q), started' = started, requested' = requested,
             q[1].kind = "turn-start-requested" => pendingMessage' = q[1].turn,
             q[1].kind \notin Matters => pendingMessage' = pendingMessage
      PROVE  Goal
  <2>1. /\ Len(q) # 0 /\ Len(reactQueue') = Len(q) - 1
        /\ \A i \in 1..Len(reactQueue') : reactQueue'[i] = q[i + 1]
    BY <1>1, <1>8, Popped
  <2> QED BY <1>1, <1>8, <2>1, AnnouncedTaken
<1>9. ASSUME ReactToUserMessage \/ ReactToTurnStartRequested \/ ReactToTurnStarted
             \/ ReactToTurnCompleted \/ Revert
      PROVE  Goal
  <2>1. q # <<>> /\ reactQueue' = Tail(q) /\ started' = started /\ requested' = requested
    BY <1>9 DEF React, ReactToUserMessage, ReactToTurnStartRequested, ReactToTurnStarted,
           ReactToTurnCompleted, Revert, environment
  <2>2. Head(q) = q[1]
    BY <2>1, FirstInput
  <2>3. /\ Head(q).kind = "turn-start-requested" => pendingMessage' = Head(q).turn
        /\ Head(q).kind \notin Matters => pendingMessage' = pendingMessage
    BY <1>9 DEF React, ReactToUserMessage, ReactToTurnStartRequested, ReactToTurnStarted,
           ReactToTurnCompleted, Revert, Completions, Matters
  <2> QED BY <1>8, <2>1, <2>2, <2>3
<1>10. ASSUME SendTurn \/ EditWorkspace \/ StreamText \/ IngestStep \/ CaptureCheckpoint
              \/ CaptureFails \/ RecordCheckpoint \/ RollBackProvider \/ RecordRevert \/ RevertFails
              \/ UNCHANGED vars
       PROVE  Goal
  <2>1. /\ reactQueue' = q /\ pendingMessage' = pendingMessage
        /\ started' = started /\ requested' = requested
    BY <1>10 DEF SendTurn, EditWorkspace, StreamText, IngestStep, IngestTurnStarted, IngestText,
           IngestDiff, RecordPlaceholder, IngestTurnEnded, FinalizeMessages, CaptureCheckpoint,
           CaptureFails, RecordCheckpoint, RollBackProvider, RecordRevert, RevertFails, vars, reactor,
           environment
  <2> QED BY <2>1
<1> QED BY <1>4, <1>5, <1>6, <1>7, <1>9, <1>10 DEF Next, IngestStep

\* A turn that has not started has no edits.
LEMMA NoEditsYet ==
    ASSUME TypeOK, OneAtATime, NEW t \in Turns, started < t
    PROVE  tree \cap EditsOf(t) = {}
<1>1. tree \subseteq DOMAIN author /\ started \in Nat /\ t \in Nat
  BY Queues, TurnNumbers DEF TypeOK
<1>2. \A i \in DOMAIN author : author[i] <= started
  BY DEF OneAtATime
<1>3. ASSUME NEW i \in tree \cap EditsOf(t) PROVE FALSE
  <2>1. i \in DOMAIN author /\ author[i] = t
    BY <1>1 DEF EditsOf
  <2>2. t <= started
    BY <1>2, <2>1
  <2> QED BY <1>1, <2>2
<1> QED BY <1>3

\* A message's baseline stays, and every message that was prepared has one.
LEMMA PreparedBaselines ==
    ASSUME TypeOK, BaselineRefs, [Next]_vars, NEW t \in Turns, t \in prepared'
    PROVE  t <= sent' /\ <<"message-start", t>> \in DOMAIN refs'
<1> DEFINE r == <<"message-start", t>>
<1>1. sent \in Nat /\ t \in Nat /\ r \in {"message-start"} \X Turns
  BY Queues, TurnNumbers
<1>2. ASSUME r \in DOMAIN refs PROVE r \in DOMAIN refs'
  <2>1. CASE RollBackProvider
    <3>1. reacting.stale \subseteq ({"turn"} \cup RefKinds) \X Nat
      BY DEF TypeOK, ReactingStates
    <3>2. r[1] = "message-start"
      OBVIOUS
    <3>3. \A x \in ({"turn"} \cup RefKinds) \X Nat : x[1] # "message-start"
      BY DEF RefKinds
    <3>4. r \notin reacting.stale
      BY <3>1, <3>2, <3>3
    <3> HIDE DEF r
    <3>5. PICK deleted \in SUBSET reacting.stale : DOMAIN refs' = DOMAIN refs \ deleted
      BY <2>1 DEF RollBackProvider
    <3> QED BY <1>2, <3>4, <3>5
  <2>2. CASE ~RollBackProvider
    BY <1>2, <2>2, RefsStep
  <2> QED BY <2>1, <2>2
<1>3. CASE t \in prepared
  <2>1. t <= sent /\ r \in DOMAIN refs
    BY <1>3 DEF BaselineRefs
  <2>2. t <= sent'
    <3>1. sent' = sent \/ sent' = sent + 1
      <4>1. CASE SendTurn
        BY <4>1 DEF SendTurn
      <4>2. CASE RequestTurn \/ StartTurn \/ EditWorkspace \/ \E ending \in Endings : EndTurn(ending)
        BY <4>2 DEF RequestTurn, StartTurn, EditWorkspace, EndTurn
      <4>3. CASE ~RequestTurn /\ ~SendTurn /\ ~StartTurn /\ ~EditWorkspace
                 /\ ~\E ending \in Endings : EndTurn(ending)
        BY <4>3, NumbersKept
      <4> QED BY <4>1, <4>2, <4>3
    <3> QED BY <1>1, <2>1, <3>1
  <2> QED BY <1>2, <2>1, <2>2
<1>4. CASE t \notin prepared
  <2>1. SendTurn /\ t = sent' /\ prepared' # prepared
    BY <1>4, HistoryStep
  <2>2. refs' = UpdateRef(r, tree, refs)
    BY <2>1 DEF SendTurn, Capture
  <2> HIDE DEF r
  <2>3. r \in DOMAIN refs'
    BY <2>2 DEF UpdateRef
  <2>4. sent' \in Nat
    BY <1>1, <2>1 DEF SendTurn
  <2> QED BY <2>1, <2>3, <2>4 DEF r
<1> QED BY <1>3, <1>4

LEMMA BaselineRefsStep ==
    ASSUME ~Overlap, TypeOK, OneAtATime, BaselineRefs, [Next]_vars,
           StartsAnnounced(reactQueue, pendingMessage, started, requested)
    PROVE  BaselineRefs'
<1>1. ASSUME NEW kind \in {"message-start", "turn-start"}, NEW t \in Turns,
             t \in prepared' \/ sent' < t, <<kind, t>> \in DOMAIN refs'
      PROVE  refs'[<<kind, t>>] \cap EditsOf(t)' = {}
  <2> DEFINE r == <<kind, t>>
  <2>1. /\ sent \in Nat /\ started \in Nat /\ t \in Nat /\ r[1] # "turn" /\ r[1] = kind /\ r[2] = t
        /\ started <= sent
    BY Queues, TurnNumbers DEF OneAtATime
  <2>4. t \in prepared \/ sent < t
    <3>1. CASE SendTurn
      <4>1. sent' = sent + 1 /\ prepared' \in {prepared, prepared \cup {sent'}}
        BY <3>1 DEF SendTurn
      <4> QED BY <1>1, <2>1, <4>1
    <3>2. CASE ~SendTurn
      <4>1. sent' = sent /\ prepared' = prepared
        <5>1. CASE RequestTurn \/ StartTurn \/ EditWorkspace \/ \E ending \in Endings : EndTurn(ending)
          BY <5>1 DEF RequestTurn, StartTurn, EditWorkspace, EndTurn, history
        <5>2. CASE ~RequestTurn /\ ~SendTurn /\ ~StartTurn /\ ~EditWorkspace
                   /\ ~\E ending \in Endings : EndTurn(ending)
          BY <3>2, <5>2, NumbersKept, HistoryStep
        <5> QED BY <3>2, <5>1, <5>2
      <4> QED BY <1>1, <4>1
    <3> QED BY <3>1, <3>2
  <2>2. CASE EditWorkspace
    <3>1. refs' = refs /\ refs[r] \subseteq DOMAIN author /\ refs[r] \cap EditsOf(t) = {}
      BY <1>1, <2>2, <2>4, NewEdit DEF TypeOK, BaselineRefs
    <3> HIDE DEF r
    <3>2. EditsOf(t)' \subseteq EditsOf(t) \cup {Len(author) + 1}
      BY <2>2, NewEdit DEF EditsOf
    <3>3. refs'[r] \cap EditsOf(t)' = {}
      BY <2>2, <3>1, <3>2, NewEdit
    <3> QED BY <3>3 DEF r
  <2>3. CASE ~EditWorkspace
    <3>1. EditsOf(t)' = EditsOf(t)
      <4>1. author' = author
        BY <2>3, NumbersKept DEF RequestTurn, SendTurn, StartTurn, EndTurn
      <4> QED BY <4>1 DEF EditsOf
    <3>2. r \in DOMAIN refs'
      BY <1>1
    <3>3. CASE r \in DOMAIN refs /\ refs'[r] = refs[r]
      <4>1. refs[r] \cap EditsOf(t) = {}
        BY <2>4, <3>3 DEF BaselineRefs
      <4> QED BY <3>1, <3>3, <4>1
    <3>4. CASE SendTurn /\ r = <<"message-start", sent'>> /\ refs'[r] = tree
      <4>1. sent < requested /\ requested <= started + 1 /\ requested \in Nat /\ t = sent + 1
        BY <3>4, Queues DEF SendTurn, OneAtATime
      <4>2. started < t
        BY <2>1, <4>1
      <4>3. tree \cap EditsOf(t) = {}
        BY <4>2, NoEditsYet
      <4> QED BY <3>1, <3>4, <4>3
    <3>5. CASE /\ ReactToTurnStartRequested /\ r = <<"message-start", Head(reactQueue).turn>>
               /\ r \notin DOMAIN refs /\ refs'[r] = tree
      <4>1. ~(t <= sent)
        <5>1. kind = "message-start"
          BY <3>5
        <5>2. t \notin prepared
          BY <3>5, <5>1 DEF BaselineRefs
        <5> QED BY <2>1, <2>4, <5>2
      <4>2. started < t
        BY <2>1, <4>1
      <4>3. tree \cap EditsOf(t) = {}
        BY <4>2, NoEditsYet
      <4> QED BY <3>1, <3>5, <4>3
    <3>6. CASE ReactToTurnStarted /\ r = <<"turn-start", Head(reactQueue).turn>>
      <4> DEFINE q == reactQueue
                 source == <<"message-start", t>>
                 start == <<"turn-start", t>>
      <4>1. reactQueue # <<>> /\ Head(q).kind = "started" /\ Head(q).turn = t
        BY <3>6 DEF ReactToTurnStarted, React
      <4>2. q[1] = Head(q) /\ 1 \in 1..Len(q)
        BY <4>1, FirstInput
      <4>3. t <= started /\ Announced(q, pendingMessage, t, 1)
        BY <4>1, <4>2 DEF StartsAnnounced
      <4>4. pendingMessage = t
        BY <4>3 DEF Announced
      <4>5. source \in DOMAIN refs /\ refs[source] \cap EditsOf(t) = {}
        <5>1. t <= sent /\ t \in prepared
          BY <2>1, <2>4, <4>3
        <5> QED BY <5>1 DEF BaselineRefs
      <4>6. refs' = EnsureLegacyBaseline(UpdateRef(start, refs[source], refs))
        BY <3>6, <4>1, <4>4, <4>5, TurnNumbers DEF ReactToTurnStarted
      <4>7. r = start
        BY <3>6, <4>1
      <4>8. refs'[start] = refs[source]
        <5> DEFINE f == UpdateRef(start, refs[source], refs)
        <5>1. refs' = EnsureLegacyBaseline(f)
          BY <4>6
        <5> HIDE DEF start, source
        <5>2. start \in DOMAIN f /\ f[start] = refs[source]
          BY DEF UpdateRef
        <5> HIDE DEF f
        <5> QED BY <5>1, <5>2, LegacyBaseline
      <4> QED BY <3>1, <4>5, <4>7, <4>8
    <3> HIDE DEF r
    <3> QED BY <2>1, <3>2, <3>3, <3>4, <3>5, <3>6, NewRefs DEF r
  <2> QED BY <2>2, <2>3
<1> QED BY <1>1, PreparedBaselines DEF BaselineRefs

LEMMA BaselineInit == Init => BaselineInv
<1> SUFFICES ASSUME Init PROVE BaselineInv
  OBVIOUS
<1>1. /\ requested = 0 /\ sent = 0 /\ started = 0 /\ running = 0
      /\ DOMAIN author = {} /\ DOMAIN refs = {} /\ Len(reactQueue) = 0 /\ 1..0 = {}
  BY Fixed DEF Init
<1>2. OneAtATime
  BY <1>1 DEF OneAtATime
<1>3. BaselineRefs
  <2>1. prepared = {}
    BY DEF Init
  <2> QED BY <1>1, <2>1 DEF BaselineRefs
<1>4. StartsAnnounced(reactQueue, pendingMessage, started, requested)
  BY <1>1 DEF StartsAnnounced
<1> QED BY <1>2, <1>3, <1>4 DEF BaselineInv

\* When no message is sent while another awaits its turn, the tree that a turn
\* prepared before it was sent is compared with has none of its edits, whenever
\* the reactor gets to the request and to the start of the turn.
THEOREM BaselinesPrecedeTurns ==
    ASSUME ~Overlap
    PROVE  Spec => []BaselinePrecedesTurn
<1>1. IInv /\ BaselineInv /\ [Next]_vars => BaselineInv'
  <2> SUFFICES ASSUME IInv, BaselineInv, [Next]_vars PROVE BaselineInv'
    OBVIOUS
  <2>1. /\ TypeOK /\ OneAtATime /\ BaselineRefs
        /\ StartsAnnounced(reactQueue, pendingMessage, started, requested)
    BY DEF IInv, BaselineInv
  <2>2. OneAtATime' /\ BaselineRefs'
    BY <2>1, OneAtATimeStep, BaselineRefsStep
  <2>3. StartsAnnounced(reactQueue', pendingMessage', started', requested')
    BY <2>1, AnnouncedStep
  <2> QED BY <2>2, <2>3 DEF BaselineInv
<1>2. IInv /\ BaselineInv => BaselinePrecedesTurn
  BY DEF IInv, TypeOK, BaselineInv, BaselineRefs, BaselinePrecedesTurn
<1> QED BY <1>1, <1>2, BaselineInit, Inductive, PTL DEF Spec
=============================================================================
