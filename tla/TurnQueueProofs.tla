--------------------------- MODULE TurnQueueProofs ---------------------------
(***************************************************************************)
(* Proofs about TurnQueue, for any number of messages, either provider and *)
(* any number of disturbances.                                             *)
(***************************************************************************)
EXTENDS TurnQueue, FiniteSetTheorems, SequenceTheorems, TLAPS

MsgOrNone == 0..N
Statuses == {"none", "starting", "running", "ready", "interrupted", "error", "stopped"}
Pcs == {"idle", "announce", "ensure", "bind", "send", "fail", "drain", "stopped"}
ItemType == [msg : Messages, mode : Modes]
IntentType == [type : {"start", "queued", "interrupt", "stop"}, msg : MsgOrNone,
               mode : Modes, turn : MsgOrNone]
SignalType == [type : {"starting", "session", "ready", "started", "ended", "exited"},
               turn : MsgOrNone]

\* The message an event is about, if it is about one.
Fits(e) == IF e.type \in {"start", "queued"} THEN e.msg \in Messages ELSE e.msg = 0
InboxTypes == inbox \in Seq(IntentType) /\ \A i \in 1..Len(inbox) : Fits(inbox[i])

\* The worker holds a message or a promotion exactly where its step is about one.
WorkerTypes ==
    /\ worker \in [pc : Pcs, msg : MsgOrNone, mode : Modes]
    /\ worker.pc \in {"idle", "drain", "stopped"} <=> worker.msg = 0
    /\ worker.pc = "drain" <=> promoting["worker"] # NoItem
    /\ promoting \in [Drainers -> ItemType \cup {NoItem}]

QueueTypes ==
    /\ queue \in Seq(ItemType) /\ draining \in BOOLEAN
    /\ promoted \in Seq(ItemType)

RuntimeTypes ==
    /\ session \in [status : Statuses, turn : MsgOrNone]
    /\ alive \in BOOLEAN /\ turns \subseteq Messages /\ orphans \subseteq Messages
    /\ toIngest \in Seq(SignalType)
    /\ ingesting \in [status : Statuses, turn : MsgOrNone] \cup {Undecided}

HistoryTypes ==
    /\ accepted \in MsgOrNone /\ sent \in Seq(Messages)
    /\ failed \subseteq Messages /\ dropped \subseteq Messages
    /\ unreported \subseteq Messages /\ discarded \subseteq Messages /\ lost \subseteq Messages
    /\ escaped \in BOOLEAN

Types ==
    /\ provider \in Providers
    /\ InboxTypes /\ WorkerTypes /\ QueueTypes /\ RuntimeTypes /\ HistoryTypes

\* In how many places message m is.
Held(m) == Cardinality({d \in Drainers : promoting[d] # NoItem /\ promoting[d].msg = m})
Sent(m) == Cardinality({i \in DOMAIN sent : sent[i] = m})
Ended(m) == One(m \in failed) + One(m \in dropped) + One(m \in unreported)
              + One(m \in discarded) + One(m \in lost)
Places(m) == Times(m, inbox) + Times(m, queue) + Held(m) + One(worker.msg = m) + Sent(m)
               + Ended(m)

\* An accepted message is in one place and any other is nowhere.
PlacesInv == \A m \in Messages : Places(m) = One(m <= accepted)

\* The messages that wait their turn, from the engine to their promotion: the
\* elements of the sequence s that are in P.
Msgs(s, P) == {s[i].msg : i \in {k \in 1..Len(s) : s[k] \in P}}
Ascends(s, P) ==
    \A i, k \in 1..Len(s) : i < k /\ s[i] \in P /\ s[k] \in P => s[i].msg < s[k].msg
Below(S, T) == \A x \in S, y \in T : x < y

WaitingItems == {x \in ItemType : x.mode = "queue"}
WaitingIntents == {e \in IntentType : e.type = "queued" /\ e.mode = "queue"}
Coming == Msgs(inbox, WaitingIntents)
Queued == Msgs(queue, WaitingItems)
Carried == {promoting[d].msg : d \in {e \in Drainers : promoting[e] \in WaitingItems}}
Done == Msgs(promoted, WaitingItems)

\* draining says that a promotion is under way, and there is one at a time.
OnePromotion ==
    /\ \A d \in Drainers : promoting[d] # NoItem => draining
    /\ \A d, e \in Drainers : promoting[d] # NoItem /\ promoting[e] # NoItem => d = e

\* They are in order, in each place and from place to place.
OrderInv ==
    /\ Ascends(inbox, WaitingIntents) /\ Ascends(queue, WaitingItems)
    /\ Below(Queued, Coming) /\ Below(Carried, Queued) /\ Below(Carried, Coming)
    /\ \A x \in Done : x <= accepted
    /\ ~escaped =>
          /\ OnePromotion
          /\ Ascends(promoted, WaitingItems)
          /\ Below(Done, Carried) /\ Below(Done, Queued) /\ Below(Done, Coming)

\* Turn t is running, or an event after the k-th will close it.
Closes(s, t) == s.type \in {"exited", "ready"} \/ (s.type = "ended" /\ s.turn \in {t, 0})
Ending(t, k) ==
    \/ t \in turns \cup orphans
    \/ \E i \in 1..Len(toIngest) : k < i /\ Closes(toIngest[i], t)

\* Wherever a turn is on its way to the session, its end is to come.
EndInv ==
    /\ ~alive => turns = {}
    /\ \A t \in Messages :
          /\ \A k \in 1..Len(toIngest) :
                toIngest[k].type = "started" /\ toIngest[k].turn = t => Ending(t, k)
          /\ ingesting.turn = t => Ending(t, 0)
          /\ session.turn = t /\ ingesting = Undecided => Ending(t, 0)

IInv == Types /\ PlacesInv /\ OrderInv /\ EndInv

-----------------------------------------------------------------------------
\* The constants, and the fixed values.
LEMMA Constants ==
    /\ N \in Nat /\ 0 \in MsgOrNone /\ Messages \subseteq MsgOrNone
    /\ MsgOrNone \subseteq Nat /\ Messages \subseteq Nat /\ 0 \notin Messages
    /\ \A m \in MsgOrNone : m = 0 \/ m \in Messages
BY TurnQueueAssumption DEF MsgOrNone, Messages

LEMMA FixedValues ==
    /\ NoItem.msg = 0 /\ NoItem.mode = "queue" /\ NoItem \notin ItemType
    /\ Idle \in [pc : Pcs, msg : MsgOrNone, mode : Modes] /\ Idle.pc = "idle" /\ Idle.msg = 0
    /\ Undecided.turn = 0 /\ Undecided.status \notin Statuses
    /\ "fiber" \in Drainers /\ "worker" \in Drainers
BY Constants DEF NoItem, Item, ItemType, Idle, Undecided, Statuses, Drainers, Pcs, Modes

-----------------------------------------------------------------------------
(* Sequences.                                                              *)

\* What Append, Tail and a new head do to the elements.
LEMMA Appended ==
    ASSUME NEW T, NEW s \in Seq(T), NEW x \in T
    PROVE  /\ Append(s, x) \in Seq(T) /\ Len(s) \in Nat /\ Len(Append(s, x)) = Len(s) + 1
           /\ \A i \in 1..Len(s) : Append(s, x)[i] = s[i]
           /\ Append(s, x)[Len(s) + 1] = x
BY AppendProperties, LenProperties

LEMMA Joined ==
    ASSUME NEW T, NEW s \in Seq(T), NEW r \in Seq(T)
    PROVE  /\ s \o r \in Seq(T) /\ Len(s) \in Nat /\ Len(r) \in Nat
           /\ Len(s \o r) = Len(s) + Len(r)
           /\ \A i \in 1..Len(s) : (s \o r)[i] = s[i]
           /\ \A i \in 1..Len(r) : (s \o r)[Len(s) + i] = r[i]
<1>1. /\ Len(s \o r) = Len(s) + Len(r) /\ s \o r \in Seq(T)
      /\ \A i \in 1..(Len(s) + Len(r)) : (s \o r)[i] = IF i <= Len(s) THEN s[i] ELSE r[i - Len(s)]
  BY ConcatProperties
<1>2. Len(s) \in Nat /\ Len(r) \in Nat
  BY LenProperties
<1>3. ASSUME NEW i \in 1..Len(r) PROVE (s \o r)[Len(s) + i] = r[i]
  <2>1. Len(s) + i \in 1..(Len(s) + Len(r)) /\ ~(Len(s) + i <= Len(s)) /\ Len(s) + i - Len(s) = i
    BY <1>2
  <2> QED BY <2>1, <1>1
<1>4. ASSUME NEW i \in 1..Len(s) PROVE (s \o r)[i] = s[i]
  BY <1>1, <1>2
<1> QED BY <1>1, <1>2, <1>3, <1>4

LEMMA Popped ==
    ASSUME NEW T, NEW s \in Seq(T), s # <<>>
    PROVE  /\ Tail(s) \in Seq(T) /\ Head(s) = s[1] /\ Head(s) \in T
           /\ Len(s) \in Nat /\ Len(s) # 0 /\ Len(Tail(s)) = Len(s) - 1
           /\ \A i \in 1..Len(Tail(s)) : Tail(s)[i] = s[i + 1] /\ i + 1 \in 1..Len(s)
<1>1. Len(s) \in Nat /\ Len(s) # 0
  BY LenProperties, EmptySeq
<1>2. /\ Tail(s) \in Seq(T) /\ Head(s) \in T /\ Len(Tail(s)) = Len(s) - 1
      /\ \A i \in 1..Len(Tail(s)) : Tail(s)[i] = s[i + 1]
  BY HeadTailProperties
<1>3. Head(s) = s[1]
  OBVIOUS
<1> QED BY <1>1, <1>2, <1>3

LEMMA Fronted ==
    ASSUME NEW T, NEW s \in Seq(T), NEW x \in T
    PROVE  /\ <<x>> \o s \in Seq(T) /\ Len(s) \in Nat /\ Len(<<x>> \o s) = Len(s) + 1
           /\ (<<x>> \o s)[1] = x
           /\ \A i \in 1..Len(s) : (<<x>> \o s)[i + 1] = s[i]
<1>1. <<x>> \in Seq(T) /\ Len(<<x>>) = 1 /\ <<x>>[1] = x
  OBVIOUS
<1>2. /\ <<x>> \o s \in Seq(T) /\ Len(<<x>> \o s) = 1 + Len(s) /\ Len(s) \in Nat
      /\ \A i \in 1..1 : (<<x>> \o s)[i] = <<x>>[i]
      /\ \A i \in 1..Len(s) : (<<x>> \o s)[1 + i] = s[i]
  <2> QED BY <1>1, Joined
<1> QED BY <1>1, <1>2

\* Appending two is appending one after the other.
LEMMA AppendedTwo ==
    ASSUME NEW T, NEW s \in Seq(T), NEW x \in T, NEW y \in T
    PROVE  s \o <<x, y>> = Append(Append(s, x), y)
OBVIOUS

-----------------------------------------------------------------------------
(* Counting the places of a message.                                       *)

Spots(m, seq) == {i \in DOMAIN seq : seq[i].msg = m}

LEMMA SpotsFinite ==
    ASSUME NEW T, NEW s \in Seq(T), NEW m
    PROVE  /\ IsFiniteSet(Spots(m, s)) /\ Times(m, s) = Cardinality(Spots(m, s))
           /\ Times(m, s) \in Nat
           /\ Times(m, s) = 0 <=> \A i \in 1..Len(s) : s[i].msg # m
<1>1. Len(s) \in Nat /\ DOMAIN s = 1..Len(s)
  BY LenProperties
<1>2. IsFiniteSet(1..Len(s))
  BY <1>1, FS_Interval
<1>3. IsFiniteSet(Spots(m, s))
  BY <1>1, <1>2, FS_Subset DEF Spots
<1>4. Times(m, s) = Cardinality(Spots(m, s))
  BY DEF Times, Spots
<1>5. Cardinality(Spots(m, s)) \in Nat /\ (Cardinality(Spots(m, s)) = 0 <=> Spots(m, s) = {})
  BY <1>3, FS_CardinalityType, FS_EmptySet
<1> QED BY <1>1, <1>3, <1>4, <1>5 DEF Spots

LEMMA TimesEmpty == \A m : Times(m, <<>>) = 0
BY FS_EmptySet DEF Times

LEMMA TimesAppended ==
    ASSUME NEW T, NEW s \in Seq(T), NEW x \in T, NEW m
    PROVE  Times(m, Append(s, x)) = Times(m, s) + One(x.msg = m)
<1> DEFINE n == Len(s) + 1  r == Append(s, x)
<1>1. r \in Seq(T) /\ Len(s) \in Nat /\ Len(r) = n /\ r[n] = x
      /\ DOMAIN s = 1..Len(s) /\ DOMAIN r = 1..n /\ \A i \in 1..Len(s) : r[i] = s[i]
  BY Appended, LenProperties
<1>2. n \notin Spots(m, s)
  BY <1>1 DEF Spots
<1>3. Spots(m, r) = IF x.msg = m THEN Spots(m, s) \cup {n} ELSE Spots(m, s)
  <2>1. ASSUME NEW i PROVE i \in 1..n <=> i \in 1..Len(s) \/ i = n
    BY <1>1
  <2> HIDE DEF n, r
  <2> QED BY <1>1, <2>1 DEF Spots
<1>4. IsFiniteSet(Spots(m, s)) /\ Times(m, s) = Cardinality(Spots(m, s)) /\ Times(m, s) \in Nat
      /\ Times(m, r) = Cardinality(Spots(m, r))
  BY SpotsFinite, <1>1
<1>5. Cardinality(Spots(m, s) \cup {n}) = Cardinality(Spots(m, s)) + 1
  BY <1>2, <1>4, FS_AddElement
<1> HIDE DEF n, r
<1>6. Times(m, r) = Times(m, s) + One(x.msg = m)
  BY <1>3, <1>4, <1>5 DEF One
<1> QED BY <1>6 DEF r

LEMMA TimesFronted ==
    ASSUME NEW T, NEW s \in Seq(T), NEW x \in T, NEW m
    PROVE  Times(m, <<x>> \o s) = Times(m, s) + One(x.msg = m)
<1> DEFINE r == <<x>> \o s
           shift == [i \in Spots(m, s) |-> i + 1]
           moved == {i + 1 : i \in Spots(m, s)}
<1>1. r \in Seq(T) /\ Len(s) \in Nat /\ Len(r) = Len(s) + 1 /\ r[1] = x
      /\ DOMAIN s = 1..Len(s) /\ DOMAIN r = 1..(Len(s) + 1)
      /\ \A i \in 1..Len(s) : r[i + 1] = s[i]
  BY Fronted, LenProperties
<1>2. Spots(m, s) \subseteq 1..Len(s) /\ 1 \notin moved
  BY <1>1 DEF Spots
<1>3. Spots(m, r) = IF x.msg = m THEN moved \cup {1} ELSE moved
  <2>1. ASSUME NEW i PROVE i \in Spots(m, r) => (i = 1 /\ x.msg = m) \/ i \in moved
    <3>1. SUFFICES ASSUME i \in Spots(m, r), i # 1 PROVE i \in moved
      BY <1>1 DEF Spots
    <3>2. i - 1 \in 1..Len(s) /\ i = (i - 1) + 1
      BY <1>1, <3>1 DEF Spots
    <3>3. s[i - 1].msg = m
      <4>1. r[(i - 1) + 1] = s[i - 1]
        BY <3>2, <1>1
      <4> QED BY <4>1, <3>1, <3>2 DEF Spots
    <3>4. i - 1 \in Spots(m, s)
      BY <3>2, <3>3, <1>1 DEF Spots
    <3> QED BY <3>2, <3>4
  <2>2. ASSUME NEW i \in Spots(m, s) PROVE i + 1 \in Spots(m, r)
    <3>1. i \in 1..Len(s) /\ s[i].msg = m /\ i + 1 \in 1..(Len(s) + 1)
      BY <1>1 DEF Spots
    <3> QED BY <3>1, <1>1 DEF Spots
  <2>3. x.msg = m => 1 \in Spots(m, r)
    BY <1>1 DEF Spots
  <2>4. \A i \in moved : i \in Spots(m, r)
    BY <2>2
  <2> HIDE DEF moved, r
  <2>5. ASSUME x.msg = m PROVE Spots(m, r) = moved \cup {1}
    BY <2>1, <2>3, <2>4, <2>5
  <2>6. ASSUME x.msg # m PROVE Spots(m, r) = moved
    BY <2>1, <2>4, <2>6
  <2> QED BY <2>5, <2>6
<1>4. IsFiniteSet(Spots(m, s)) /\ Times(m, s) = Cardinality(Spots(m, s)) /\ Times(m, s) \in Nat
      /\ Times(m, r) = Cardinality(Spots(m, r))
  BY SpotsFinite, <1>1
<1>5. IsFiniteSet(moved) /\ Cardinality(moved) = Cardinality(Spots(m, s))
  <2>1. shift \in Bijection(Spots(m, s), moved)
    <3>1. shift \in [Spots(m, s) -> moved]
      OBVIOUS
    <3>2. \A i, k \in Spots(m, s) : shift[i] = shift[k] => i = k
      BY <1>2
    <3>3. \A j \in moved : \E i \in Spots(m, s) : shift[i] = j
      OBVIOUS
    <3> HIDE DEF shift, moved
    <3> QED BY <3>1, <3>2, <3>3 DEF Bijection, Injection, Surjection, IsInjective
  <2>2. ExistsBijection(Spots(m, s), moved)
    BY <2>1 DEF ExistsBijection
  <2> QED BY <2>2, <1>4, FS_Bijection
<1> HIDE DEF moved, r, shift
<1>6. Cardinality(moved \cup {1}) = Cardinality(moved) + 1
  BY <1>2, <1>5, FS_AddElement
<1>7. Times(m, r) = Times(m, s) + One(x.msg = m)
  BY <1>3, <1>4, <1>5, <1>6 DEF One
<1> QED BY <1>7 DEF r

LEMMA TimesPopped ==
    ASSUME NEW T, NEW s \in Seq(T), s # <<>>, NEW m
    PROVE  Times(m, s) = Times(m, Tail(s)) + One(Head(s).msg = m)
<1>1. Tail(s) \in Seq(T) /\ Head(s) \in T
  BY Popped
<1>2. s = <<Head(s)>> \o Tail(s)
  <2>1. /\ <<Head(s)>> \o Tail(s) \in Seq(T) /\ Len(<<Head(s)>> \o Tail(s)) = Len(s)
        /\ \A i \in 1..Len(s) : (<<Head(s)>> \o Tail(s))[i] = s[i]
    <3>1. /\ <<Head(s)>> \o Tail(s) \in Seq(T) /\ Len(Tail(s)) \in Nat
          /\ Len(<<Head(s)>> \o Tail(s)) = Len(Tail(s)) + 1
          /\ (<<Head(s)>> \o Tail(s))[1] = Head(s)
          /\ \A i \in 1..Len(Tail(s)) : (<<Head(s)>> \o Tail(s))[i + 1] = Tail(s)[i]
      BY <1>1, Fronted
    <3>2. Head(s) = s[1] /\ Len(s) \in Nat /\ Len(s) # 0 /\ Len(Tail(s)) = Len(s) - 1
          /\ \A i \in 1..Len(Tail(s)) : Tail(s)[i] = s[i + 1]
      BY Popped
    <3>3. ASSUME NEW i \in 1..Len(s) PROVE (<<Head(s)>> \o Tail(s))[i] = s[i]
      <4>1. CASE i = 1
        BY <4>1, <3>1, <3>2
      <4>2. CASE i # 1
        <5>1. i - 1 \in 1..Len(Tail(s)) /\ (i - 1) + 1 = i
          BY <4>2, <3>2
        <5>2. (<<Head(s)>> \o Tail(s))[(i - 1) + 1] = Tail(s)[i - 1]
              /\ Tail(s)[i - 1] = s[(i - 1) + 1]
          BY <5>1, <3>1, <3>2
        <5> QED BY <5>1, <5>2
      <4> QED BY <4>1, <4>2
    <3> QED BY <3>1, <3>2, <3>3
  <2> DEFINE w == <<Head(s)>> \o Tail(s)
  <2>2. w \in Seq(T) /\ Len(w) = Len(s) /\ \A i \in 1..Len(s) : w[i] = s[i]
    BY <2>1
  <2> HIDE DEF w
  <2>3. s = w
    BY <2>2, SeqEqual
  <2> QED BY <2>3 DEF w
<1> DEFINE h == Head(s)  r == Tail(s)
<1>3. h \in T /\ r \in Seq(T) /\ s = <<h>> \o r
  BY <1>1, <1>2
<1> HIDE DEF h, r
<1>4. Times(m, <<h>> \o r) = Times(m, r) + One(h.msg = m)
  BY <1>3, TimesFronted
<1>5. Times(m, s) = Times(m, r) + One(h.msg = m)
  BY <1>3, <1>4
<1> QED BY <1>5 DEF h, r

-----------------------------------------------------------------------------
(* The provider's events.                                                  *)

\* SetToSeq lists a finite set, completely.
LEMMA Listed ==
    ASSUME NEW S, IsFiniteSet(S)
    PROVE  /\ SetToSeq(S) \in Seq(S)
           /\ \A x \in S : \E i \in 1..Len(SetToSeq(S)) : SetToSeq(S)[i] = x
<1> DEFINE n == Cardinality(S)
           Lists(f) == f \in [1..n -> S] /\ IsInjective(f)
           seq == SetToSeq(S)
<1>1. n \in Nat /\ ExistsBijection(1..n, S)
  BY FS_CardinalityType
<1>2. PICK f : f \in Bijection(1..n, S)
  BY <1>1 DEF ExistsBijection
<1>3. \E g \in [1..n -> S] : IsInjective(g)
  BY <1>2 DEF Bijection, Injection
<1>4. seq = CHOOSE g \in [1..n -> S] : IsInjective(g)
  BY DEF SetToSeq
<1>5. seq \in [1..n -> S] /\ IsInjective(seq)
  <2> HIDE DEF seq, n
  <2> QED BY <1>3, <1>4
<1>6. seq \in Injection(1..n, S) /\ IsFiniteSet(1..n) /\ Cardinality(1..n) = n
  <2>1. IsFiniteSet(1..n) /\ Cardinality(1..n) = n
    BY <1>1, FS_Interval
  <2> HIDE DEF seq
  <2> QED BY <2>1, <1>5 DEF Injection
<1>7. seq \in Surjection(1..n, S)
  <2> HIDE DEF seq
  <2>1. Cardinality(1..n) = Cardinality(S)
    BY <1>6
  <2> QED BY <1>6, <2>1, FS_Injection
<1>8. Len(seq) = n /\ seq \in Seq(S)
  <2> HIDE DEF seq
  <2>1. seq \in Seq(S)
    BY <1>1, <1>5, IsASeq
  <2>2. DOMAIN seq = 1..n /\ DOMAIN seq = 1..Len(seq) /\ Len(seq) \in Nat
    BY <1>5, <2>1, LenProperties
  <2> QED BY <2>1, <2>2, <1>1
<1> HIDE DEF n
<1>9. \A x \in S : \E i \in 1..n : seq[i] = x
  <2> HIDE DEF seq
  <2> QED BY <1>7 DEF Surjection
<1> QED BY <1>8, <1>9

LEMMA SignalTyped ==
    ASSUME NEW ty \in {"starting", "session", "ready", "started", "ended", "exited"},
           NEW t \in MsgOrNone
    PROVE  Signal(ty, t) \in SignalType /\ Signal(ty, t).type = ty /\ Signal(ty, t).turn = t
BY DEF Signal, SignalType

\* Ends says of each of the turns, and of no other, that it has ended.
LEMMA EndsListed ==
    ASSUME NEW ts, ts \subseteq MsgOrNone
    PROVE  /\ Ends(ts) \in Seq(SignalType)
           /\ \A i \in 1..Len(Ends(ts)) : Ends(ts)[i].type = "ended"
           /\ \A t \in ts : \E i \in 1..Len(Ends(ts)) : Closes(Ends(ts)[i], t)
<1> DEFINE S == {Signal("ended", t) : t \in ts}
<1>1. IsFiniteSet(ts)
  <2>1. IsFiniteSet(0..N)
    BY FS_Interval, TurnQueueAssumption
  <2> QED BY <2>1, FS_Subset DEF MsgOrNone
<1>2. IsFiniteSet(S)
  <2>1. S = {Signal("ended", t) : t \in ts}
    OBVIOUS
  <2> DEFINE f == [t \in ts |-> Signal("ended", t)]
  <2>2. f \in Surjection(ts, S)
    BY DEF Surjection
  <2> HIDE DEF f, S
  <2> QED BY <2>2, <1>1, FS_Surjection
<1>3. \A x \in S : x \in SignalType /\ x.type = "ended"
  BY SignalTyped
<1>4. Ends(ts) = SetToSeq(S)
  BY DEF Ends
<1>5. \A t \in ts : Signal("ended", t) \in S /\ Closes(Signal("ended", t), t)
  BY SignalTyped DEF Closes
<1> HIDE DEF S
<1>6. /\ Ends(ts) \in Seq(S)
      /\ \A x \in S : \E i \in 1..Len(Ends(ts)) : Ends(ts)[i] = x
  BY <1>2, <1>4, Listed
<1>7. Ends(ts) \in Seq(SignalType)
  BY <1>6, <1>3, SeqMonotonic
<1>8. \A i \in 1..Len(Ends(ts)) : Ends(ts)[i] \in S
  BY <1>6, ElementOfSeq
<1> QED BY <1>3, <1>5, <1>6, <1>7, <1>8

\* No event of this sequence reports a turn as started, and what it closes.
Says(seq) ==
    /\ seq \in Seq(SignalType)
    /\ \A i \in 1..Len(seq) : seq[i].type # "started"
ClosesIn(seq, t) == \E i \in 1..Len(seq) : Closes(seq[i], t)

LEMMA SaysJoined ==
    ASSUME NEW r, NEW s, Says(r), Says(s)
    PROVE  /\ Says(r \o s)
           /\ \A t : ClosesIn(r, t) \/ ClosesIn(s, t) => ClosesIn(r \o s, t)
<1>1. r \in Seq(SignalType) /\ s \in Seq(SignalType)
  BY DEF Says
<1> DEFINE w == r \o s
<1>2. /\ w \in Seq(SignalType) /\ Len(r) \in Nat /\ Len(s) \in Nat /\ Len(w) = Len(r) + Len(s)
      /\ \A i \in 1..Len(r) : w[i] = r[i]
      /\ \A i \in 1..Len(s) : w[Len(r) + i] = s[i]
  BY <1>1, Joined
<1> HIDE DEF w
<1>3. \A i \in 1..Len(w) : i \in 1..Len(r) \/ (i - Len(r) \in 1..Len(s) /\ i = Len(r) + (i - Len(r)))
  BY <1>2
<1>4. \A i \in 1..Len(w) : w[i].type # "started"
  BY <1>2, <1>3 DEF Says
<1>5. Says(w)
  BY <1>2, <1>4 DEF Says
<1>6. ASSUME NEW t, ClosesIn(r, t) PROVE ClosesIn(w, t)
  <2>1. PICK i \in 1..Len(r) : Closes(r[i], t)
    BY <1>6 DEF ClosesIn
  <2>2. i \in 1..Len(w) /\ w[i] = r[i]
    BY <1>2
  <2> QED BY <2>1, <2>2 DEF ClosesIn
<1>7. ASSUME NEW t, ClosesIn(s, t) PROVE ClosesIn(w, t)
  <2>1. PICK i \in 1..Len(s) : Closes(s[i], t)
    BY <1>7 DEF ClosesIn
  <2>2. Len(r) + i \in 1..Len(w) /\ w[Len(r) + i] = s[i]
    BY <1>2
  <2> QED BY <2>1, <2>2 DEF ClosesIn
<1> QED BY <1>5, <1>6, <1>7 DEF w

LEMMA SaysNothing == Says(<<>>)
BY EmptySeq DEF Says

LEMMA EndsSays ==
    ASSUME NEW ts, ts \subseteq MsgOrNone
    PROVE  Says(Ends(ts)) /\ \A t \in ts : ClosesIn(Ends(ts), t)
BY EndsListed DEF Says, ClosesIn

\* A runtime that comes up says ready, one that goes down exited: both close
\* whatever turn the session shows.
LEMMA OpeningCloses == Says(Opening) /\ \A t : ClosesIn(Opening, t)
<1> DEFINE a == Signal(IF provider = "codex" THEN "starting" ELSE "session", 0)
           b == Signal("ready", 0)
<1>1. a \in SignalType /\ a.type # "started" /\ b \in SignalType /\ b.type = "ready"
  BY Constants, SignalTyped
<1>2. Opening = <<a, b>>
  BY DEF Opening
<1> HIDE DEF a, b
<1>3. <<a, b>> \in Seq(SignalType) /\ Len(<<a, b>>) = 2 /\ <<a, b>>[1] = a /\ <<a, b>>[2] = b
  BY <1>1
<1>4. Says(<<a, b>>)
  BY <1>1, <1>3 DEF Says
<1>5. \A t : ClosesIn(<<a, b>>, t)
  BY <1>1, <1>3 DEF ClosesIn, Closes
<1> QED BY <1>2, <1>4, <1>5

LEMMA ClosingCloses ==
    ASSUME turns \subseteq Messages
    PROVE  Says(Closing) /\ \A t : ClosesIn(Closing, t)
<1> DEFINE a == Signal("exited", 0)
           r == IF provider = "codex" THEN <<>> ELSE Ends(turns)
<1>1. a \in SignalType /\ a.type = "exited"
  BY Constants, SignalTyped
<1>2. Closing = r \o <<a>>
  BY DEF Closing
<1>3. Says(r)
  BY EndsSays, SaysNothing, Constants
<1> HIDE DEF a, r
<1>4. <<a>> \in Seq(SignalType) /\ Len(<<a>>) = 1 /\ <<a>>[1] = a
  BY <1>1
<1>5. Says(<<a>>)
  BY <1>1, <1>4 DEF Says
<1>6. \A t : ClosesIn(<<a>>, t)
  BY <1>1, <1>4 DEF ClosesIn, Closes
<1>7. Says(r \o <<a>>) /\ \A t : ClosesIn(r \o <<a>>, t)
  BY <1>3, <1>5, <1>6, SaysJoined
<1> QED BY <1>2, <1>7

\* What is emitted keeps the ends of all turns to come.
LEMMA EmitKeepsEnds ==
    ASSUME Types, EndInv, NEW seq \in Seq(SignalType), Emit(seq),
           session' = session, ingesting' = ingesting, ~alive' => turns' = {},
           \A t \in turns \cup orphans : t \in turns' \cup orphans' \/ ClosesIn(seq, t),
           \A k \in 1..Len(seq) :
              seq[k].type = "started" => seq[k].turn \in turns' \cup orphans'
    PROVE  EndInv' /\ toIngest' \in Seq(SignalType)
<1> DEFINE n == Len(toIngest)
<1>1. /\ toIngest' \in Seq(SignalType) /\ n \in Nat /\ Len(seq) \in Nat
      /\ Len(toIngest') = n + Len(seq)
      /\ \A i \in 1..n : toIngest'[i] = toIngest[i]
      /\ \A i \in 1..Len(seq) : toIngest'[n + i] = seq[i]
  BY Joined DEF Types, RuntimeTypes, Emit
<1>2. ASSUME NEW t, NEW k \in 0..n, Ending(t, k) PROVE Ending(t, k)'
  <2>1. ASSUME NEW i \in 1..n, k < i, Closes(toIngest[i], t) PROVE Ending(t, k)'
    <3>1. i \in 1..Len(toIngest') /\ toIngest'[i] = toIngest[i]
      BY <1>1
    <3> QED BY <3>1, <2>1 DEF Ending
  <2>2. ASSUME ClosesIn(seq, t) PROVE Ending(t, k)'
    <3>1. PICK i \in 1..Len(seq) : Closes(seq[i], t)
      BY <2>2 DEF ClosesIn
    <3>2. n + i \in 1..Len(toIngest') /\ k < n + i /\ toIngest'[n + i] = seq[i]
      BY <1>1
    <3> HIDE DEF n
    <3> QED BY <3>1, <3>2 DEF Ending
  <2>3. t \in turns' \cup orphans' => Ending(t, k)'
    BY DEF Ending
  <2> QED BY <1>2, <2>1, <2>2, <2>3 DEF Ending
<1>3. ASSUME NEW t \in Messages, NEW k \in 1..Len(toIngest'),
             toIngest'[k].type = "started" /\ toIngest'[k].turn = t
      PROVE  Ending(t, k)'
  <2>1. CASE k \in 1..n
    <3>1. toIngest'[k] = toIngest[k] /\ k \in 0..n
      BY <1>1, <2>1
    <3>2. Ending(t, k)
      BY <3>1, <2>1, <1>3 DEF EndInv
    <3> QED BY <3>1, <3>2, <1>2
  <2>2. CASE k \notin 1..n
    <3>1. k - n \in 1..Len(seq) /\ k = n + (k - n)
      BY <2>2, <1>1
    <3>2. toIngest'[k] = seq[k - n]
      BY <3>1, <1>1
    <3>3. t \in turns' \cup orphans'
      BY <3>1, <3>2, <1>3
    <3> QED BY <3>3 DEF Ending
  <2> QED BY <2>1, <2>2
<1>4. 0 \in 0..n
  BY <1>1
<1>5. ASSUME NEW t \in Messages, Ending(t, 0) PROVE Ending(t, 0)'
  BY <1>2, <1>4, <1>5
<1> QED BY <1>1, <1>3, <1>5 DEF EndInv

-----------------------------------------------------------------------------
(* The end of every turn that is shown, or about to be, is to come.        *)

LEMMA TypesFacts ==
    ASSUME Types
    PROVE  /\ turns \subseteq Messages /\ orphans \subseteq Messages /\ alive \in BOOLEAN
           /\ session.turn \in MsgOrNone /\ session.status \in Statuses
           /\ toIngest \in Seq(SignalType) /\ accepted \in Nat
BY Constants DEF Types, RuntimeTypes, HistoryTypes

LEMMA StartRuntimeEnds ==
    ASSUME Types, EndInv, StartRuntime, session' = session, ingesting' = ingesting
    PROVE  /\ EndInv' /\ toIngest' \in Seq(SignalType)
           /\ alive' = TRUE /\ turns' = {} /\ orphans' \subseteq Messages
<1>1. turns \subseteq Messages /\ orphans \subseteq Messages /\ (~alive => turns = {})
  BY TypesFacts DEF EndInv
<1>2. Says(Opening) /\ \A t : ClosesIn(Opening, t)
  BY OpeningCloses
<1>3. CASE provider = "codex"
  <2> DEFINE down == IF alive THEN Closing ELSE <<>>
  <2>1. Says(down)
    BY <1>1, ClosingCloses, SaysNothing
  <2>2. Emit(down \o Opening) /\ orphans' = orphans /\ turns' = {} /\ alive' = TRUE
    BY <1>3 DEF StartRuntime
  <2> HIDE DEF down
  <2>3. Says(down \o Opening) /\ \A t : ClosesIn(down \o Opening, t)
    BY <2>1, <1>2, SaysJoined
  <2> DEFINE seq == down \o Opening
  <2>4. Says(seq) /\ Emit(seq) /\ \A t : ClosesIn(seq, t)
    BY <2>2, <2>3
  <2> HIDE DEF seq
  <2>5. seq \in Seq(SignalType) /\ \A k \in 1..Len(seq) : seq[k].type # "started"
    BY <2>4 DEF Says
  <2>6. EndInv' /\ toIngest' \in Seq(SignalType)
    BY <2>2, <2>4, <2>5, EmitKeepsEnds
  <2> QED BY <2>2, <2>6, <1>1
<1>4. CASE provider # "codex"
  <2>1. Emit(Opening) /\ orphans' = orphans \cup turns /\ turns' = {} /\ alive' = TRUE
    BY <1>4 DEF StartRuntime
  <2>2. Opening \in Seq(SignalType) /\ \A k \in 1..Len(Opening) : Opening[k].type # "started"
    BY <1>2 DEF Says
  <2>3. EndInv' /\ toIngest' \in Seq(SignalType)
    BY <1>2, <2>1, <2>2, EmitKeepsEnds
  <2> QED BY <2>1, <2>3, <1>1
<1> QED BY <1>3, <1>4

LEMMA OpenedLast ==
    ASSUME NEW r, Says(r), NEW m \in Messages
    PROVE  LET seq == r \o <<Signal("started", m)>>
           IN /\ seq \in Seq(SignalType)
              /\ \A t : ClosesIn(r, t) => ClosesIn(seq, t)
              /\ \A k \in 1..Len(seq) : seq[k].type = "started" => seq[k].turn = m
<1> DEFINE a == Signal("started", m)  s == <<a>>  w == r \o s
<1>1. a \in SignalType /\ a.turn = m
  BY Constants, SignalTyped
<1>2. r \in Seq(SignalType)
  BY DEF Says
<1> HIDE DEF a
<1>3. s \in Seq(SignalType) /\ Len(s) = 1 /\ s[1] = a
  BY <1>1
<1> HIDE DEF s
<1>4. /\ w \in Seq(SignalType) /\ Len(r) \in Nat /\ Len(w) = Len(r) + 1
      /\ \A i \in 1..Len(r) : w[i] = r[i]
      /\ \A i \in 1..Len(s) : w[Len(r) + i] = s[i]
  BY <1>2, <1>3, Joined
<1> HIDE DEF w
<1>5. w[Len(r) + 1] = a
  BY <1>3, <1>4
<1>6. ASSUME NEW t, ClosesIn(r, t) PROVE ClosesIn(w, t)
  <2>1. PICK i \in 1..Len(r) : Closes(r[i], t)
    BY <1>6 DEF ClosesIn
  <2>2. i \in 1..Len(w) /\ w[i] = r[i]
    BY <1>4
  <2> QED BY <2>1, <2>2 DEF ClosesIn
<1>7. ASSUME NEW k \in 1..Len(w), w[k].type = "started" PROVE w[k].turn = m
  <2>1. k = Len(r) + 1
    <3>1. k \in 1..Len(r) => w[k] = r[k] /\ r[k].type # "started"
      BY <1>4 DEF Says
    <3> QED BY <3>1, <1>7, <1>4
  <2> QED BY <2>1, <1>5, <1>1
<1> QED BY <1>4, <1>6, <1>7 DEF w, s, a

LEMMA TakeMessageEnds ==
    ASSUME Types, EndInv, NEW m \in Messages, NEW mode, TakeMessage(m, mode),
           session' = session, ingesting' = ingesting
    PROVE  /\ EndInv' /\ toIngest' \in Seq(SignalType)
           /\ alive' = TRUE /\ turns' \subseteq Messages /\ orphans' = orphans
<1> DEFINE resumed == IF alive THEN <<>> ELSE Opening
           opened == <<Signal("started", m)>>
<1>1. turns \subseteq Messages /\ orphans \subseteq Messages
  BY TypesFacts
<1>2. Says(resumed)
  BY OpeningCloses, SaysNothing
<1>3. alive' = TRUE /\ orphans' = orphans
  BY DEF TakeMessage
<1>4. CASE provider = "codex" /\ mode = "steer" /\ turns # {}
  <2>1. UNCHANGED <<turns, toIngest, toDrain>>
    BY <1>4 DEF TakeMessage
  <2>2. EndInv'
    BY <2>1, <1>3 DEF EndInv, Ending, Types, RuntimeTypes
  <2> QED BY <2>1, <2>2, <1>1, <1>3 DEF Types, RuntimeTypes
<1>5. CASE provider = "codex" /\ ~(mode = "steer" /\ turns # {})
  <2>1. turns' = turns \cup {m} /\ Emit(resumed \o opened)
    BY <1>5 DEF TakeMessage
  <2> HIDE DEF resumed
  <2> DEFINE seq == resumed \o opened
  <2>2. /\ seq \in Seq(SignalType)
        /\ \A k \in 1..Len(seq) : seq[k].type = "started" => seq[k].turn = m
    BY <1>2, OpenedLast
  <2>3. Emit(seq)
    BY <2>1
  <2> HIDE DEF seq
  <2>4. EndInv' /\ toIngest' \in Seq(SignalType)
    BY <2>1, <2>2, <2>3, <1>3, EmitKeepsEnds
  <2> QED BY <2>1, <2>4, <1>1, <1>3
<1>6. CASE provider # "codex"
  <2>1. turns' = {m} /\ Emit(resumed \o Ends(turns) \o opened)
    BY <1>6 DEF TakeMessage
  <2>2. Says(Ends(turns)) /\ \A t \in turns : ClosesIn(Ends(turns), t)
    BY <1>1, EndsSays, Constants
  <2> HIDE DEF resumed
  <2> DEFINE r == resumed \o Ends(turns)  seq == r \o opened
  <2>3. Says(r) /\ \A t \in turns : ClosesIn(r, t)
    BY <2>2, <1>2, SaysJoined
  <2>4. Emit(seq)
    BY <2>1
  <2> HIDE DEF r
  <2>5. /\ seq \in Seq(SignalType)
        /\ \A t : ClosesIn(r, t) => ClosesIn(seq, t)
        /\ \A k \in 1..Len(seq) : seq[k].type = "started" => seq[k].turn = m
    BY <2>3, OpenedLast
  <2> HIDE DEF seq
  <2>6. EndInv' /\ toIngest' \in Seq(SignalType)
    BY <2>1, <2>3, <2>4, <2>5, <1>3, EmitKeepsEnds
  <2> QED BY <2>1, <2>6, <1>1, <1>3
<1> QED BY <1>4, <1>5, <1>6

\* An interrupt ends the turns it hits, and brings up a runtime that has gone.
LEMMA InterruptEnds ==
    ASSUME Types, EndInv, NEW hit, hit \subseteq turns, turns' = turns \ hit,
           alive' = TRUE, orphans' = orphans,
           Emit((IF alive THEN <<>> ELSE Opening) \o Ends(hit)),
           session' = session, ingesting' = ingesting
    PROVE  EndInv' /\ toIngest' \in Seq(SignalType)
<1> DEFINE resumed == IF alive THEN <<>> ELSE Opening
           seq == resumed \o Ends(hit)
<1>1. Says(resumed)
  BY OpeningCloses, SaysNothing
<1>2. Says(Ends(hit)) /\ \A t \in hit : ClosesIn(Ends(hit), t)
  BY TypesFacts, EndsSays, Constants
<1> HIDE DEF resumed
<1>3. Says(seq) /\ \A t \in hit : ClosesIn(seq, t)
  BY <1>1, <1>2, SaysJoined
<1>4. Emit(seq)
  BY DEF resumed
<1> HIDE DEF seq
<1>5. seq \in Seq(SignalType) /\ \A k \in 1..Len(seq) : seq[k].type # "started"
  BY <1>3 DEF Says
<1> QED BY <1>3, <1>4, <1>5, EmitKeepsEnds

LEMMA StopEnds ==
    ASSUME Types, EndInv, turns' = {}, orphans' = orphans, NEW r, Says(r), Emit(r \o Closing),
           session' = session, ingesting' = ingesting
    PROVE  EndInv' /\ toIngest' \in Seq(SignalType)
<1> DEFINE seq == r \o Closing
<1>1. Says(seq) /\ \A t : ClosesIn(seq, t)
  BY TypesFacts, ClosingCloses, SaysJoined
<1> HIDE DEF seq
<1>2. seq \in Seq(SignalType) /\ \A k \in 1..Len(seq) : seq[k].type # "started"
  BY <1>1 DEF Says
<1>3. Emit(seq)
  BY DEF seq
<1> QED BY <1>1, <1>2, <1>3, EmitKeepsEnds

\* The ingestion drops no event that ends the turn the session shows.
LEMMA TakeSignalEnds ==
    ASSUME Types, EndInv, TakeSignal
    PROVE  /\ EndInv' /\ toIngest' \in Seq(SignalType)
           /\ ingesting' \in [status : Statuses, turn : MsgOrNone] \cup {Undecided}
<1> DEFINE s == Head(toIngest)  n == Len(toIngest)
<1>1. /\ toIngest' \in Seq(SignalType) /\ s = toIngest[1] /\ s \in SignalType
      /\ n \in Nat /\ n # 0 /\ Len(toIngest') = n - 1
      /\ \A i \in 1..Len(toIngest') : toIngest'[i] = toIngest[i + 1]
  BY Popped DEF Types, RuntimeTypes, TakeSignal
<1>2. /\ ingesting = Undecided /\ ingesting' = Lifecycle(s) /\ session' = session
      /\ turns' = turns /\ orphans' = orphans /\ alive' = alive
  BY DEF TakeSignal
<1>3. ASSUME NEW t, NEW k \in 1..n, Ending(t, k) PROVE Ending(t, k - 1)'
  <2>1. CASE t \in turns \cup orphans
    BY <2>1, <1>2 DEF Ending
  <2>2. CASE \E i \in 1..n : k < i /\ Closes(toIngest[i], t)
    <3>1. PICK i \in 1..n : k < i /\ Closes(toIngest[i], t)
      BY <2>2
    <3>2. i - 1 \in 1..Len(toIngest') /\ k - 1 < i - 1 /\ toIngest'[i - 1] = toIngest[(i - 1) + 1]
          /\ (i - 1) + 1 = i
      BY <3>1, <1>1
    <3> HIDE DEF n
    <3> QED BY <3>1, <3>2 DEF Ending
  <2> QED BY <2>1, <2>2, <1>3 DEF Ending
<1>4. ASSUME NEW t, Ending(t, 0), ~Closes(s, t) PROVE Ending(t, 0)'
  <2>1. Ending(t, 1)
    <3>1. ASSUME NEW i \in 1..n, Closes(toIngest[i], t) PROVE 1 < i
      BY <1>1, <1>4, <3>1
    <3> QED BY <3>1, <1>4 DEF Ending
  <2>2. 1 \in 1..n /\ 1 - 1 = 0
    BY <1>1
  <2>3. Ending(t, 1 - 1)'
    BY <2>1, <2>2, <1>3
  <2> QED BY <2>2, <2>3
<1>5. s.type \in {"starting", "session", "ready", "started", "ended", "exited"} /\ s.turn \in MsgOrNone
  BY <1>1 DEF SignalType
<1>6. session.turn \in MsgOrNone /\ 0 \in MsgOrNone
  BY Constants, TypesFacts
<1>7. ingesting' \in [status : Statuses, turn : MsgOrNone] \cup {Undecided}
  BY <1>2, <1>5, <1>6 DEF Lifecycle, Session, Statuses
<1>8. ASSUME NEW t \in Messages, ingesting'.turn = t PROVE Ending(t, 0)'
  <2>1. t # 0
    BY Constants
  <2>2. \/ s.type = "started" /\ s.turn = t
        \/ s.type \in {"starting", "session"} /\ session.turn = t
    BY <2>1, <1>2, <1>5, <1>8, FixedValues DEF Lifecycle, Session
  <2>3. CASE s.type = "started" /\ s.turn = t
    <3>1. 1 \in 1..n /\ toIngest[1].type = "started" /\ toIngest[1].turn = t /\ 1 - 1 = 0
      BY <1>1, <2>3
    <3>2. Ending(t, 1)
      BY <3>1 DEF EndInv
    <3>3. Ending(t, 1 - 1)'
      BY <3>1, <3>2, <1>3
    <3> QED BY <3>1, <3>3
  <2>4. CASE s.type \in {"starting", "session"} /\ session.turn = t
    <3>1. Ending(t, 0)
      BY <2>4, <1>2 DEF EndInv
    <3>2. ~Closes(s, t)
      BY <2>4 DEF Closes
    <3> QED BY <3>1, <3>2, <1>4
  <2> QED BY <2>2, <2>3, <2>4
<1>9. ASSUME NEW t \in Messages, session.turn = t, ingesting' = Undecided PROVE Ending(t, 0)'
  <2>1. Ending(t, 0)
    BY <1>2, <1>9 DEF EndInv
  <2>2. ~Closes(s, t)
    <3>1. Undecided # Session("ready", 0) /\ Undecided # Session("stopped", 0)
      BY DEF Undecided, Session
    <3>2. SUFFICES ASSUME Closes(s, t) PROVE FALSE
      OBVIOUS
    <3>3. Lifecycle(s) = Session("ready", 0) \/ Lifecycle(s) = Session("stopped", 0)
      BY <3>2, <1>5, <1>9 DEF Lifecycle, Closes
    <3> QED BY <3>1, <3>3, <1>2, <1>9
  <2> QED BY <2>1, <2>2, <1>4
<1>10. ASSUME NEW t \in Messages, NEW k \in 1..Len(toIngest'),
              toIngest'[k].type = "started" /\ toIngest'[k].turn = t
       PROVE  Ending(t, k)'
  <2>1. k + 1 \in 1..n /\ toIngest'[k] = toIngest[k + 1] /\ (k + 1) - 1 = k
    BY <1>1
  <2>2. Ending(t, k + 1)
    BY <2>1, <1>10 DEF EndInv
  <2>3. Ending(t, (k + 1) - 1)'
    BY <2>1, <2>2, <1>3
  <2> QED BY <2>1, <2>3
<1>11. ~alive' => turns' = {}
  BY <1>2 DEF EndInv
<1> HIDE DEF s, n
<1>12. EndInv'
  BY <1>2, <1>8, <1>9, <1>10, <1>11 DEF EndInv
<1> QED BY <1>1, <1>7, <1>12

-----------------------------------------------------------------------------
(* Types.                                                                  *)

LEMMA TypesImplyTypeOK == Types => TypeOK
BY DEF Types, TypeOK, InboxTypes, WorkerTypes, QueueTypes, RuntimeTypes, HistoryTypes,
       MsgOrNone, Statuses, Pcs

LEMMA InitTypes == Init => Types
<1> SUFFICES ASSUME Init PROVE Types
  OBVIOUS
<1>1. <<>> \in Seq(IntentType) /\ <<>> \in Seq(ItemType) /\ <<>> \in Seq(Messages)
      /\ <<>> \in Seq(SignalType) /\ Len(<<>>) = 0
  BY EmptySeq
<1>2. InboxTypes /\ QueueTypes /\ HistoryTypes
  <2>1. InboxTypes
    BY <1>1 DEF Init, InboxTypes
  <2>2. QueueTypes
    BY <1>1 DEF Init, QueueTypes
  <2>3. HistoryTypes
    BY <1>1, Constants DEF Init, HistoryTypes
  <2> QED BY <2>1, <2>2, <2>3
<1>3. WorkerTypes
  BY FixedValues DEF Init, WorkerTypes
<1>4. RuntimeTypes
  BY <1>1, Constants, FixedValues DEF Init, RuntimeTypes, Session, Statuses
<1> QED BY <1>2, <1>3, <1>4 DEF Init, Types

LEMMA IntentTyped ==
    ASSUME NEW ty \in {"start", "queued", "interrupt", "stop"}, NEW m \in MsgOrNone,
           NEW mode \in Modes, NEW t \in MsgOrNone
    PROVE  /\ Intent(ty, m, mode, t) \in IntentType
           /\ Intent(ty, m, mode, t).type = ty /\ Intent(ty, m, mode, t).msg = m
           /\ Intent(ty, m, mode, t).mode = mode
BY DEF Intent, IntentType

LEMMA InboxAppended ==
    ASSUME InboxTypes, NEW e \in IntentType, Fits(e)
    PROVE  /\ Append(inbox, e) \in Seq(IntentType)
           /\ \A i \in 1..Len(Append(inbox, e)) : Fits(Append(inbox, e)[i])
<1> DEFINE r == Append(inbox, e)
<1>1. /\ r \in Seq(IntentType) /\ Len(inbox) \in Nat /\ Len(r) = Len(inbox) + 1
      /\ r[Len(inbox) + 1] = e
      /\ \A i \in 1..Len(inbox) : r[i] = inbox[i]
  BY Appended DEF InboxTypes
<1> HIDE DEF r
<1>2. ASSUME NEW i \in 1..Len(r) PROVE Fits(r[i])
  <2>1. i \in 1..Len(inbox) \/ i = Len(inbox) + 1
    BY <1>1
  <2>2. CASE i \in 1..Len(inbox)
    <3>1. r[i] = inbox[i] /\ Fits(inbox[i])
      BY <2>2, <1>1 DEF InboxTypes
    <3> QED BY <3>1
  <2>3. CASE i = Len(inbox) + 1
    <3>1. r[i] = e
      BY <2>3, <1>1
    <3> QED BY <3>1
  <2> QED BY <2>1, <2>2, <2>3
<1> QED BY <1>1, <1>2 DEF r

LEMMA InboxPopped ==
    ASSUME InboxTypes, inbox # <<>>, inbox' = Tail(inbox)
    PROVE  InboxTypes' /\ Head(inbox) \in IntentType /\ Fits(Head(inbox))
<1>1. /\ inbox' \in Seq(IntentType) /\ Head(inbox) = inbox[1] /\ Head(inbox) \in IntentType
      /\ Len(inbox) \in Nat /\ Len(inbox) # 0
      /\ \A i \in 1..Len(inbox') : inbox'[i] = inbox[i + 1] /\ i + 1 \in 1..Len(inbox)
  BY Popped DEF InboxTypes
<1>2. 1 \in 1..Len(inbox)
  BY <1>1
<1>3. Fits(Head(inbox))
  BY <1>1, <1>2 DEF InboxTypes
<1>4. ASSUME NEW i \in 1..Len(inbox') PROVE Fits(inbox'[i])
  BY <1>1 DEF InboxTypes
<1> QED BY <1>1, <1>3, <1>4 DEF InboxTypes

\* What Dequeue does, by a drain that holds nothing.
Dequeued(d) ==
    /\ ~draining /\ queue # <<>> /\ draining' = TRUE
    /\ promoting'[d] = Head(queue) /\ \A e \in Drainers \ {d} : promoting'[e] = promoting[e]
    /\ queue' = Tail(queue)

LEMMA DequeueFacts ==
    ASSUME WorkerTypes, QueueTypes, NEW d \in Drainers, Dequeue(d)
    PROVE  /\ promoted' = promoted => QueueTypes'
           /\ promoting' \in [Drainers -> ItemType \cup {NoItem}]
           /\ \A e \in Drainers \ {d} : promoting'[e] = promoting[e]
           /\ Dequeued(d) \/ UNCHANGED <<queue, draining, promoting>>
           /\ Dequeued(d) => Head(queue) \in ItemType /\ Head(queue) # NoItem
<1>1. CASE draining \/ queue = <<>>
  <2>1. UNCHANGED <<queue, draining, promoting>>
    BY <1>1 DEF Dequeue
  <2> QED BY <2>1, <1>1 DEF QueueTypes, WorkerTypes, Dequeued
<1>2. CASE ~(draining \/ queue = <<>>)
  <2>1. /\ draining' = TRUE /\ promoting' = [promoting EXCEPT ![d] = Head(queue)]
        /\ queue' = Tail(queue)
    BY <1>2 DEF Dequeue
  <2>2. Tail(queue) \in Seq(ItemType) /\ Head(queue) \in ItemType
    BY <1>2, Popped DEF QueueTypes
  <2>3. Head(queue) # NoItem
    BY <2>2, FixedValues
  <2> QED BY <1>2, <2>1, <2>2, <2>3 DEF QueueTypes, WorkerTypes, Dequeued
<1> QED BY <1>1, <1>2

LEMMA InterruptedHit == \A t : Interrupted(t) \subseteq turns
BY DEF Interrupted

LEMMA RuntimeUnchanged ==
    ASSUME Types, EndInv, UNCHANGED <<alive, turns, orphans, toIngest, ingesting>>,
           \/ session' = session
           \/ session' \in [status : Statuses, turn : MsgOrNone] /\ session'.turn = 0
    PROVE  RuntimeTypes' /\ EndInv'
<1>1. RuntimeTypes'
  BY DEF Types, RuntimeTypes
<1>2. \A t \in Messages : session'.turn = t => session.turn = t
  BY Constants
<1>3. EndInv'
  BY <1>2 DEF EndInv, Ending
<1> QED BY <1>1, <1>3

LEMMA SessionTyped ==
    ASSUME NEW st \in Statuses
    PROVE  /\ Session(st, 0) \in [status : Statuses, turn : MsgOrNone]
           /\ Session(st, 0).turn = 0
BY Constants DEF Session

\* No step strands a turn that is shown, or loses the runtime's types.
LEMMA RuntimeStep ==
    ASSUME Types, EndInv, [Next]_vars
    PROVE  RuntimeTypes' /\ EndInv'
<1> USE DEF providerVars
<1>1. CASE UNCHANGED vars
  BY <1>1, RuntimeUnchanged DEF vars
<1>2. CASE \E mode \in Modes : SendMessage(mode)
  BY <1>2, RuntimeUnchanged DEF SendMessage
<1>3. CASE InterruptTurn \/ StopSession
  BY <1>3, RuntimeUnchanged DEF InterruptTurn, StopSession
<1>4. CASE StartFails \/ RefuseStart \/ AnnounceFails \/ ReportFails
  BY <1>4, RuntimeUnchanged DEF StartFails, RefuseStart, AnnounceFails, ReportFails
<1>5. CASE TakeTurnEnd
  BY <1>5, RuntimeUnchanged DEF TakeTurnEnd
<1>6. CASE \E d \in Drainers : Promote(d) \/ PromoteFails(d)
  BY <1>6, RuntimeUnchanged DEF Promote, PromoteFails
<1>7. CASE TakeQueued
  BY <1>7, RuntimeUnchanged DEF TakeQueued
<1>8. CASE TakeStart
  BY <1>8, RuntimeUnchanged DEF TakeStart
<1>9. CASE Announce
  <2>1. session' = Session("starting", 0)
    BY <1>9 DEF Announce
  <2> QED BY <1>9, <2>1, SessionTyped, RuntimeUnchanged DEF Announce, Statuses
<1>10. CASE BindSession
  <2>1. session' = Session("ready", 0)
    BY <1>10 DEF BindSession
  <2> QED BY <1>10, <2>1, SessionTyped, RuntimeUnchanged DEF BindSession, Statuses
<1>11. CASE ReportFailure
  <2>1. session' = Session("error", 0)
    BY <1>11 DEF ReportFailure
  <2> QED BY <1>11, <2>1, SessionTyped, RuntimeUnchanged DEF ReportFailure, Statuses
<1>12. CASE RecordStop
  <2>1. session' = Session("stopped", 0)
    BY <1>12 DEF RecordStop
  <2> QED BY <1>12, <2>1, SessionTyped, RuntimeUnchanged DEF RecordStop, Statuses
<1>13. CASE EnsureSession
  <2>1. session' = session /\ ingesting' = ingesting
    BY <1>13 DEF EnsureSession
  <2>2. CASE StartRuntime
    <3>1. /\ EndInv' /\ toIngest' \in Seq(SignalType)
          /\ alive' = TRUE /\ turns' = {} /\ orphans' \subseteq Messages
      BY <2>1, <2>2, StartRuntimeEnds
    <3> QED BY <2>1, <3>1 DEF Types, RuntimeTypes
  <2>3. CASE UNCHANGED providerVars
    BY <2>1, <2>3, RuntimeUnchanged
  <2> QED BY <1>13, <2>2, <2>3 DEF EnsureSession
<1>14. CASE SendTurn
  <2>1. session' = session /\ ingesting' = ingesting /\ TakeMessage(worker.msg, worker.mode)
    BY <1>14 DEF SendTurn
  <2>2. worker.msg \in Messages
    BY <1>14, Constants DEF SendTurn, Types, WorkerTypes
  <2>3. /\ EndInv' /\ toIngest' \in Seq(SignalType)
        /\ alive' = TRUE /\ turns' \subseteq Messages /\ orphans' = orphans
    BY <2>1, <2>2, TakeMessageEnds
  <2> QED BY <2>1, <2>3 DEF Types, RuntimeTypes
<1>15. CASE TakeInterrupt
  <2>1. session' = session /\ ingesting' = ingesting
    BY <1>15 DEF TakeInterrupt
  <2>2. CASE session.status \in {"none", "stopped"}
    BY <1>15, <2>1, <2>2, RuntimeUnchanged DEF TakeInterrupt
  <2>3. CASE session.status \notin {"none", "stopped"}
    <3> DEFINE given == Head(inbox).turn
               hit == Interrupted(IF given # 0 THEN given ELSE session.turn)
    <3>1. /\ turns' = turns \ hit /\ alive' = TRUE /\ orphans' = orphans
          /\ Emit((IF alive THEN <<>> ELSE Opening) \o Ends(hit))
      BY <1>15, <2>3 DEF TakeInterrupt
    <3>2. hit \subseteq turns
      BY InterruptedHit
    <3> HIDE DEF hit
    <3>3. EndInv' /\ toIngest' \in Seq(SignalType)
      BY <2>1, <3>1, <3>2, InterruptEnds
    <3> QED BY <2>1, <3>1, <3>3 DEF Types, RuntimeTypes
  <2> QED BY <2>2, <2>3
<1>16. CASE TakeStop
  <2>1. session' = session /\ ingesting' = ingesting
    BY <1>16 DEF TakeStop
  <2>2. CASE UNCHANGED providerVars
    BY <2>1, <2>2, RuntimeUnchanged
  <2>3. CASE alive' = FALSE /\ turns' = {} /\ UNCHANGED orphans /\ Emit(Closing)
    <3>1. EndInv' /\ toIngest' \in Seq(SignalType)
      <4>1. Says(Closing) /\ \A t : ClosesIn(Closing, t)
        BY TypesFacts, ClosingCloses
      <4>2. Closing \in Seq(SignalType) /\ \A k \in 1..Len(Closing) : Closing[k].type # "started"
        BY <4>1 DEF Says
      <4> QED BY <2>1, <2>3, <4>1, <4>2, EmitKeepsEnds
    <3> QED BY <2>1, <2>3, <3>1 DEF Types, RuntimeTypes
  <2> QED BY <1>16, <2>2, <2>3 DEF TakeStop
<1>17. CASE TakeSignal
  <2>1. /\ EndInv' /\ toIngest' \in Seq(SignalType)
        /\ ingesting' \in [status : Statuses, turn : MsgOrNone] \cup {Undecided}
    BY <1>17, TakeSignalEnds
  <2> QED BY <1>17, <2>1 DEF TakeSignal, Types, RuntimeTypes
<1>18. CASE SetSession
  <2>1. /\ session' = ingesting /\ ingesting # Undecided /\ ingesting' = Undecided
        /\ UNCHANGED <<alive, turns, orphans, toIngest>>
    BY <1>18 DEF SetSession
  <2>2. RuntimeTypes'
    BY <2>1 DEF Types, RuntimeTypes
  <2>3. \A t \in Messages : ingesting'.turn # t
    BY <2>1, FixedValues, Constants
  <2>4. EndInv'
    BY <2>1, <2>3 DEF EndInv, Ending
  <2> QED BY <2>2, <2>4
<1>19. CASE \E t \in Messages : EndTurn(t)
  <2>1. PICK t \in Messages : EndTurn(t)
    BY <1>19
  <2>2. /\ session' = session /\ ingesting' = ingesting /\ alive' = alive
        /\ turns' = turns \ {t} /\ orphans' = orphans \ {t} /\ Emit(Ends({t}))
    BY <2>1 DEF EndTurn
  <2>3. Says(Ends({t})) /\ ClosesIn(Ends({t}), t)
    BY EndsSays, Constants
  <2>4. Ends({t}) \in Seq(SignalType) /\ \A k \in 1..Len(Ends({t})) : Ends({t})[k].type # "started"
    BY <2>3 DEF Says
  <2>5. \A u \in turns \cup orphans : u \in turns' \cup orphans' \/ ClosesIn(Ends({t}), u)
    BY <2>2, <2>3
  <2>6. ~alive' => turns' = {}
    BY <2>2 DEF EndInv
  <2>7. EndInv' /\ toIngest' \in Seq(SignalType)
    BY <2>2, <2>4, <2>5, <2>6, EmitKeepsEnds
  <2> QED BY <2>2, <2>7 DEF Types, RuntimeTypes
<1>20. CASE RuntimeExits
  <2>1. /\ session' = session /\ ingesting' = ingesting /\ alive' = FALSE /\ turns' = {}
        /\ orphans' = orphans
        /\ Emit(Closing) \/ Emit(Ends({0}) \o Closing)
    BY <1>20 DEF RuntimeExits
  <2>2. Says(Closing) /\ \A t : ClosesIn(Closing, t)
    BY TypesFacts, ClosingCloses
  <2>3. Says(Ends({0}))
    BY EndsSays, Constants
  <2>4. PICK seq : Emit(seq) /\ Says(seq) /\ \A t : ClosesIn(seq, t)
    <3>1. Says(Ends({0}) \o Closing) /\ \A t : ClosesIn(Ends({0}) \o Closing, t)
      BY <2>2, <2>3, SaysJoined
    <3> QED BY <2>1, <2>2, <3>1
  <2>5. seq \in Seq(SignalType) /\ \A k \in 1..Len(seq) : seq[k].type # "started"
    BY <2>4 DEF Says
  <2>6. EndInv' /\ toIngest' \in Seq(SignalType)
    BY <2>1, <2>4, <2>5, EmitKeepsEnds
  <2> QED BY <2>1, <2>6 DEF Types, RuntimeTypes
<1>21. CASE Restart
  <2>1. /\ alive' = FALSE /\ turns' = {} /\ orphans' = {} /\ toIngest' = <<>>
        /\ ingesting' = Undecided
        /\ session' = IF NeedsReconciliation(session) THEN Session("interrupted", 0) ELSE session
    BY <1>21 DEF Restart
  <2>2. session' \in [status : Statuses, turn : MsgOrNone] /\ session'.turn = 0
    <3>1. Session("interrupted", 0) \in [status : Statuses, turn : MsgOrNone]
          /\ Session("interrupted", 0).turn = 0
      BY SessionTyped DEF Statuses
    <3> QED BY <2>1, <3>1 DEF NeedsReconciliation, Types, RuntimeTypes
  <2>3. RuntimeTypes'
    BY <2>1, <2>2, EmptySeq DEF RuntimeTypes
  <2>4. EndInv'
    <3>1. \A t \in Messages : session'.turn # t /\ ingesting'.turn # t
      BY <2>1, <2>2, FixedValues, Constants
    <3>2. Len(toIngest') = 0
      BY <2>1, EmptySeq
    <3> QED BY <2>1, <3>1, <3>2 DEF EndInv
  <2> QED BY <2>3, <2>4
<1> QED
  BY <1>1, <1>2, <1>3, <1>4, <1>5, <1>6, <1>7, <1>8, <1>9, <1>10, <1>11, <1>12, <1>13, <1>14,
     <1>15, <1>16, <1>17, <1>18, <1>19, <1>20, <1>21 DEF Next, Reactor

\* What the session shows is what EndInv says of it.
LEMMA EndsToCome == Types /\ EndInv => NoPhantomTurn
<1> SUFFICES ASSUME Types, EndInv, session.turn # 0,
                    ~(ingesting # Undecided /\ ingesting.turn # session.turn)
             PROVE  \/ session.turn \in turns \cup orphans
                    \/ \E s \in Range(toIngest) :
                          \/ s.type \in {"exited", "ready"}
                          \/ s.type = "ended" /\ s.turn \in {session.turn, 0}
  BY DEF NoPhantomTurn
<1>1. session.turn \in Messages
  BY Constants, TypesFacts
<1>2. Ending(session.turn, 0)
  BY <1>1 DEF EndInv
<1>3. \A i \in 1..Len(toIngest) : toIngest[i] \in Range(toIngest)
  BY LenProperties, TypesFacts DEF Range
<1> QED BY <1>2, <1>3 DEF Ending, Closes

LEMMA InboxStep ==
    ASSUME Types, [Next]_vars
    PROVE  InboxTypes'
<1> USE DEF providerVars, historyVars
<1>a. InboxTypes /\ WorkerTypes /\ QueueTypes /\ RuntimeTypes /\ HistoryTypes
  BY DEF Types
<1>b. ASSUME inbox' = inbox PROVE InboxTypes'
  BY <1>a, <1>b DEF InboxTypes
<1>c. ASSUME NEW e \in IntentType, Fits(e), inbox' = Append(inbox, e) PROVE InboxTypes'
  BY <1>a, <1>c, InboxAppended DEF InboxTypes
<1>d. 0 \in MsgOrNone /\ "queue" \in Modes /\ session.turn \in MsgOrNone
  BY Constants, TypesFacts DEF Modes
<1>1. CASE UNCHANGED vars \/ EnsureSession
  BY <1>1, <1>b DEF vars, EnsureSession
<1>2. CASE \E mode \in Modes : SendMessage(mode)
  <2>1. PICK mode \in Modes : SendMessage(mode)
    BY <1>2
  <2> DEFINE m == accepted + 1
             shouldQueue == Running /\ (mode = "queue" \/ provider # "codex")
             request == Intent(IF shouldQueue THEN "queued" ELSE "start", m, mode, 0)
             interrupt == Intent("interrupt", 0, mode, session.turn)
  <2>2. m \in Messages /\ m \in MsgOrNone
    <3>1. accepted \in 0..N /\ accepted < N
      BY <1>a, <2>1 DEF HistoryTypes, MsgOrNone, SendMessage
    <3> QED BY <3>1, TurnQueueAssumption DEF Messages, MsgOrNone
  <2>3. inbox' = IF shouldQueue /\ mode = "steer"
                 THEN inbox \o <<request, interrupt>> ELSE Append(inbox, request)
    BY <2>1 DEF SendMessage
  <2>4. request \in IntentType /\ Fits(request)
    <3> HIDE DEF m, shouldQueue
    <3> QED BY <2>2, <1>d, IntentTyped DEF Fits
  <2>5. interrupt \in IntentType /\ Fits(interrupt)
    BY <1>d, IntentTyped DEF Fits
  <2> HIDE DEF request, interrupt
  <2>6. CASE shouldQueue /\ mode = "steer"
    <3>1. inbox' = Append(Append(inbox, request), interrupt)
      BY <2>3, <2>4, <2>5, <2>6, <1>a, AppendedTwo DEF InboxTypes
    <3> DEFINE r == Append(inbox, request)
    <3>2. r \in Seq(IntentType) /\ \A i \in 1..Len(r) : Fits(r[i])
      BY <2>4, <1>a, InboxAppended
    <3> HIDE DEF r
    <3> DEFINE w == Append(r, interrupt)
    <3>3. /\ w \in Seq(IntentType) /\ Len(r) \in Nat /\ Len(w) = Len(r) + 1
          /\ w[Len(r) + 1] = interrupt
          /\ \A i \in 1..Len(r) : w[i] = r[i]
      BY <3>2, <2>5, Appended
    <3>4. inbox' = w
      BY <3>1 DEF r
    <3> HIDE DEF w
    <3>5. ASSUME NEW i \in 1..Len(w) PROVE Fits(w[i])
      <4>1. CASE i \in 1..Len(r)
        <5>1. w[i] = r[i] /\ Fits(r[i])
          BY <4>1, <3>2, <3>3
        <5> QED BY <5>1
      <4>2. CASE i \notin 1..Len(r)
        <5>1. w[i] = interrupt
          BY <4>2, <3>3
        <5> QED BY <5>1, <2>5
      <4> QED BY <4>1, <4>2
    <3> QED BY <3>3, <3>4, <3>5 DEF InboxTypes
  <2>7. CASE ~(shouldQueue /\ mode = "steer")
    BY <2>3, <2>4, <2>7, <1>c
  <2> QED BY <2>6, <2>7
<1>3. CASE InterruptTurn \/ StopSession
  <2>1. PICK ty \in {"interrupt", "stop"}, t \in MsgOrNone :
           inbox' = Append(inbox, Intent(ty, 0, "queue", t))
    BY <1>3, <1>d DEF InterruptTurn, StopSession
  <2>2. Intent(ty, 0, "queue", t) \in IntentType /\ Fits(Intent(ty, 0, "queue", t))
    BY <1>d, IntentTyped DEF Fits
  <2> QED BY <2>1, <2>2, <1>c
<1>4. CASE \E d \in Drainers : Promote(d)
  <2>1. PICK d \in Drainers : Promote(d)
    BY <1>4
  <2> DEFINE item == promoting[d]  e == Intent("start", item.msg, item.mode, 0)
  <2>2. inbox' = Append(inbox, e) /\ item # NoItem
    BY <2>1 DEF Promote
  <2>3. item.msg \in Messages /\ item.mode \in Modes
    BY <2>2, <1>a DEF WorkerTypes, ItemType
  <2> HIDE DEF item
  <2>4. e \in IntentType /\ Fits(e)
    <3>1. item.msg \in MsgOrNone
      BY <2>3, Constants
    <3>2. e \in IntentType /\ e.msg = item.msg /\ e.type = "start"
      BY <2>3, <3>1, <1>d, IntentTyped
    <3> QED BY <2>3, <3>2 DEF Fits
  <2> HIDE DEF e
  <2> QED BY <2>2, <2>4, <1>c
<1>5. CASE \/ StartFails \/ TakeTurnEnd \/ Announce \/ BindSession \/ AnnounceFails
           \/ ReportFails \/ \E d \in Drainers : PromoteFails(d)
  BY <1>5, <1>b DEF StartFails, TakeTurnEnd, Announce, BindSession, AnnounceFails, ReportFails,
                    PromoteFails
<1>6. CASE ReportFailure \/ RecordStop \/ SendTurn
  BY <1>6, <1>b DEF ReportFailure, RecordStop, SendTurn
<1>7. CASE TakeSignal \/ SetSession \/ RuntimeExits \/ \E t \in Messages : EndTurn(t)
  BY <1>7, <1>b DEF TakeSignal, SetSession, RuntimeExits, EndTurn
<1>8. CASE TakeQueued \/ TakeStart \/ RefuseStart \/ TakeInterrupt \/ TakeStop
  <2>1. inbox # <<>> /\ inbox' = Tail(inbox)
    BY <1>8 DEF TakeQueued, TakeStart, RefuseStart, TakeInterrupt, TakeStop, Reads
  <2> QED BY <2>1, <1>a, InboxPopped
<1>9. CASE Restart
  <2>1. inbox' = <<>> /\ <<>> \in Seq(IntentType) /\ Len(<<>>) = 0
    BY <1>9, EmptySeq DEF Restart
  <2> QED BY <2>1 DEF InboxTypes
<1> QED BY <1>1, <1>2, <1>3, <1>4, <1>5, <1>6, <1>7, <1>8, <1>9 DEF Next, Reactor

\* What the worker reads of the inbox's head.
LEMMA HeadFacts ==
    ASSUME Types, NEW ty, Reads(ty)
    PROVE  /\ worker.pc = "idle" /\ worker.msg = 0 /\ promoting["worker"] = NoItem
           /\ inbox # <<>> /\ Head(inbox) \in IntentType /\ Head(inbox).type = ty
           /\ IF ty \in {"start", "queued"} THEN Head(inbox).msg \in Messages
                                            ELSE Head(inbox).msg = 0
           /\ Head(inbox).mode \in Modes
<1>1. worker.pc = "idle" /\ inbox # <<>> /\ Head(inbox).type = ty
  BY DEF Reads
<1>2. worker.msg = 0 /\ promoting["worker"] = NoItem
  BY <1>1 DEF Types, WorkerTypes
<1>3. Head(inbox) \in IntentType /\ Fits(Head(inbox))
  <2>1. InboxTypes
    BY DEF Types
  <2>2. Head(inbox) \in IntentType /\ Head(inbox) = inbox[1] /\ 1 \in 1..Len(inbox)
    BY <1>1, <2>1, Popped DEF InboxTypes
  <2>3. Fits(inbox[1])
    BY <2>1, <2>2 DEF InboxTypes
  <2> QED BY <2>2, <2>3
<1> QED BY <1>1, <1>2, <1>3 DEF Fits, IntentType

LEMMA EnqueuedTyped ==
    ASSUME QueueTypes, NEW x \in ItemType
    PROVE  Enqueued(x) \in Seq(ItemType)
BY Appended, Fronted DEF QueueTypes, Enqueued

\* A drain lets go of its message, and the worker of its drain.
LEMMA PromotionOver ==
    ASSUME WorkerTypes, NEW d \in Drainers, promoting[d] # NoItem,
           promoting' = [promoting EXCEPT ![d] = NoItem],
           worker' = IF d = "worker" THEN Idle ELSE worker
    PROVE  WorkerTypes'
<1>1. promoting' \in [Drainers -> ItemType \cup {NoItem}]
  BY DEF WorkerTypes
<1>2. CASE d = "worker"
  BY <1>1, <1>2, FixedValues DEF WorkerTypes
<1>3. CASE d # "worker"
  <2>1. promoting'["worker"] = promoting["worker"] /\ worker' = worker
    BY <1>3, FixedValues DEF WorkerTypes
  <2> QED BY <2>1, <1>1 DEF WorkerTypes
<1> QED BY <1>2, <1>3

LEMMA TypesStep ==
    ASSUME Types, EndInv, [Next]_vars
    PROVE  Types'
<1> USE DEF providerVars, historyVars
<1>a. InboxTypes /\ WorkerTypes /\ QueueTypes /\ RuntimeTypes /\ HistoryTypes
  BY DEF Types
<1>b. InboxTypes' /\ RuntimeTypes'
  BY InboxStep, RuntimeStep
<1> SUFFICES provider' \in Providers /\ WorkerTypes' /\ QueueTypes' /\ HistoryTypes'
  BY <1>b DEF Types
<1>c. provider' \in Providers
  BY DEF Types, Next, Reactor, vars, SendMessage, InterruptTurn, StopSession, TakeQueued, TakeStart, Announce, EnsureSession,
         BindSession, SendTurn, ReportFailure, TakeInterrupt, TakeStop, RecordStop, StartFails, TakeTurnEnd,
         Promote, PromoteFails, RefuseStart, AnnounceFails, ReportFails, TakeSignal, SetSession,
         EndTurn, RuntimeExits, Restart
<1>d. ASSUME UNCHANGED <<worker, promoting>> PROVE WorkerTypes'
  BY <1>a, <1>d DEF WorkerTypes
<1>e. ASSUME UNCHANGED <<queue, draining, promoted>> PROVE QueueTypes'
  BY <1>a, <1>e DEF QueueTypes
<1>f. ASSUME UNCHANGED <<accepted, sent, failed, dropped, unreported, discarded, lost, escaped>> PROVE HistoryTypes'
  BY <1>a, <1>f DEF HistoryTypes
<1>1. CASE \/ UNCHANGED vars \/ InterruptTurn \/ StopSession \/ TakeSignal \/ SetSession
           \/ RuntimeExits \/ \E t \in Messages : EndTurn(t)
  BY <1>1, <1>c, <1>d, <1>e, <1>f
     DEF vars, InterruptTurn, StopSession, TakeSignal, SetSession, RuntimeExits, EndTurn
<1>2. CASE \E mode \in Modes : SendMessage(mode)
  <2>1. /\ accepted' = accepted + 1 /\ accepted < N
        /\ UNCHANGED <<worker, promoting, queue, draining, promoted, sent, failed, dropped, unreported, discarded,
                       lost, escaped>>
    BY <1>2 DEF SendMessage
  <2>2. accepted' \in MsgOrNone
    BY <2>1, <1>a, TurnQueueAssumption DEF MsgOrNone, HistoryTypes
  <2>3. HistoryTypes'
    BY <2>1, <2>2, <1>a DEF HistoryTypes
  <2> QED BY <2>1, <2>3, <1>c, <1>d, <1>e
<1>3. CASE StartFails \/ Announce \/ BindSession \/ EnsureSession
  <2>1. /\ worker.msg # 0
        /\ \E pc \in {"ensure", "bind", "send", "fail"} : worker' = [worker EXCEPT !.pc = pc]
        /\ UNCHANGED <<queue, draining, promoting, promoted, accepted, sent, failed, dropped, unreported,
                       discarded, lost, escaped>>
    BY <1>3, <1>a DEF StartFails, Announce, BindSession, EnsureSession, WorkerTypes
  <2>2. worker.pc # "drain"
    BY <2>1, <1>a DEF WorkerTypes
  <2>3. WorkerTypes'
    BY <2>1, <2>2, <1>a DEF WorkerTypes, Pcs
  <2> QED BY <2>1, <2>3, <1>c, <1>e, <1>f
<1>4. CASE TakeStart
  <2>1. UNCHANGED <<queue, draining, promoting, promoted, accepted, sent, failed, dropped, unreported, discarded,
                    lost, escaped>>
    BY <1>4 DEF TakeStart
  <2>2. /\ worker'.pc \in {"ensure", "announce"} /\ worker'.msg = Head(inbox).msg
        /\ worker'.mode \in Modes /\ worker' \in [pc : Pcs, msg : MsgOrNone, mode : Modes]
        /\ worker'.msg \in Messages /\ promoting["worker"] = NoItem
    <3>1. Reads("start")
      BY <1>4 DEF TakeStart
    <3>2. /\ Head(inbox).msg \in Messages /\ Head(inbox).mode \in Modes
          /\ promoting["worker"] = NoItem
      BY <3>1, HeadFacts
    <3>3. PICK pc \in {"ensure", "announce"}, mode \in Modes :
             worker' = [pc |-> pc, msg |-> Head(inbox).msg, mode |-> mode]
      <4>1. "queue" \in Modes
        BY DEF Modes
      <4> QED BY <1>4, <3>2, <4>1 DEF TakeStart
    <3> QED BY <3>2, <3>3, Constants DEF Pcs
  <2>3. WorkerTypes'
    BY <2>1, <2>2, <1>a, Constants DEF WorkerTypes
  <2> QED BY <2>1, <2>3, <1>c, <1>e, <1>f
<1>5. CASE TakeQueued
  <2>1. /\ Reads("queued") /\ queue' = Enqueued(Item(Head(inbox).msg, Head(inbox).mode))
        /\ UNCHANGED <<worker, draining, promoting, promoted, accepted, sent, failed, dropped, unreported, discarded,
                       lost, escaped>>
    BY <1>5 DEF TakeQueued
  <2>2. Item(Head(inbox).msg, Head(inbox).mode) \in ItemType
    BY <2>1, HeadFacts DEF Item, ItemType
  <2>3. QueueTypes'
    BY <2>1, <2>2, <1>a, EnqueuedTyped DEF QueueTypes
  <2> QED BY <2>1, <2>3, <1>c, <1>d, <1>f
<1>6. CASE TakeInterrupt
  BY <1>6, <1>c, <1>d, <1>e, <1>f DEF TakeInterrupt
<1>7. CASE TakeTurnEnd
  <2>1. /\ Dequeue("fiber")
        /\ UNCHANGED <<worker, promoted, accepted, sent, failed, dropped, unreported, discarded, lost, escaped>>
    BY <1>7 DEF TakeTurnEnd
  <2>2. /\ QueueTypes' /\ promoting' \in [Drainers -> ItemType \cup {NoItem}]
        /\ promoting'["worker"] = promoting["worker"]
    <3>1. "worker" \in Drainers \ {"fiber"}
      BY DEF Drainers
    <3> QED BY <2>1, <3>1, <1>a, DequeueFacts, FixedValues
  <2>3. WorkerTypes'
    BY <2>1, <2>2, <1>a DEF WorkerTypes
  <2> QED BY <2>1, <2>2, <2>3, <1>c, <1>f
<1>8. CASE ReportFailure
  <2>1. /\ worker.pc = "fail" /\ Dequeue("worker") /\ failed' = failed \cup {worker.msg}
        /\ worker' = IF promoting'["worker"] = NoItem THEN Idle ELSE [Idle EXCEPT !.pc = "drain"]
        /\ UNCHANGED <<promoted, accepted, sent, dropped, unreported, discarded, lost, escaped>>
    BY <1>8 DEF ReportFailure
  <2>2. QueueTypes' /\ promoting' \in [Drainers -> ItemType \cup {NoItem}]
    BY <2>1, <1>a, DequeueFacts, FixedValues
  <2>3. worker' \in [pc : Pcs, msg : MsgOrNone, mode : Modes] /\ worker'.msg = 0
        /\ worker'.pc \in {"idle", "drain"}
        /\ (worker'.pc = "drain" <=> promoting'["worker"] # NoItem)
    BY <2>1, FixedValues DEF Pcs
  <2>4. WorkerTypes'
    BY <2>2, <2>3 DEF WorkerTypes
  <2>5. worker.msg \in Messages
    BY <2>1, <1>a, Constants DEF WorkerTypes
  <2>6. HistoryTypes'
    BY <2>1, <2>5, <1>a DEF HistoryTypes
  <2> QED BY <2>2, <2>4, <2>6, <1>c
<1>9. CASE TakeStop
  <2>1. /\ Reads("stop") /\ queue' = <<>> /\ draining' = FALSE /\ worker' = [Idle EXCEPT !.pc = "stopped"]
        /\ discarded' = discarded \cup {queue[i].msg : i \in DOMAIN queue}
        /\ escaped' = (escaped \/ \E d \in Drainers : promoting[d] # NoItem)
        /\ UNCHANGED <<promoting, promoted, accepted, sent, failed, dropped, unreported, lost>>
    BY <1>9 DEF TakeStop
  <2>2. QueueTypes'
    BY <2>1, <1>a, EmptySeq DEF QueueTypes
  <2>3. worker' \in [pc : Pcs, msg : MsgOrNone, mode : Modes] /\ worker'.msg = 0
        /\ worker'.pc = "stopped"
    BY <2>1, FixedValues DEF Pcs
  <2>4. promoting["worker"] = NoItem
    BY <2>1, HeadFacts
  <2>5. WorkerTypes'
    BY <2>1, <2>3, <2>4, <1>a DEF WorkerTypes
  <2>6. {queue[i].msg : i \in DOMAIN queue} \subseteq Messages
    <3>1. \A i \in DOMAIN queue : queue[i] \in ItemType
      BY <1>a, ElementOfSeq, LenProperties DEF QueueTypes
    <3> QED BY <3>1 DEF ItemType
  <2>7. HistoryTypes'
    BY <2>1, <2>6, <1>a DEF HistoryTypes
  <2> QED BY <2>2, <2>5, <2>7, <1>c
<1>10. CASE RecordStop
  <2>1. /\ worker.pc = "stopped" /\ worker' = Idle
        /\ UNCHANGED <<queue, draining, promoting, promoted, accepted, sent, failed, dropped, unreported, discarded,
                       lost, escaped>>
    BY <1>10 DEF RecordStop
  <2>2. promoting["worker"] = NoItem
    BY <2>1, <1>a DEF WorkerTypes
  <2>3. WorkerTypes'
    BY <2>1, <2>2, <1>a, FixedValues DEF WorkerTypes
  <2> QED BY <2>1, <2>3, <1>c, <1>e, <1>f
<1>11. CASE SendTurn
  <2>1. /\ worker.pc = "send" /\ worker' = Idle /\ sent' = Append(sent, worker.msg)
        /\ UNCHANGED <<queue, draining, promoting, promoted, accepted, failed, dropped, unreported, discarded, lost,
                       escaped>>
    BY <1>11 DEF SendTurn
  <2>2. worker.msg \in Messages /\ promoting["worker"] = NoItem
    BY <2>1, <1>a, Constants DEF WorkerTypes
  <2>3. WorkerTypes'
    BY <2>1, <2>2, <1>a, FixedValues DEF WorkerTypes
  <2>4. HistoryTypes'
    BY <2>1, <2>2, <1>a, Appended DEF HistoryTypes
  <2> QED BY <2>1, <2>3, <2>4, <1>c, <1>e
<1>12. CASE \E d \in Drainers : Promote(d)
  <2>1. PICK d \in Drainers : Promote(d)
    BY <1>12
  <2>2. /\ promoting[d] # NoItem /\ promoted' = Append(promoted, promoting[d])
        /\ promoting' = [promoting EXCEPT ![d] = NoItem] /\ draining' = FALSE
        /\ worker' = IF d = "worker" THEN Idle ELSE worker
        /\ UNCHANGED <<queue, accepted, sent, failed, dropped, unreported, discarded, lost, escaped>>
    BY <2>1 DEF Promote
  <2>3. promoting[d] \in ItemType
    BY <2>2, <1>a DEF WorkerTypes
  <2>4. QueueTypes'
    BY <2>2, <2>3, <1>a, Appended DEF QueueTypes
  <2>5. WorkerTypes'
    BY <2>2, <1>a, PromotionOver
  <2> QED BY <2>2, <2>4, <2>5, <1>c, <1>f
<1>13. CASE Restart
  <2>1. /\ queue' = <<>> /\ draining' = FALSE /\ promoting' = [d \in Drainers |-> NoItem]
        /\ worker' = Idle /\ lost' = lost \cup (InFlight \ {0})
        /\ UNCHANGED <<promoted, accepted, sent, failed, dropped, unreported, discarded, escaped>>
    BY <1>13 DEF Restart
  <2>2. QueueTypes'
    BY <2>1, <1>a, EmptySeq DEF QueueTypes
  <2>3. WorkerTypes'
    BY <2>1, FixedValues DEF WorkerTypes
  <2>4. InFlight \ {0} \subseteq Messages
    <3>1. \A i \in DOMAIN queue : queue[i].msg \in Messages
      <4>1. \A i \in DOMAIN queue : queue[i] \in ItemType
        BY <1>a, ElementOfSeq, LenProperties DEF QueueTypes
      <4> QED BY <4>1 DEF ItemType
    <3>2. \A i \in DOMAIN inbox : inbox[i].msg \in MsgOrNone
      <4>1. \A i \in DOMAIN inbox : inbox[i] \in IntentType
        BY <1>a, ElementOfSeq, LenProperties DEF InboxTypes
      <4> QED BY <4>1 DEF IntentType
    <3>3. \A d \in Drainers : promoting[d].msg \in MsgOrNone
      <4>1. \A d \in Drainers : promoting[d] \in ItemType \cup {NoItem}
        BY <1>a DEF WorkerTypes
      <4> QED BY <4>1, Constants, FixedValues DEF ItemType
    <3>4. worker.msg \in MsgOrNone
      BY <1>a DEF WorkerTypes
    <3>5. \A m \in InFlight : m \in MsgOrNone
      BY <3>1, <3>2, <3>3, <3>4, Constants DEF InFlight
    <3> QED BY <3>5, Constants
  <2>5. HistoryTypes'
    BY <2>1, <2>4, <1>a DEF HistoryTypes
  <2> QED BY <2>2, <2>3, <2>5, <1>c
<1>14. CASE RefuseStart
  <2>1. /\ Reads("start") /\ failed' = failed \cup {Head(inbox).msg}
        /\ UNCHANGED <<worker, queue, draining, promoting, promoted, accepted, sent, dropped,
                       unreported, discarded, lost, escaped>>
    BY <1>14 DEF RefuseStart
  <2>2. Head(inbox).msg \in Messages
    BY <2>1, HeadFacts
  <2>3. HistoryTypes'
    BY <2>1, <2>2, <1>a DEF HistoryTypes
  <2> QED BY <2>1, <2>3, <1>c, <1>d, <1>e
<1>15. CASE AnnounceFails \/ ReportFails
  <2>1. /\ worker.pc \in {"announce", "fail"} /\ worker' = Idle
        /\ \/ dropped' = dropped \cup {worker.msg} /\ unreported' = unreported
           \/ unreported' = unreported \cup {worker.msg} /\ dropped' = dropped
        /\ UNCHANGED <<queue, draining, promoting, promoted, accepted, sent, failed, discarded,
                       lost, escaped>>
    BY <1>15 DEF AnnounceFails, ReportFails
  <2>2. worker.msg \in Messages /\ promoting["worker"] = NoItem
    BY <2>1, <1>a, Constants DEF WorkerTypes
  <2>3. WorkerTypes'
    BY <2>1, <2>2, <1>a, FixedValues DEF WorkerTypes
  <2>4. HistoryTypes'
    BY <2>1, <2>2, <1>a DEF HistoryTypes
  <2> QED BY <2>1, <2>3, <2>4, <1>c, <1>e
<1>16. CASE \E d \in Drainers : PromoteFails(d)
  <2>1. PICK d \in Drainers : PromoteFails(d)
    BY <1>16
  <2>2. /\ promoting[d] # NoItem /\ dropped' = dropped \cup {promoting[d].msg}
        /\ promoting' = [promoting EXCEPT ![d] = NoItem] /\ draining' = FALSE
        /\ worker' = IF d = "worker" THEN Idle ELSE worker
        /\ UNCHANGED <<queue, promoted, accepted, sent, failed, unreported, discarded, lost,
                       escaped>>
    BY <2>1 DEF PromoteFails
  <2>3. promoting[d].msg \in Messages
    BY <2>2, <1>a DEF WorkerTypes, ItemType
  <2>4. QueueTypes' /\ HistoryTypes'
    BY <2>2, <2>3, <1>a DEF QueueTypes, HistoryTypes
  <2>5. WorkerTypes'
    BY <2>2, <1>a, PromotionOver
  <2> QED BY <2>4, <2>5, <1>c
<1> QED BY <1>1, <1>2, <1>3, <1>4, <1>5, <1>6, <1>7, <1>8, <1>9, <1>10, <1>11, <1>12, <1>13,
           <1>14, <1>15, <1>16 DEF Next, Reactor

-----------------------------------------------------------------------------
(* Each message is in one place.                                           *)

LEMMA OneFacts == \A c \in BOOLEAN : One(c) \in {0, 1} /\ (One(c) = 1 <=> c)
BY DEF One

\* The two drains are counted one by one.
LEMMA HeldIs ==
    ASSUME NEW p \in [Drainers -> ItemType \cup {NoItem}], NEW m \in Messages
    PROVE  Cardinality({d \in Drainers : p[d] # NoItem /\ p[d].msg = m})
             = One(p["fiber"].msg = m) + One(p["worker"].msg = m)
<1> DEFINE S == {d \in Drainers : p[d] # NoItem /\ p[d].msg = m}
<1>1. \A d \in Drainers : p[d].msg = m => p[d] # NoItem
  BY FixedValues, Constants
<1>2. \A d : d \in S <=> (d = "fiber" \/ d = "worker") /\ p[d].msg = m
  BY <1>1 DEF Drainers
<1>3. /\ Cardinality({}) = 0 /\ Cardinality({"fiber"}) = 1 /\ Cardinality({"worker"}) = 1
      /\ Cardinality({"fiber"} \cup {"worker"}) = 2
  <2>1. IsFiniteSet({"fiber"}) /\ Cardinality({"fiber"}) = 1 /\ Cardinality({"worker"}) = 1
        /\ Cardinality({}) = 0
    BY FS_Singleton, FS_EmptySet
  <2>2. Cardinality({"fiber"} \cup {"worker"}) = Cardinality({"fiber"}) + 1
    BY <2>1, FS_AddElement
  <2> QED BY <2>1, <2>2
<1> HIDE DEF S
<1>4. Cardinality(S) = One(p["fiber"].msg = m) + One(p["worker"].msg = m)
  <2>1. CASE p["fiber"].msg = m /\ p["worker"].msg = m
    <3>1. S = {"fiber"} \cup {"worker"}
      BY <1>2, <2>1
    <3> QED BY <3>1, <1>3, <2>1 DEF One
  <2>2. CASE p["fiber"].msg = m /\ p["worker"].msg # m
    <3>1. S = {"fiber"}
      BY <1>2, <2>2
    <3> QED BY <3>1, <1>3, <2>2 DEF One
  <2>3. CASE p["fiber"].msg # m /\ p["worker"].msg = m
    <3>1. S = {"worker"}
      BY <1>2, <2>3
    <3> QED BY <3>1, <1>3, <2>3 DEF One
  <2>4. CASE p["fiber"].msg # m /\ p["worker"].msg # m
    <3>1. S = {}
      BY <1>2, <2>4
    <3> QED BY <3>1, <1>3, <2>4 DEF One
  <2> QED BY <2>1, <2>2, <2>3, <2>4
<1> QED BY <1>4 DEF S

LEMMA SentCount ==
    ASSUME NEW s \in Seq(Messages), NEW m
    PROVE  /\ Cardinality({i \in DOMAIN s : s[i] = m}) \in Nat
           /\ \A x \in Messages :
                Cardinality({i \in DOMAIN Append(s, x) : Append(s, x)[i] = m})
                  = Cardinality({i \in DOMAIN s : s[i] = m}) + One(x = m)
<1> DEFINE S == {i \in DOMAIN s : s[i] = m}  n == Len(s) + 1
<1>1. Len(s) \in Nat /\ DOMAIN s = 1..Len(s)
  BY LenProperties
<1>2. IsFiniteSet(S) /\ Cardinality(S) \in Nat
  <2>1. IsFiniteSet(1..Len(s))
    BY <1>1, FS_Interval
  <2>2. IsFiniteSet(S)
    BY <1>1, <2>1, FS_Subset
  <2> QED BY <2>2, FS_CardinalityType
<1>3. ASSUME NEW x \in Messages
      PROVE  Cardinality({i \in DOMAIN Append(s, x) : Append(s, x)[i] = m})
               = Cardinality(S) + One(x = m)
  <2> DEFINE r == Append(s, x)  R == {i \in DOMAIN r : r[i] = m}
  <2>1. /\ r \in Seq(Messages) /\ Len(r) = n /\ r[n] = x /\ DOMAIN r = 1..n
        /\ \A i \in 1..Len(s) : r[i] = s[i]
    BY Appended, LenProperties
  <2>2. R = IF x = m THEN S \cup {n} ELSE S
    <3>1. ASSUME NEW i PROVE i \in 1..n <=> i \in 1..Len(s) \/ i = n
      BY <1>1
    <3> HIDE DEF n, r
    <3> QED BY <1>1, <2>1, <3>1
  <2>3. n \notin S
    BY <1>1
  <2> HIDE DEF S, n
  <2>4. Cardinality(S \cup {n}) = Cardinality(S) + 1
    BY <1>2, <2>3, FS_AddElement
  <2> HIDE DEF R
  <2>5. Cardinality(R) = Cardinality(S) + One(x = m)
    BY <1>2, <2>2, <2>4 DEF One
  <2> QED BY <2>5 DEF R
<1> QED BY <1>2, <1>3

\* A message that was elsewhere comes to an end.
LEMMA EndedNat == \A m : Ended(m) \in Nat
<1> SUFFICES ASSUME NEW m PROVE Ended(m) \in Nat
  OBVIOUS
<1>1. /\ One(m \in failed) \in Nat /\ One(m \in dropped) \in Nat /\ One(m \in unreported) \in Nat
      /\ One(m \in discarded) \in Nat /\ One(m \in lost) \in Nat
  BY DEF One
<1> QED BY <1>1 DEF Ended

LEMMA EndedGrows ==
    ASSUME NEW m, NEW S, One(m \in S) + Ended(m) <= 1,
           \/ failed' = failed \cup S /\ UNCHANGED <<dropped, unreported, discarded, lost>>
           \/ dropped' = dropped \cup S /\ UNCHANGED <<failed, unreported, discarded, lost>>
           \/ unreported' = unreported \cup S /\ UNCHANGED <<failed, dropped, discarded, lost>>
           \/ discarded' = discarded \cup S /\ UNCHANGED <<failed, dropped, unreported, lost>>
           \/ lost' = lost \cup S /\ UNCHANGED <<failed, dropped, unreported, discarded>>
    PROVE  Ended(m)' = Ended(m) + One(m \in S)
<1>1. CASE m \notin S
  <2>1. One(m \in S) = 0 /\ Ended(m)' = Ended(m)
    BY <1>1 DEF One, Ended
  <2> QED BY <2>1, EndedNat
<1>2. CASE m \in S
  <2>1. One(m \in S) = 1 /\ Ended(m) = 0
    <3>1. One(m \in S) = 1
      BY <1>2 DEF One
    <3> QED BY <3>1, EndedNat
  <2>2. m \notin failed /\ m \notin dropped /\ m \notin unreported /\ m \notin discarded /\ m \notin lost
    BY <2>1 DEF Ended, One
  <2>3. Ended(m)' = 1
    BY <1>2, <2>2 DEF Ended, One
  <2> QED BY <2>1, <2>3
<1> QED BY <1>1, <1>2

LEMMA EndedByOne ==
    ASSUME NEW m, NEW x, One(x = m) + Ended(m) <= 1,
           \/ failed' = failed \cup {x} /\ UNCHANGED <<dropped, unreported, discarded, lost>>
           \/ dropped' = dropped \cup {x} /\ UNCHANGED <<failed, unreported, discarded, lost>>
           \/ unreported' = unreported \cup {x} /\ UNCHANGED <<failed, dropped, discarded, lost>>
    PROVE  Ended(m)' = Ended(m) + One(x = m)
<1> DEFINE S == {x}
<1>1. One(m \in S) = One(x = m)
  BY DEF One
<1>2. \/ failed' = failed \cup S /\ UNCHANGED <<dropped, unreported, discarded, lost>>
      \/ dropped' = dropped \cup S /\ UNCHANGED <<failed, unreported, discarded, lost>>
      \/ unreported' = unreported \cup S /\ UNCHANGED <<failed, dropped, discarded, lost>>
  OBVIOUS
<1> HIDE DEF S
<1>3. One(m \in S) + Ended(m) <= 1
  BY <1>1
<1>4. Ended(m)' = Ended(m) + One(m \in S)
  BY <1>2, <1>3, EndedGrows
<1> QED BY <1>1, <1>4

\* The terms of Places are numbers.
LEMMA PlaceTerms ==
    ASSUME Types, NEW m \in Messages
    PROVE  /\ Times(m, inbox) \in Nat /\ Times(m, queue) \in Nat /\ Sent(m) \in Nat
           /\ Held(m) = One(promoting["fiber"].msg = m) + One(promoting["worker"].msg = m)
           /\ One(worker.msg = m) \in Nat /\ Ended(m) \in Nat /\ Held(m) \in Nat
<1>1. Times(m, inbox) \in Nat /\ Times(m, queue) \in Nat
  BY SpotsFinite DEF Types, InboxTypes, QueueTypes
<1>2. Sent(m) \in Nat
  BY SentCount DEF Types, HistoryTypes, Sent
<1>3. Held(m) = One(promoting["fiber"].msg = m) + One(promoting["worker"].msg = m)
  BY HeldIs DEF Types, WorkerTypes, Held
<1>4. Held(m) \in Nat /\ One(worker.msg = m) \in Nat
  BY <1>3 DEF One
<1>5. Ended(m) \in Nat
  BY EndedNat
<1> QED BY <1>1, <1>2, <1>3, <1>4, <1>5

\* Dequeuing moves the head of the queue into the drain's hands.
LEMMA DequeuePlaces ==
    ASSUME Types, NEW d \in Drainers, promoting[d] = NoItem, Dequeue(d), NEW m \in Messages
    PROVE  Times(m, queue') + Held(m)' = Times(m, queue) + Held(m)
<1>1. /\ promoting' \in [Drainers -> ItemType \cup {NoItem}]
      /\ \A e \in Drainers \ {d} : promoting'[e] = promoting[e]
      /\ Dequeued(d) \/ UNCHANGED <<queue, draining, promoting>>
  BY DequeueFacts DEF Types
<1>2. /\ Held(m) = One(promoting["fiber"].msg = m) + One(promoting["worker"].msg = m)
      /\ Times(m, queue) \in Nat
  BY PlaceTerms
<1>3. Held(m)' = One(promoting'["fiber"].msg = m) + One(promoting'["worker"].msg = m)
  BY <1>1, HeldIs DEF Held
<1>4. CASE UNCHANGED <<queue, draining, promoting>>
  BY <1>2, <1>3, <1>4
<1>5. CASE Dequeued(d)
  <2>1. Times(m, queue) = Times(m, queue') + One(promoting'[d].msg = m)
    BY <1>5, TimesPopped DEF Dequeued, Types, QueueTypes
  <2>2. Times(m, queue') \in Nat
    <3>1. queue' \in Seq(ItemType)
      BY <1>5, Popped DEF Dequeued, Types, QueueTypes
    <3> QED BY <3>1, SpotsFinite
  <2>3. One(promoting[d].msg = m) = 0
    BY FixedValues, Constants DEF One
  <2>4. CASE d = "fiber"
    <3>1. promoting'["worker"] = promoting["worker"]
      BY <1>1, <2>4 DEF Drainers
    <3> QED BY <3>1, <1>2, <1>3, <2>1, <2>2, <2>3, <2>4 DEF One
  <2>5. CASE d = "worker"
    <3>1. promoting'["fiber"] = promoting["fiber"]
      BY <1>1, <2>5 DEF Drainers
    <3> QED BY <3>1, <1>2, <1>3, <2>1, <2>2, <2>3, <2>5 DEF One
  <2> QED BY <2>4, <2>5 DEF Drainers
<1> QED BY <1>1, <1>4, <1>5

LEMMA TimesEnqueued ==
    ASSUME QueueTypes, NEW x \in ItemType, NEW m
    PROVE  Times(m, Enqueued(x)) = Times(m, queue) + One(x.msg = m)
BY TimesAppended, TimesFronted DEF QueueTypes, Enqueued

\* A drain that is over holds one message less.
LEMMA HeldLess ==
    ASSUME Types, NEW m \in Messages, NEW d \in Drainers, promoting[d] # NoItem,
           promoting' = [promoting EXCEPT ![d] = NoItem],
           worker' = IF d = "worker" THEN Idle ELSE worker
    PROVE  /\ worker'.msg = worker.msg /\ Held(m)' \in Nat
           /\ Held(m) = Held(m)' + One(promoting[d].msg = m)
<1>1. promoting' \in [Drainers -> ItemType \cup {NoItem}] /\ promoting'[d] = NoItem
      /\ \A c \in Drainers \ {d} : promoting'[c] = promoting[c]
  BY DEF Types, WorkerTypes
<1>2. Held(m)' = One(promoting'["fiber"].msg = m) + One(promoting'["worker"].msg = m)
  BY <1>1, HeldIs DEF Held
<1>3. One(promoting'[d].msg = m) = 0
  BY <1>1, Constants, FixedValues DEF One
<1>4. Held(m) = One(promoting["fiber"].msg = m) + One(promoting["worker"].msg = m)
  BY PlaceTerms
<1>5. CASE d = "fiber"
  <2>1. promoting'["worker"] = promoting["worker"]
    BY <1>1, <1>5 DEF Drainers
  <2> QED BY <2>1, <1>2, <1>3, <1>4, <1>5 DEF One
<1>6. CASE d = "worker"
  <2>1. promoting'["fiber"] = promoting["fiber"]
    BY <1>1, <1>6 DEF Drainers
  <2>2. worker.pc = "drain" /\ worker.msg = 0
    BY <1>6 DEF Types, WorkerTypes
  <2> QED BY <2>1, <2>2, <1>2, <1>3, <1>4, <1>6, FixedValues DEF One
<1> QED BY <1>5, <1>6 DEF Drainers

LEMMA PlacesStep ==
    ASSUME Types, PlacesInv, [Next]_vars
    PROVE  PlacesInv'
<1> USE DEF providerVars, historyVars
<1> SUFFICES ASSUME NEW m \in Messages
             PROVE  Places(m)' = One(m <= accepted')
  BY DEF PlacesInv
<1>a. /\ Times(m, inbox) \in Nat /\ Times(m, queue) \in Nat /\ Sent(m) \in Nat
      /\ Held(m) = One(promoting["fiber"].msg = m) + One(promoting["worker"].msg = m)
      /\ One(worker.msg = m) \in Nat /\ Ended(m) \in Nat /\ Held(m) \in Nat
  BY PlaceTerms
<1>b. Places(m) = One(m <= accepted)
  BY DEF PlacesInv
<1>c. InboxTypes /\ WorkerTypes /\ QueueTypes /\ RuntimeTypes /\ HistoryTypes
  BY DEF Types
<1>d. m # 0 /\ m \in Nat
  BY Constants
<1>e. One(0 = m) = 0
  BY <1>d DEF One
<1>1. CASE \/ UNCHANGED vars \/ StartFails \/ Announce \/ BindSession \/ EnsureSession
           \/ TakeSignal \/ SetSession \/ RuntimeExits \/ \E t \in Messages : EndTurn(t)
  <2>1. /\ worker'.msg = worker.msg
        /\ UNCHANGED <<inbox, queue, promoting, accepted, sent, failed, dropped, unreported, discarded, lost>>
    BY <1>1, <1>c DEF vars, StartFails, Announce, BindSession, EnsureSession, TakeSignal, SetSession,
                RuntimeExits, EndTurn, WorkerTypes
  <2> QED BY <2>1, <1>b DEF Places, Held, Sent, Ended
<1>2. CASE InterruptTurn \/ StopSession
  <2>1. /\ \E e \in IntentType : e.msg = 0 /\ inbox' = Append(inbox, e)
        /\ UNCHANGED <<worker, queue, promoting, accepted, sent, failed, dropped, unreported, discarded, lost>>
    <3>1. 0 \in MsgOrNone /\ session.turn \in MsgOrNone /\ "queue" \in Modes
      BY Constants, TypesFacts DEF Modes
    <3>2. PICK ty \in {"interrupt", "stop"}, t \in MsgOrNone :
             inbox' = Append(inbox, Intent(ty, 0, "queue", t))
      BY <1>2, <3>1 DEF InterruptTurn, StopSession
    <3>3. Intent(ty, 0, "queue", t) \in IntentType /\ Intent(ty, 0, "queue", t).msg = 0
      BY <3>1, IntentTyped
    <3> QED BY <1>2, <3>2, <3>3 DEF InterruptTurn, StopSession
  <2>2. Times(m, inbox') = Times(m, inbox)
    <3>1. PICK e \in IntentType : e.msg = 0 /\ inbox' = Append(inbox, e)
      BY <2>1
    <3>2. Times(m, inbox') = Times(m, inbox) + One(e.msg = m)
      BY <3>1, <1>c, TimesAppended DEF InboxTypes
    <3> QED BY <3>1, <3>2, <1>a, <1>e
  <2> QED BY <2>1, <2>2, <1>b DEF Places, Held, Sent, Ended
<1>3. CASE \E mode \in Modes : SendMessage(mode)
  <2>1. PICK mode \in Modes : SendMessage(mode)
    BY <1>3
  <2> DEFINE n == accepted + 1
             shouldQueue == Running /\ (mode = "queue" \/ provider # "codex")
             request == Intent(IF shouldQueue THEN "queued" ELSE "start", n, mode, 0)
             interrupt == Intent("interrupt", 0, mode, session.turn)
  <2>2. /\ inbox' = IF shouldQueue /\ mode = "steer"
                    THEN inbox \o <<request, interrupt>> ELSE Append(inbox, request)
        /\ accepted' = n /\ accepted < N
        /\ UNCHANGED <<worker, queue, promoting, sent, failed, dropped, unreported, discarded, lost>>
    BY <2>1 DEF SendMessage
  <2>3. n \in MsgOrNone /\ 0 \in MsgOrNone /\ session.turn \in MsgOrNone /\ accepted \in Nat
    BY <1>c, <2>2, TurnQueueAssumption, TypesFacts, Constants DEF HistoryTypes, MsgOrNone
  <2>4. request \in IntentType /\ request.msg = n /\ interrupt \in IntentType /\ interrupt.msg = 0
    <3> HIDE DEF n, shouldQueue
    <3> QED BY <2>3, IntentTyped
  <2> HIDE DEF request, interrupt
  <2>5. Times(m, Append(inbox, request)) = Times(m, inbox) + One(n = m)
        /\ Append(inbox, request) \in Seq(IntentType)
    BY <2>4, <1>c, TimesAppended, Appended DEF InboxTypes
  <2>6. Times(m, inbox') = Times(m, inbox) + One(n = m)
    <3>1. CASE shouldQueue /\ mode = "steer"
      <4>1. inbox' = Append(Append(inbox, request), interrupt)
        BY <2>2, <2>4, <3>1, <1>c, AppendedTwo DEF InboxTypes
      <4> DEFINE r == Append(inbox, request)
      <4>2. r \in Seq(IntentType) /\ inbox' = Append(r, interrupt)
            /\ Times(m, r) = Times(m, inbox) + One(n = m)
        BY <2>5, <4>1
      <4> HIDE DEF r, n
      <4>3. Times(m, inbox') = Times(m, r) + One(interrupt.msg = m)
        BY <4>2, <2>4, TimesAppended
      <4> QED BY <4>2, <4>3, <2>4, <1>e, <1>a DEF One
    <3>2. CASE ~(shouldQueue /\ mode = "steer")
      BY <2>2, <2>5, <3>2
    <3> QED BY <3>1, <3>2
  <2>7. Places(m)' = Places(m) + One(n = m)
    <3> HIDE DEF n
    <3>1. One(n = m) \in Nat
      BY DEF One
    <3>2. Held(m)' = Held(m) /\ Sent(m)' = Sent(m) /\ Ended(m)' = Ended(m)
      BY <2>2 DEF Held, Sent, Ended
    <3> QED BY SMTT(30), <2>2, <2>6, <3>1, <3>2, <1>a DEF Places
  <2> QED BY <2>2, <2>3, <2>7, <1>b, <1>d DEF One
<1>4. CASE TakeQueued
  <2>1. /\ Reads("queued") /\ queue' = Enqueued(Item(Head(inbox).msg, Head(inbox).mode))
        /\ inbox' = Tail(inbox)
        /\ UNCHANGED <<worker, promoting, accepted, sent, failed, dropped, unreported, discarded, lost>>
    BY <1>4 DEF TakeQueued
  <2>2. Item(Head(inbox).msg, Head(inbox).mode) \in ItemType
        /\ Item(Head(inbox).msg, Head(inbox).mode).msg = Head(inbox).msg
    BY <2>1, HeadFacts DEF Item, ItemType
  <2>3. Times(m, queue') = Times(m, queue) + One(Head(inbox).msg = m)
    <3> DEFINE x == Item(Head(inbox).msg, Head(inbox).mode)
    <3>1. x \in ItemType /\ queue' = Enqueued(x) /\ x.msg = Head(inbox).msg
      BY <2>1, <2>2
    <3> HIDE DEF x
    <3> QED BY <3>1, <1>c, TimesEnqueued
  <2>4. Times(m, inbox) = Times(m, inbox') + One(Head(inbox).msg = m)
    BY <2>1, <1>c, HeadFacts, TimesPopped DEF InboxTypes
  <2>5. Times(m, inbox') \in Nat /\ One(Head(inbox).msg = m) \in Nat
    BY <2>1, <1>c, HeadFacts, Popped, SpotsFinite DEF InboxTypes, One
  <2> QED BY <2>1, <2>3, <2>4, <2>5, <1>a, <1>b DEF Places, Held, Sent, Ended
<1>5. CASE TakeStart
  <2>1. /\ Reads("start") /\ inbox' = Tail(inbox) /\ worker'.msg = Head(inbox).msg
        /\ UNCHANGED <<queue, promoting, accepted, sent, failed, dropped, unreported, discarded, lost>>
    BY <1>5 DEF TakeStart
  <2>2. Times(m, inbox) = Times(m, inbox') + One(worker'.msg = m)
    BY <2>1, <1>c, HeadFacts, TimesPopped DEF InboxTypes
  <2>3. Times(m, inbox') \in Nat /\ One(worker'.msg = m) \in Nat
    BY <2>1, <1>c, HeadFacts, Popped, SpotsFinite DEF InboxTypes, One
  <2>4. One(worker.msg = m) = 0
    BY <2>1, <1>e, HeadFacts
  <2> QED BY <2>1, <2>2, <2>3, <2>4, <1>a, <1>b DEF Places, Held, Sent, Ended
<1>6. CASE TakeInterrupt
  <2>1. /\ Reads("interrupt") /\ inbox' = Tail(inbox)
        /\ UNCHANGED <<worker, queue, promoting, accepted, sent, failed, dropped, unreported, discarded, lost>>
    BY <1>6 DEF TakeInterrupt
  <2>2. Times(m, inbox) = Times(m, inbox') + One(Head(inbox).msg = m) /\ Head(inbox).msg = 0
    BY <2>1, <1>c, HeadFacts, TimesPopped DEF InboxTypes
  <2>3. Times(m, inbox') \in Nat
    BY <2>1, <1>c, HeadFacts, Popped, SpotsFinite DEF InboxTypes
  <2>4. Times(m, inbox') = Times(m, inbox)
    BY <2>2, <2>3, <1>e
  <2> QED BY <2>1, <2>4, <1>b DEF Places, Held, Sent, Ended
<1>7. CASE RecordStop
  <2>1. /\ worker.pc = "stopped" /\ worker' = Idle
        /\ UNCHANGED <<inbox, queue, promoting, accepted, sent, failed, dropped, unreported, discarded, lost>>
    BY <1>7 DEF RecordStop
  <2>2. worker.msg = 0 /\ worker'.msg = 0
    BY <2>1, <1>c, FixedValues DEF WorkerTypes
  <2> QED BY <2>1, <2>2, <1>b DEF Places, Held, Sent, Ended
<1>8. CASE SendTurn
  <2>1. /\ worker.pc = "send" /\ worker' = Idle /\ sent' = Append(sent, worker.msg)
        /\ UNCHANGED <<inbox, queue, promoting, accepted, failed, dropped, unreported, discarded, lost>>
    BY <1>8 DEF SendTurn
  <2>2. worker.msg \in Messages /\ One(worker'.msg = m) = 0
    BY <2>1, <1>c, <1>e, Constants, FixedValues DEF WorkerTypes
  <2>3. Sent(m)' = Sent(m) + One(worker.msg = m)
    <3> DEFINE x == worker.msg
    <3>1. x \in Messages /\ sent \in Seq(Messages) /\ sent' = Append(sent, x)
      BY <2>1, <2>2, <1>c DEF HistoryTypes
    <3> HIDE DEF x
    <3>2. Cardinality({i \in DOMAIN Append(sent, x) : Append(sent, x)[i] = m})
            = Cardinality({i \in DOMAIN sent : sent[i] = m}) + One(x = m)
      BY ZenonT(40), <3>1, SentCount
    <3>3. Sent(m)' = Sent(m) + One(x = m)
      BY <3>1, <3>2, Zenon DEF Sent
    <3> QED BY <3>3 DEF x
  <2>4. Held(m)' = Held(m) /\ Ended(m)' = Ended(m)
    BY <2>1 DEF Held, Ended
  <2> QED BY <2>1, <2>2, <2>3, <2>4, <1>a, <1>b DEF Places
<1>9. CASE ReportFailure
  <2>1. /\ worker.pc = "fail" /\ Dequeue("worker") /\ failed' = failed \cup {worker.msg}
        /\ worker' = IF promoting'["worker"] = NoItem THEN Idle ELSE [Idle EXCEPT !.pc = "drain"]
        /\ UNCHANGED <<inbox, accepted, sent, dropped, unreported, discarded, lost>>
    BY <1>9 DEF ReportFailure
  <2>2. worker'.msg = 0 /\ promoting["worker"] = NoItem
    BY <2>1, <1>c, FixedValues DEF WorkerTypes
  <2>3. Times(m, queue') + Held(m)' = Times(m, queue) + Held(m)
    BY <2>1, <2>2, FixedValues, DequeuePlaces
  <2>4. Ended(m)' = Ended(m) + One(worker.msg = m) /\ One(worker'.msg = m) = 0
    <3> DEFINE x == worker.msg
    <3>1. One(m <= accepted) \in {0, 1}
      BY DEF One
    <3>2. One(x = m) + Ended(m) <= 1
      BY <3>1, <1>a, <1>b DEF Places
    <3>3. failed' = failed \cup {x} /\ UNCHANGED <<dropped, unreported, discarded, lost>>
      BY <2>1
    <3> HIDE DEF x
    <3>4. Ended(m)' = Ended(m) + One(x = m)
      BY <3>2, <3>3, EndedByOne
    <3> QED BY <2>2, <1>e, <3>4 DEF x
  <2>5. Times(m, queue') \in Nat /\ Held(m)' \in Nat
    <3>1. queue' \in Seq(ItemType) /\ promoting' \in [Drainers -> ItemType \cup {NoItem}]
      BY <2>1, <1>9, <1>c, DequeueFacts, FixedValues DEF QueueTypes, ReportFailure
    <3>2. Times(m, queue') \in Nat
      BY <3>1, SpotsFinite
    <3>3. Held(m)' = One(promoting'["fiber"].msg = m) + One(promoting'["worker"].msg = m)
      BY <3>1, HeldIs DEF Held
    <3> QED BY <3>2, <3>3 DEF One
  <2>6. Sent(m)' = Sent(m)
    BY <2>1 DEF Sent
  <2> QED BY <2>1, <2>3, <2>4, <2>5, <2>6, <1>a, <1>b DEF Places
<1>10. CASE TakeTurnEnd
  <2>1. /\ promoting["fiber"] = NoItem /\ Dequeue("fiber")
        /\ UNCHANGED <<inbox, worker, accepted, sent, failed, dropped, unreported, discarded, lost>>
    BY <1>10 DEF TakeTurnEnd
  <2>2. Times(m, queue') + Held(m)' = Times(m, queue) + Held(m)
    BY <2>1, FixedValues, DequeuePlaces
  <2>3. Times(m, queue') \in Nat /\ Held(m)' \in Nat
    <3>1. queue' \in Seq(ItemType) /\ promoting' \in [Drainers -> ItemType \cup {NoItem}]
      BY <2>1, <1>10, <1>c, DequeueFacts, FixedValues DEF QueueTypes, TakeTurnEnd
    <3>2. Times(m, queue') \in Nat
      BY <3>1, SpotsFinite
    <3>3. Held(m)' = One(promoting'["fiber"].msg = m) + One(promoting'["worker"].msg = m)
      BY <3>1, HeldIs DEF Held
    <3> QED BY <3>2, <3>3 DEF One
  <2>4. Sent(m)' = Sent(m) /\ Ended(m)' = Ended(m)
    BY <2>1 DEF Sent, Ended
  <2> QED BY <2>1, <2>2, <2>3, <2>4, <1>a, <1>b DEF Places
<1>11. CASE \E d \in Drainers : Promote(d)
  <2>1. PICK d \in Drainers : Promote(d)
    BY <1>11
  <2> DEFINE item == promoting[d]  e == Intent("start", item.msg, item.mode, 0)
  <2>2. /\ item # NoItem /\ inbox' = Append(inbox, e)
        /\ promoting' = [promoting EXCEPT ![d] = NoItem]
        /\ worker' = IF d = "worker" THEN Idle ELSE worker
        /\ UNCHANGED <<queue, accepted, sent, failed, dropped, unreported, discarded, lost>>
    BY <2>1 DEF Promote
  <2>3. item \in ItemType /\ item.msg \in Messages /\ item.mode \in Modes
    BY <2>2, <1>c DEF WorkerTypes, ItemType
  <2>4. /\ worker'.msg = worker.msg /\ Held(m)' \in Nat
        /\ Held(m) = Held(m)' + One(item.msg = m)
    BY <2>2, HeldLess
  <2> HIDE DEF item
  <2>6. e \in IntentType /\ e.msg = item.msg
    <3>1. item.msg \in MsgOrNone /\ 0 \in MsgOrNone
      BY <2>3, Constants
    <3> QED BY <2>3, <3>1, IntentTyped
  <2> HIDE DEF e
  <2>7. Times(m, inbox') = Times(m, inbox) + One(item.msg = m)
    <3>1. \A x \in IntentType : Times(m, Append(inbox, x)) = Times(m, inbox) + One(x.msg = m)
      BY <1>c, TimesAppended DEF InboxTypes
    <3> QED BY <2>2, <2>6, <3>1
  <2>8. One(item.msg = m) \in Nat
    BY DEF One
  <2>9. Places(m)' = (Times(m, inbox) + One(item.msg = m)) + Times(m, queue) + Held(m)'
                       + One(worker.msg = m) + Sent(m) + Ended(m)
    BY <2>2, <2>4, <2>7 DEF Places, Sent, Ended
  <2>10. Places(m)' = Places(m)
    BY <2>4, <2>8, <2>9, <1>a DEF Places
  <2> QED BY <2>2, <2>10, <1>b
<1>12. CASE TakeStop
  <2> DEFINE gone == {queue[i].msg : i \in DOMAIN queue}
  <2>1. /\ Reads("stop") /\ queue' = <<>> /\ worker' = [Idle EXCEPT !.pc = "stopped"]
        /\ discarded' = discarded \cup gone /\ inbox' = Tail(inbox)
        /\ UNCHANGED <<promoting, accepted, sent, failed, dropped, unreported, lost>>
    BY <1>12 DEF TakeStop
  <2>2. worker'.msg = 0 /\ worker.msg = 0
    BY <2>1, HeadFacts, FixedValues
  <2>3. Times(m, inbox) = Times(m, inbox') + One(Head(inbox).msg = m) /\ Head(inbox).msg = 0
    BY <2>1, <1>c, HeadFacts, TimesPopped DEF InboxTypes
  <2>4. Times(m, inbox') \in Nat
    BY <2>1, <1>c, HeadFacts, Popped, SpotsFinite DEF InboxTypes
  <2>5. Times(m, inbox') = Times(m, inbox) /\ Times(m, queue') = 0
    BY <2>1, <2>3, <2>4, <1>e, TimesEmpty
  <2>6. Times(m, queue) = 0 <=> m \notin gone
    <3>1. Times(m, queue) = 0 <=> \A i \in 1..Len(queue) : queue[i].msg # m
      BY <1>c, SpotsFinite DEF QueueTypes
    <3>2. DOMAIN queue = 1..Len(queue)
      BY <1>c, LenProperties DEF QueueTypes
    <3> QED BY <3>1, <3>2
  <2> HIDE DEF gone
  <2>7. One(m \in gone) = Times(m, queue) /\ One(m \in gone) + Ended(m) <= 1
    <3>1. One(m <= accepted) \in {0, 1}
      BY DEF One
    <3>2. Times(m, queue) + Ended(m) <= 1
      BY <3>1, <1>a, <1>b DEF Places
    <3> QED BY SMTT(30), <2>6, <3>2, <1>a DEF One
  <2>8. Ended(m)' = Ended(m) + Times(m, queue)
    BY <2>1, <2>7, EndedGrows
  <2>9. Held(m)' = Held(m) /\ Sent(m)' = Sent(m)
    BY <2>1 DEF Held, Sent
  <2> QED BY SMTT(30), <2>1, <2>2, <2>5, <2>8, <2>9, <1>a, <1>b DEF Places
<1>13. CASE Restart
  <2>1. /\ inbox' = <<>> /\ queue' = <<>> /\ promoting' = [d \in Drainers |-> NoItem]
        /\ worker' = Idle /\ lost' = lost \cup (InFlight \ {0})
        /\ UNCHANGED <<accepted, sent, failed, dropped, unreported, discarded>>
    BY <1>13 DEF Restart
  <2>2. Times(m, inbox') = 0 /\ Times(m, queue') = 0 /\ One(worker'.msg = m) = 0
    BY <2>1, <1>e, TimesEmpty, FixedValues
  <2>3. Held(m)' = 0
    <3>1. promoting' \in [Drainers -> ItemType \cup {NoItem}]
          /\ promoting'["fiber"] = NoItem /\ promoting'["worker"] = NoItem
      BY <2>1, FixedValues
    <3>2. Held(m)' = One(promoting'["fiber"].msg = m) + One(promoting'["worker"].msg = m)
      BY <3>1, HeldIs DEF Held
    <3> QED BY <3>1, <3>2, <1>e, FixedValues
  <2>4. m \in InFlight <=> Times(m, inbox) + Times(m, queue) + Held(m) + One(worker.msg = m) # 0
    <3>1. /\ Times(m, inbox) = 0 <=> \A i \in DOMAIN inbox : inbox[i].msg # m
          /\ Times(m, queue) = 0 <=> \A i \in DOMAIN queue : queue[i].msg # m
      BY <1>c, SpotsFinite, LenProperties DEF InboxTypes, QueueTypes
    <3>2. Held(m) = 0 <=> \A d \in Drainers : promoting[d].msg # m
      BY <1>a DEF One, Drainers
    <3>3. One(worker.msg = m) = 0 <=> worker.msg # m
      BY DEF One
    <3>4. \A d \in Drainers : promoting[d].msg = m => promoting[d] # NoItem
      BY <1>d, FixedValues
    <3>5. m \in InFlight <=> \/ \E i \in DOMAIN inbox : inbox[i].msg = m
                             \/ \E i \in DOMAIN queue : queue[i].msg = m
                             \/ \E d \in Drainers : promoting[d].msg = m
                             \/ worker.msg = m
      BY <3>4 DEF InFlight
    <3>6. m \in InFlight <=> \/ Times(m, inbox) # 0 \/ Times(m, queue) # 0
                             \/ Held(m) # 0 \/ One(worker.msg = m) # 0
      BY <3>1, <3>2, <3>3, <3>5
    <3> DEFINE a == Times(m, inbox)  b == Times(m, queue)  c == Held(m)  d == One(worker.msg = m)
    <3>7. a \in Nat /\ b \in Nat /\ c \in Nat /\ d \in Nat
      BY <1>a
    <3>8. m \in InFlight <=> a # 0 \/ b # 0 \/ c # 0 \/ d # 0
      BY <3>6
    <3> HIDE DEF a, b, c, d
    <3>9. a + b + c + d # 0 <=> a # 0 \/ b # 0 \/ c # 0 \/ d # 0
      BY <3>7
    <3>10. m \in InFlight <=> a + b + c + d # 0
      BY <3>8, <3>9
    <3> QED BY <3>10 DEF a, b, c, d
  <2>5. Ended(m)' = Times(m, inbox) + Times(m, queue) + Held(m) + One(worker.msg = m) + Ended(m)
    <3> DEFINE flying == Times(m, inbox) + Times(m, queue) + Held(m) + One(worker.msg = m)
               gone == InFlight \ {0}
    <3>1. One(m <= accepted) \in {0, 1} /\ flying \in Nat
      BY <1>a DEF One
    <3>2. flying + Ended(m) <= 1
      BY <3>1, <1>a, <1>b DEF Places
    <3>3. m \in gone <=> flying # 0
      BY <2>4, <1>d
    <3>4. lost' = lost \cup gone /\ UNCHANGED <<failed, dropped, unreported, discarded>>
      BY <2>1
    <3> HIDE DEF flying, gone
    <3>5. One(m \in gone) = flying
      BY <3>1, <3>2, <3>3, <1>a DEF One
    <3>6. Ended(m)' = Ended(m) + flying
      BY <3>2, <3>4, <3>5, <1>a, <3>1, EndedGrows
    <3>7. Ended(m)' = flying + Ended(m)
      BY <3>1, <3>6, <1>a
    <3> QED BY <3>7 DEF flying
  <2>6. Sent(m)' = Sent(m)
    BY <2>1 DEF Sent
  <2> QED BY <2>1, <2>2, <2>3, <2>5, <2>6, <1>a, <1>b DEF Places
<1>14. CASE RefuseStart
  <2> DEFINE x == Head(inbox).msg
  <2>1. /\ Reads("start") /\ inbox' = Tail(inbox) /\ failed' = failed \cup {x}
        /\ UNCHANGED <<worker, queue, promoting, accepted, sent, dropped, unreported, discarded,
                       lost>>
    BY <1>14 DEF RefuseStart
  <2>2. Times(m, inbox) = Times(m, inbox') + One(x = m)
    BY <2>1, <1>c, HeadFacts, TimesPopped DEF InboxTypes
  <2>3. Times(m, inbox') \in Nat /\ One(x = m) \in Nat
    BY <2>1, <1>c, HeadFacts, Popped, SpotsFinite DEF InboxTypes, One
  <2> HIDE DEF x
  <2>4. Ended(m)' = Ended(m) + One(x = m)
    <3>1. One(m <= accepted) \in {0, 1}
      BY DEF One
    <3>2. One(x = m) + Ended(m) <= 1
      BY <3>1, <2>2, <2>3, <1>a, <1>b DEF Places
    <3>3. failed' = failed \cup {x} /\ UNCHANGED <<dropped, unreported, discarded, lost>>
      BY <2>1
    <3> QED BY <3>2, <3>3, EndedByOne
  <2>5. Held(m)' = Held(m) /\ Sent(m)' = Sent(m)
    BY <2>1 DEF Held, Sent
  <2> QED BY SMTT(30), <2>1, <2>2, <2>3, <2>4, <2>5, <1>a, <1>b DEF Places
<1>15. CASE AnnounceFails \/ ReportFails
  <2> DEFINE x == worker.msg
  <2>1. /\ worker' = Idle
        /\ \/ dropped' = dropped \cup {x} /\ unreported' = unreported
           \/ unreported' = unreported \cup {x} /\ dropped' = dropped
        /\ UNCHANGED <<inbox, queue, promoting, accepted, sent, failed, discarded, lost>>
    BY <1>15 DEF AnnounceFails, ReportFails
  <2>2. One(worker'.msg = m) = 0
    BY <2>1, <1>e, FixedValues
  <2>3. One(x = m) + Ended(m) <= 1
    <3>1. One(m <= accepted) \in {0, 1}
      BY DEF One
    <3> QED BY <3>1, <1>a, <1>b DEF Places
  <2>4. Places(m) = Times(m, inbox) + Times(m, queue) + Held(m) + One(x = m) + Sent(m) + Ended(m)
    BY DEF Places
  <2>5. One(x = m) \in Nat
    BY DEF One
  <2> HIDE DEF x
  <2>6. Ended(m)' = Ended(m) + One(x = m)
    BY <2>1, <2>3, EndedByOne
  <2>7. Held(m)' = Held(m) /\ Sent(m)' = Sent(m)
    BY <2>1 DEF Held, Sent
  <2>8. Places(m)' = Places(m)
    BY <2>1, <2>2, <2>4, <2>5, <2>6, <2>7, <1>a DEF Places
  <2> QED BY <2>1, <2>8, <1>b
<1>16. CASE \E d \in Drainers : PromoteFails(d)
  <2>1. PICK d \in Drainers : PromoteFails(d)
    BY <1>16
  <2> DEFINE x == promoting[d].msg
  <2>2. /\ promoting[d] # NoItem /\ dropped' = dropped \cup {x}
        /\ promoting' = [promoting EXCEPT ![d] = NoItem]
        /\ worker' = IF d = "worker" THEN Idle ELSE worker
        /\ UNCHANGED <<inbox, queue, accepted, sent, failed, unreported, discarded, lost>>
    BY <2>1 DEF PromoteFails
  <2>3. /\ worker'.msg = worker.msg /\ Held(m)' \in Nat
        /\ Held(m) = Held(m)' + One(x = m)
    BY <2>2, HeldLess
  <2> HIDE DEF x
  <2>4. Ended(m)' = Ended(m) + One(x = m)
    <3>1. One(m <= accepted) \in {0, 1} /\ One(x = m) \in Nat
      BY DEF One
    <3>2. One(x = m) + Ended(m) <= 1
      BY <3>1, <2>3, <1>a, <1>b DEF Places
    <3> QED BY <2>2, <3>2, EndedByOne
  <2>5. One(x = m) \in Nat /\ Sent(m)' = Sent(m)
    BY <2>2 DEF One, Sent
  <2>6. Places(m)' = Places(m)
    BY <2>2, <2>3, <2>4, <2>5, <1>a DEF Places
  <2> QED BY <2>2, <2>6, <1>b
<1> QED BY <1>1, <1>2, <1>3, <1>4, <1>5, <1>6, <1>7, <1>8, <1>9, <1>10, <1>11, <1>12, <1>13,
           <1>14, <1>15, <1>16 DEF Next, Reactor

-----------------------------------------------------------------------------
(* The waiting messages keep their order.                                  *)

LEMMA MsgsEmpty == \A P : Msgs(<<>>, P) = {} /\ Ascends(<<>>, P)
<1>1. Len(<<>>) = 0
  BY EmptySeq
<1> QED BY <1>1 DEF Msgs, Ascends

\* A new last element; the longer sequence has a name.
LEMMA MsgsGrown ==
    ASSUME NEW T, NEW s \in Seq(T), NEW P, NEW x \in T, NEW r, r = Append(s, x)
    PROVE  /\ \A y : y \in Msgs(r, P) <=> y \in Msgs(s, P) \/ (x \in P /\ y = x.msg)
           /\ Ascends(s, P) /\ (x \in P => Below(Msgs(s, P), {x.msg})) => Ascends(r, P)
<1> DEFINE n == Len(s) + 1
<1>1. /\ r \in Seq(T) /\ Len(s) \in Nat /\ Len(r) = n /\ r[n] = x
      /\ \A i \in 1..Len(s) : r[i] = s[i]
  BY Appended
<1>2. \A i : i \in 1..n <=> i \in 1..Len(s) \/ i = n
  BY <1>1
<1>3. ASSUME NEW y PROVE y \in Msgs(r, P) <=> y \in Msgs(s, P) \/ (x \in P /\ y = x.msg)
  <2>1. y \in Msgs(r, P) <=> \E i \in 1..n : r[i] \in P /\ r[i].msg = y
    BY <1>1 DEF Msgs
  <2>2. y \in Msgs(s, P) <=> \E i \in 1..Len(s) : s[i] \in P /\ s[i].msg = y
    BY DEF Msgs
  <2>3. ASSUME NEW i \in 1..n, r[i] \in P /\ r[i].msg = y
        PROVE  y \in Msgs(s, P) \/ (x \in P /\ y = x.msg)
    <3>1. CASE i \in 1..Len(s)
      BY <3>1, <2>2, <2>3, <1>1
    <3>2. CASE i = n
      BY <3>2, <2>3, <1>1
    <3> QED BY <3>1, <3>2, <1>2
  <2>4. ASSUME NEW i \in 1..Len(s), s[i] \in P /\ s[i].msg = y PROVE y \in Msgs(r, P)
    <3>1. i \in 1..n /\ r[i] = s[i]
      BY <1>1
    <3> QED BY <2>1, <2>4, <3>1
  <2>5. x \in P => x.msg \in Msgs(r, P)
    <3>1. n \in 1..n
      BY <1>1
    <3> QED BY <3>1, <1>1 DEF Msgs
  <2> QED BY <2>1, <2>2, <2>3, <2>4, <2>5
<1>4. ASSUME Ascends(s, P), x \in P => Below(Msgs(s, P), {x.msg}),
             NEW i \in 1..n, NEW k \in 1..n, i < k, r[i] \in P, r[k] \in P
      PROVE  r[i].msg < r[k].msg
  <2>1. i \in 1..Len(s) /\ r[i] = s[i]
    BY <1>1, <1>4
  <2>2. CASE k \in 1..Len(s)
    <3>1. r[k] = s[k]
      BY <2>2, <1>1
    <3> QED BY <2>1, <2>2, <3>1, <1>4 DEF Ascends
  <2>3. CASE k = n
    <3>1. r[k] = x /\ r[i].msg \in Msgs(s, P)
      BY <2>1, <2>3, <1>1, <1>4 DEF Msgs
    <3> QED BY <3>1, <1>4 DEF Below
  <2> QED BY <2>2, <2>3, <1>2
<1>5. ASSUME Ascends(s, P), x \in P => Below(Msgs(s, P), {x.msg}) PROVE Ascends(r, P)
  BY <1>1, <1>4, <1>5 DEF Ascends
<1> QED BY <1>3, <1>5

LEMMA MsgsPopped ==
    ASSUME NEW T, NEW s \in Seq(T), NEW P, s # <<>>, Ascends(s, P)
    PROVE  /\ Msgs(Tail(s), P) \subseteq Msgs(s, P) /\ Ascends(Tail(s), P)
           /\ Head(s) \in P => /\ Head(s).msg \in Msgs(s, P)
                               /\ Below({Head(s).msg}, Msgs(Tail(s), P))
<1> DEFINE r == Tail(s)
<1>1. /\ Head(s) = s[1] /\ Len(s) \in Nat /\ Len(s) # 0 /\ Len(r) = Len(s) - 1
      /\ \A i \in 1..Len(r) : r[i] = s[i + 1] /\ i + 1 \in 1..Len(s)
  BY Popped
<1> HIDE DEF r
<1>2. 1 \in 1..Len(s)
  BY <1>1
<1>3. ASSUME NEW y \in Msgs(r, P)
      PROVE  y \in Msgs(s, P) /\ (s[1] \in P => s[1].msg < y)
  <2>1. PICK i \in 1..Len(r) : r[i] \in P /\ r[i].msg = y
    BY <1>3 DEF Msgs
  <2>2. i + 1 \in 1..Len(s) /\ s[i + 1] \in P /\ s[i + 1].msg = y /\ 1 < i + 1
    BY <2>1, <1>1
  <2> QED BY <2>2, <1>2 DEF Msgs, Ascends
<1>4. ASSUME NEW i \in 1..Len(r), NEW k \in 1..Len(r), i < k, r[i] \in P, r[k] \in P
      PROVE  r[i].msg < r[k].msg
  <2>1. i + 1 \in 1..Len(s) /\ k + 1 \in 1..Len(s) /\ i + 1 < k + 1
        /\ r[i] = s[i + 1] /\ r[k] = s[k + 1]
    BY <1>1, <1>4
  <2>2. s[i + 1].msg < s[k + 1].msg
    BY <2>1, <1>4 DEF Ascends
  <2> QED BY <2>1, <2>2
<1>5. Ascends(r, P)
  BY <1>4 DEF Ascends
<1>6. Head(s) \in P => Head(s).msg \in Msgs(s, P)
  BY <1>1, <1>2 DEF Msgs
<1>7. Head(s) \in P => Below({Head(s).msg}, Msgs(r, P))
  BY <1>1, <1>3 DEF Below
<1>8. Msgs(r, P) \subseteq Msgs(s, P)
  BY <1>3
<1> QED BY <1>5, <1>6, <1>7, <1>8 DEF r

\* An element outside P may be put in front.
LEMMA MsgsFronted ==
    ASSUME NEW T, NEW s \in Seq(T), NEW P, NEW x \in T, x \notin P
    PROVE  /\ Msgs(<<x>> \o s, P) \subseteq Msgs(s, P)
           /\ Ascends(s, P) => Ascends(<<x>> \o s, P)
<1> DEFINE r == <<x>> \o s
<1>1. /\ Len(s) \in Nat /\ Len(r) = Len(s) + 1 /\ r[1] = x
      /\ \A i \in 1..Len(s) : r[i + 1] = s[i]
  BY Fronted
<1> HIDE DEF r
<1>2. ASSUME NEW i \in 1..Len(r), r[i] \in P PROVE i - 1 \in 1..Len(s) /\ r[i] = s[i - 1]
  <2>1. i # 1
    BY <1>1, <1>2
  <2>2. i - 1 \in 1..Len(s) /\ i = (i - 1) + 1
    BY <2>1, <1>1
  <2>3. r[(i - 1) + 1] = s[i - 1]
    BY <2>2, <1>1
  <2> QED BY <2>2, <2>3
<1>3. ASSUME NEW y \in Msgs(r, P) PROVE y \in Msgs(s, P)
  <2>1. PICK i \in 1..Len(r) : r[i] \in P /\ r[i].msg = y
    BY <1>3 DEF Msgs
  <2> QED BY <2>1, <1>2 DEF Msgs
<1>4. ASSUME Ascends(s, P), NEW i \in 1..Len(r), NEW k \in 1..Len(r), i < k, r[i] \in P, r[k] \in P
      PROVE  r[i].msg < r[k].msg
  <2>1. /\ i - 1 \in 1..Len(s) /\ r[i] = s[i - 1]
        /\ k - 1 \in 1..Len(s) /\ r[k] = s[k - 1] /\ i - 1 < k - 1
    BY <1>2, <1>4
  <2>2. s[i - 1].msg < s[k - 1].msg
    BY <2>1, <1>4 DEF Ascends
  <2> QED BY <2>1, <2>2
<1>5. Ascends(s, P) => Ascends(r, P)
  BY <1>4 DEF Ascends
<1>6. Msgs(r, P) \subseteq Msgs(s, P)
  BY <1>3
<1> QED BY <1>5, <1>6 DEF r

\* No message is on its way that is not accepted.
LEMMA WaitingAccepted ==
    ASSUME Types, PlacesInv
    PROVE  \A x \in Coming \cup Queued \cup Carried : x \in Nat /\ x <= accepted
<1>1. ASSUME NEW m \in Messages, Times(m, inbox) # 0 \/ Times(m, queue) # 0 \/ Held(m) # 0
      PROVE  m <= accepted
  <2>1. Places(m) # 0
    <3> DEFINE a == Times(m, inbox)  b == Times(m, queue)  c == Held(m)
               d == One(worker.msg = m)  e == Sent(m)
               f == Ended(m)
    <3>1. /\ a \in Nat /\ b \in Nat /\ c \in Nat /\ d \in Nat /\ e \in Nat /\ f \in Nat
          /\ (a # 0 \/ b # 0 \/ c # 0)
      BY <1>1, PlaceTerms
    <3>2. Places(m) = a + b + c + d + e + f
      BY DEF Places
    <3> HIDE DEF a, b, c, d, e, f
    <3>3. a + b + c + d + e + f # 0
      BY <3>1
    <3> QED BY <3>2, <3>3
  <2> QED BY <2>1 DEF PlacesInv, One
<1>2. ASSUME NEW x \in Coming PROVE x \in Nat /\ x <= accepted
  <2>1. PICK i \in 1..Len(inbox) : inbox[i] \in WaitingIntents /\ inbox[i].msg = x
    BY <1>2 DEF Coming, Msgs
  <2>2. Fits(inbox[i])
    BY <2>1 DEF Types, InboxTypes
  <2>3. x \in Messages
    BY <2>1, <2>2 DEF Fits, WaitingIntents
  <2>4. Times(x, inbox) # 0
    BY <2>1, SpotsFinite DEF Types, InboxTypes
  <2> QED BY <2>3, <2>4, <1>1, Constants
<1>3. ASSUME NEW x \in Queued PROVE x \in Nat /\ x <= accepted
  <2>1. PICK i \in 1..Len(queue) : queue[i] \in WaitingItems /\ queue[i].msg = x
    BY <1>3 DEF Queued, Msgs
  <2>2. x \in Messages
    BY <2>1 DEF WaitingItems, ItemType
  <2>3. Times(x, queue) # 0
    BY <2>1, SpotsFinite DEF Types, QueueTypes
  <2> QED BY <2>2, <2>3, <1>1, Constants
<1>4. ASSUME NEW x \in Carried PROVE x \in Nat /\ x <= accepted
  <2>1. PICK d \in Drainers : promoting[d] \in WaitingItems /\ promoting[d].msg = x
    BY <1>4 DEF Carried
  <2>2. x \in Messages
    BY <2>1 DEF WaitingItems, ItemType
  <2>3. Held(x) # 0
    <3>1. Held(x) = One(promoting["fiber"].msg = x) + One(promoting["worker"].msg = x)
      BY <2>2, PlaceTerms
    <3>2. promoting["fiber"].msg = x \/ promoting["worker"].msg = x
      BY <2>1 DEF Drainers
    <3> QED BY <3>1, <3>2 DEF One
  <2> QED BY <2>2, <2>3, <1>1, Constants
<1> QED BY <1>2, <1>3, <1>4

LEMMA BelowSubsets ==
    ASSUME NEW S, NEW T, NEW Q, NEW R, Below(S, T), Q \subseteq S, R \subseteq T
    PROVE  Below(Q, R)
BY DEF Below

LEMMA BelowWithOne ==
    ASSUME NEW S, NEW T, NEW Q, NEW z, Below(S, T), Below(Q, T), z \in Q
    PROVE  Below(S \cup {z}, T)
BY DEF Below

\* What a drain holds once it has dequeued x.
LEMMA CarriedAfterDequeue ==
    ASSUME WorkerTypes, NEW d \in Drainers, NEW x \in ItemType, promoting[d] = NoItem,
           promoting'[d] = x, \A e \in Drainers \ {d} : promoting'[e] = promoting[e]
    PROVE  Carried' = Carried \cup (IF x \in WaitingItems THEN {x.msg} ELSE {})
<1>1. NoItem \notin WaitingItems
  BY FixedValues DEF WaitingItems
<1>2. \A e \in Drainers : promoting'[e] \in WaitingItems
         <=> promoting[e] \in WaitingItems \/ (e = d /\ x \in WaitingItems)
  BY <1>1
<1>3. ASSUME NEW y PROVE y \in Carried' <=> y \in Carried \/ (x \in WaitingItems /\ y = x.msg)
  BY <1>1, <1>2 DEF Carried
<1> QED BY <1>3

LEMMA DequeueOrder ==
    ASSUME Types, OrderInv, NEW d \in Drainers, promoting[d] = NoItem, Dequeue(d),
           UNCHANGED <<inbox, promoted, accepted, escaped>>
    PROVE  OrderInv'
<1> DEFINE x == Head(queue)  new == IF x \in WaitingItems THEN {x.msg} ELSE {}
<1>1. /\ Dequeued(d) \/ UNCHANGED <<queue, draining, promoting>>
      /\ Dequeued(d) => x \in ItemType /\ x # NoItem
  BY DequeueFacts DEF Types
<1>2. CASE UNCHANGED <<queue, draining, promoting>>
  BY <1>2 DEF OrderInv, OnePromotion, Coming, Queued, Carried, Done
<1>3. CASE Dequeued(d)
  <2>1. /\ ~draining /\ queue # <<>> /\ draining' = TRUE /\ promoting'[d] = x
        /\ \A e \in Drainers \ {d} : promoting'[e] = promoting[e]
        /\ queue' = Tail(queue) /\ x \in ItemType /\ queue \in Seq(ItemType) /\ WorkerTypes
    BY <1>1, <1>3 DEF Dequeued, Types, QueueTypes
  <2>2. /\ Queued' \subseteq Queued /\ Ascends(queue', WaitingItems)
        /\ x \in WaitingItems => x.msg \in Queued /\ Below({x.msg}, Queued')
    BY <2>1, MsgsPopped DEF Queued, OrderInv
  <2>3. Carried' = Carried \cup new
    BY <2>1, CarriedAfterDequeue
  <2>4. Coming' = Coming /\ Done' = Done
    BY DEF Coming, Done
  <2>5. new \subseteq Queued /\ Below(new, Queued')
    BY <2>2 DEF Below
  <2> HIDE DEF new, x
  <2>6. Below(Queued', Coming') /\ Below(Carried', Queued') /\ Below(Carried', Coming')
    BY <2>2, <2>3, <2>4, <2>5 DEF Below, OrderInv
  <2>7. ASSUME ~escaped' PROVE OnePromotion'
    <3>1. \A e \in Drainers : promoting[e] = NoItem
      BY <2>1, <2>7 DEF OrderInv, OnePromotion
    <3> QED BY <2>1, <3>1 DEF OnePromotion
  <2>8. ASSUME ~escaped' PROVE Below(Done', Carried') /\ Below(Done', Queued') /\ Below(Done', Coming')
    BY <2>2, <2>3, <2>4, <2>5, <2>8 DEF Below, OrderInv
  <2> QED BY <2>2, <2>4, <2>6, <2>7, <2>8 DEF OrderInv
<1> QED BY <1>1, <1>2, <1>3

\* An event that is no waiting message leaves those that are on their way alone.
LEMMA ComingAppended ==
    ASSUME InboxTypes, NEW e \in IntentType, e \notin WaitingIntents, inbox' = Append(inbox, e)
    PROVE  /\ Coming' = Coming
           /\ Ascends(inbox, WaitingIntents) => Ascends(inbox', WaitingIntents)
<1>1. inbox \in Seq(IntentType)
  BY DEF InboxTypes
<1>2. \A y : y \in Msgs(inbox', WaitingIntents) <=> y \in Msgs(inbox, WaitingIntents)
  BY <1>1, MsgsGrown
<1>3. Ascends(inbox, WaitingIntents) => Ascends(inbox', WaitingIntents)
  BY <1>1, MsgsGrown
<1>4. Msgs(inbox', WaitingIntents) = Msgs(inbox, WaitingIntents)
  BY <1>2
<1> QED BY <1>3, <1>4 DEF Coming

LEMMA ComingPopped ==
    ASSUME InboxTypes, inbox # <<>>, inbox' = Tail(inbox), Ascends(inbox, WaitingIntents)
    PROVE  /\ Coming' \subseteq Coming /\ Ascends(inbox', WaitingIntents)
           /\ Head(inbox) \in WaitingIntents => /\ Head(inbox).msg \in Coming
                                                /\ Below({Head(inbox).msg}, Coming')
BY MsgsPopped DEF InboxTypes, Coming

LEMMA SendMessageOrder ==
    ASSUME Types, PlacesInv, OrderInv, NEW mode \in Modes, SendMessage(mode)
    PROVE  OrderInv'
<1> DEFINE n == accepted + 1
           shouldQueue == Running /\ (mode = "queue" \/ provider # "codex")
           request == Intent(IF shouldQueue THEN "queued" ELSE "start", n, mode, 0)
           interrupt == Intent("interrupt", 0, mode, session.turn)
<1>1. /\ inbox' = IF shouldQueue /\ mode = "steer"
                  THEN inbox \o <<request, interrupt>> ELSE Append(inbox, request)
      /\ accepted' = n /\ accepted < N
      /\ UNCHANGED <<queue, draining, promoting, promoted, escaped>>
  BY DEF SendMessage
<1>2. n \in MsgOrNone /\ 0 \in MsgOrNone /\ session.turn \in MsgOrNone /\ accepted \in Nat
  BY <1>1, TurnQueueAssumption, TypesFacts, Constants DEF Types, HistoryTypes, MsgOrNone
<1>3. /\ request \in IntentType /\ request.msg = n /\ request.mode = mode
      /\ interrupt \in IntentType /\ interrupt.type = "interrupt"
  <2> HIDE DEF n, shouldQueue
  <2> QED BY <1>2, IntentTyped
<1>4. inbox \in Seq(IntentType) /\ Ascends(inbox, WaitingIntents)
  BY DEF Types, InboxTypes, OrderInv
<1>5. \A x \in Coming \cup Queued \cup Carried : x \in Nat /\ x < n
  BY <1>2, WaitingAccepted
<1>6. \A x \in Done : x < n
  <2>1. \A x \in Done : x \in Nat
    <3>1. \A i \in 1..Len(promoted) : promoted[i] \in WaitingItems => promoted[i].msg \in Nat
      BY Constants DEF WaitingItems, ItemType
    <3> QED BY <3>1 DEF Done, Msgs
  <2> QED BY <2>1, <1>2 DEF OrderInv
<1>7. Below(Coming, {request.msg})
  BY <1>3, <1>5 DEF Below
<1>8. interrupt \notin WaitingIntents
  BY <1>3 DEF WaitingIntents
<1>9. \A x \in Done : x <= n
  <2>1. \A x \in Done : x <= accepted
    BY DEF OrderInv
  <2>2. \A i \in 1..Len(promoted) : promoted[i] \in WaitingItems => promoted[i].msg \in Nat
    BY Constants DEF WaitingItems, ItemType
  <2>3. \A x \in Done : x \in Nat
    BY <2>2 DEF Done, Msgs
  <2> QED BY <2>1, <2>3, <1>2
<1> HIDE DEF n, request, interrupt
<1>10. /\ Append(inbox, request) \in Seq(IntentType)
       /\ Ascends(Append(inbox, request), WaitingIntents)
       /\ Msgs(Append(inbox, request), WaitingIntents) \subseteq Coming \cup {n}
  <2>1. Append(inbox, request) \in Seq(IntentType)
    BY <1>3, <1>4, Appended
  <2>2. Ascends(Append(inbox, request), WaitingIntents)
    BY <1>3, <1>4, <1>7, MsgsGrown DEF Coming
  <2>3. Msgs(Append(inbox, request), WaitingIntents) \subseteq Coming \cup {n}
    <3>1. \A y : y \in Msgs(Append(inbox, request), WaitingIntents)
                    => y \in Coming \/ y = request.msg
      BY ZenonT(40), <1>3, <1>4, MsgsGrown DEF Coming
    <3> QED BY <3>1, <1>3
  <2> QED BY <2>1, <2>2, <2>3
<1>11. Ascends(inbox', WaitingIntents) /\ Coming' \subseteq Coming \cup {n}
  <2>1. CASE shouldQueue /\ mode = "steer"
    <3> DEFINE r == Append(inbox, request)
    <3>1. inbox' = Append(r, interrupt)
      BY <1>1, <1>3, <1>4, <2>1, AppendedTwo
    <3>2. r \in Seq(IntentType) /\ Ascends(r, WaitingIntents) /\ Msgs(r, WaitingIntents) \subseteq Coming \cup {n}
      BY <1>10
    <3> HIDE DEF r
    <3>3. Ascends(inbox', WaitingIntents)
      BY <3>1, <3>2, <1>3, <1>8, MsgsGrown
    <3>4. \A y : y \in Msgs(inbox', WaitingIntents) <=> y \in Msgs(r, WaitingIntents)
      BY <3>1, <3>2, <1>3, <1>8, MsgsGrown
    <3>5. Msgs(inbox', WaitingIntents) \subseteq Coming \cup {n}
      BY <3>2, <3>4
    <3> QED BY <3>3, <3>5 DEF Coming
  <2>2. CASE ~(shouldQueue /\ mode = "steer")
    BY <1>1, <1>10, <2>2 DEF Coming
  <2> QED BY <2>1, <2>2
<1>12. Queued' = Queued /\ Carried' = Carried /\ Done' = Done
  BY <1>1 DEF Queued, Carried, Done
<1>13. Below(Queued', Coming') /\ Below(Carried', Coming') /\ (~escaped' => Below(Done', Coming'))
  BY <1>1, <1>5, <1>6, <1>11, <1>12 DEF Below, OrderInv
<1> QED BY <1>1, <1>9, <1>11, <1>12, <1>13 DEF OrderInv, OnePromotion

LEMMA TakeQueuedOrder ==
    ASSUME Types, OrderInv, TakeQueued
    PROVE  OrderInv'
<1> USE DEF providerVars, historyVars
<1> DEFINE x == Item(Head(inbox).msg, Head(inbox).mode)
           new == IF x \in WaitingItems THEN {x.msg} ELSE {}
<1>1. /\ Reads("queued") /\ queue' = Enqueued(x) /\ inbox' = Tail(inbox)
      /\ UNCHANGED <<draining, promoting, promoted, escaped, accepted>>
  BY DEF TakeQueued
<1>2. /\ inbox # <<>> /\ Head(inbox) \in IntentType /\ Head(inbox).type = "queued"
      /\ Head(inbox).msg \in Messages /\ Head(inbox).mode \in Modes
  BY <1>1, HeadFacts
<1>3. x \in ItemType /\ x.msg = Head(inbox).msg /\ x.mode = Head(inbox).mode
  BY <1>2 DEF Item, ItemType
<1>4. x \in WaitingItems <=> Head(inbox) \in WaitingIntents
  BY <1>2, <1>3 DEF WaitingItems, WaitingIntents
<1>5. /\ Coming' \subseteq Coming /\ Ascends(inbox', WaitingIntents)
      /\ Head(inbox) \in WaitingIntents => /\ Head(inbox).msg \in Coming
                                           /\ Below({Head(inbox).msg}, Coming')
  BY <1>1, <1>2, ComingPopped DEF Types, OrderInv
<1>6. new \subseteq Coming /\ Below(new, Coming')
  BY <1>3, <1>4, <1>5 DEF Below
<1>7. queue \in Seq(ItemType) /\ Ascends(queue, WaitingItems) /\ Below(Queued, Coming)
  BY DEF Types, QueueTypes, OrderInv
<1>8. Queued' \subseteq Queued \cup new /\ Ascends(queue', WaitingItems)
  <2> HIDE DEF x
  <2>1. CASE x.mode = "steer"
    <3>1. queue' = <<x>> \o queue /\ x \notin WaitingItems
      BY <2>1, <1>1 DEF Enqueued, WaitingItems
    <3>2. Msgs(<<x>> \o queue, WaitingItems) \subseteq Msgs(queue, WaitingItems)
          /\ Ascends(<<x>> \o queue, WaitingItems)
      BY <3>1, <1>3, <1>7, MsgsFronted
    <3> QED BY <3>1, <3>2 DEF Queued
  <2>2. CASE x.mode # "steer"
    <3>1. queue' = Append(queue, x)
      BY <2>2, <1>1 DEF Enqueued
    <3>2. x \in WaitingItems => Below(Msgs(queue, WaitingItems), {x.msg})
      BY <1>6, <1>7 DEF Queued, Below
    <3>3. Ascends(queue', WaitingItems)
      BY <3>1, <3>2, <1>3, <1>7, MsgsGrown
    <3>4. \A y : y \in Msgs(queue', WaitingItems)
                    <=> y \in Msgs(queue, WaitingItems) \/ (x \in WaitingItems /\ y = x.msg)
      BY ZenonT(40), <3>1, <1>3, <1>7, MsgsGrown
    <3>5. Msgs(queue', WaitingItems) \subseteq Msgs(queue, WaitingItems) \cup new
      BY <3>4
    <3> QED BY <3>3, <3>5 DEF Queued
  <2> QED BY <2>1, <2>2
<1>9. Carried' = Carried /\ Done' = Done
  BY <1>1 DEF Carried, Done
<1> HIDE DEF new, x
<1>10. Below(Queued', Coming') /\ Below(Carried', Queued') /\ Below(Carried', Coming')
  BY <1>5, <1>6, <1>7, <1>8, <1>9 DEF Below, OrderInv
<1>11. ASSUME ~escaped' PROVE Below(Done', Carried') /\ Below(Done', Queued') /\ Below(Done', Coming')
  BY <1>1, <1>5, <1>6, <1>8, <1>9, <1>11 DEF Below, OrderInv
<1> QED BY <1>1, <1>5, <1>8, <1>9, <1>10, <1>11 DEF OrderInv, OnePromotion

LEMMA PromoteOrder ==
    ASSUME Types, PlacesInv, OrderInv, NEW d \in Drainers, Promote(d)
    PROVE  OrderInv'
<1> USE DEF providerVars
<1> DEFINE x == promoting[d]  e == Intent("start", x.msg, x.mode, 0)
           new == IF x \in WaitingItems THEN {x.msg} ELSE {}
<1>1. /\ x # NoItem /\ inbox' = Append(inbox, e) /\ promoted' = Append(promoted, x)
      /\ promoting' = [promoting EXCEPT ![d] = NoItem] /\ draining' = FALSE
      /\ UNCHANGED <<queue, accepted, escaped>>
  BY DEF Promote
<1>2. x \in ItemType /\ x.msg \in Messages /\ x.mode \in Modes
  BY <1>1 DEF Types, WorkerTypes, ItemType
<1>3. e \in IntentType /\ e \notin WaitingIntents
  <2> HIDE DEF x
  <2>1. x.msg \in MsgOrNone /\ 0 \in MsgOrNone
    BY <1>2, Constants
  <2>2. e \in IntentType /\ e.type = "start"
    BY <1>2, <2>1, IntentTyped
  <2> QED BY <2>2 DEF WaitingIntents
<1>4. Coming' = Coming /\ Ascends(inbox', WaitingIntents)
  <2> HIDE DEF e
  <2> QED BY <1>1, <1>3, ComingAppended DEF Types, OrderInv
<1>5. /\ \A c \in Drainers : c # d => promoting'[c] = promoting[c]
      /\ promoting'[d] = NoItem /\ NoItem \notin WaitingItems
  BY <1>1, FixedValues DEF Types, WorkerTypes, WaitingItems
<1>6. Carried' \subseteq Carried /\ new \subseteq Carried
  BY <1>5 DEF Carried
<1>7. /\ Done' = Done \cup new
      /\ Ascends(promoted, WaitingItems) /\ Below(Done, new) => Ascends(promoted', WaitingItems)
  <2>1. promoted \in Seq(ItemType)
    BY DEF Types, QueueTypes
  <2> HIDE DEF x
  <2>2. \A y : y \in Msgs(promoted', WaitingItems)
                  <=> y \in Msgs(promoted, WaitingItems) \/ (x \in WaitingItems /\ y = x.msg)
    BY <1>1, <1>2, <2>1, MsgsGrown
  <2>3. Msgs(promoted', WaitingItems) = Msgs(promoted, WaitingItems) \cup new
    BY <2>2
  <2>4. Ascends(promoted, WaitingItems)
          /\ (x \in WaitingItems => Below(Msgs(promoted, WaitingItems), {x.msg}))
            => Ascends(promoted', WaitingItems)
    BY <1>1, <1>2, <2>1, MsgsGrown
  <2>5. Below(Done, new) => (x \in WaitingItems => Below(Msgs(promoted, WaitingItems), {x.msg}))
    BY DEF Done
  <2> HIDE DEF new
  <2> QED BY <2>3, <2>4, <2>5 DEF Done
<1>8. Queued' = Queued
  BY <1>1 DEF Queued
<1>9. \A y \in Done' : y <= accepted'
  <2>1. \A y \in new : y <= accepted
    <3> HIDE DEF new
    <3> QED BY <1>6, WaitingAccepted
  <2> HIDE DEF new
  <2> QED BY <1>1, <1>7, <2>1 DEF OrderInv
<1>10. ASSUME ~escaped
       PROVE  /\ OnePromotion' /\ Carried' = {}
              /\ Below(Done, new) /\ Below(new, Queued) /\ Below(new, Coming)
  <2>1. OnePromotion
    BY <1>10 DEF OrderInv
  <2>2. \A c \in Drainers : promoting'[c] = NoItem
    BY <2>1, <1>1, <1>5 DEF OnePromotion
  <2>3. OnePromotion'
    BY <2>2 DEF OnePromotion
  <2>4. Carried' = {}
    BY <2>2, <1>5 DEF Carried
  <2> HIDE DEF new
  <2>5. Below(Done, new) /\ Below(new, Queued) /\ Below(new, Coming)
    BY <1>6, <1>10 DEF OrderInv, Below
  <2> QED BY <2>3, <2>4, <2>5
<1> HIDE DEF new, x, e
<1>11. Below(Queued', Coming') /\ Below(Carried', Queued') /\ Below(Carried', Coming')
  BY <1>4, <1>6, <1>8 DEF OrderInv, Below
<1>12. ASSUME ~escaped'
       PROVE  /\ OnePromotion' /\ Ascends(promoted', WaitingItems)
              /\ Below(Done', Carried') /\ Below(Done', Queued') /\ Below(Done', Coming')
  <2>1. ~escaped
    BY <1>1, <1>12
  <2>2. Ascends(promoted', WaitingItems)
    BY <2>1, <1>7, <1>10 DEF OrderInv
  <2> QED BY <2>1, <2>2, <1>4, <1>7, <1>8, <1>10 DEF OrderInv, Below
<1> QED BY <1>1, <1>4, <1>8, <1>9, <1>11, <1>12 DEF OrderInv

\* A promotion that fails takes its message out of the line.
LEMMA PromoteFailsOrder ==
    ASSUME Types, OrderInv, NEW d \in Drainers, PromoteFails(d)
    PROVE  OrderInv'
<1>1. /\ promoting[d] # NoItem /\ promoting' = [promoting EXCEPT ![d] = NoItem]
      /\ UNCHANGED <<inbox, queue, promoted, accepted, escaped>>
  BY DEF PromoteFails
<1>2. /\ \A c \in Drainers : c # d => promoting'[c] = promoting[c]
      /\ promoting'[d] = NoItem /\ NoItem \notin WaitingItems
  BY <1>1, FixedValues DEF Types, WorkerTypes, WaitingItems
<1>3. Carried' \subseteq Carried
  BY <1>2 DEF Carried
<1>4. Coming' = Coming /\ Queued' = Queued /\ Done' = Done
  BY <1>1 DEF Coming, Queued, Done
<1>5. ASSUME ~escaped PROVE OnePromotion'
  <2>1. OnePromotion
    BY <1>5 DEF OrderInv
  <2>2. \A c \in Drainers : promoting'[c] = NoItem
    BY <2>1, <1>1, <1>2 DEF OnePromotion
  <2> QED BY <2>2 DEF OnePromotion
<1>6. Below(Queued', Coming') /\ Below(Carried', Queued') /\ Below(Carried', Coming')
  BY <1>3, <1>4 DEF OrderInv, Below
<1>7. ASSUME ~escaped
      PROVE  Below(Done', Carried') /\ Below(Done', Queued') /\ Below(Done', Coming')
  BY <1>3, <1>4, <1>7 DEF OrderInv, Below
<1> QED BY <1>1, <1>4, <1>5, <1>6, <1>7 DEF OrderInv

LEMMA OrderStep ==
    ASSUME Types, PlacesInv, OrderInv, [Next]_vars
    PROVE  OrderInv'
<1> USE DEF providerVars, historyVars
<1>a. ASSUME UNCHANGED <<inbox, queue, draining, promoting, promoted, accepted, escaped>>
      PROVE  OrderInv'
  BY <1>a DEF OrderInv, OnePromotion, Coming, Queued, Carried, Done
<1>1. CASE \/ UNCHANGED vars \/ StartFails \/ Announce \/ BindSession \/ EnsureSession
           \/ SendTurn \/ RecordStop \/ AnnounceFails \/ ReportFails
  BY <1>1, <1>a DEF vars, StartFails, Announce, BindSession, EnsureSession, SendTurn, RecordStop,
                    AnnounceFails, ReportFails
<1>2. CASE \/ TakeSignal \/ SetSession \/ RuntimeExits \/ \E t \in Messages : EndTurn(t)
  BY <1>2, <1>a DEF TakeSignal, SetSession, RuntimeExits, EndTurn
<1>3. CASE \E mode \in Modes : SendMessage(mode)
  BY <1>3, SendMessageOrder
<1>4. CASE TakeQueued
  BY <1>4, TakeQueuedOrder
<1>5. CASE \E d \in Drainers : Promote(d) \/ PromoteFails(d)
  BY <1>5, PromoteOrder, PromoteFailsOrder
<1>6. CASE InterruptTurn \/ StopSession
  <2>1. 0 \in MsgOrNone /\ session.turn \in MsgOrNone /\ "queue" \in Modes
    BY Constants, TypesFacts DEF Modes
  <2>2. PICK ty \in {"interrupt", "stop"}, t \in MsgOrNone :
           inbox' = Append(inbox, Intent(ty, 0, "queue", t))
    BY <1>6, <2>1 DEF InterruptTurn, StopSession
  <2>3. Intent(ty, 0, "queue", t) \in IntentType /\ Intent(ty, 0, "queue", t) \notin WaitingIntents
    BY <2>1, IntentTyped DEF WaitingIntents
  <2>4. Coming' = Coming /\ Ascends(inbox', WaitingIntents)
    <3> DEFINE e == Intent(ty, 0, "queue", t)
    <3>1. e \in IntentType /\ e \notin WaitingIntents /\ inbox' = Append(inbox, e)
      BY <2>2, <2>3
    <3> HIDE DEF e
    <3> QED BY <3>1, ComingAppended DEF Types, OrderInv
  <2>5. UNCHANGED <<queue, draining, promoting, promoted, accepted, escaped>>
    BY <1>6 DEF InterruptTurn, StopSession
  <2> QED BY <2>4, <2>5 DEF OrderInv, OnePromotion, Queued, Carried, Done
<1>7. CASE TakeStart \/ RefuseStart \/ TakeInterrupt
  <2>1. /\ inbox # <<>> /\ inbox' = Tail(inbox)
        /\ UNCHANGED <<queue, draining, promoting, promoted, accepted, escaped>>
    BY <1>7 DEF TakeStart, RefuseStart, TakeInterrupt, Reads
  <2>2. Coming' \subseteq Coming /\ Ascends(inbox', WaitingIntents)
    BY <2>1, ComingPopped DEF Types, OrderInv
  <2>3. Queued' = Queued /\ Carried' = Carried /\ Done' = Done
    BY <2>1 DEF Queued, Carried, Done
  <2>4. Below(Queued', Coming') /\ Below(Carried', Coming') /\ (~escaped' => Below(Done', Coming'))
    BY <2>1, <2>2, <2>3 DEF OrderInv, Below
  <2> QED BY <2>1, <2>2, <2>3, <2>4 DEF OrderInv, OnePromotion
<1>8. CASE ReportFailure
  <2>1. /\ worker.pc = "fail" /\ Dequeue("worker")
        /\ UNCHANGED <<inbox, promoted, accepted, escaped>>
    BY <1>8 DEF ReportFailure
  <2>2. promoting["worker"] = NoItem
    BY <2>1 DEF Types, WorkerTypes
  <2> QED BY <2>1, <2>2, FixedValues, DequeueOrder
<1>9. CASE TakeTurnEnd
  <2>1. /\ promoting["fiber"] = NoItem /\ Dequeue("fiber")
        /\ UNCHANGED <<inbox, promoted, accepted, escaped>>
    BY <1>9 DEF TakeTurnEnd
  <2> QED BY <2>1, FixedValues, DequeueOrder
<1>10. CASE TakeStop
  <2>1. /\ inbox # <<>> /\ inbox' = Tail(inbox) /\ queue' = <<>> /\ draining' = FALSE
        /\ escaped' = (escaped \/ \E d \in Drainers : promoting[d] # NoItem)
        /\ UNCHANGED <<promoting, promoted, accepted>>
    BY <1>10 DEF TakeStop, Reads
  <2>2. Coming' \subseteq Coming /\ Ascends(inbox', WaitingIntents)
    BY <2>1, ComingPopped DEF Types, OrderInv
  <2>3. Queued' = {} /\ Carried' = Carried /\ Done' = Done /\ Ascends(queue', WaitingItems)
    BY <2>1, MsgsEmpty DEF Queued, Carried, Done
  <2>4. Below(Queued', Coming') /\ Below(Carried', Queued') /\ Below(Carried', Coming')
    BY <2>2, <2>3 DEF OrderInv, Below
  <2>5. ASSUME ~escaped'
        PROVE  /\ OnePromotion' /\ Below(Done', Carried') /\ Below(Done', Queued')
               /\ Below(Done', Coming') /\ ~escaped
    <3>1. ~escaped /\ \A d \in Drainers : promoting'[d] = NoItem
      BY <2>1, <2>5
    <3>2. OnePromotion'
      BY <3>1 DEF OnePromotion
    <3> QED BY <3>1, <3>2, <2>2, <2>3 DEF OrderInv, Below
  <2> QED BY <2>1, <2>2, <2>3, <2>4, <2>5 DEF OrderInv
<1>11. CASE Restart
  <2>1. /\ inbox' = <<>> /\ queue' = <<>> /\ promoting' = [d \in Drainers |-> NoItem]
        /\ UNCHANGED <<promoted, accepted, escaped>>
    BY <1>11 DEF Restart
  <2>2. NoItem \notin WaitingItems /\ \A d \in Drainers : promoting'[d] = NoItem
    BY <2>1, FixedValues DEF WaitingItems
  <2>3. Coming' = {} /\ Queued' = {} /\ Carried' = {} /\ Done' = Done
    BY <2>1, <2>2, MsgsEmpty DEF Coming, Queued, Carried, Done
  <2>4. Ascends(inbox', WaitingIntents) /\ Ascends(queue', WaitingItems) /\ OnePromotion'
    BY <2>1, <2>2, MsgsEmpty DEF OnePromotion
  <2> QED BY <2>1, <2>3, <2>4 DEF OrderInv, Below
<1> QED BY <1>1, <1>2, <1>3, <1>4, <1>5, <1>6, <1>7, <1>8, <1>9, <1>10, <1>11 DEF Next, Reactor

-----------------------------------------------------------------------------
(* The invariant, and what it says.                                        *)

LEMMA InitInv == Init => IInv
<1> SUFFICES ASSUME Init PROVE IInv
  OBVIOUS
<1>1. Types
  BY InitTypes
<1>2. PlacesInv
  <2>1. ASSUME NEW m \in Messages PROVE Places(m) = One(m <= accepted)
    <3>1. Times(m, inbox) = 0 /\ Times(m, queue) = 0
      BY TimesEmpty DEF Init
    <3>2. {d \in Drainers : promoting[d] # NoItem /\ promoting[d].msg = m} = {}
      BY DEF Init
    <3>3. {i \in DOMAIN sent : sent[i] = m} = {}
      BY DEF Init
    <3>4. Held(m) = 0 /\ Sent(m) = 0
      BY <3>2, <3>3, FS_EmptySet DEF Held, Sent
    <3>5. m \in Nat /\ m # 0 /\ worker.msg = 0 /\ accepted = 0
      BY Constants, FixedValues DEF Init
    <3>6. /\ One(worker.msg = m) = 0 /\ One(m \in failed) = 0 /\ One(m \in dropped) = 0
          /\ One(m \in unreported) = 0 /\ One(m \in discarded) = 0
          /\ One(m \in lost) = 0 /\ One(m <= accepted) = 0
      BY <3>5 DEF Init, One
    <3> QED BY <3>1, <3>4, <3>6 DEF Places, Ended
  <2> QED BY <2>1 DEF PlacesInv
<1>3. OrderInv
  <2>1. Coming = {} /\ Queued = {} /\ Done = {}
    BY MsgsEmpty DEF Init, Coming, Queued, Done
  <2>2. Ascends(inbox, WaitingIntents) /\ Ascends(queue, WaitingItems)
        /\ Ascends(promoted, WaitingItems)
    BY MsgsEmpty DEF Init
  <2>3. \A d \in Drainers : promoting[d] = NoItem
    BY DEF Init
  <2> QED BY <2>1, <2>2, <2>3 DEF OrderInv, OnePromotion, Below
<1>4. EndInv
  <2>1. Len(toIngest) = 0 /\ turns = {}
    BY EmptySeq DEF Init
  <2>2. \A t \in Messages : ingesting.turn # t /\ session.turn # t
    BY Constants, FixedValues DEF Init, Session
  <2> QED BY <2>1, <2>2 DEF EndInv
<1> QED BY <1>1, <1>2, <1>3, <1>4 DEF IInv

LEMMA StepInv == IInv /\ [Next]_vars => IInv'
BY TypesStep, RuntimeStep, PlacesStep, OrderStep DEF IInv

LEMMA PlacesSay == Types /\ PlacesInv => EachMessageInOnePlace
<1> SUFFICES ASSUME Types, PlacesInv, NEW m \in 1..accepted
             PROVE  Times(m, inbox) + Times(m, queue) + Held(m) + One(worker.msg = m) + Sent(m)
                      + One(m \in failed) + One(m \in dropped) + One(m \in unreported)
                      + One(m \in discarded) + One(m \in lost) = 1
  BY DEF EachMessageInOnePlace, Held, Sent
<1>1. accepted \in Nat /\ accepted <= N /\ N \in Nat
  BY Constants DEF Types, HistoryTypes, MsgOrNone
<1>2. m \in Messages /\ m <= accepted
  BY <1>1 DEF Messages
<1>3. Places(m) = 1
  BY <1>2 DEF PlacesInv, One
<1> DEFINE a == Times(m, inbox) + Times(m, queue) + Held(m) + One(worker.msg = m) + Sent(m)
           f == One(m \in failed)  g == One(m \in dropped)  h == One(m \in unreported)
           j == One(m \in discarded)  k == One(m \in lost)
<1>4. a \in Nat /\ a + Ended(m) = 1
  BY <1>2, <1>3, PlaceTerms DEF Places
<1>5. f \in Nat /\ g \in Nat /\ h \in Nat /\ j \in Nat /\ k \in Nat
  BY DEF One
<1>6. a + (f + g + h + j + k) = 1
  BY <1>4 DEF Ended
<1> SUFFICES a + f + g + h + j + k = 1
  OBVIOUS
<1> HIDE DEF a, f, g, h, j, k
<1> QED BY <1>4, <1>5, <1>6

LEMMA OrderSays == Types /\ OrderInv => PromotedInOrder
<1> SUFFICES ASSUME Types, OrderInv, ~escaped,
                    NEW i \in DOMAIN promoted, NEW j \in DOMAIN promoted,
                    i < j, promoted[i].mode = "queue", promoted[j].mode = "queue"
             PROVE  promoted[i].msg < promoted[j].msg
  BY DEF PromotedInOrder
<1>1. promoted \in Seq(ItemType) /\ DOMAIN promoted = 1..Len(promoted)
  BY LenProperties DEF Types, QueueTypes
<1>2. promoted[i] \in WaitingItems /\ promoted[j] \in WaitingItems
  BY <1>1, ElementOfSeq DEF WaitingItems
<1> QED BY <1>1, <1>2 DEF OrderInv, Ascends

THEOREM Inductive == Spec => []IInv
BY InitInv, StepInv, PTL DEF Spec

\* Every variable stays within the values the code gives it.
THEOREM TypeCorrect == Spec => []TypeOK
BY Inductive, TypesImplyTypeOK, PTL DEF IInv

\* A message accepted for the thread is in exactly one place at every moment:
\* the worker, the queue and the drain fiber neither lose nor double one,
\* however their steps, the stops, failures and restarts interleave; one that
\* a failing call drops is in the place that says which call it was.
THEOREM OnePlace == Spec => []EachMessageInOnePlace
BY Inductive, PlacesSay, PTL DEF IInv

\* Queued messages are promoted in the order they were sent, as long as no
\* stop has freed the drain under a promotion.
THEOREM QueueOrder == Spec => []PromotedInOrder
BY Inductive, OrderSays, PTL DEF IInv

\* A session never shows a turn whose end has already been and gone.
THEOREM NoPhantoms == Spec => []NoPhantomTurn
BY Inductive, EndsToCome, PTL DEF IInv
=============================================================================
