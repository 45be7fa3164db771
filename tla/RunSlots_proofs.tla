--------------------------- MODULE RunSlots_proofs ---------------------------
(***************************************************************************)
(* RunSlots, for any set of runs and any limit: the pool never exceeds its *)
(* limit, loses no slot, wastes none, is fair to its queue and owes        *)
(* everyone in it the slots that come back.  And RefreshScheduler, which   *)
(* starts runs too, for any number of schedules: a tick keeps its limit,   *)
(* wastes none of it and starts in order.                                  *)
(***************************************************************************)
EXTENDS RunSlots, RefreshScheduler, TLAPS, FiniteSetTheorems, SequenceTheorems,
        FunctionTheorems, WellFoundedInduction

\* Removing the element at i closes the gap and touches nothing else.
LEMMA RemoveAtProperties ==
    ASSUME NEW S, NEW s \in Seq(S), NEW i \in 1 .. Len(s)
    PROVE  /\ RemoveAt(s, i) \in Seq(S)
           /\ Len(RemoveAt(s, i)) = Len(s) - 1
           /\ \A j \in 1 .. Len(s) - 1 :
                 RemoveAt(s, i)[j] = IF j < i THEN s[j] ELSE s[j + 1]
<1> DEFINE front == SubSeq(s, 1, i - 1)
           back == SubSeq(s, i + 1, Len(s))
<1>1. Len(s) \in Nat /\ i \in Nat /\ \A j \in 1 .. Len(s) : s[j] \in S
  BY LenProperties
<1>2. /\ front \in Seq(S)
      /\ Len(front) = i - 1
      /\ \A j \in 1 .. i - 1 : front[j] = s[j]
  <2>1. \A j \in 1 .. i - 1 : s[j] \in S
    BY <1>1
  <2> HIDE DEF front
  <2>2. /\ front \in Seq(S)
        /\ Len(front) = IF 1 <= i - 1 THEN i - 1 - 1 + 1 ELSE 0
        /\ \A j \in 1 .. i - 1 - 1 + 1 : front[j] = s[1 + j - 1]
    BY <1>1, <2>1, SubSeqProperties, i - 1 \in Int, 1 \in Int DEF front
  <2> QED BY <1>1, <2>2
<1>3. /\ back \in Seq(S)
      /\ Len(back) = Len(s) - i
      /\ \A j \in 1 .. Len(s) - i : back[j] = s[i + j]
  <2>1. \A j \in i + 1 .. Len(s) : s[j] \in S
    BY <1>1
  <2> HIDE DEF back
  <2>2. /\ back \in Seq(S)
        /\ Len(back) = IF i + 1 <= Len(s) THEN Len(s) - (i + 1) + 1 ELSE 0
        /\ \A j \in 1 .. Len(s) - (i + 1) + 1 : back[j] = s[i + 1 + j - 1]
    BY <1>1, <2>1, SubSeqProperties, i + 1 \in Int, Len(s) \in Int DEF back
  <2> QED BY <1>1, <2>2
<1>4. RemoveAt(s, i) = front \o back
  BY DEF RemoveAt
<1> HIDE DEF front, back
<1>5. /\ front \o back \in Seq(S)
      /\ Len(front \o back) = Len(front) + Len(back)
      /\ \A j \in 1 .. Len(front) + Len(back) : (front \o back)[j] =
            IF j <= Len(front) THEN front[j] ELSE back[j - Len(front)]
  BY <1>2, <1>3, ConcatProperties
<1>6. ASSUME NEW j \in 1 .. Len(s) - 1
      PROVE  (front \o back)[j] = IF j < i THEN s[j] ELSE s[j + 1]
  <2>1. CASE j < i
    BY <2>1, <1>1, <1>2, <1>3, <1>5
  <2>2. CASE j >= i
    <3>1. (front \o back)[j] = back[j - (i - 1)]
      BY <2>2, <1>1, <1>2, <1>3, <1>5
    <3>2. j - (i - 1) \in 1 .. Len(s) - i
      BY <2>2, <1>1
    <3>3. back[j - (i - 1)] = s[i + (j - (i - 1))]
      BY <1>3, <3>2
    <3>4. i + (j - (i - 1)) = j + 1 /\ ~(j < i)
      BY <2>2, <1>1
    <3> QED BY <3>1, <3>3, <3>4
  <2>3. j < i \/ j >= i
    BY <1>1
  <2> HIDE DEF front, back
  <2> QED BY <2>1, <2>2, <2>3
<1> QED BY <1>1, <1>2, <1>3, <1>4, <1>5, <1>6

-----------------------------------------------------------------------------
\* The queue holds the parked callers, each once.
QueueInv ==
    /\ \A i, j \in 1 .. Len(queue) : queue[i] = queue[j] => i = j
    /\ \A i \in 1 .. Len(queue) : place[queue[i]] = "parked"

\* Who holds a slot: a caller inside, unless it was woken by its cancellation.
HoldersInv ==
    \A r \in Runs :
        /\ place[r] \in {"outside", "parked"} => r \notin holders
        /\ place[r] = "woken" => r \in holders \/ r \in aborted
        /\ place[r] = "running" => r \in holders

Inv == TypeOK /\ SlotsAccountedFor /\ NoIdleSlot /\ QueueInv /\ HoldersInv

LEMMA InitInv == Init => Inv
  BY FS_EmptySet, LimitAssumption, EmptySeq
  DEF Init, Inv, TypeOK, SlotsAccountedFor, NoIdleSlot, QueueInv, HoldersInv

\* The sets of holders are finite.
LEMMA HoldersFinite == TypeOK => IsFiniteSet(holders)
  BY RunsAssumption, FS_Subset DEF TypeOK

LEMMA AcquireInv ==
    ASSUME Inv, NEW r \in Runs, Acquire(r)
    PROVE  Inv'
<1> USE LimitAssumption
<1>1. IsFiniteSet(holders) /\ Cardinality(holders) \in Nat
  BY HoldersFinite, FS_CardinalityType DEF Inv
<1>2. CASE AcquireAborted(r)
  BY <1>2 DEF AcquireAborted, Inv, TypeOK, SlotsAccountedFor, NoIdleSlot, QueueInv, HoldersInv
<1>3. CASE AcquireFree(r)
  <2>1. r \notin holders
    BY <1>3 DEF AcquireFree, Inv, HoldersInv
  <2>2. Cardinality(holders') = Cardinality(holders) + 1
    BY <1>1, <1>3, <2>1, FS_AddElement DEF AcquireFree
  <2>3. TypeOK' /\ SlotsAccountedFor' /\ NoIdleSlot'
    BY <1>1, <1>3, <2>2 DEF AcquireFree, Inv, TypeOK, SlotsAccountedFor, NoIdleSlot
  <2>4. QueueInv' /\ HoldersInv'
    BY <1>3 DEF AcquireFree, Inv, TypeOK, QueueInv, HoldersInv
  <2> QED BY <2>3, <2>4 DEF Inv
<1>4. CASE Park(r)
  <2>1. /\ queue' \in Seq(Runs)
        /\ Len(queue') = Len(queue) + 1
        /\ \A i \in 1 .. Len(queue) : queue'[i] = queue[i]
        /\ queue'[Len(queue) + 1] = r
        /\ Len(queue) \in Nat
    BY <1>4, AppendProperties, LenProperties DEF Park, Inv, TypeOK
  <2>2. TypeOK' /\ SlotsAccountedFor' /\ NoIdleSlot'
    BY <1>1, <1>4, <2>1 DEF Park, Inv, TypeOK, SlotsAccountedFor, NoIdleSlot
  <2>3. \A i \in 1 .. Len(queue) : queue[i] \in Runs /\ queue[i] # r
    BY <1>4, ElementOfSeq DEF Park, Inv, TypeOK, QueueInv
  <2>4. QueueInv'
    BY <1>4, <2>1, <2>3 DEF Park, Inv, TypeOK, QueueInv
  <2>5. HoldersInv'
    BY <1>4 DEF Park, Inv, TypeOK, HoldersInv
  <2> QED BY <2>2, <2>4, <2>5 DEF Inv
<1> QED BY <1>2, <1>3, <1>4 DEF Acquire

LEMMA AbortInv ==
    ASSUME Inv, NEW r \in Runs, Abort(r)
    PROVE  Inv'
<1>1. CASE place[r] = "parked"
  <2>1. PICK i \in 1 .. Len(queue) : queue[i] = r /\ queue' = RemoveAt(queue, i)
    BY <1>1 DEF Abort
  <2>2. /\ queue' \in Seq(Runs)
        /\ Len(queue') = Len(queue) - 1
        /\ \A j \in 1 .. Len(queue) - 1 :
              queue'[j] = IF j < i THEN queue[j] ELSE queue[j + 1]
        /\ Len(queue) \in Nat
    BY <2>1, RemoveAtProperties, LenProperties DEF Inv, TypeOK
  <2>3. place' = [place EXCEPT ![r] = "woken"] /\ aborted' = aborted \cup {r}
    BY <1>1 DEF Abort
  <2>4. TypeOK' /\ SlotsAccountedFor' /\ NoIdleSlot'
    BY <1>1, <2>1, <2>2, <2>3 DEF Abort, Inv, TypeOK, SlotsAccountedFor, NoIdleSlot
  <2>5. ASSUME NEW j \in 1 .. Len(queue')
        PROVE  \E k \in 1 .. Len(queue) :
                  /\ queue'[j] = queue[k] /\ k # i
                  /\ k = IF j < i THEN j ELSE j + 1
    BY <2>1, <2>2
  <2>6. QueueInv'
    <3>1. \A j \in 1 .. Len(queue') : place'[queue'[j]] = "parked"
      BY <2>1, <2>3, <2>5, ElementOfSeq DEF Inv, TypeOK, QueueInv
    <3>2. ASSUME NEW j \in 1 .. Len(queue'), NEW k \in 1 .. Len(queue'),
                 queue'[j] = queue'[k]
          PROVE  j = k
      BY <2>1, <2>2, <3>2 DEF Inv, QueueInv
    <3> QED BY <3>1, <3>2 DEF QueueInv
  <2>7. HoldersInv'
    BY <1>1, <2>3 DEF Abort, Inv, TypeOK, HoldersInv
  <2> QED BY <2>4, <2>6, <2>7 DEF Inv
<1>2. CASE place[r] # "parked"
  BY <1>2 DEF Abort, Inv, TypeOK, SlotsAccountedFor, NoIdleSlot, QueueInv, HoldersInv
<1> QED BY <1>1, <1>2

LEMMA LeaveInv ==
    ASSUME Inv, NEW r \in Runs, place[r] \in {"woken", "running"}, Leave(r)
    PROVE  Inv'
<1> USE LimitAssumption
<1>1. IsFiniteSet(holders) /\ Cardinality(holders) \in Nat
  BY HoldersFinite, FS_CardinalityType DEF Inv
<1>2. CASE r \notin holders
  <2>1. TypeOK' /\ SlotsAccountedFor' /\ NoIdleSlot'
    BY <1>2 DEF Leave, Inv, TypeOK, SlotsAccountedFor, NoIdleSlot
  <2>2. QueueInv' /\ HoldersInv'
    BY <1>2, ElementOfSeq DEF Leave, Inv, TypeOK, QueueInv, HoldersInv
  <2> QED BY <2>1, <2>2 DEF Inv
<1>3. CASE r \in holders /\ queue = <<>>
  <2>1. Cardinality(holders') = Cardinality(holders) - 1
    BY <1>1, <1>3, FS_RemoveElement DEF Leave
  <2>2. Cardinality(holders) # 0
    BY <1>1, <1>3, FS_EmptySet
  <2>3. TypeOK' /\ SlotsAccountedFor' /\ NoIdleSlot'
    BY <1>1, <1>3, <2>1, <2>2 DEF Leave, Inv, TypeOK, SlotsAccountedFor, NoIdleSlot
  <2>4. QueueInv' /\ HoldersInv'
    BY <1>3, EmptySeq DEF Leave, Inv, TypeOK, QueueInv, HoldersInv
  <2> QED BY <2>3, <2>4 DEF Inv
<1>4. CASE r \in holders /\ queue # <<>>
  <2> DEFINE h == Head(queue)
  <2>1. /\ queue' = Tail(queue)
        /\ holders' = (holders \ {r}) \cup {h}
        /\ place' = [place EXCEPT ![r] = "outside", ![h] = "woken"]
        /\ active' = active
        /\ aborted' = aborted \ {r}
    BY <1>4 DEF Leave
  <2>2. /\ h = queue[1] /\ h \in Runs
        /\ Len(queue) \in Nat \ {0}
        /\ queue' \in Seq(Runs)
        /\ Len(queue') = Len(queue) - 1
        /\ \A j \in 1 .. Len(queue') : queue'[j] = queue[j + 1]
    BY <1>4, <2>1, HeadTailProperties, EmptySeq DEF Inv, TypeOK
  <2>3. place[h] = "parked" /\ h \notin holders /\ h # r
    BY <2>2 DEF Inv, QueueInv, HoldersInv
  <2> HIDE DEF h
  <2>4. Cardinality(holders') = Cardinality(holders)
    <3>1. /\ IsFiniteSet(holders \ {r})
          /\ Cardinality(holders \ {r}) = Cardinality(holders) - 1
      BY <1>1, <1>4, FS_RemoveElement
    <3>2. Cardinality((holders \ {r}) \cup {h}) = Cardinality(holders \ {r}) + 1
      BY <3>1, <2>3, FS_AddElement
    <3> QED BY <1>1, <2>1, <3>1, <3>2
  <2>5. TypeOK' /\ SlotsAccountedFor' /\ NoIdleSlot'
    BY <1>4, <2>1, <2>2, <2>4 DEF Inv, TypeOK, SlotsAccountedFor, NoIdleSlot
  <2>6. QueueInv'
    <3>1. ASSUME NEW j \in 1 .. Len(queue')
          PROVE  /\ j + 1 \in 1 .. Len(queue) /\ queue'[j] = queue[j + 1]
                 /\ queue'[j] \in Runs /\ queue'[j] # h /\ place[queue'[j]] = "parked"
      BY <2>2, ElementOfSeq DEF Inv, TypeOK, QueueInv
    <3>2. \A j \in 1 .. Len(queue') : place'[queue'[j]] = "parked"
      BY <2>1, <3>1 DEF Inv, TypeOK
    <3>3. ASSUME NEW j \in 1 .. Len(queue'), NEW k \in 1 .. Len(queue'),
                 queue'[j] = queue'[k]
          PROVE  j = k
      BY <2>2, <3>1, <3>3 DEF Inv, QueueInv
    <3> QED BY <3>2, <3>3 DEF QueueInv
  <2>7. HoldersInv'
    BY <1>4, <2>1, <2>2, <2>3 DEF Inv, TypeOK, HoldersInv
  <2> QED BY <2>5, <2>6, <2>7 DEF Inv
<1> QED BY <1>2, <1>3, <1>4

LEMMA ContinueInv ==
    ASSUME Inv, NEW r \in Runs, Continue(r)
    PROVE  Inv'
<1>1. CASE CloseUnentered(r)
  BY <1>1, LeaveInv DEF CloseUnentered
<1>2. CASE Enter(r)
  BY <1>2, ElementOfSeq
  DEF Enter, Inv, TypeOK, SlotsAccountedFor, NoIdleSlot, QueueInv, HoldersInv
<1> QED BY <1>1, <1>2 DEF Continue

\* Inv is inductive.
LEMMA NextInv == Inv /\ [Next]_vars => Inv'
<1> SUFFICES ASSUME Inv, [Next]_vars PROVE Inv'
  OBVIOUS
<1>1. ASSUME NEW r \in Runs, Acquire(r) PROVE Inv'
  BY <1>1, AcquireInv
<1>2. ASSUME NEW r \in Runs, Abort(r) PROVE Inv'
  BY <1>2, AbortInv
<1>3. ASSUME NEW r \in Runs, Continue(r) PROVE Inv'
  BY <1>3, ContinueInv
<1>4. ASSUME NEW r \in Runs, Finish(r) PROVE Inv'
  BY <1>4, LeaveInv DEF Finish
<1>5. CASE UNCHANGED vars
  BY <1>5 DEF vars, Inv, TypeOK, SlotsAccountedFor, NoIdleSlot, QueueInv, HoldersInv
<1> QED BY <1>1, <1>2, <1>3, <1>4, <1>5 DEF Next

LEMMA Invariance == Spec => []Inv
  BY InitInv, NextInv, PTL DEF Spec

-----------------------------------------------------------------------------
\* The variables of the pool keep their types.
THEOREM TypeCorrect == Spec => []TypeOK
  BY Invariance, PTL DEF Inv

\* The pool's counter is the number of callers that will release a slot, and
\* at most the limit, whatever is cancelled when.
THEOREM SlotsAreAccountedFor == Spec => []SlotsAccountedFor
  BY Invariance, PTL DEF Inv

\* While anyone waits, every slot is taken.
THEOREM NoSlotIsIdle == Spec => []NoIdleSlot
  BY Invariance, PTL DEF Inv

\* A run that executes holds a slot.
THEOREM RunningHolds == Spec => []RunningHoldsASlot
<1>1. Inv => RunningHoldsASlot
  BY DEF Inv, HoldersInv, RunningHoldsASlot
<1> QED BY <1>1, Invariance, PTL

\* Slots are granted in the order they were asked for.
THEOREM NobodyIsOvertaken == Spec => NoOvertaking
<1> DEFINE Fair == \A r \in holders' \ holders : queue = <<>> \/ r = Head(queue)
<1>1. Inv /\ [Next]_vars => [Fair]_vars
  <2> SUFFICES ASSUME Inv, Next PROVE Fair
    OBVIOUS
  <2>1. ASSUME NEW r \in Runs, Acquire(r) PROVE Fair
    <3>1. CASE AcquireFree(r)
      <4>1. queue = <<>>
        BY <3>1 DEF AcquireFree, Inv, NoIdleSlot, TypeOK
      <4> QED BY <4>1
    <3>2. CASE AcquireAborted(r) \/ Park(r)
      BY <3>2 DEF AcquireAborted, Park
    <3> QED BY <2>1, <3>1, <3>2 DEF Acquire
  <2>2. ASSUME NEW r \in Runs, Abort(r) PROVE Fair
    BY <2>2 DEF Abort
  <2>3. ASSUME NEW r \in Runs, Leave(r) PROVE Fair
    BY <2>3 DEF Leave
  <2>4. ASSUME NEW r \in Runs, Enter(r) PROVE Fair
    BY <2>4 DEF Enter
  <2> QED BY <2>1, <2>2, <2>3, <2>4 DEF Next, Continue, CloseUnentered, Finish
<1> QED BY <1>1, Invariance, PTL DEF Spec, NoOvertaking

-----------------------------------------------------------------------------
(* Why a parked caller gets its turn.                                      *)

\* A parked caller's grant callback is in the queue: there is no waiting for a
\* wake-up nobody owes.
NobodyLost ==
    \A r \in Runs : place[r] = "parked" => \E i \in 1 .. Len(queue) : queue[i] = r

\* While someone waits, every slot is with a caller that is inside and whose
\* continuation or finally clause will give it back.
SlotsComeBack ==
    queue # <<>> => /\ Cardinality(holders) = Limit
                    /\ \A h \in holders : place[h] \in {"woken", "running"}

\* A caller that stays in the queue stays where it is or comes forward, and it
\* comes forward whenever a slot is given back.
ComesForward ==
    \A i \in 1 .. Len(queue), j \in 1 .. Len(queue') :
        queue[i] = queue'[j] => /\ j <= i
                                /\ (\E h \in holders : place'[h] = "outside") => j < i

\* A caller with a slot only moves on, to running and out, and keeps the slot
\* until then.
HolderMovesOn(h) ==
    \/ place'[h] = place[h] /\ h \in holders'
    \/ place[h] = "woken" /\ place'[h] = "running" /\ h \in holders'
    \/ place'[h] = "outside" /\ h \notin holders'

QueueMoves == [][ComesForward /\ \A h \in holders : HolderMovesOn(h)]_vars

Moving == ComesForward /\ \A h \in holders : HolderMovesOn(h)

\* A step that does not touch the queue.
LEMMA SameQueueMoves ==
    ASSUME Inv, NobodyLost, queue' = queue, holders \subseteq holders',
           \A r \in Runs : place'[r] = "parked" => place[r] = "parked",
           \A h \in holders : HolderMovesOn(h)
    PROVE  NobodyLost' /\ Moving
<1>1. NobodyLost'
  BY DEF NobodyLost
<1>2. \A h \in holders : h \in Runs /\ place'[h] # "outside"
  BY DEF Inv, TypeOK, HolderMovesOn, HoldersInv
<1>3. \A i, j \in 1 .. Len(queue) : queue[i] = queue[j] => j <= i
  <2>1. Len(queue) \in Nat
    BY DEF Inv, TypeOK
  <2> QED BY <2>1 DEF Inv, QueueInv
<1>4. ComesForward
  BY <1>2, <1>3 DEF ComesForward
<1> QED BY <1>1, <1>4 DEF Moving

LEMMA AcquireMoves ==
    ASSUME Inv, NobodyLost, NEW r \in Runs, Acquire(r)
    PROVE  NobodyLost' /\ Moving
<1>1. place \in [Runs -> {"outside", "parked", "woken", "running"}] /\ r \notin holders
      /\ holders \subseteq Runs /\ place[r] = "outside"
  BY DEF Acquire, AcquireAborted, AcquireFree, Park, Inv, TypeOK, HoldersInv
<1>2. CASE AcquireAborted(r) \/ AcquireFree(r)
  <2>1. /\ queue' = queue /\ holders \subseteq holders'
        /\ place' = [place EXCEPT ![r] = "woken"]
    BY <1>2 DEF AcquireAborted, AcquireFree
  <2>2. \A h \in holders : HolderMovesOn(h)
    BY <1>1, <2>1 DEF HolderMovesOn
  <2> QED BY <1>1, <2>1, <2>2, SameQueueMoves
<1>3. CASE Park(r)
  <2>1. /\ Len(queue') = Len(queue) + 1
        /\ \A i \in 1 .. Len(queue) : queue'[i] = queue[i]
        /\ queue'[Len(queue) + 1] = r
        /\ Len(queue) \in Nat
    BY <1>3, AppendProperties, LenProperties DEF Park, Inv, TypeOK
  <2>2. place' = [place EXCEPT ![r] = "parked"] /\ holders' = holders
    BY <1>3 DEF Park
  <2>3. NobodyLost'
    <3> SUFFICES ASSUME NEW q \in Runs, place'[q] = "parked"
                 PROVE  \E i \in 1 .. Len(queue') : queue'[i] = q
      BY DEF NobodyLost
    <3>1. CASE q = r
      BY <2>1, <3>1
    <3>2. CASE q # r
      <4>1. PICK i \in 1 .. Len(queue) : queue[i] = q
        BY <1>1, <2>2, <3>2 DEF NobodyLost
      <4> QED BY <2>1, <4>1
    <3> QED BY <3>1, <3>2
  <2>4. \A h \in holders : HolderMovesOn(h) /\ place'[h] # "outside"
    BY <1>1, <2>2 DEF HolderMovesOn, Inv, HoldersInv
  <2>5. ASSUME NEW i \in 1 .. Len(queue), NEW j \in 1 .. Len(queue'), queue[i] = queue'[j]
        PROVE  j <= i
    <3>1. queue[i] # r
      BY <1>1 DEF Inv, QueueInv
    <3>2. j \in 1 .. Len(queue)
      BY <2>1, <2>5, <3>1
    <3>3. queue[i] = queue[j]
      BY <2>1, <2>5, <3>2
    <3> QED BY <2>1, <3>2, <3>3 DEF Inv, QueueInv
  <2>6. ComesForward
    BY <2>4, <2>5 DEF ComesForward
  <2> QED BY <2>3, <2>4, <2>6 DEF Moving
<1> QED BY <1>2, <1>3 DEF Acquire

LEMMA AbortMoves ==
    ASSUME Inv, NobodyLost, NEW r \in Runs, Abort(r)
    PROVE  NobodyLost' /\ Moving
<1>1. place \in [Runs -> {"outside", "parked", "woken", "running"}] /\ holders \subseteq Runs
  BY DEF Inv, TypeOK
<1>2. CASE place[r] # "parked"
  BY <1>2, SameQueueMoves DEF Abort, HolderMovesOn
<1>3. CASE place[r] = "parked"
  <2>1. PICK i \in 1 .. Len(queue) : queue[i] = r /\ queue' = RemoveAt(queue, i)
    BY <1>3 DEF Abort
  <2>2. /\ Len(queue') = Len(queue) - 1
        /\ \A j \in 1 .. Len(queue) - 1 :
              queue'[j] = IF j < i THEN queue[j] ELSE queue[j + 1]
        /\ Len(queue) \in Nat
    BY <2>1, RemoveAtProperties, LenProperties DEF Inv, TypeOK
  <2>3. place' = [place EXCEPT ![r] = "woken"] /\ holders' = holders /\ r \notin holders
    BY <1>3 DEF Abort, Inv, HoldersInv
  <2>4. NobodyLost'
    <3> SUFFICES ASSUME NEW q \in Runs, place'[q] = "parked"
                 PROVE  \E j \in 1 .. Len(queue') : queue'[j] = q
      BY DEF NobodyLost
    <3>1. PICK k \in 1 .. Len(queue) : queue[k] = q
      BY <1>1, <2>3 DEF NobodyLost
    <3>2. k # i
      BY <1>1, <2>1, <2>3, <3>1
    <3>3. CASE k < i
      BY <2>2, <3>1, <3>3
    <3>4. CASE k > i
      <4>1. k - 1 \in 1 .. Len(queue) - 1 /\ ~(k - 1 < i) /\ (k - 1) + 1 = k
        BY <2>2, <3>4
      <4> QED BY <2>2, <3>1, <4>1
    <3> QED BY <2>2, <3>2, <3>3, <3>4
  <2>5. \A h \in holders : HolderMovesOn(h) /\ place'[h] # "outside"
    BY <1>1, <2>3 DEF HolderMovesOn, Inv, HoldersInv
  <2>6. ASSUME NEW k \in 1 .. Len(queue), NEW j \in 1 .. Len(queue'), queue[k] = queue'[j]
        PROVE  j <= k
    BY <2>2, <2>6 DEF Inv, QueueInv
  <2>7. ComesForward
    BY <2>5, <2>6 DEF ComesForward
  <2> QED BY <2>4, <2>5, <2>7 DEF Moving
<1> QED BY <1>2, <1>3

LEMMA LeaveMoves ==
    ASSUME Inv, NobodyLost, NEW r \in Runs, place[r] \in {"woken", "running"}, Leave(r)
    PROVE  NobodyLost' /\ Moving
<1>1. place \in [Runs -> {"outside", "parked", "woken", "running"}] /\ holders \subseteq Runs
  BY DEF Inv, TypeOK
<1>2. CASE r \notin holders
  <2>1. /\ queue' = queue /\ holders' = holders /\ place' = [place EXCEPT ![r] = "outside"]
    BY <1>2 DEF Leave
  <2>2. \A h \in holders : HolderMovesOn(h)
    BY <1>1, <1>2, <2>1 DEF HolderMovesOn
  <2> QED BY <1>1, <2>1, <2>2, SameQueueMoves
<1>3. CASE r \in holders /\ queue = <<>>
  <2>1. /\ queue' = queue /\ holders' = holders \ {r}
        /\ place' = [place EXCEPT ![r] = "outside"]
    BY <1>3 DEF Leave
  <2>2. NobodyLost'
    BY <1>1, <2>1 DEF NobodyLost
  <2>3. \A h \in holders : HolderMovesOn(h)
    BY <1>1, <2>1 DEF HolderMovesOn
  <2>4. ComesForward
    BY <1>3 DEF ComesForward
  <2> QED BY <2>2, <2>3, <2>4 DEF Moving
<1>4. CASE r \in holders /\ queue # <<>>
  <2> DEFINE h == Head(queue)
  <2>1. /\ queue' = Tail(queue)
        /\ holders' = (holders \ {r}) \cup {h}
        /\ place' = [place EXCEPT ![r] = "outside", ![h] = "woken"]
    BY <1>4 DEF Leave
  <2>2. /\ h = queue[1] /\ h \in Runs
        /\ Len(queue) \in Nat \ {0}
        /\ Len(queue') = Len(queue) - 1
        /\ \A j \in 1 .. Len(queue') : queue'[j] = queue[j + 1]
    BY <1>4, <2>1, HeadTailProperties, EmptySeq DEF Inv, TypeOK
  <2>3. place[h] = "parked" /\ h \notin holders /\ h # r
    BY <2>2 DEF Inv, QueueInv, HoldersInv
  <2> HIDE DEF h
  <2>4. NobodyLost'
    <3> SUFFICES ASSUME NEW q \in Runs, place'[q] = "parked"
                 PROVE  \E j \in 1 .. Len(queue') : queue'[j] = q
      BY DEF NobodyLost
    <3>1. q # h /\ place[q] = "parked"
      BY <1>1, <2>1, <2>2
    <3>2. PICK k \in 1 .. Len(queue) : queue[k] = q
      BY <3>1 DEF NobodyLost
    <3>3. k - 1 \in 1 .. Len(queue') /\ (k - 1) + 1 = k
      BY <2>2, <3>1, <3>2
    <3> QED BY <2>2, <3>2, <3>3
  <2>5. \A g \in holders : HolderMovesOn(g)
    BY <1>1, <2>1, <2>3 DEF HolderMovesOn
  <2>6. ASSUME NEW i \in 1 .. Len(queue), NEW j \in 1 .. Len(queue'), queue[i] = queue'[j]
        PROVE  j < i
    <3>1. j + 1 \in 1 .. Len(queue) /\ queue[i] = queue[j + 1]
      BY <2>2, <2>6
    <3> QED BY <2>2, <3>1 DEF Inv, QueueInv
  <2>7. ComesForward
    BY <2>2, <2>6 DEF ComesForward
  <2> QED BY <2>4, <2>5, <2>7 DEF Moving
<1> QED BY <1>2, <1>3, <1>4

LEMMA StepMoves ==
    ASSUME Inv, NobodyLost, Next
    PROVE  NobodyLost' /\ Moving
<1>1. ASSUME NEW r \in Runs, Enter(r) PROVE NobodyLost' /\ Moving
  <2>1. /\ queue' = queue /\ holders' = holders /\ place[r] = "woken"
        /\ place' = [place EXCEPT ![r] = "running"]
        /\ place \in [Runs -> {"outside", "parked", "woken", "running"}] /\ holders \subseteq Runs
    BY <1>1 DEF Enter, Inv, TypeOK
  <2>2. \A h \in holders : HolderMovesOn(h)
    BY <2>1 DEF HolderMovesOn
  <2> QED BY <2>1, <2>2, SameQueueMoves
<1>2. ASSUME NEW r \in Runs, CloseUnentered(r) \/ Finish(r) PROVE NobodyLost' /\ Moving
  BY <1>2, LeaveMoves DEF CloseUnentered, Finish
<1> QED BY <1>1, <1>2, AcquireMoves, AbortMoves DEF Next, Continue

LEMMA AlwaysQueued == Spec => []NobodyLost
<1>1. Init => NobodyLost
  BY DEF Init, NobodyLost
<1>2. Inv /\ NobodyLost /\ [Next]_vars => NobodyLost'
  <2>1. NobodyLost /\ UNCHANGED vars => NobodyLost'
    BY DEF NobodyLost, vars
  <2> QED BY <2>1, StepMoves
<1> QED BY <1>1, <1>2, Invariance, PTL DEF Spec

\* Nobody waits in vain: a parked caller is in the queue, whatever was cancelled
\* around it, and while it is there all the slots are with callers that will
\* give theirs back.
THEOREM WaitersAreOwedASlot == Spec => [](NobodyLost /\ SlotsComeBack)
<1>1. Inv => SlotsComeBack
  <2>1. Inv => \A h \in holders : place[h] \in {"woken", "running"}
    BY DEF Inv, TypeOK, HoldersInv
  <2> QED BY <2>1 DEF Inv, SlotsAccountedFor, NoIdleSlot, SlotsComeBack
<1> QED BY <1>1, AlwaysQueued, Invariance, PTL

\* However many callers keep coming, nobody gets in front of one that waits:
\* its place in the queue never grows and falls with every slot given back, and
\* a caller with a slot never goes back to waiting with it.
THEOREM TheQueueMoves == Spec => QueueMoves
<1>1. Inv /\ NobodyLost /\ [Next]_vars => [ComesForward /\ \A h \in holders : HolderMovesOn(h)]_vars
  BY StepMoves DEF Moving
<1> QED BY <1>1, AlwaysQueued, Invariance, PTL DEF Spec, QueueMoves

-----------------------------------------------------------------------------
(* The scheduler: what a tick starts.                                      *)

LEMMA SmallestOf ==
    ASSUME NEW S \in SUBSET Nat, S # {}
    PROVE  \E x \in S : \A y \in S : x <= y
<1>1. ASSUME NEW R, IsWellFoundedOn(R, Nat), \A x, y \in Nat : <<y, x>> \in R <=> y < x
      PROVE  \E x \in S : \A y \in S : x <= y
  <2>1. PICK x \in S : \A y \in S : ~(<<y, x>> \in R)
    BY <1>1, WFMin
  <2>2. \A y \in S : y \in Nat /\ ~(y < x)
    BY <1>1, <2>1
  <2>3. x \in Nat
    OBVIOUS
  <2>4. \A y \in S : x <= y
    BY <2>2, <2>3
  <2>. QED BY <2>4
<1>2. IsWellFoundedOn(OpToRel(<, Nat), Nat)
  BY NatLessThanWellFounded
<1>3. \A x, y \in Nat : <<y, x>> \in OpToRel(<, Nat) <=> y < x
  BY DEF OpToRel
<1>. QED BY <1>1, <1>2, <1>3

\* Those with less than k members of a finite set before them: k of them if there are as
\* many, and no gap.
LEMMA TheFirstOf ==
    ASSUME NEW F \in SUBSET Nat, IsFiniteSet(F), NEW k \in Nat, NEW S,
           S = {i \in F : Cardinality({j \in F : j < i}) < k}
    PROVE  /\ Cardinality(S) \in Nat /\ Cardinality(S) <= k
           /\ Cardinality(S) < k => S = F
           /\ \A i \in S, j \in F : j < i => j \in S
<1>. DEFINE Before(i) == {j \in F : j < i}
            rank == [i \in S |-> Cardinality(Before(i))]
<1>1. \A i : IsFiniteSet(Before(i)) /\ Cardinality(Before(i)) \in Nat
  <2>1. \A i : Before(i) \subseteq F
    OBVIOUS
  <2>. HIDE DEF Before
  <2>. QED BY <2>1, FS_Subset, FS_CardinalityType
<1>2. ASSUME NEW i \in F, NEW j \in F, j < i
      PROVE  Cardinality(Before(j)) < Cardinality(Before(i))
  <2>1. j \in Before(i) /\ Before(j) \subseteq Before(i) \ {j}
    <3>1. ASSUME NEW x \in F, x < j
          PROVE  x < i /\ x # j
      <4>1. x \in Nat /\ i \in Nat /\ j \in Nat
        OBVIOUS
      <4>. QED BY <1>2, <3>1, <4>1
    <3>. QED BY <1>2, <3>1
  <2>. HIDE DEF Before
  <2>2. /\ IsFiniteSet(Before(i) \ {j})
        /\ Cardinality(Before(i) \ {j}) = Cardinality(Before(i)) - 1
    BY <1>1, <2>1, FS_RemoveElement
  <2>3. Cardinality(Before(j)) <= Cardinality(Before(i) \ {j})
    BY <2>1, <2>2, FS_Subset
  <2>. QED BY <1>1, <2>2, <2>3
<1>3. S \subseteq F /\ \A i \in F : i \in S <=> Cardinality(Before(i)) < k
  OBVIOUS
<1>4. IsFiniteSet(S) /\ Cardinality(S) \in Nat
  BY <1>3, FS_Subset, FS_CardinalityType
<1>. HIDE DEF Before
<1>5. Cardinality(S) <= k
  <2>1. IsFiniteSet(0 .. k - 1) /\ Cardinality(0 .. k - 1) = k
    BY FS_Interval
  <2>2. \A i \in S : rank[i] \in 0 .. k - 1
    BY <1>1, <1>3
  <2>3. \A i, j \in S : rank[i] = rank[j] => i = j
    <3>1. ASSUME NEW i \in S, NEW j \in S, i # j
          PROVE  Cardinality(Before(i)) # Cardinality(Before(j))
      <4>1. i \in F /\ j \in F /\ (i < j \/ j < i)
        BY <1>3, <3>1
      <4>. QED BY <1>1, <1>2, <4>1
    <3>. QED BY <3>1
  <2>4. rank \in [S -> 0 .. k - 1]
    BY <2>2
  <2>. HIDE DEF rank
  <2>5. rank \in Injection(S, 0 .. k - 1)
    BY <2>3, <2>4, Fun_IsInj
  <2>. QED BY <2>1, <2>5, FS_Injection
<1>6. \A i \in S, j \in F : j < i => j \in S
  <2>1. ASSUME NEW i \in S, NEW j \in F, j < i
        PROVE  j \in S
    <3>1. Cardinality(Before(j)) < Cardinality(Before(i)) /\ Cardinality(Before(i)) < k
      BY <1>2, <1>3, <2>1
    <3>. QED BY <1>1, <1>3, <3>1
  <2>. QED BY <2>1
<1>7. ASSUME S # F
      PROVE  k <= Cardinality(S)
  <2>1. F \ S # {} /\ F \ S \in SUBSET Nat
    BY <1>3, <1>7
  <2>2. PICK m \in F \ S : \A y \in F \ S : m <= y
    BY <2>1, SmallestOf
  <2>3. Before(m) \subseteq S
    <3>1. ASSUME NEW x \in F, x \notin S
          PROVE  ~(x < m)
      <4>1. x \in Nat /\ m \in Nat /\ m <= x
        BY <2>2, <3>1
      <4>. QED BY <4>1
    <3>. QED BY <3>1 DEF Before
  <2>4. k <= Cardinality(Before(m))
    BY <1>1, <1>3, <2>2
  <2>5. Cardinality(Before(m)) <= Cardinality(S)
    BY <1>4, <2>3, FS_Subset
  <2>. QED BY <1>1, <1>4, <2>4, <2>5
<1>. QED BY <1>4, <1>5, <1>6, <1>7

LEMMA CadenceTimesIdle ==
    ASSUME cadence \in Cadences, NEW i \in Schedules
    PROVE  cadence[i] * IdleMultiplier + 1 \in Nat
<1>1. cadence[i] \in Nat /\ IdleMultiplier \in Nat
  BY RefreshAssumption
<1>. QED BY <1>1

LEMMA RefreshSteps ==
    RefreshTypeOK /\ [RefreshNext]_refreshVars => RefreshTypeOK'
<1>. SUFFICES ASSUME RefreshTypeOK, [RefreshNext]_refreshVars
              PROVE  RefreshTypeOK'
  OBVIOUS
<1>. USE DEF RefreshTypeOK
<1>0. \A i \in Schedules : Oldest(i) \in Nat
  BY CadenceTimesIdle DEF Oldest
<1>1. CASE Tick
  <2>1. \A i \in Schedules : Oldest(i)' = Oldest(i)
    BY <1>1 DEF Tick, Oldest
  <2>2. age' \in [Schedules -> Nat] /\ \A i \in Schedules : age'[i] <= Oldest(i)
    BY <1>0, <1>1 DEF Tick
  <2>3. running' \subseteq Schedules
    BY <1>1 DEF Tick, Started
  <2>. QED BY <1>1, <2>1, <2>2, <2>3 DEF Tick
<1>2. ASSUME NEW i \in Schedules, ClientRefreshes(i) \/ CollectorEnds(i)
      PROVE  RefreshTypeOK'
  <2>1. \A j \in Schedules : Oldest(j)' = Oldest(j)
    BY <1>2 DEF ClientRefreshes, CollectorEnds, Oldest
  <2>2. age' \in [Schedules -> Nat] /\ \A j \in Schedules : age'[j] <= Oldest(j)
    BY <1>0, <1>2 DEF ClientRefreshes, CollectorEnds
  <2>. QED BY <1>2, <2>1, <2>2 DEF ClientRefreshes, CollectorEnds
<1>3. CASE ViewerComesOrGoes
  BY <1>3 DEF ViewerComesOrGoes, Oldest
<1>4. CASE UNCHANGED refreshVars
  BY <1>4 DEF refreshVars, Oldest
<1>. QED BY <1>1, <1>2, <1>3, <1>4 DEF RefreshNext

\* No frame is older than the age at which its collector is due whoever looks, and only collectors
\* with a schedule run.
THEOREM RefreshTypeCorrect == RefreshSpec => []RefreshTypeOK
<1>1. RefreshInit => RefreshTypeOK
  <2>. SUFFICES ASSUME RefreshInit PROVE RefreshTypeOK
    OBVIOUS
  <2>1. \A i \in Schedules : Oldest(i) \in Nat
    BY CadenceTimesIdle DEF RefreshInit, Oldest
  <2>. QED BY <2>1 DEF RefreshInit, RefreshTypeOK
<1>. QED BY <1>1, RefreshSteps, PTL DEF RefreshSpec

\* Whatever is due, hangs or is refused, a tick starts as many collectors as it may or all
\* that can start, and always those of the shortest cadences (tick in scheduler.ts).
THEOREM TicksStartTheFirst == RefreshSpec => TicksServeTheFirst
<1>1. ASSUME Tick
      PROVE  LET new == running' \ running
                 fit == Waits(running, age')
             IN  /\ Cardinality(new) <= NewRunsPerTick
                 /\ Cardinality(new) < NewRunsPerTick => new = fit
                 /\ \A i \in new, j \in fit : j < i => j \in new
  <2>. DEFINE due == {i \in Schedules : age'[i] > EffectiveCadence(i)}
              fit == {i \in due \ running : health[i] # "refused"}
  <2>1. running' = running \cup Started(due)
    BY <1>1 DEF Tick
  <2>2. fit = Waits(running, age')
    BY DEF Waits
  <2>3. Started(due) = {i \in fit : Cardinality({j \in fit : j < i}) < NewRunsPerTick}
    BY DEF Started
  <2>4. fit \in SUBSET Nat /\ IsFiniteSet(fit)
    <3>1. Collectors \in Nat
      BY RefreshAssumption
    <3>2. Schedules \subseteq Nat /\ IsFiniteSet(Schedules)
      BY <3>1, FS_Interval DEF Schedules
    <3>3. fit \subseteq Schedules
      OBVIOUS
    <3>. QED BY <3>2, <3>3, FS_Subset
  <2>5. running' \ running = Started(due)
    BY <2>1, <2>3
  <2>6. NewRunsPerTick \in Nat
    BY RefreshAssumption
  <2>. HIDE DEF due, fit
  <2>7. /\ Cardinality(Started(due)) \in Nat /\ Cardinality(Started(due)) <= NewRunsPerTick
        /\ Cardinality(Started(due)) < NewRunsPerTick => Started(due) = fit
        /\ \A i \in Started(due), j \in fit : j < i => j \in Started(due)
    BY <2>3, <2>4, <2>6, TheFirstOf
  <2>. QED BY <2>2, <2>5, <2>7
<1>2. [RefreshNext]_refreshVars => [TickServesTheFirst]_refreshVars
  BY <1>1 DEF TickServesTheFirst
<1>. QED BY <1>2, PTL DEF RefreshSpec, TicksServeTheFirst
=============================================================================
