------------------------------ MODULE RunSlots ------------------------------
(***************************************************************************)
(* createRunSlots (apps/server/src/run-concurrency.ts), the pool that      *)
(* bounds how many heavyweight runs execute at once, and its caller        *)
(* executeRunInBackground (apps/server/src/workflows-handler.ts).          *)
(*                                                                         *)
(* A caller is outside, parked (its grant callback is in the queue), woken *)
(* (its acquire() promise has resolved, its continuation has not run yet)  *)
(* or running.  Between waking and continuing anything may happen, a       *)
(* cancellation in particular.                                             *)
(***************************************************************************)
EXTENDS Naturals, Sequences, FiniteSets, SequencesExt

CONSTANTS
    Runs,       \* the runs that ask for a slot
    Limit       \* KEELSON_MAX_CONCURRENT_RUNS, at least 1

ASSUME LimitAssumption == Limit \in Nat \ {0}
ASSUME RunsAssumption == IsFiniteSet(Runs)

VARIABLES
    active,     \* the counter of slots held
    queue,      \* the parked callers, first come first
    place,      \* where each caller is
    holders,    \* callers whose release function stands for a slot
    aborted     \* callers whose AbortSignal has fired

vars == <<active, queue, place, holders, aborted>>

TypeOK ==
    /\ active \in Nat
    /\ queue \in Seq(Runs)
    /\ place \in [Runs -> {"outside", "parked", "woken", "running"}]
    /\ holders \in SUBSET Runs
    /\ aborted \in SUBSET Runs

Init ==
    /\ active = 0
    /\ queue = <<>>
    /\ place = [r \in Runs |-> "outside"]
    /\ holders = {}
    /\ aborted = {}

-----------------------------------------------------------------------------
(* acquire(signal)                                                         *)

\* An already aborted caller gets a release function that does nothing.
AcquireAborted(r) ==
    /\ place[r] = "outside"
    /\ r \in aborted
    /\ place' = [place EXCEPT ![r] = "woken"]
    /\ UNCHANGED <<active, queue, holders, aborted>>

AcquireFree(r) ==
    /\ place[r] = "outside"
    /\ r \notin aborted
    /\ active < Limit
    /\ active' = active + 1
    /\ holders' = holders \cup {r}
    /\ place' = [place EXCEPT ![r] = "woken"]
    /\ UNCHANGED <<queue, aborted>>

\* A bug to catch: the latest comer first.
Park_InFront(r) ==
    /\ place[r] = "outside"
    /\ r \notin aborted
    /\ active >= Limit
    /\ queue' = <<r>> \o queue
    /\ place' = [place EXCEPT ![r] = "parked"]
    /\ UNCHANGED <<active, holders, aborted>>

Park(r) ==
    /\ place[r] = "outside"
    /\ r \notin aborted
    /\ active >= Limit
    /\ queue' = Append(queue, r)
    /\ place' = [place EXCEPT ![r] = "parked"]
    /\ UNCHANGED <<active, holders, aborted>>

\* A bug to catch: a cancelled caller is woken, but stays in the queue.
Abort_Queued(r) ==
    /\ r \notin aborted
    /\ aborted' = aborted \cup {r}
    /\ place' = IF place[r] = "parked" THEN [place EXCEPT ![r] = "woken"] ELSE place
    /\ UNCHANGED <<active, queue, holders>>

\* The signal fires; a parked caller leaves the queue, without a slot.
Abort(r) ==
    /\ r \notin aborted
    /\ aborted' = aborted \cup {r}
    /\ IF place[r] = "parked"
       THEN /\ \E i \in 1 .. Len(queue) : queue[i] = r /\ queue' = RemoveAt(queue, i)
            /\ place' = [place EXCEPT ![r] = "woken"]
       ELSE UNCHANGED <<queue, place>>
    /\ UNCHANGED <<active, holders>>

-----------------------------------------------------------------------------
(* executeRunInBackground after acquire()                                  *)

\* Bugs to catch: the release function of a caller cancelled in the queue frees
\* a slot all the same; a slot that is released goes to the end of the queue.
Leave_AlwaysFrees(r) ==
    /\ aborted' = aborted \ {r}
    /\ active' = active - 1
    /\ holders' = holders \ {r}
    /\ place' = [place EXCEPT ![r] = "outside"]
    /\ UNCHANGED queue

Leave_LastFirst(r) ==
    /\ aborted' = aborted \ {r}
    /\ IF r \notin holders \/ queue = <<>>
       THEN /\ active' = IF r \in holders THEN active - 1 ELSE active
            /\ holders' = holders \ {r}
            /\ place' = [place EXCEPT ![r] = "outside"]
            /\ UNCHANGED queue
       ELSE /\ UNCHANGED active
            /\ holders' = (holders \ {r}) \cup {Last(queue)}
            /\ place' = [place EXCEPT ![r] = "outside", ![Last(queue)] = "woken"]
            /\ queue' = Front(queue)

\* release(), from the finally clause: the slot goes to the head of the queue.
Leave(r) ==
    /\ aborted' = aborted \ {r}     \* a later launch has a signal of its own
    /\ IF r \notin holders
       THEN /\ place' = [place EXCEPT ![r] = "outside"]
            /\ UNCHANGED <<active, queue, holders>>
       ELSE IF queue = <<>>
       THEN /\ active' = active - 1
            /\ holders' = holders \ {r}
            /\ place' = [place EXCEPT ![r] = "outside"]
            /\ UNCHANGED queue
       ELSE /\ UNCHANGED active      \* down for r, up for the head
            /\ holders' = (holders \ {r}) \cup {Head(queue)}
            /\ place' = [place EXCEPT ![r] = "outside", ![Head(queue)] = "woken"]
            /\ queue' = Tail(queue)

\* Cancelled while it queued, or after its slot was granted.
CloseUnentered(r) ==
    /\ place[r] = "woken"
    /\ r \in aborted
    /\ Leave(r)

Enter(r) ==
    /\ place[r] = "woken"
    /\ r \notin aborted
    /\ place' = [place EXCEPT ![r] = "running"]
    /\ UNCHANGED <<active, queue, holders, aborted>>

Finish(r) ==
    /\ place[r] = "running"
    /\ Leave(r)

Acquire(r) == AcquireAborted(r) \/ AcquireFree(r) \/ Park(r)
Continue(r) == CloseUnentered(r) \/ Enter(r)

Next == \E r \in Runs : Acquire(r) \/ Abort(r) \/ Continue(r) \/ Finish(r)

Spec == Init /\ [][Next]_vars

-----------------------------------------------------------------------------
(* Properties.                                                             *)

\* The counter counts the slots that someone will release, and never more than
\* the limit: no cancellation, however timed, leaks a slot or frees one twice.
SlotsAccountedFor == active = Cardinality(holders) /\ active <= Limit

\* A slot is never idle while a caller waits for one.
NoIdleSlot == queue # <<>> => active = Limit

\* Every heavyweight run that executes holds a slot of its own: a caller woken
\* by a cancellation is never taken for one woken by a grant.
RunningHoldsASlot == \A r \in Runs : place[r] = "running" => r \in holders

\* A caller that gets a slot overtakes nobody: not the queue it was in, and if
\* it had just come, no queue.
NoOvertaking ==
    [][\A r \in holders' \ holders : queue = <<>> \/ r = Head(queue)]_vars

\* A parked caller is granted a slot or cancelled, however many others keep
\* coming back.
EveryoneAdmitted == \A r \in Runs : place[r] = "parked" ~> place[r] # "parked"
=============================================================================
