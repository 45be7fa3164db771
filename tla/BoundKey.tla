------------------------------ MODULE BoundKey ------------------------------
(***************************************************************************)
(* The publish function that applyRibs (apps/server/src/ribs.ts) gives a   *)
(* workflow bound to a snapshot key: it keeps the last value in a holder   *)
(* and pumps the SnapshotManager, whose recompose() reads the holder.  The *)
(* manager coalesces concurrent calls; the pump must not.                  *)
(*                                                                         *)
(* The published values are 1, 2, 3, ..., all of which the contribution's  *)
(* validator accepts: an invalid one would leave the last frame.           *)
(***************************************************************************)
EXTENDS Naturals

CONSTANT MaxPublishes       \* bound on the calls of publish()

ASSUME BoundAssumption == MaxPublishes \in Nat

VARIABLES
    boundKey,   \* the manager's entries for the bound key
    boundJobs,
    latest,     \* the holder
    recomposing,
    dirty

boundVars == <<boundKey, boundJobs, latest, recomposing, dirty>>

\* Registered once, at activation; nobody subscribes here.
Bound == INSTANCE SnapshotManager WITH
    MaxRegs <- 1, MaxVersion <- MaxPublishes,
    key <- boundKey, jobs <- boundJobs, socket <- [on |-> FALSE, sent |-> <<>>]

BoundInit ==
    /\ Bound!ManagerInit
    /\ latest = 0
    /\ recomposing = FALSE
    /\ dirty = FALSE

BoundTypeOK ==
    /\ Bound!ManagerTypeOK
    /\ latest \in 0 .. MaxPublishes
    /\ {recomposing, dirty} \subseteq BOOLEAN

RegisterBoundKey == Bound!Register /\ UNCHANGED <<latest, recomposing, dirty>>

\* A bug to catch: a publish that meets a recompose in flight trusts it.
BoundPublish_NoPump ==
    /\ boundKey.composer = 1
    /\ latest < MaxPublishes
    /\ latest' = latest + 1
    /\ UNCHANGED dirty
    /\ IF recomposing
       THEN UNCHANGED <<boundKey, boundJobs, recomposing>>
       ELSE recomposing' = TRUE /\ Bound!Recompose(latest')

BoundPublish ==
    /\ boundKey.composer = 1
    /\ latest < MaxPublishes
    /\ latest' = latest + 1
    /\ IF recomposing
       THEN dirty' = TRUE /\ UNCHANGED <<boundKey, boundJobs, recomposing>>
       ELSE recomposing' = TRUE /\ dirty' = FALSE /\ Bound!Recompose(latest')

\* The pump continues after `await recompose()`, behind the manager's finally().
PumpContinues ==
    /\ recomposing
    /\ boundJobs[1] = Bound!Idle
    /\ UNCHANGED latest
    /\ IF dirty
       THEN dirty' = FALSE /\ Bound!Recompose(latest) /\ UNCHANGED recomposing
       ELSE recomposing' = FALSE /\ UNCHANGED <<boundKey, boundJobs, dirty>>

BoundCompletes ==
    /\ Bound!Complete(1) \/ Bound!Finally(1)
    /\ UNCHANGED <<latest, recomposing, dirty>>

BoundNext == RegisterBoundKey \/ BoundPublish \/ PumpContinues \/ BoundCompletes

BoundSpec == BoundInit /\ [][BoundNext]_boundVars

-----------------------------------------------------------------------------
(* Properties.                                                             *)

Shown == IF boundKey.cache = Bound!NoFrame THEN 0 ELSE boundKey.cache.data

Board == INSTANCE Publication WITH
    MaxChanges <- MaxPublishes, source <- latest, copy <- Shown

\* However the publishes of a run fall between the steps of a recompose, the
\* board never goes back and its final value is the one that is broadcast.
TheLastValueIsShown == Board!Spec
=============================================================================
