-------------------------- MODULE ApprovalRegistry --------------------------
(***************************************************************************)
(* createApprovalRegistry (apps/server/src/approval-registry.ts) and its   *)
(* onChange hook, which recomposes the prompts' snapshot key               *)
(* (apps/server/src/index.ts): the composer is the registry's list().      *)
(*                                                                         *)
(* Everything a function does before it returns is one step.  An abort     *)
(* fires the listeners of all the turn's asks: in which order, nobody      *)
(* sees, since what they settle is read when they have all run.            *)
(* A timer, an answer and an abort come when the microtask queue is empty; *)
(* a request may come from a continuation, in the middle of a recompose.   *)
(***************************************************************************)
EXTENDS Naturals, FiniteSets

CONSTANTS
    Asks,       \* the tool calls that a policy pauses
    Turns       \* the turns they belong to

ASSUME ApprovalAssumption == IsFiniteSet(Asks)

VARIABLES
    turnOf,     \* the turn of each ask
    decision,   \* what its promise resolved to
    entries,    \* the open asks
    torn,       \* turns whose signal has fired
    changes,    \* how often the hook was called
    promptKey,  \* the manager's entries for the prompts' key
    promptJobs

approvalVars == <<turnOf, decision, entries, torn, changes, promptKey, promptJobs>>

MaxChanges == 2 * Cardinality(Asks)

Prompts == INSTANCE SnapshotManager WITH
    MaxRegs <- 1, MaxVersion <- MaxChanges,
    key <- promptKey, jobs <- promptJobs, socket <- [on |-> FALSE, sent |-> <<>>]

ApprovalInit ==
    /\ turnOf \in [Asks -> Turns]
    /\ decision = [a \in Asks |-> "none"]
    /\ entries = {}
    /\ torn = {}
    /\ changes = 0
    /\ Prompts!ManagerInit

ApprovalTypeOK ==
    /\ decision \in [Asks -> {"none", "open", "accept", "reject"}]
    /\ entries \in SUBSET Asks
    /\ torn \in SUBSET Turns
    /\ changes \in 0 .. MaxChanges
    /\ Prompts!ManagerTypeOK

\* The list the composer returns is named by the number of changes it has seen.
RegisterPrompts ==
    /\ Prompts!Register
    /\ UNCHANGED <<turnOf, decision, entries, torn, changes>>

\* The hook is called after each of n changes; the first call may start a
\* recompose, which reads the list at once, and the others join it.
Notify(n) ==
    /\ changes' = changes + n
    /\ IF n > 0 /\ Prompts!CanStart
       THEN Prompts!Recompose(changes + 1)
       ELSE UNCHANGED <<promptKey, promptJobs>>

-----------------------------------------------------------------------------
(* request()                                                               *)

Refuse(a) ==
    /\ decision[a] = "none"
    /\ turnOf[a] \in torn
    /\ decision' = [decision EXCEPT ![a] = "reject"]
    /\ UNCHANGED <<turnOf, entries, torn, changes, promptKey, promptJobs>>

\* A bug to catch: the signal may have fired before there was a listener.
Request_Unchecked(a) ==
    /\ promptKey.composer = 1
    /\ decision[a] = "none"
    /\ decision' = [decision EXCEPT ![a] = "open"]
    /\ entries' = entries \cup {a}
    /\ Notify(1)
    /\ UNCHANGED <<turnOf, torn>>

Request(a) ==
    /\ promptKey.composer = 1
    /\ decision[a] = "none"
    /\ turnOf[a] \notin torn
    /\ decision' = [decision EXCEPT ![a] = "open"]
    /\ entries' = entries \cup {a}
    /\ Notify(1)
    /\ UNCHANGED <<turnOf, torn>>

-----------------------------------------------------------------------------
(* settle()                                                                *)

Quiet == promptKey.inflight = 0

SettleAll(A, d) ==
    LET settled == entries \cap A IN
    /\ decision' = [a \in Asks |-> IF a \in settled THEN d ELSE decision[a]]
    /\ entries' = entries \ A
    /\ Notify(Cardinality(settled))

Resolve(a, d) ==
    /\ Quiet
    /\ a \in entries         \* otherwise the route answers 404
    /\ SettleAll({a}, d)
    /\ UNCHANGED <<turnOf, torn>>

Timeout(a) ==
    /\ Quiet
    /\ a \in entries
    /\ SettleAll({a}, "reject")
    /\ UNCHANGED <<turnOf, torn>>

TurnAborts(t) ==
    /\ Quiet
    /\ t \notin torn
    /\ torn' = torn \cup {t}
    /\ SettleAll({a \in Asks : turnOf[a] = t}, "reject")
    /\ UNCHANGED turnOf

\* Shutdown.
Clear ==
    /\ Quiet
    /\ entries # {}
    /\ SettleAll(Asks, "reject")
    /\ UNCHANGED <<turnOf, torn>>

PromptsComplete ==
    /\ Prompts!Complete(1) \/ Prompts!Finally(1)
    /\ UNCHANGED <<turnOf, decision, entries, torn, changes>>

ApprovalNext ==
    \/ RegisterPrompts
    \/ \E a \in Asks : Refuse(a) \/ Request(a) \/ Timeout(a)
    \/ \E a \in Asks, d \in {"accept", "reject"} : Resolve(a, d)
    \/ \E t \in Turns : TurnAborts(t)
    \/ Clear
    \/ PromptsComplete

ApprovalSpec == ApprovalInit /\ [][ApprovalNext]_approvalVars

-----------------------------------------------------------------------------
(* Properties.                                                             *)

Promise == INSTANCE Verdict WITH over <- {a \in Asks : turnOf[a] \in torn}

\* However an answer, a timeout, an abort and a shutdown race, each ask is
\* decided once, no prompt outlives its turn, and an abandoned one cannot pin
\* its turn for ever.
EachAskIsDecided == Promise!Spec

\* The snapshot key republishes the open set after every change of it.
Published == IF promptKey.cache = Prompts!NoFrame THEN 0 ELSE promptKey.cache.data

OpenSetIsPublished == \A n \in 1 .. MaxChanges : changes >= n ~> Published >= n
=============================================================================
