---------------------------- MODULE ResumableRun ----------------------------
(***************************************************************************)
(* A run across its launches: the executor of DagExecutor, the rows the    *)
(* server persists for it while it runs, the crash that loses everything   *)
(* but the rows, the reconciliation of the next boot, and the resume that  *)
(* seeds a new execution from the rows (apps/server/src/workflows-         *)
(* handler.ts and workflow-store.ts).                                      *)
(*                                                                         *)
(* The server writes the rows from the executor's events, so each step of  *)
(* the executor carries the writes of the events it emits.                 *)
(***************************************************************************)
EXTENDS DagExecutor

CONSTANTS
    MaxLaunches,    \* bound: the first launch and the resumes
    MaxCrashes,     \* bound: how often the server dies
    CrashPoints     \* where it may die, as values of pc

ASSUME BoundsAssumption == MaxLaunches \in Nat \ {0} /\ MaxCrashes \in Nat

VARIABLES
    rows,       \* workflow_node_outputs.status of each node, "absent" for no row
    runRow,     \* workflow_runs.status
    outdated,   \* history: nodes that last executed before one of their ancestors last did
    launches,
    crashes

runVars == <<rows, runRow, outdated, launches, crashes>>
allVars == <<vars, runVars>>

RunTypeOK ==
    /\ rows \in [Nodes -> {"absent", "succeeded", "failed", "skipped"}]
    /\ runRow \in {"running", "succeeded", "failed", "cancelled"}
    /\ outdated \subseteq Nodes
    /\ launches \in 1 .. MaxLaunches
    /\ crashes \in 0 .. MaxCrashes

\* A bug to catch: the outcome's own name is stored.
RowOf_Raw(o) == o

\* NodeResult.status of an outcome.
RowOf(o) == IF o = "completed" THEN "succeeded" ELSE o

-----------------------------------------------------------------------------
(* What a resume re-executes.                                              *)

ResumeRoots(w) ==
    {n \in Nodes : n \in w.alwaysRun \/ rows[n] \notin {"succeeded", "skipped"}}

\* Bugs to catch: what was derived from a node to re-execute is seeded; a gate
\* to re-execute keeps part of its subgraph.
ResumeExclusions_RootsOnly(w) == ResumeRoots(w)
ResumeExclusions_GateAlone(w) == Downstream(w, ResumeRoots(w))

ResumeExclusions(w) ==
    LET roots == ResumeRoots(w)
        excluded == Downstream(w, roots)
    IN  IF w.gate # NoGate /\ w.gate \in excluded
        THEN Downstream(w, roots \cup Upstream(w, {w.gate}))
        ELSE excluded

\* Skips are not seeded: they are derived again.
ResumeSeed(w) ==
    LET excluded == ResumeExclusions(w)
    IN  [n \in Nodes |-> IF rows[n] = "succeeded" /\ n \notin excluded THEN "completed" ELSE "none"]

-----------------------------------------------------------------------------
(* A launch.                                                               *)

Launch ==
    /\ runRow = "running"
    /\ RunWorkflow(ResumeSeed(wf))
    /\ UNCHANGED runVars

\* A launch may also end before the executor is called (preflight, worktree
\* setup, a cancel while it queues for a slot).
SetupFails ==
    /\ pc = "idle"
    /\ runRow = "running"
    /\ runRow' \in {"failed", "cancelled"}
    /\ UNCHANGED <<vars, rows, outdated, launches, crashes>>

\* node_started drops the row of an earlier launch or round; a node that is
\* skipped is done at once.
NodesStart ==
    /\ (\E n \in Nodes : TakeNode(n)) \/ StartLayer
    /\ LET taken == inFlight' \ inFlight
           started == {n \in taken : verdict'[n] = "run"}
       IN  /\ rows' = [n \in Nodes |-> IF n \in started THEN "absent"
                                       ELSE IF n \in taken THEN "skipped" ELSE rows[n]]
           /\ outdated' = (outdated \cup Downstream(wf, started)) \ started
    /\ UNCHANGED <<runRow, launches, crashes>>

\* node_done.
NodeDone ==
    /\ \E n \in Nodes : \E o \in OutcomesOf(n) :
          /\ NodeSettles(n, o)
          /\ rows' = [rows EXCEPT ![n] = RowOf(o)]
    /\ UNCHANGED <<runRow, outdated, launches, crashes>>

\* A bug to catch: these rows are inserted unless there is one.
Concludes_OrIgnore ==
    /\ ExhaustFails \/ ExhaustAsks \/ ExhaustRejected \/ ExhaustAccepted \/ Finish
    /\ rows' = [n \in Nodes |-> IF outputs'[n] # outputs[n] /\ rows[n] = "absent"
                                THEN RowOf(outputs'[n]) ELSE rows[n]]
    /\ outdated' = outdated
    /\ UNCHANGED <<runRow, launches, crashes>>

\* The node_done events runWorkflow itself emits: the gate of an exhausted
\* converge, the nodes an acceptance absorbs, the nodes a sweep skips.
Concludes ==
    /\ ExhaustFails \/ ExhaustAsks \/ ExhaustRejected \/ ExhaustAccepted \/ Finish
    /\ rows' = [n \in Nodes |-> IF outputs'[n] # outputs[n] THEN RowOf(outputs'[n]) ELSE rows[n]]
    \* Whoever accepts the gate vouches for its subgraph as it is.
    /\ outdated' = IF pc = "approval" /\ outputs'[wf.gate] = "completed"
                   THEN outdated \ Subgraph(wf) ELSE outdated
    /\ UNCHANGED <<runRow, launches, crashes>>

Proceeds ==
    /\ \/ \E n \in Nodes : TakeSeeded(n)
       \/ ReadyLoopEnds \/ MergeLayer \/ LayersEnd
       \/ GatePassed \/ NextRound \/ Abort
    /\ UNCHANGED runVars

\* run_done is dispatched once the launch has been torn down.
RunDone ==
    /\ pc = "closed"
    /\ runRow = "running"
    /\ runRow' = status
    /\ UNCHANGED <<vars, rows, outdated, launches, crashes>>

-----------------------------------------------------------------------------
(* Between launches.                                                       *)

\* A fresh call of runWorkflow awaits.
Renew ==
    /\ UNCHANGED wf
    /\ seed' = NoOutputs
    /\ outputs' = NoOutputs
    /\ status' = "idle"
    /\ pc' = "idle"
    /\ scope' = "rest"
    /\ round' = 0
    /\ settled' = {}
    /\ remaining' = [n \in Nodes |-> 0]
    /\ ready' = {}
    /\ inFlight' = {}
    /\ view' = [n \in Nodes |-> NoOutputs]
    /\ verdict' = [n \in Nodes |-> "none"]
    /\ results' = NoOutputs
    /\ aborted' = FALSE
    /\ cancelled' = FALSE

\* The server dies; the next boot finds the row running and fails it.
CrashAndBoot ==
    /\ runRow = "running"
    /\ pc \in CrashPoints
    /\ crashes < MaxCrashes
    /\ crashes' = crashes + 1
    /\ runRow' = "failed"
    /\ Renew
    /\ UNCHANGED <<rows, outdated, launches>>

\* resumeRunCore claims the row; the seed is taken from the rows as they are.
Resume ==
    /\ runRow \in {"failed", "cancelled"}
    /\ launches < MaxLaunches
    /\ launches' = launches + 1
    /\ runRow' = "running"
    /\ Renew
    /\ UNCHANGED <<rows, outdated, crashes>>

RunInit ==
    /\ Init
    /\ rows = [n \in Nodes |-> "absent"]
    /\ runRow = "running"
    /\ outdated = {}
    /\ launches = 1
    /\ crashes = 0

RunNext ==
    \/ Launch \/ SetupFails
    \/ NodesStart \/ NodeDone \/ Concludes \/ Proceeds \/ RunDone
    \/ CrashAndBoot \/ Resume

RunSpec == RunInit /\ [][RunNext]_allVars

-----------------------------------------------------------------------------
(* Properties.                                                             *)

\* Every derived output is consistent with the outputs it was derived from: a
\* run does not end with a node completed whose handler last ran before that
\* of a node it depends on.
DerivedOutputsAreFresh ==
    pc = "closed" /\ status # "cancelled"
        => \A n \in outdated : outputs[n] # "completed"

\* The same of a run whose server has not died, whose gate nobody can accept and whose
\* nodes have no `when:` (which the model lets answer anew in each launch): then the
\* rows of earlier launches are enough to tell what is to run again.
FreshUnlessCrashed ==
    crashes = 0 /\ wf.onExhaust = "fail" /\ wf.conditional = {} => DerivedOutputsAreFresh

\* What a launch leaves in the database is what its executor reported, for
\* every node, whatever earlier launches and rounds had left there.
RowsMatchTheRun ==
    pc = "closed" => \A n \in Nodes : rows[n] = RowOf(outputs[n])

\* A resumed launch never reuses work done downstream of a converge subgraph
\* while running the subgraph's rounds again.
GateSeededBeforeItsDependents ==
    pc # "idle" /\ wf.gate # NoGate /\ seed[wf.gate] # "completed"
        => \A n \in Downstream(wf, Subgraph(wf)) : seed[n] = "none"

\* The same of a run whose server has not died: a crash in the second round can leave
\* the row of a gate that the first round skipped beside rows of nodes that succeeded.
GateFirstUnlessCrashed == crashes = 0 => GateSeededBeforeItsDependents
=============================================================================
