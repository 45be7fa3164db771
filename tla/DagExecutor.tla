---------------------------- MODULE DagExecutor ----------------------------
(***************************************************************************)
(* runWorkflow (packages/workflows/src/executor.ts): one execution of a    *)
(* workflow, under either scheduler.                                       *)
(*                                                                         *)
(* The executor is one JavaScript thread: a stretch of code between two    *)
(* awaits is not interleaved with anything.  pc says where it stands:      *)
(*   idle      runWorkflow has not been called                             *)
(*   dispatch  inside a scheduler's synchronous loop                       *)
(*   await     nodes are in flight; their promises, or an abort, come next *)
(*   resolved  the scheduler's promise has resolved, runWorkflow goes on   *)
(*   approval  waiting for the answer to an exhausted converge gate        *)
(*   closed    run_done was emitted                                        *)
(*                                                                         *)
(* Node handlers are the environment: a triggered node's handler settles   *)
(* with any outcome.  What a node may read of the snapshot it is given is  *)
(* what it (transitively) depends on, since the loader rejects a reference *)
(* to any other node.                                                      *)
(***************************************************************************)
EXTENDS WorkflowDag

CONSTANT Seeds      \* the completedNodeOutputs runWorkflow may be called with

ASSUME SeedsAssumption == Seeds \subseteq OutputMaps

VARIABLES
    wf,         \* opts.workflow
    seed,       \* the seeded outputs that passed the filter
    outputs,    \* nodeOutputs
    status,     \* "idle", "open" while it runs, then the status of run_done
    pc,
    scope,      \* the partition being scheduled: "subgraph" or "rest"
    round,      \* the converge round
    settled,    \* nodes settle() was called for; nodes of the layers gone through
    remaining,  \* runReady: dependencies of a node not settled yet
    ready,      \* runReady: the ready queue
    inFlight,   \* dispatched nodes that have not settled
    view,       \* the snapshot of outputs a dispatched node was given
    verdict,    \* what the node's trigger rule and `when:` said of it
    results,    \* runLayers: the outputs of the layer, not merged yet
    aborted,    \* abortSignal.aborted
    cancelled   \* the local of the same name: what the scheduler resolved with

contractVars == <<wf, seed, outputs, status>>
nodeVars == <<inFlight, view, verdict, results>>
queueVars == <<settled, remaining, ready>>
vars == <<wf, seed, outputs, status, pc, scope, round, settled, remaining, ready,
          inFlight, view, verdict, results, aborted, cancelled>>

Partition(w, sc) ==
    IF w.gate = NoGate THEN Nodes
    ELSE IF sc = "subgraph" THEN Subgraph(w) ELSE Nodes \ Subgraph(w)

Part == Partition(wf, scope)

\* A bug to catch: a node placed once one of its dependencies is, not all.
Layer_SomePlaced ==
    LET part == Part
    IN  {n \in part \ settled : \/ wf.deps[n] \cap part = {}
                               \/ wf.deps[n] \cap settled # {}}

\* runLayers: the layer reached is what the layers gone through make placeable.
Layer ==
    LET part == Part
    IN  {n \in part \ settled : wf.deps[n] \cap part \subseteq settled}

Visible(n) ==
    LET ancestors == Upstream(wf, wf.deps[n])
    IN  [m \in Nodes |-> IF m \in ancestors THEN outputs[m] ELSE "none"]

\* trigger_rule, then `when:` (whose value depends on the data of the outputs).
Verdicts(n) ==
    IF ~Triggered(wf, n, Visible(n)) THEN {"skip"}
    ELSE IF n \in wf.conditional THEN {"run", "skip"} ELSE {"run"}

\* A NodeResult may also say skipped, which no handler of the repository returns.
HandlerOutcomes == {"completed", "failed"}
OutcomesOf(n) == IF verdict[n] = "skip" THEN {"skipped"} ELSE HandlerOutcomes

TypeOK ==
    /\ IsWorkflow(wf)
    /\ seed \in [Nodes -> {"none", "completed", "skipped"}]
    /\ outputs \in OutputMaps
    /\ status \in {"idle", "open", "succeeded", "failed", "cancelled"}
    /\ pc \in {"idle", "dispatch", "await", "resolved", "approval", "closed"}
    /\ scope \in {"subgraph", "rest"}
    /\ round \in Nat
    /\ settled \in SUBSET Nodes
    /\ remaining \in [Nodes -> Nat]
    /\ ready \in SUBSET Nodes
    /\ inFlight \in SUBSET Nodes
    /\ view \in [Nodes -> OutputMaps]
    /\ verdict \in [Nodes -> {"none", "run", "skip"}]
    /\ results \in OutputMaps
    /\ aborted \in BOOLEAN
    /\ cancelled \in BOOLEAN

-----------------------------------------------------------------------------
\* A bug to catch: the seeded dependencies are not counted, but settle all the same.
BeginPartition_Unseeded(sc) ==
    LET part == Partition(wf, sc)
    IN  /\ scope' = sc
        /\ settled' = {}
        /\ remaining' = [n \in Nodes |-> Cardinality({d \in wf.deps[n] \cap part : outputs'[d] = "none"})]
        /\ ready' = {n \in part : wf.deps[n] \cap part = {}}
        /\ pc' = "dispatch"

\* Entering a scheduler: fresh counters and queue over the partition sc.
BeginPartition(sc) ==
    LET part == Partition(wf, sc)
    IN  /\ scope' = sc
        /\ settled' = {}
        /\ remaining' = [n \in Nodes |-> Cardinality(wf.deps[n] \cap part)]
        /\ ready' = {n \in part : wf.deps[n] \cap part = {}}
        /\ pc' = "dispatch"

\* Emitting run_done, and returning.
Close(out, sweep) ==
    /\ outputs' = IF sweep THEN SkipMissing(out, Nodes) ELSE out
    /\ status' = IF sweep THEN "cancelled" ELSE RunStatus(wf, out)
    /\ pc' = "closed"

\* A bug to catch: a new round starts from the last round's work.
ResetSubgraph_GateOnly(out) == [out EXCEPT ![wf.gate] = "none"]

ResetSubgraph(out) ==
    LET sub == Subgraph(wf) IN [n \in Nodes |-> IF n \in sub THEN "none" ELSE out[n]]

\* The seed filter keeps terminal successes only.
FilteredSeed(s) == [n \in Nodes |-> IF s[n] \in {"completed", "skipped"} THEN s[n] ELSE "none"]

RunWorkflow(s) ==
    /\ pc = "idle"
    /\ status' = "open"
    /\ seed' = LET kept == FilteredSeed(s)
               IN  IF wf.gate # NoGate /\ kept[wf.gate] # "completed"
                   THEN ResetSubgraph(kept) ELSE kept
    /\ outputs' = seed'
    /\ round' = 1
    /\ BeginPartition(IF wf.gate = NoGate THEN "rest" ELSE "subgraph")
    /\ UNCHANGED <<wf, nodeVars, aborted, cancelled>>

-----------------------------------------------------------------------------
(* Both schedulers.                                                        *)

\* The synchronous head of runNodeOnce for the nodes of S.
Dispatch(S) ==
    /\ inFlight' = inFlight \cup S
    /\ view' = [n \in Nodes |-> IF n \in S THEN Visible(n) ELSE view[n]]
    /\ \E v \in [S -> {"run", "skip"}] :
          /\ \A n \in S : v[n] \in Verdicts(n)
          /\ verdict' = [n \in Nodes |-> IF n \in S THEN v[n] ELSE verdict[n]]

Resolve ==
    /\ pc' = "resolved"
    /\ cancelled' = aborted
    /\ UNCHANGED <<contractVars, scope, round, queueVars, nodeVars, aborted>>

(* runReady *)

\* A bug to catch: an off-by-one in the counters.
Settle_Early(n, queue) ==
    /\ settled' = settled \cup {n}
    /\ LET dependents == {m \in Part : n \in wf.deps[m]}
       IN  /\ remaining' = [m \in Nodes |-> IF m \in dependents
                                            THEN remaining[m] - 1 ELSE remaining[m]]
           /\ ready' = queue \cup {m \in dependents : remaining[m] <= 2}

\* settle(n): its dependents' counters go down, and those at zero are ready.
Settle(n, queue) ==
    /\ settled' = settled \cup {n}
    /\ LET dependents == {m \in Part : n \in wf.deps[m]}
       IN  /\ remaining' = [m \in Nodes |-> IF m \in dependents
                                            THEN remaining[m] - 1 ELSE remaining[m]]
           /\ ready' = queue \cup {m \in dependents : remaining[m] = 1}

\* A bug to catch: a seeded node is dropped from the queue, its dependents not told.
TakeSeeded_Silent(n) ==
    /\ pc = "dispatch"
    /\ wf.scheduling = "ready"
    /\ ~aborted
    /\ n \in ready
    /\ outputs[n] # "none"
    /\ ready' = ready \ {n}
    /\ UNCHANGED <<contractVars, pc, scope, round, settled, remaining, nodeVars, aborted, cancelled>>

\* dispatch() shifts a node that is already settled by the seed...
TakeSeeded(n) ==
    /\ pc = "dispatch"
    /\ wf.scheduling = "ready"
    /\ ~aborted
    /\ n \in ready
    /\ outputs[n] # "none"
    /\ Settle(n, ready \ {n})
    /\ UNCHANGED <<contractVars, pc, scope, round, nodeVars, aborted, cancelled>>

\* ... or one it starts.
TakeNode(n) ==
    /\ pc = "dispatch"
    /\ wf.scheduling = "ready"
    /\ ~aborted
    /\ n \in ready
    /\ outputs[n] = "none"
    /\ ready' = ready \ {n}
    /\ Dispatch({n})
    /\ UNCHANGED <<contractVars, pc, scope, round, settled, remaining, results, aborted, cancelled>>

\* A bug to catch: an aborted dispatch() waits for its queue to empty.
ReadyLoopEnds_QueueOnly ==
    /\ pc = "dispatch"
    /\ wf.scheduling = "ready"
    /\ ready = {}
    /\ IF inFlight = {}
       THEN Resolve
       ELSE /\ pc' = "await"
            /\ UNCHANGED <<contractVars, scope, round, queueVars, nodeVars, aborted, cancelled>>

\* The loop is over (queue empty, or aborted): resolve, or wait for a node.
ReadyLoopEnds ==
    /\ pc = "dispatch"
    /\ wf.scheduling = "ready"
    /\ ready = {} \/ aborted
    /\ IF inFlight = {}
       THEN Resolve
       ELSE /\ pc' = "await"
            /\ UNCHANGED <<contractVars, scope, round, queueVars, nodeVars, aborted, cancelled>>

\* A node's promise settles: its result is merged, and dispatch() runs again.
ReadyNodeSettles(n, o) ==
    /\ pc = "await"
    /\ wf.scheduling = "ready"
    /\ n \in inFlight
    /\ outputs' = [outputs EXCEPT ![n] = o]
    /\ inFlight' = inFlight \ {n}
    /\ Settle(n, ready)
    /\ pc' = "dispatch"
    /\ UNCHANGED <<wf, seed, status, scope, round, view, verdict, results, aborted, cancelled>>

(* runLayers *)

\* The next layer: its nodes without an output all start.
StartLayer ==
    /\ pc = "dispatch"
    /\ wf.scheduling = "layered"
    /\ ~aborted
    /\ Layer # {}
    /\ Dispatch({n \in Layer : outputs[n] = "none"})
    /\ results' = NoOutputs
    /\ pc' = "await"
    /\ UNCHANGED <<contractVars, scope, round, queueVars, aborted, cancelled>>

LayeredNodeSettles(n, o) ==
    /\ pc = "await"
    /\ wf.scheduling = "layered"
    /\ n \in inFlight
    /\ results' = [results EXCEPT ![n] = o]
    /\ inFlight' = inFlight \ {n}
    /\ UNCHANGED <<contractVars, pc, scope, round, queueVars, view, verdict, aborted, cancelled>>

\* Promise.allSettled: the layer's results are merged.
MergeLayer ==
    /\ pc = "await"
    /\ wf.scheduling = "layered"
    /\ inFlight = {}
    /\ outputs' = [n \in Nodes |-> IF results[n] # "none" THEN results[n] ELSE outputs[n]]
    /\ results' = NoOutputs
    /\ settled' = settled \cup Layer
    /\ pc' = "dispatch"
    /\ UNCHANGED <<wf, seed, status, scope, round, remaining, ready, inFlight, view, verdict,
                   aborted, cancelled>>

LayersEnd ==
    /\ pc = "dispatch"
    /\ wf.scheduling = "layered"
    /\ Layer = {} \/ aborted
    /\ Resolve

NodeSettles(n, o) == ReadyNodeSettles(n, o) \/ LayeredNodeSettles(n, o)

-----------------------------------------------------------------------------
(* runWorkflow after its scheduler.                                        *)

AfterSubgraph == pc = "resolved" /\ scope = "subgraph" /\ ~cancelled
GateCompleted == outputs[wf.gate] = "completed"

\* A bug to catch: the gate's outcome is not looked at.
GatePassed_Anyway ==
    /\ AfterSubgraph
    /\ BeginPartition("rest")
    /\ UNCHANGED <<contractVars, round, nodeVars, aborted, cancelled>>

GatePassed ==
    /\ AfterSubgraph
    /\ GateCompleted
    /\ BeginPartition("rest")
    /\ UNCHANGED <<contractVars, round, nodeVars, aborted, cancelled>>

\* The abort check at the head of the loop needs no step of its own: a
\* scheduler entered with the signal aborted starts nothing and resolves true.
NextRound ==
    /\ AfterSubgraph
    /\ ~GateCompleted
    /\ round < wf.maxRounds
    /\ outputs' = ResetSubgraph(outputs)
    /\ round' = round + 1
    /\ BeginPartition("subgraph")
    /\ UNCHANGED <<wf, seed, status, nodeVars, aborted, cancelled>>

GateExhausted == [outputs EXCEPT ![wf.gate] = "failed"]

ExhaustFails ==
    /\ AfterSubgraph
    /\ ~GateCompleted
    /\ round = wf.maxRounds
    /\ wf.onExhaust = "fail"
    /\ Close(SkipMissing(GateExhausted, Nodes \ Subgraph(wf)), aborted)
    /\ UNCHANGED <<wf, seed, scope, round, queueVars, nodeVars, aborted, cancelled>>

ExhaustAsks ==
    /\ AfterSubgraph
    /\ ~GateCompleted
    /\ round = wf.maxRounds
    /\ wf.onExhaust = "approval"
    /\ outputs' = GateExhausted
    /\ pc' = "approval"
    /\ UNCHANGED <<wf, seed, status, scope, round, queueVars, nodeVars, aborted, cancelled>>

Absorbed ==
    LET sub == Subgraph(wf)
    IN  [n \in Nodes |-> IF n = wf.gate \/ (n \in sub /\ outputs[n] = "failed")
                         THEN "completed" ELSE outputs[n]]

ExhaustAccepted ==
    /\ pc = "approval"
    /\ IF aborted
       THEN /\ Close(Absorbed, TRUE)
            /\ UNCHANGED <<scope, queueVars>>
       ELSE /\ outputs' = Absorbed
            /\ BeginPartition("rest")
            /\ UNCHANGED status
    /\ UNCHANGED <<wf, seed, round, nodeVars, aborted, cancelled>>

ExhaustRejected ==
    /\ pc = "approval"
    /\ Close(SkipMissing(outputs, Nodes \ Subgraph(wf)), aborted)
    /\ UNCHANGED <<wf, seed, scope, round, queueVars, nodeVars, aborted, cancelled>>

Finish ==
    /\ pc = "resolved"
    /\ scope = "rest" \/ cancelled
    /\ Close(outputs, cancelled \/ aborted)
    /\ UNCHANGED <<wf, seed, scope, round, queueVars, nodeVars, aborted, cancelled>>

\* Someone cancels the run, between two stretches of the executor's code.
Abort ==
    /\ pc \in {"idle", "await", "resolved", "approval"}
    /\ ~aborted
    /\ aborted' = TRUE
    /\ UNCHANGED <<contractVars, pc, scope, round, queueVars, nodeVars, cancelled>>

-----------------------------------------------------------------------------
Init ==
    /\ wf \in Workflows
    /\ seed = NoOutputs
    /\ outputs = NoOutputs
    /\ status = "idle"
    /\ pc = "idle"
    /\ scope = "rest"
    /\ round = 0
    /\ settled = {}
    /\ remaining = [n \in Nodes |-> 0]
    /\ ready = {}
    /\ inFlight = {}
    /\ view = [n \in Nodes |-> NoOutputs]
    /\ verdict = [n \in Nodes |-> "none"]
    /\ results = NoOutputs
    /\ aborted = FALSE
    /\ cancelled = FALSE

Scheduler ==
    \/ \E n \in Nodes : TakeSeeded(n) \/ TakeNode(n)
    \/ ReadyLoopEnds
    \/ StartLayer \/ MergeLayer \/ LayersEnd

Controller ==
    \/ GatePassed \/ NextRound
    \/ ExhaustFails \/ ExhaustAsks
    \/ Finish

Settles == \E n \in Nodes : \E o \in OutcomesOf(n) : NodeSettles(n, o)
Answered == ExhaustAccepted \/ ExhaustRejected

Next ==
    \/ \E s \in Seeds : RunWorkflow(s)
    \/ Scheduler \/ Controller \/ Settles \/ Answered
    \/ Abort

Spec == Init /\ [][Next]_vars

\* Every promise settles: the executor's continuations run and every handler
\* returns or throws.  Nobody has to answer an exhausted gate; an abort does.
FairSpec ==
    /\ Spec
    /\ WF_vars(\E s \in Seeds : RunWorkflow(s))
    /\ WF_vars(Scheduler \/ Controller)
    /\ WF_vars(Settles)
    /\ WF_vars(aborted /\ Answered)

-----------------------------------------------------------------------------
(* Properties.                                                             *)

\* A node in flight was shown the outcome of everything it depends on, however
\* indirectly and even if that was being re-run, and none of those outcomes
\* has changed since: what the handler substitutes is what the run records.
SeesItsAncestors ==
    \A n \in inFlight : \A d \in Upstream(wf, wf.deps[n]) :
        view[n][d] = outputs[d] /\ outputs[d] # "none"

\* The ready queue starts a node at most once per round: it never holds a
\* node that is in flight or whose settling was already counted.
EachNodeOnce ==
    wf.scheduling = "ready" => /\ ready \cap inFlight = {}
                               /\ ready \cap settled = {}
                               /\ inFlight \cap settled = {}

\* A scheduler that resolves without an abort has left no node of its
\* partition undecided, and none running behind it.
NothingForgotten ==
    pc = "resolved" /\ ~cancelled
        => inFlight = {} /\ \A n \in Part : outputs[n] # "none"

\* Nothing outside the converge subgraph starts before the gate has completed,
\* or was accepted, in whatever round.
GateHoldsTheRest ==
    wf.gate # NoGate /\ inFlight \ Subgraph(wf) # {} => outputs[wf.gate] = "completed"

\* However the nodes were interleaved, what was decided for a node when it was
\* dispatched is what the final outputs of its dependencies demand.  (Inside a
\* subgraph whose gate was accepted, the failures a decision saw are absorbed.)
DecisionsAreFinal ==
    status \in {"succeeded", "failed"}
        => \A n \in Nodes \ Subgraph(wf) :
              /\ verdict[n] = "run" => Triggered(wf, n, outputs)
              /\ verdict[n] = "skip" /\ n \notin wf.conditional => ~Triggered(wf, n, outputs)

\* The run ends, unless it waits for an answer that never comes.
Closes == <>(pc = "closed") \/ <>[](pc = "approval" /\ ~aborted)

\* The executor does what the contract promises.
Contract == INSTANCE DagContract
ImplementsContract == Contract!Spec
=============================================================================
