---------------------------- MODULE WorkflowDag ----------------------------
(***************************************************************************)
(* What a workflow is and how the executor reads it: the dependency graph, *)
(* the trigger rules, the subgraph a converge gate iterates, and the rule  *)
(* that turns the nodes' final outputs into the status of the run.         *)
(*                                                                         *)
(* Pure definitions, no state: DagContract, DagExecutor and ResumableRun   *)
(* are built on them.                                                      *)
(***************************************************************************)
EXTENDS Naturals, FiniteSets

CONSTANTS
    Nodes,      \* the node ids a workflow may use
    NoGate,     \* stands for "no converge block"
    Workflows   \* the workflow definitions considered

TriggerRules == {"all_success", "one_success", "none_failed_min_one_success", "all_done"}

\* The terminal states of a NodeOutput; "none" is a node absent from the map.
Outcomes == {"completed", "failed", "skipped"}
OutputMaps == [Nodes -> Outcomes \cup {"none"}]
NoOutputs == [n \in Nodes |-> "none"]

(***************************************************************************)
(* A workflow the loader accepts: every dependency is a node of it and the *)
(* graph has no cycle (every nonempty set of nodes has one that depends on *)
(* none of the set).                                                       *)
(***************************************************************************)
Acyclic(deps) == \A S \in (SUBSET Nodes) \ {{}} : \E n \in S : deps[n] \cap S = {}

IsWorkflow(w) ==
    /\ w.deps \in [Nodes -> SUBSET Nodes]
    /\ w.rule \in [Nodes -> TriggerRules]
    /\ w.conditional \in SUBSET Nodes       \* nodes with a `when:`
    /\ w.alwaysRun \in SUBSET Nodes         \* nodes with `always_run: true`
    /\ w.scheduling \in {"ready", "layered"}
    /\ w.gate \in Nodes \cup {NoGate}
    /\ w.maxRounds \in Nat \ {0}
    /\ w.onExhaust \in {"fail", "approval"}
    /\ Acyclic(w.deps)

ASSUME NodesAssumption == IsFiniteSet(Nodes) /\ NoGate \notin Nodes
ASSUME WorkflowsAssumption == \A w \in Workflows : IsWorkflow(w)

(***************************************************************************)
(* Least sets closed under dependencies, and under dependents.             *)
(***************************************************************************)
Upstream(w, roots) ==
    LET closed == {S \in SUBSET Nodes : roots \subseteq S /\ \A m \in S : w.deps[m] \subseteq S}
    IN  {n \in Nodes : \A S \in closed : n \in S}

Downstream(w, roots) ==
    LET closed == {S \in SUBSET Nodes :
                     roots \subseteq S /\ \A m \in Nodes \ S : w.deps[m] \cap S = {}}
    IN  {n \in Nodes : \A S \in closed : n \in S}

\* The nodes the converge rounds iterate: the gate and everything it depends on.
Subgraph(w) == IF w.gate = NoGate THEN {} ELSE Upstream(w, {w.gate})

(***************************************************************************)
(* Does the trigger rule of n let it run, given the outputs it is shown? A *)
(* dependency with no output counts as failed.                             *)
(***************************************************************************)
Triggered(w, n, out) ==
    LET seen == {IF out[d] = "none" THEN "failed" ELSE out[d] : d \in w.deps[n]}
    IN  \/ w.deps[n] = {}
        \/ w.rule[n] = "all_success" /\ seen \subseteq {"completed"}
        \/ w.rule[n] = "one_success" /\ "completed" \in seen
        \/ /\ w.rule[n] = "none_failed_min_one_success"
           /\ "failed" \notin seen
           /\ "completed" \in seen
        \/ w.rule[n] = "all_done"

\* Nodes the cancellation sweep and the exhausted converge fill in.
SkipMissing(out, S) ==
    LET missing == {n \in S : out[n] = "none"}
    IN  [n \in Nodes |-> IF n \in missing THEN "skipped" ELSE out[n]]

(***************************************************************************)
(* The status of a run that was not cancelled: it fails unless every       *)
(* failed node is absorbed by a completed direct dependent whose rule      *)
(* tolerates failures.                                                     *)
(***************************************************************************)
RescueRules == {"one_success", "none_failed_min_one_success", "all_done"}

Rescued(w, out, n) ==
    \E d \in Nodes : n \in w.deps[d] /\ out[d] = "completed" /\ w.rule[d] \in RescueRules

RunStatus(w, out) ==
    IF \A n \in Nodes : out[n] = "failed" => Rescued(w, out, n)
    THEN "succeeded" ELSE "failed"
=============================================================================
