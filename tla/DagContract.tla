---------------------------- MODULE DagContract ----------------------------
(***************************************************************************)
(* What the workflow executor promises about the outputs of a run, said    *)
(* without its schedulers: no queue, no counters, no layers, no handlers   *)
(* in flight.  Nodes are decided, each after all of its dependencies, as   *)
(* its trigger rule demands; a decision is final, except that a converge   *)
(* round may wipe the gate's subgraph while nothing outside it has been    *)
(* decided; and a closed run has an output for every node.                 *)
(*                                                                         *)
(* DagExecutor implements this specification.                              *)
(***************************************************************************)
EXTENDS WorkflowDag

VARIABLES
    wf,        \* the workflow being run
    seed,      \* the outputs the run was entered with (a resumed run has some)
    outputs,   \* the node outputs
    status     \* "idle", "open", or the final status

cvars == <<wf, seed, outputs, status>>

Init ==
    /\ wf \in Workflows
    /\ seed = NoOutputs
    /\ outputs = NoOutputs
    /\ status = "idle"

\* The run is entered with some settled outputs; a subgraph whose gate did
\* not complete starts over.
Open ==
    /\ status = "idle"
    /\ status' = "open"
    /\ seed' \in [Nodes -> {"none", "completed", "skipped"}]
    /\ outputs' = seed'
    /\ wf.gate # NoGate /\ outputs'[wf.gate] # "completed"
            => \A n \in Subgraph(wf) : outputs'[n] = "none"
    /\ UNCHANGED wf

\* Some undecided nodes, all of whose dependencies are decided, get an outcome.
Decide ==
    /\ status = "open"
    /\ \E S \in (SUBSET Nodes) \ {{}} :
          /\ \A n \in S : /\ outputs[n] = "none"
                          /\ \A d \in wf.deps[n] : outputs[d] # "none"
                          /\ outputs'[n] \in Outcomes
                          /\ ~Triggered(wf, n, outputs) => outputs'[n] = "skipped"
          /\ \A n \in Nodes \ S : outputs'[n] = outputs[n]
    /\ outputs' \in OutputMaps
    /\ UNCHANGED <<wf, seed, status>>

\* The subgraph has been decided, nothing outside it has.
SubgraphDecided ==
    /\ wf.gate # NoGate
    /\ LET sub == Subgraph(wf)
       IN  /\ \A n \in sub : outputs[n] # "none"
           /\ \A n \in Nodes \ sub : outputs[n] = seed[n]

\* The gate did not complete: the subgraph is wiped for another round.
NewRound ==
    /\ status = "open"
    /\ SubgraphDecided
    /\ outputs[wf.gate] # "completed"
    /\ outputs' = LET sub == Subgraph(wf)
                  IN  [n \in Nodes |-> IF n \in sub THEN "none" ELSE outputs[n]]
    /\ UNCHANGED <<wf, seed, status>>

\* The rounds are used up: the gate counts as failed.
GateFailed == [outputs EXCEPT ![wf.gate] = "failed"]

ExhaustAsks ==
    /\ status = "open"
    /\ SubgraphDecided
    /\ wf.onExhaust = "approval"
    /\ outputs[wf.gate] # "completed"
    /\ outputs' = GateFailed
    /\ UNCHANGED <<wf, seed, status>>

\* Someone accepts the exhausted gate: it completes, and so do the failed
\* nodes of its subgraph.
Absorbed ==
    LET sub == Subgraph(wf)
    IN  [n \in Nodes |-> IF n = wf.gate \/ (n \in sub /\ outputs[n] = "failed")
                         THEN "completed" ELSE outputs[n]]

ExhaustAccepted ==
    /\ status = "open"
    /\ SubgraphDecided
    /\ wf.onExhaust = "approval"
    /\ outputs[wf.gate] = "failed"
    /\ outputs' = Absorbed
    /\ UNCHANGED <<wf, seed, status>>

\* A run fails by a failed node that nothing recovers from: whatever completed
\* right after it had asked for the success of all.
Judged(out) ==
    IF \E n \in Nodes :
          /\ out[n] = "failed"
          /\ \A d \in Nodes : n \in wf.deps[d] /\ out[d] = "completed" => wf.rule[d] = "all_success"
    THEN "failed" ELSE "succeeded"

\* The run ends: everything decided; or the gate failed and the rest is
\* skipped; or cancelled, and whatever is undecided is skipped.
CloseDecided ==
    /\ status = "open"
    /\ \A n \in Nodes : outputs[n] # "none"
    /\ status' = Judged(outputs)
    /\ UNCHANGED <<wf, seed, outputs>>

CloseExhausted ==
    /\ status = "open"
    /\ SubgraphDecided
    /\ outputs[wf.gate] # "completed"
    /\ outputs' = SkipMissing(GateFailed, Nodes \ Subgraph(wf))
    /\ status' = Judged(outputs')
    /\ UNCHANGED <<wf, seed>>

CloseCancelled ==
    /\ status = "open"
    /\ \/ outputs' = SkipMissing(outputs, Nodes)
       \/ /\ SubgraphDecided
          /\ outputs[wf.gate] # "completed"
          /\ outputs' \in {SkipMissing(GateFailed, Nodes), SkipMissing(Absorbed, Nodes)}
    /\ status' = "cancelled"
    /\ UNCHANGED <<wf, seed>>

Next ==
    \/ Open \/ Decide \/ NewRound
    \/ ExhaustAsks \/ ExhaustAccepted
    \/ CloseDecided \/ CloseExhausted \/ CloseCancelled

Spec == Init /\ [][Next]_cvars
=============================================================================
