------------------------ MODULE DagRefinement_proofs ------------------------
(***************************************************************************)
(* DagExecutor implements DagContract, for every set of nodes, every       *)
(* workflow on them and every seed: whatever a scheduler does is, seen     *)
(* from the outputs, a step the contract allows or none at all.            *)
(***************************************************************************)
EXTENDS DagExecutor_proofs

-----------------------------------------------------------------------------
(* What the mapping needs beyond IInv.                                     *)

Running == pc \in {"dispatch", "await", "resolved", "approval"}

\* The status, and what a run that is still in its subgraph has not touched.
StandInv ==
    /\ pc = "idle" => status = "idle"
    /\ Running => status = "open"
    /\ Running /\ scope = "subgraph" => \A n \in Nodes \ Subgraph(wf) : outputs[n] = seed[n]
    /\ pc = "approval" => outputs[wf.gate] = "failed" /\ wf.onExhaust = "approval"

\* A node whose trigger rule does not hold is in flight, or has its result, only
\* to be skipped, and one without a `when:` is skipped for no other reason.
VerdictInv ==
    /\ \A n \in inFlight :
          /\ ~Triggered(wf, n, outputs) => verdict[n] = "skip"
          /\ verdict[n] = "skip" /\ n \notin wf.conditional => ~Triggered(wf, n, outputs)
    /\ pc = "await" /\ wf.scheduling = "layered" =>
          \A n \in Nodes : results[n] # "none" /\ ~Triggered(wf, n, outputs)
                              => results[n] = "skipped"

\* What was decided for a node outside the subgraph was decided on outputs that
\* have not changed since.
FinalInv ==
    /\ pc = "idle" \/ (Running /\ scope = "subgraph") =>
          \A n \in Nodes \ Subgraph(wf) : verdict[n] = "none"
    /\ status # "cancelled" =>
          \A n \in Nodes \ Subgraph(wf) : verdict[n] # "none" =>
              /\ \A d \in wf.deps[n] : outputs[d] # "none"
              /\ verdict[n] = "run" => Triggered(wf, n, outputs)
              /\ verdict[n] = "skip" /\ n \notin wf.conditional => ~Triggered(wf, n, outputs)

RInv == IInv /\ StandInv /\ VerdictInv /\ FinalInv

Conforms == Contract!Next \/ UNCHANGED contractVars

\* The contract's copies of the operators of WorkflowDag are the executor's.
LEMMA SameOperators ==
    ASSUME NEW w, NEW out, NEW n, NEW S
    PROVE  /\ Contract!Subgraph(w) = Subgraph(w)
           /\ Contract!Triggered(w, n, out) = Triggered(w, n, out)
           /\ Contract!SkipMissing(out, S) = SkipMissing(out, S)
           /\ Contract!Outcomes = Outcomes /\ Contract!OutputMaps = OutputMaps
<1>1. Contract!Subgraph(w) = Subgraph(w)
  BY DEF Contract!Subgraph, Subgraph, Contract!Upstream, Upstream
<1>2. Contract!Triggered(w, n, out) = Triggered(w, n, out)
  BY DEF Contract!Triggered, Triggered
<1>4. Contract!SkipMissing(out, S) = SkipMissing(out, S)
  BY DEF Contract!SkipMissing, SkipMissing
<1>5. Contract!Outcomes = Outcomes /\ Contract!OutputMaps = OutputMaps
  BY DEF Contract!Outcomes, Outcomes, Contract!OutputMaps, OutputMaps
<1> QED BY <1>1, <1>2, <1>4, <1>5

\* The contract judges a run as the executor does: of the four rules, all but
\* all_success rescue.
LEMMA SameVerdict ==
    ASSUME TypeOK, NEW out
    PROVE  Contract!Judged(out) = RunStatus(wf, out)
<1>1. \A d \in Nodes : wf.rule[d] \in RescueRules <=> wf.rule[d] # "all_success"
  BY DEF TypeOK, IsWorkflow, TriggerRules, RescueRules
<1>2. ASSUME NEW n \in Nodes
      PROVE  (\A d \in Nodes : n \in wf.deps[d] /\ out[d] = "completed" => wf.rule[d] = "all_success")
             <=> ~Rescued(wf, out, n)
  BY <1>1 DEF Rescued
<1> QED BY <1>2 DEF Contract!Judged, RunStatus

-----------------------------------------------------------------------------
(* Steps that decide nothing.                                              *)

\* The trigger rule of a node whose dependencies are decided is the same on what it
\* is shown and on the outputs.
LEMMA VisibleDecides ==
    ASSUME TypeOK, PhaseInv, DoneInv, Scheduling,
           NEW n \in Nodes, wf.deps[n] \subseteq Done
    PROVE  /\ Triggered(wf, n, Visible(n)) <=> Triggered(wf, n, outputs)
           /\ \A d \in wf.deps[n] : outputs[d] # "none"
<1>1. wf.deps[n] \subseteq Upstream(wf, wf.deps[n])
  BY UpstreamClosed DEF TypeOK, IsWorkflow
<1>2. \A d \in wf.deps[n] : Visible(n)[d] = outputs[d]
  BY <1>1, AncestorsDone
<1>3. \A d \in wf.deps[n] : outputs[d] # "none"
  BY <1>1, AncestorsDone
<1> QED BY <1>2, <1>3, TriggeredByDependencies

\* Starting nodes whose dependencies are decided.
LEMMA DispatchConforms ==
    ASSUME RInv, Scheduling, NEW S \in SUBSET Part, Dispatch(S),
           \A n \in S : wf.deps[n] \subseteq Done,
           wf' = wf, outputs' = outputs, status' = status, seed' = seed, scope' = scope,
           pc' \in {"dispatch", "await"},
           \A n \in Nodes : results'[n] # "none" => pc' # "await" \/ wf.scheduling = "ready"
    PROVE  StandInv' /\ VerdictInv' /\ FinalInv'
<1>1. TypeOK /\ PhaseInv /\ DoneInv /\ StandInv /\ VerdictInv /\ FinalInv /\ status = "open"
  BY DEF RInv, IInv, StandInv, Running, Scheduling
<1>2. S \in SUBSET Nodes /\ Part \in SUBSET Nodes
  BY <1>1, PartFacts
<1>3. PICK v \in [S -> {"run", "skip"}] :
         /\ \A n \in S : v[n] \in Verdicts(n)
         /\ verdict' = [n \in Nodes |-> IF n \in S THEN v[n] ELSE verdict[n]]
  BY DEF Dispatch
<1>4. \A n \in S : /\ Triggered(wf, n, Visible(n)) <=> Triggered(wf, n, outputs)
                   /\ \A d \in wf.deps[n] : outputs[d] # "none"
  BY <1>1, <1>2, VisibleDecides
<1>5. ASSUME NEW n \in S
      PROVE  /\ ~Triggered(wf, n, outputs) => verdict'[n] = "skip"
             /\ verdict'[n] = "run" => Triggered(wf, n, outputs)
             /\ verdict'[n] = "skip" /\ n \notin wf.conditional => ~Triggered(wf, n, outputs)
  BY <1>2, <1>3, <1>4 DEF Verdicts
<1>6. \A n \in Nodes \ S : verdict'[n] = verdict[n]
  BY <1>3
<1>7. inFlight' = inFlight \cup S /\ inFlight \in SUBSET Nodes
  BY <1>1 DEF Dispatch, TypeOK
<1>8. StandInv'
  BY <1>1 DEF StandInv, Running, Scheduling
<1>9. VerdictInv'
  BY <1>1, <1>5, <1>6, <1>7 DEF VerdictInv
<1>10. FinalInv'
  <2>1. Running /\ Running' /\ status # "cancelled"
    BY <1>1 DEF Running, Scheduling
  <2>2. scope = "subgraph" => S \subseteq Subgraph(wf)
    BY <1>1, PartFacts
  <2> QED BY <1>1, <1>4, <1>5, <1>6, <2>1, <2>2 DEF FinalInv
<1> QED BY <1>8, <1>9, <1>10

\* Steps of the schedulers and of cancellation that touch no output and no node.
LEMMA StillConforms ==
    ASSUME RInv, UNCHANGED contractVars, UNCHANGED nodeVars,
           pc' = pc \/ (Running /\ pc' \in {"dispatch", "await", "resolved"}),
           scope' = scope \/ (Running /\ scope' = "rest"),
           pc' = "await" /\ wf.scheduling = "layered" => pc = "await"
    PROVE  StandInv' /\ VerdictInv' /\ FinalInv' /\ Conforms
<1>1. StandInv /\ VerdictInv /\ FinalInv
  BY DEF RInv
<1>2. /\ wf' = wf /\ seed' = seed /\ outputs' = outputs /\ status' = status
      /\ inFlight' = inFlight /\ verdict' = verdict /\ results' = results
  BY DEF contractVars, nodeVars
<1>3. /\ pc' = "idle" => pc = "idle"
      /\ Running' <=> Running
      /\ pc' = "approval" => pc = "approval"
      /\ scope' = "subgraph" => scope = "subgraph"
  BY DEF Running
<1> QED
  BY <1>1, <1>2, <1>3 DEF StandInv, VerdictInv, FinalInv, Conforms

LEMMA SchedulerStillConforms ==
    ASSUME RInv, \/ \E n \in Nodes : TakeSeeded(n)
                 \/ ReadyLoopEnds \/ LayersEnd \/ GatePassed \/ Abort
    PROVE  StandInv' /\ VerdictInv' /\ FinalInv' /\ Conforms
<1>1. ASSUME NEW n \in Nodes, TakeSeeded(n)
      PROVE  StandInv' /\ VerdictInv' /\ FinalInv' /\ Conforms
  BY <1>1, StillConforms DEF TakeSeeded
<1>2. CASE ReadyLoopEnds \/ LayersEnd
  <2>1. UNCHANGED contractVars /\ UNCHANGED nodeVars /\ scope' = scope
    BY <1>2 DEF ReadyLoopEnds, LayersEnd, Resolve
  <2>2. /\ Running /\ pc' \in {"await", "resolved"}
        /\ pc' = "await" => wf.scheduling = "ready"
    BY <1>2 DEF ReadyLoopEnds, LayersEnd, Resolve, Running
  <2> QED BY <2>1, <2>2, StillConforms
<1>3. CASE GatePassed
  <2>1. UNCHANGED contractVars /\ UNCHANGED nodeVars /\ scope' = "rest"
    BY <1>3 DEF GatePassed, BeginPartition
  <2>2. Running /\ pc' = "dispatch"
    BY <1>3 DEF GatePassed, AfterSubgraph, BeginPartition, Running
  <2> QED BY <2>1, <2>2, StillConforms
<1>4. CASE Abort
  BY <1>4, StillConforms DEF Abort
<1> QED BY <1>1, <1>2, <1>3, <1>4

LEMMA TakeNodeConforms ==
    ASSUME RInv, NEW n \in Nodes, TakeNode(n)
    PROVE  StandInv' /\ VerdictInv' /\ FinalInv' /\ Conforms
<1>1. DoneInv /\ Scheduling
  BY DEF RInv, IInv, TakeNode, Scheduling
<1>2. UNCHANGED contractVars /\ scope' = scope /\ pc' = "dispatch" /\ Dispatch({n})
  BY DEF TakeNode
<1>3. {n} \in SUBSET Part /\ wf.deps[n] \subseteq Done
  BY <1>1 DEF DoneInv, TakeNode
<1>4. StandInv' /\ VerdictInv' /\ FinalInv'
  BY <1>1, <1>2, <1>3, DispatchConforms DEF contractVars
<1> QED BY <1>2, <1>4 DEF Conforms

LEMMA StartLayerConforms ==
    ASSUME RInv, StartLayer
    PROVE  StandInv' /\ VerdictInv' /\ FinalInv' /\ Conforms
<1> DEFINE S == {n \in Layer : outputs[n] = "none"}
<1>1. TypeOK /\ PhaseInv /\ Scheduling
  BY DEF RInv, IInv, StartLayer, Scheduling
<1>2. /\ UNCHANGED contractVars /\ scope' = scope /\ pc' = "await" /\ Dispatch(S)
      /\ \A n \in Nodes : results'[n] = "none"
  BY DEF StartLayer, NoOutputs
<1>3. S \in SUBSET Part /\ \A n \in S : wf.deps[n] \subseteq Done
  BY <1>1, LayerFacts
<1> HIDE DEF S
<1>4. StandInv' /\ VerdictInv' /\ FinalInv'
  BY <1>1, <1>2, <1>3, DispatchConforms DEF contractVars
<1> QED BY <1>2, <1>4 DEF Conforms

LEMMA LayeredNodeSettlesConforms ==
    ASSUME RInv, NEW n \in Nodes, NEW o \in OutcomesOf(n), LayeredNodeSettles(n, o)
    PROVE  StandInv' /\ VerdictInv' /\ FinalInv' /\ Conforms
<1>1. TypeOK /\ StandInv /\ VerdictInv /\ FinalInv
  BY DEF RInv, IInv
<1>2. /\ UNCHANGED contractVars /\ scope' = scope /\ pc' = pc /\ verdict' = verdict
      /\ inFlight' = inFlight \ {n} /\ n \in inFlight
      /\ \A m \in Nodes : results'[m] = IF m = n THEN o ELSE results[m]
      /\ wf' = wf /\ seed' = seed /\ outputs' = outputs /\ status' = status
  BY <1>1 DEF LayeredNodeSettles, contractVars, TypeOK, OutputMaps
<1>3. ~Triggered(wf, n, outputs) => o = "skipped"
  BY <1>1, <1>2 DEF VerdictInv, OutcomesOf
<1> QED
  BY <1>1, <1>2, <1>3 DEF StandInv, VerdictInv, FinalInv, Conforms, Running

-----------------------------------------------------------------------------
(* Steps that decide nodes.                                                *)

\* The nodes of S, all undecided and with their dependencies decided, get outputs.
LEMMA DecideConforms ==
    ASSUME RInv, Scheduling, NEW S \in SUBSET Part,
           wf' = wf, seed' = seed, status' = status, scope' = scope,
           outputs' \in OutputMaps,
           \A n \in Nodes \ S : outputs'[n] = outputs[n],
           \A n \in S : /\ outputs[n] = "none" /\ outputs'[n] # "none"
                        /\ wf.deps[n] \subseteq Done
                        /\ ~Triggered(wf, n, outputs) => outputs'[n] = "skipped",
           inFlight' \in SUBSET inFlight, verdict' = verdict,
           pc' = "dispatch"
    PROVE  StandInv' /\ VerdictInv' /\ FinalInv' /\ Conforms
<1>1. /\ TypeOK /\ PhaseInv /\ DoneInv /\ StandInv /\ VerdictInv /\ FinalInv
      /\ status = "open" /\ Running /\ Running'
  BY DEF RInv, IInv, StandInv, Running, Scheduling
<1>2. S \in SUBSET Nodes /\ Part \in SUBSET Nodes
  BY <1>1, PartFacts
<1>3. \A d \in Nodes : outputs[d] # "none" => outputs'[d] = outputs[d]
  OBVIOUS
<1>4. ASSUME NEW n \in Nodes, \A d \in wf.deps[n] : outputs[d] # "none"
      PROVE  Triggered(wf, n, outputs') <=> Triggered(wf, n, outputs)
  <2>1. \A d \in wf.deps[n] : outputs'[d] = outputs[d]
    BY <1>1, <1>3, <1>4 DEF TypeOK, IsWorkflow
  <2> QED BY <2>1, TriggeredByDependencies
<1>5. \A n \in inFlight : \A d \in wf.deps[n] : outputs[d] # "none"
  BY <1>1, DoneFacts DEF DoneInv
<1>6. StandInv'
  BY <1>1, <1>2, PartFacts DEF StandInv, Running, TypeOK
<1>7. VerdictInv'
  BY <1>1, <1>4, <1>5 DEF VerdictInv, TypeOK
<1>8. FinalInv'
  <2>1. ASSUME NEW n \in Nodes \ Subgraph(wf), verdict[n] # "none"
        PROVE  /\ \A d \in wf.deps[n] : outputs'[d] # "none"
               /\ verdict[n] = "run" => Triggered(wf, n, outputs')
               /\ verdict[n] = "skip" /\ n \notin wf.conditional => ~Triggered(wf, n, outputs')
    <3>1. \A d \in wf.deps[n] : outputs[d] # "none" /\ d \in Nodes
      BY <1>1, <2>1 DEF FinalInv, TypeOK, IsWorkflow
    <3>2. Triggered(wf, n, outputs') <=> Triggered(wf, n, outputs)
      BY <1>4, <3>1
    <3> QED BY <1>1, <1>3, <2>1, <3>1, <3>2 DEF FinalInv
  <2> QED BY <1>1, <2>1 DEF FinalInv
<1>9. Conforms
  <2>1. CASE S = {}
    <3>1. outputs' = outputs
      BY <1>1, <2>1 DEF TypeOK, OutputMaps
    <3> QED BY <3>1 DEF Conforms, contractVars
  <2>2. CASE S # {}
    <3>1. \A n \in S : /\ outputs[n] = "none"
                       /\ \A d \in wf.deps[n] : outputs[d] # "none"
                       /\ outputs'[n] \in Contract!Outcomes
                       /\ ~Contract!Triggered(wf, n, outputs) => outputs'[n] = "skipped"
      <4> SUFFICES ASSUME NEW n \in S
                   PROVE  /\ outputs[n] = "none"
                          /\ \A d \in wf.deps[n] : outputs[d] # "none"
                          /\ outputs'[n] \in Contract!Outcomes
                          /\ ~Contract!Triggered(wf, n, outputs) => outputs'[n] = "skipped"
        OBVIOUS
      <4>1. \A d \in wf.deps[n] : outputs[d] # "none"
        BY <1>1, DoneFacts
      <4>2. outputs'[n] \in Outcomes
        BY <1>2 DEF OutputMaps
      <4> QED BY <4>1, <4>2, SameOperators
    <3>2. outputs' \in Contract!OutputMaps
      BY SameOperators
    <3>3. S \in (SUBSET Nodes) \ {{}}
      BY <1>2, <2>2
    <3>4. Contract!Decide
      BY <1>1, <3>1, <3>2, <3>3 DEF Contract!Decide
    <3> QED BY <3>4 DEF Conforms, Contract!Next
  <2> QED BY <2>1, <2>2
<1> QED BY <1>6, <1>7, <1>8, <1>9

LEMMA ReadyNodeSettlesConforms ==
    ASSUME RInv, NEW n \in Nodes, NEW o \in OutcomesOf(n), ReadyNodeSettles(n, o)
    PROVE  StandInv' /\ VerdictInv' /\ FinalInv' /\ Conforms
<1>1. TypeOK /\ DoneInv /\ VerdictInv /\ Scheduling
  BY DEF RInv, IInv, ReadyNodeSettles, Scheduling
<1>2. n \in inFlight /\ {n} \in SUBSET Part /\ wf.deps[n] \subseteq Done /\ outputs[n] = "none"
  BY <1>1 DEF ReadyNodeSettles, DoneInv
<1>3. /\ o \in Outcomes /\ o # "none"
      /\ ~Triggered(wf, n, outputs) => o = "skipped"
  BY <1>1, <1>2 DEF VerdictInv, OutcomesOf, HandlerOutcomes, Outcomes
<1>4. /\ outputs' \in OutputMaps /\ outputs'[n] = o
      /\ \A m \in Nodes \ {n} : outputs'[m] = outputs[m]
  BY <1>1, <1>3 DEF ReadyNodeSettles, TypeOK, OutputMaps
<1>5. /\ wf' = wf /\ seed' = seed /\ status' = status /\ scope' = scope
      /\ inFlight' \in SUBSET inFlight /\ verdict' = verdict /\ pc' = "dispatch"
  BY DEF ReadyNodeSettles
<1> QED BY <1>1, <1>2, <1>3, <1>4, <1>5, DecideConforms

LEMMA MergeLayerConforms ==
    ASSUME RInv, MergeLayer
    PROVE  StandInv' /\ VerdictInv' /\ FinalInv' /\ Conforms
<1> DEFINE S == {n \in Nodes : results[n] # "none"}
<1>1. TypeOK /\ PhaseInv /\ LayeredInv /\ VerdictInv /\ Scheduling
      /\ pc = "await" /\ wf.scheduling = "layered"
  BY DEF RInv, IInv, MergeLayer, Scheduling
<1>2. S \in SUBSET Part /\ \A n \in S : wf.deps[n] \subseteq Done /\ outputs[n] = "none"
  BY <1>1, LayerFacts DEF LayeredInv
<1>3. /\ outputs' \in OutputMaps
      /\ \A n \in Nodes : outputs'[n] = IF results[n] # "none" THEN results[n] ELSE outputs[n]
  BY <1>1 DEF MergeLayer, TypeOK, OutputMaps
<1>4. \A n \in S : /\ outputs'[n] # "none"
                   /\ ~Triggered(wf, n, outputs) => outputs'[n] = "skipped"
  BY <1>1, <1>3 DEF VerdictInv
<1>5. /\ wf' = wf /\ seed' = seed /\ status' = status /\ scope' = scope
      /\ inFlight' \in SUBSET inFlight /\ verdict' = verdict /\ pc' = "dispatch"
  BY DEF MergeLayer
<1>6. \A n \in Nodes \ S : outputs'[n] = outputs[n]
  BY <1>3
<1> HIDE DEF S
<1> QED BY <1>1, <1>2, <1>3, <1>4, <1>5, <1>6, DecideConforms

-----------------------------------------------------------------------------
(* runWorkflow.                                                            *)

LEMMA RunWorkflowConforms ==
    ASSUME RInv, NEW s, RunWorkflow(s)
    PROVE  StandInv' /\ VerdictInv' /\ FinalInv' /\ Conforms
<1>1. /\ TypeOK /\ PhaseInv /\ VerdictInv /\ FinalInv /\ pc = "idle" /\ status = "idle"
      /\ inFlight = {} /\ IsWorkflow(wf)
  BY DEF RInv, IInv, PhaseInv, StandInv, RunWorkflow, TypeOK
<1>2. /\ wf' = wf /\ status' = "open" /\ outputs' = seed' /\ pc' = "dispatch"
      /\ inFlight' = inFlight /\ verdict' = verdict
  BY DEF RunWorkflow, BeginPartition, nodeVars
<1>3. /\ seed' \in [Nodes -> {"none", "completed", "skipped"}]
      /\ wf.gate # NoGate /\ seed'[wf.gate] # "completed"
            => \A n \in Subgraph(wf) : seed'[n] = "none"
  <2>1. CASE wf.gate # NoGate /\ FilteredSeed(s)[wf.gate] # "completed"
    <3>1. seed' = ResetSubgraph(FilteredSeed(s))
      BY <2>1 DEF RunWorkflow
    <3>2. Subgraph(wf) \in SUBSET Nodes
      BY <1>1, SubgraphClosed
    <3> QED BY <3>1, <3>2 DEF ResetSubgraph, FilteredSeed
  <2>2. CASE ~(wf.gate # NoGate /\ FilteredSeed(s)[wf.gate] # "completed")
    <3>1. seed' = FilteredSeed(s)
      BY <2>2 DEF RunWorkflow
    <3> QED BY <2>2, <3>1 DEF FilteredSeed
  <2> QED BY <2>1, <2>2
<1>4. Conforms
  BY <1>1, <1>2, <1>3, SameOperators DEF Conforms, Contract!Next, Contract!Open
<1>5. StandInv' /\ VerdictInv' /\ FinalInv'
  BY <1>1, <1>2 DEF StandInv, VerdictInv, FinalInv, Running
<1> QED BY <1>4, <1>5

\* When the controller looks at the gate, the subgraph is decided and nothing else is.
LEMMA GateIsLookedAt ==
    ASSUME RInv, AfterSubgraph \/ pc = "approval"
    PROVE  /\ Contract!SubgraphDecided
           /\ status = "open" /\ Running /\ scope = "subgraph" /\ wf.gate # NoGate
           /\ inFlight = {} /\ \A n \in Nodes \ Subgraph(wf) : verdict[n] = "none"
           /\ wf.gate \in Subgraph(wf) /\ Subgraph(wf) \in SUBSET Nodes
           /\ outputs \in OutputMaps
<1>1. /\ TypeOK /\ PhaseInv /\ StandInv /\ FinalInv /\ Running /\ IsWorkflow(wf)
      /\ scope = "subgraph" /\ wf.gate # NoGate
  BY DEF RInv, IInv, PhaseInv, AfterSubgraph, Running, TypeOK
<1>2. \A n \in Subgraph(wf) : outputs[n] # "none"
  <2>1. CASE AfterSubgraph
    BY <1>1, <2>1, ResolvedFacts, PartFacts DEF RInv, AfterSubgraph
  <2>2. CASE pc = "approval"
    BY <1>1, <2>2 DEF PhaseInv
  <2> QED BY <2>1, <2>2
<1>3. \A n \in Nodes \ Subgraph(wf) : outputs[n] = seed[n]
  BY <1>1 DEF StandInv
<1>4. Contract!SubgraphDecided
  BY <1>1, <1>2, <1>3, SameOperators DEF Contract!SubgraphDecided
<1>5. inFlight = {}
  BY <1>1 DEF PhaseInv, AfterSubgraph
<1> QED BY <1>1, <1>4, <1>5, SubgraphClosed DEF StandInv, FinalInv, TypeOK

LEMMA NextRoundConforms ==
    ASSUME RInv, NextRound
    PROVE  StandInv' /\ VerdictInv' /\ FinalInv' /\ Conforms
<1>1. /\ Contract!SubgraphDecided /\ status = "open"
      /\ inFlight = {} /\ \A n \in Nodes \ Subgraph(wf) : verdict[n] = "none"
      /\ \A n \in Nodes \ Subgraph(wf) : outputs[n] = seed[n]
  BY GateIsLookedAt DEF NextRound, RInv, StandInv
<1>2. /\ wf' = wf /\ seed' = seed /\ status' = status /\ outputs' = ResetSubgraph(outputs)
      /\ pc' = "dispatch" /\ inFlight' = inFlight /\ verdict' = verdict
      /\ outputs[wf.gate] # "completed"
  BY DEF NextRound, BeginPartition, nodeVars, GateCompleted
<1>3. Conforms
  BY <1>1, <1>2, SameOperators
  DEF Conforms, Contract!Next, Contract!NewRound, ResetSubgraph
<1>4. \A n \in Nodes \ Subgraph(wf) : outputs'[n] = outputs[n]
  BY <1>2 DEF ResetSubgraph
<1> QED
  BY <1>1, <1>2, <1>3, <1>4 DEF StandInv, VerdictInv, FinalInv, Running

LEMMA ExhaustAsksConforms ==
    ASSUME RInv, ExhaustAsks
    PROVE  StandInv' /\ VerdictInv' /\ FinalInv' /\ Conforms
<1>1. /\ Contract!SubgraphDecided /\ status = "open"
      /\ inFlight = {} /\ \A n \in Nodes \ Subgraph(wf) : verdict[n] = "none"
      /\ \A n \in Nodes \ Subgraph(wf) : outputs[n] = seed[n]
      /\ wf.gate \in Nodes /\ wf.gate \in Subgraph(wf) /\ outputs \in OutputMaps
  BY GateIsLookedAt DEF ExhaustAsks, RInv, StandInv
<1>2. /\ wf' = wf /\ seed' = seed /\ status' = status /\ scope' = scope
      /\ outputs' = GateExhausted /\ pc' = "approval" /\ inFlight' = inFlight
      /\ verdict' = verdict /\ wf.onExhaust = "approval" /\ outputs[wf.gate] # "completed"
  BY DEF ExhaustAsks, nodeVars, GateCompleted
<1>3. Conforms
  BY <1>1, <1>2
  DEF Conforms, Contract!Next, Contract!ExhaustAsks, Contract!GateFailed, GateExhausted
<1>4. /\ \A n \in Nodes \ Subgraph(wf) : outputs'[n] = outputs[n]
      /\ outputs'[wf.gate] = "failed"
  BY <1>1, <1>2 DEF GateExhausted, OutputMaps
<1> QED
  BY <1>1, <1>2, <1>3, <1>4 DEF StandInv, VerdictInv, FinalInv, Running

\* A closed run, as the executor keeps it.
LEMMA ClosedConforms ==
    ASSUME RInv, pc' = "closed", wf' = wf, inFlight' = {}, verdict' = verdict,
           Contract!Next,
           \/ status' = "cancelled"
           \/ \A n \in Nodes \ Subgraph(wf) : verdict[n] = "none"
           \/ outputs' = outputs /\ status = "open"
    PROVE  StandInv' /\ VerdictInv' /\ FinalInv' /\ Conforms
BY DEF RInv, StandInv, VerdictInv, FinalInv, Conforms, Running

\* Filling in what is missing twice fills in no more.
LEMMA SkipTwice ==
    ASSUME NEW out, NEW S \in SUBSET Nodes
    PROVE  SkipMissing(SkipMissing(out, S), Nodes) = SkipMissing(out, Nodes)
BY DEF SkipMissing

LEMMA ExhaustFailsConforms ==
    ASSUME RInv, ExhaustFails
    PROVE  StandInv' /\ VerdictInv' /\ FinalInv' /\ Conforms
<1> DEFINE rest == Nodes \ Subgraph(wf)
<1>1. /\ TypeOK /\ Contract!SubgraphDecided /\ status = "open" /\ inFlight = {}
      /\ \A n \in rest : verdict[n] = "none"
  BY GateIsLookedAt DEF ExhaustFails, RInv, IInv
<1>2. /\ wf' = wf /\ seed' = seed /\ pc' = "closed" /\ inFlight' = inFlight
      /\ verdict' = verdict /\ outputs[wf.gate] # "completed"
      /\ Close(SkipMissing(GateExhausted, rest), aborted)
  BY DEF ExhaustFails, Close, nodeVars, GateCompleted
<1>3. CASE aborted
  <2>1. outputs' = SkipMissing(GateExhausted, Nodes) /\ status' = "cancelled"
    BY <1>2, <1>3, SkipTwice DEF Close
  <2>2. Contract!CloseCancelled
    BY <1>1, <1>2, <2>1, SameOperators DEF Contract!CloseCancelled, Contract!GateFailed, GateExhausted
  <2> QED BY <1>1, <1>2, <2>2, ClosedConforms DEF Contract!Next
<1>4. CASE ~aborted
  <2>1. /\ outputs' = SkipMissing(GateExhausted, rest)
        /\ status' = RunStatus(wf, outputs')
    BY <1>2, <1>4 DEF Close
  <2>2. Contract!CloseExhausted
    BY <1>1, <1>2, <2>1, SameOperators, SameVerdict DEF Contract!CloseExhausted, Contract!GateFailed, GateExhausted
  <2> QED BY <1>1, <1>2, <2>2, ClosedConforms DEF Contract!Next
<1> QED BY <1>3, <1>4

LEMMA ExhaustRejectedConforms ==
    ASSUME RInv, ExhaustRejected
    PROVE  StandInv' /\ VerdictInv' /\ FinalInv' /\ Conforms
<1> DEFINE rest == Nodes \ Subgraph(wf)
<1>1. /\ TypeOK /\ Contract!SubgraphDecided /\ status = "open" /\ inFlight = {}
      /\ \A n \in rest : verdict[n] = "none"
      /\ outputs \in OutputMaps /\ outputs[wf.gate] = "failed"
  BY GateIsLookedAt DEF ExhaustRejected, RInv, IInv, StandInv
<1>2. /\ wf' = wf /\ seed' = seed /\ pc' = "closed" /\ inFlight' = inFlight
      /\ verdict' = verdict
      /\ Close(SkipMissing(outputs, rest), aborted)
  BY DEF ExhaustRejected, Close, nodeVars
<1>3. Contract!GateFailed = outputs
  BY <1>1 DEF Contract!GateFailed, OutputMaps
<1>4. CASE aborted
  <2>1. outputs' = SkipMissing(outputs, Nodes) /\ status' = "cancelled"
    BY <1>2, <1>4, SkipTwice DEF Close
  <2>2. Contract!CloseCancelled
    BY <1>1, <1>2, <2>1, SameOperators DEF Contract!CloseCancelled
  <2> QED BY <1>1, <1>2, <2>2, ClosedConforms DEF Contract!Next
<1>5. CASE ~aborted
  <2>1. /\ outputs' = SkipMissing(outputs, rest)
        /\ status' = RunStatus(wf, outputs')
    BY <1>2, <1>5 DEF Close
  <2>2. Contract!CloseExhausted
    BY <1>1, <1>2, <1>3, <2>1, SameOperators, SameVerdict DEF Contract!CloseExhausted
  <2> QED BY <1>1, <1>2, <2>2, ClosedConforms DEF Contract!Next
<1> QED BY <1>4, <1>5

LEMMA ExhaustAcceptedConforms ==
    ASSUME RInv, ExhaustAccepted
    PROVE  StandInv' /\ VerdictInv' /\ FinalInv' /\ Conforms
<1>1. /\ Contract!SubgraphDecided /\ status = "open" /\ inFlight = {} /\ pc = "approval"
      /\ \A n \in Nodes \ Subgraph(wf) : verdict[n] = "none"
      /\ outputs[wf.gate] = "failed" /\ wf.onExhaust = "approval"
  BY GateIsLookedAt DEF ExhaustAccepted, RInv, StandInv
<1>2. /\ wf' = wf /\ seed' = seed /\ inFlight' = inFlight /\ verdict' = verdict
  BY DEF ExhaustAccepted, nodeVars
<1>3. Contract!Absorbed = Absorbed
  BY SameOperators DEF Contract!Absorbed, Absorbed
<1>4. CASE aborted
  <2>1. /\ outputs' = SkipMissing(Absorbed, Nodes) /\ status' = "cancelled" /\ pc' = "closed"
    BY <1>4 DEF ExhaustAccepted, Close
  <2>2. Contract!CloseCancelled
    BY <1>1, <1>2, <1>3, <2>1, SameOperators DEF Contract!CloseCancelled
  <2> QED BY <1>1, <1>2, <2>1, <2>2, ClosedConforms DEF Contract!Next
<1>5. CASE ~aborted
  <2>1. /\ outputs' = Absorbed /\ status' = status /\ pc' = "dispatch" /\ scope' = "rest"
    BY <1>5 DEF ExhaustAccepted, BeginPartition
  <2>2. Contract!ExhaustAccepted
    BY <1>1, <1>2, <1>3, <2>1 DEF Contract!ExhaustAccepted
  <2> QED
    BY <1>1, <1>2, <2>1, <2>2
    DEF Conforms, Contract!Next, StandInv, VerdictInv, FinalInv, Running
<1> QED BY <1>4, <1>5

LEMMA FinishConforms ==
    ASSUME RInv, Finish
    PROVE  StandInv' /\ VerdictInv' /\ FinalInv' /\ Conforms
<1>1. /\ TypeOK /\ PhaseInv /\ DoneInv /\ inFlight = {} /\ status = "open" /\ Scheduling
  BY DEF RInv, IInv, StandInv, PhaseInv, Running, Finish, Scheduling
<1>2. /\ wf' = wf /\ seed' = seed /\ pc' = "closed" /\ inFlight' = inFlight
      /\ verdict' = verdict
      /\ Close(outputs, cancelled \/ aborted)
  BY DEF Finish, Close, nodeVars
<1>3. CASE cancelled \/ aborted
  <2>1. outputs' = SkipMissing(outputs, Nodes) /\ status' = "cancelled"
    BY <1>2, <1>3 DEF Close
  <2>2. Contract!CloseCancelled
    BY <1>1, <1>2, <2>1, SameOperators DEF Contract!CloseCancelled
  <2> QED BY <1>1, <1>2, <2>1, <2>2, ClosedConforms DEF Contract!Next
<1>4. CASE ~(cancelled \/ aborted)
  <2>1. outputs' = outputs /\ status' = RunStatus(wf, outputs)
    BY <1>2, <1>4 DEF Close
  <2>2. \A n \in Nodes : outputs[n] # "none"
    <3>1. scope = "rest" /\ pc = "resolved"
      BY <1>4 DEF Finish
    <3>2. \A n \in Part \cup Outside : outputs[n] # "none"
      BY <1>1, <1>4, <3>1, ResolvedFacts DEF RInv, DoneInv, Done
    <3> QED BY <1>1, <3>1, <3>2, PartFacts
  <2>3. Contract!CloseDecided
    BY <1>1, <1>2, <2>1, <2>2, SameVerdict DEF Contract!CloseDecided
  <2> QED BY <1>1, <1>2, <2>1, <2>3, ClosedConforms DEF Contract!Next
<1> QED BY <1>3, <1>4

-----------------------------------------------------------------------------

LEMMA InitRefines == Init => RInv /\ Contract!Init
<1> SUFFICES ASSUME Init PROVE RInv /\ Contract!Init
  OBVIOUS
<1>1. IInv
  BY InitInv
<1>2. StandInv /\ VerdictInv /\ FinalInv
  BY DEF Init, StandInv, VerdictInv, FinalInv, Running, NoOutputs
<1>3. Contract!Init
  BY DEF Init, Contract!Init, Contract!NoOutputs, NoOutputs
<1> QED BY <1>1, <1>2, <1>3 DEF RInv

\* One case per action.
LEMMA StepRefines == RInv /\ [Next]_vars => RInv' /\ [Contract!Next]_contractVars
<1> DEFINE Goal == StandInv' /\ VerdictInv' /\ FinalInv' /\ Conforms
<1> SUFFICES ASSUME RInv, [Next]_vars PROVE Goal
  BY NextInv DEF RInv, Conforms
<1>1. ASSUME NEW s \in Seeds, RunWorkflow(s) PROVE Goal
  BY <1>1, RunWorkflowConforms
<1>2. CASE Scheduler
  BY <1>2, SchedulerStillConforms, TakeNodeConforms, StartLayerConforms, MergeLayerConforms
  DEF Scheduler
<1>3. CASE Controller
  BY <1>3, SchedulerStillConforms, NextRoundConforms, ExhaustFailsConforms, ExhaustAsksConforms,
     FinishConforms
  DEF Controller
<1>4. CASE Settles
  BY <1>4, ReadyNodeSettlesConforms, LayeredNodeSettlesConforms DEF Settles, NodeSettles
<1>5. CASE Answered
  BY <1>5, ExhaustAcceptedConforms, ExhaustRejectedConforms DEF Answered
<1>6. CASE Abort
  BY <1>6, SchedulerStillConforms
<1>7. CASE UNCHANGED vars
  <2>1. UNCHANGED contractVars /\ UNCHANGED nodeVars /\ pc' = pc /\ scope' = scope
    BY <1>7 DEF vars, contractVars, nodeVars
  <2> QED BY <2>1, StillConforms
<1> HIDE DEF Goal
<1> QED BY <1>1, <1>2, <1>3, <1>4, <1>5, <1>6, <1>7 DEF Next

-----------------------------------------------------------------------------
\* The executor implements the contract: on every graph, with every seed, under either
\* scheduler, a cancel at any point included.
THEOREM ExecutorImplementsContract == Spec => ImplementsContract
<1>1. RInv /\ [Next]_vars => [Contract!Next]_(Contract!cvars)
  BY StepRefines DEF Contract!cvars, contractVars
<1> QED BY <1>1, InitRefines, StepRefines, PTL DEF Spec, ImplementsContract, Contract!Spec

\* What was decided for a node outside the subgraph when it was dispatched is what the
\* outputs of a run that ended uncancelled demand, however nodes were interleaved.
THEOREM DispatchedForGood == Spec => []DecisionsAreFinal
<1>1. RInv => DecisionsAreFinal
  BY DEF RInv, FinalInv, DecisionsAreFinal
<1> QED BY <1>1, InitRefines, StepRefines, PTL DEF Spec
=============================================================================
