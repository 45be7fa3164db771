------------------------- MODULE DagExecutor_proofs -------------------------
(***************************************************************************)
(* DagExecutor, for every set of nodes, every workflow on them and every   *)
(* seed: what a handler is shown is complete and stays true, no node is    *)
(* started twice, no scheduler resolves with work left to do, and every    *)
(* step brings the run closer to its end.                                  *)
(***************************************************************************)
EXTENDS DagExecutor, FiniteSetTheorems, WellFoundedInduction, TLAPS

-----------------------------------------------------------------------------
(* The graph operators of WorkflowDag.                                     *)

\* What a set of nodes depends on, with the set, is closed under dependencies.
LEMMA UpstreamClosed ==
    ASSUME NEW w, IsWorkflow(w), NEW roots \in SUBSET Nodes
    PROVE  /\ Upstream(w, roots) \in SUBSET Nodes
           /\ roots \subseteq Upstream(w, roots)
           /\ \A m \in Upstream(w, roots) : w.deps[m] \subseteq Upstream(w, roots)
<1>1. w.deps \in [Nodes -> SUBSET Nodes]
  BY DEF IsWorkflow
<1> QED BY <1>1 DEF Upstream

\* ... and it is within every set that contains the nodes and is closed.
LEMMA UpstreamLeast ==
    ASSUME NEW w, NEW roots, NEW S \in SUBSET Nodes,
           roots \subseteq S, \A m \in S : w.deps[m] \subseteq S
    PROVE  Upstream(w, roots) \subseteq S
  BY DEF Upstream

\* The subgraph of a gate holds the gate and all that its nodes depend on.
LEMMA SubgraphClosed ==
    ASSUME NEW w, IsWorkflow(w)
    PROVE  /\ Subgraph(w) \in SUBSET Nodes
           /\ \A m \in Subgraph(w) : w.deps[m] \subseteq Subgraph(w)
           /\ w.gate # NoGate => w.gate \in Subgraph(w)
           /\ w.gate = NoGate => Subgraph(w) = {}
<1>1. CASE w.gate = NoGate
  BY <1>1 DEF Subgraph
<1>2. CASE w.gate # NoGate
  <2>1. {w.gate} \in SUBSET Nodes
    BY <1>2 DEF IsWorkflow
  <2> QED BY <1>2, <2>1, UpstreamClosed DEF Subgraph
<1> QED BY <1>1, <1>2

\* A set of nodes that is missing something has a missing node with no
\* missing dependency: what a scheduler can always go on with.
LEMMA FirstMissing ==
    ASSUME NEW w, IsWorkflow(w), NEW S \in SUBSET Nodes, NEW done, ~(S \subseteq done)
    PROVE  \E n \in S \ done : w.deps[n] \cap S \subseteq done
<1>1. S \ done \in (SUBSET Nodes) \ {{}}
  OBVIOUS
<1>2. PICK n \in S \ done : w.deps[n] \cap (S \ done) = {}
  BY <1>1 DEF IsWorkflow, Acyclic
<1> QED BY <1>2

\* Whether a node is triggered depends on the outputs of its dependencies alone.
LEMMA TriggeredByDependencies ==
    ASSUME NEW w, NEW n, NEW out1, NEW out2,
           \A d \in w.deps[n] : out1[d] = out2[d]
    PROVE  Triggered(w, n, out1) <=> Triggered(w, n, out2)
<1> DEFINE seen(out) == {IF out[d] = "none" THEN "failed" ELSE out[d] : d \in w.deps[n]}
<1>1. seen(out1) = seen(out2)
  OBVIOUS
<1> QED BY <1>1 DEF Triggered

-----------------------------------------------------------------------------
(* The inductive invariant.                                                *)

Scheduling == pc \in {"dispatch", "await", "resolved"}

\* What is decided before the partition is entered, and what is decided so far.
Outside == IF scope = "rest" THEN Subgraph(wf) ELSE {}
Done == settled \cup Outside

\* Where the executor stands, and what it has decided when it gets there.
PhaseInv ==
    /\ scope = "subgraph" => wf.gate # NoGate
    /\ pc = "approval" => /\ scope = "subgraph"
                          /\ \A n \in Subgraph(wf) : outputs[n] # "none"
    /\ Scheduling /\ scope = "rest" /\ wf.gate # NoGate => outputs[wf.gate] = "completed"
    /\ pc \notin {"dispatch", "await"} => inFlight = {}

\* Decided nodes have outputs, and nothing is ready or runs before its
\* dependencies are decided.
DoneInv ==
    Scheduling =>
        /\ settled \cup ready \cup inFlight \subseteq Part
        /\ \A n \in Done : outputs[n] # "none"
        /\ \A n \in settled \cup ready \cup inFlight : wf.deps[n] \subseteq Done
        /\ \A n \in inFlight : outputs[n] = "none"

\* runReady: the counters count, and whatever could start is somewhere.
ReadyInv ==
    Scheduling /\ wf.scheduling = "ready" =>
        /\ ready \cap inFlight = {} /\ ready \cap settled = {} /\ inFlight \cap settled = {}
        /\ \A m \in Part : remaining[m] = Cardinality((wf.deps[m] \cap Part) \ settled)
        /\ \A m \in Part : wf.deps[m] \cap Part \subseteq settled
                              => m \in settled \cup ready \cup inFlight

\* runLayers: the nodes of the layer are in flight, have a result, or had one.
LayeredInv ==
    Scheduling /\ wf.scheduling = "layered" =>
        /\ pc # "await" => inFlight = {}
        /\ pc = "await" =>
              /\ inFlight \subseteq Layer
              /\ \A n \in Layer : outputs[n] # "none" \/ n \in inFlight \/ results[n] # "none"
              /\ \A n \in Nodes : results[n] # "none" => n \in Layer /\ outputs[n] = "none"

\* A scheduler resolves with everything decided, or cancelled.
ResolvedInv == pc = "resolved" /\ ~cancelled => Part \subseteq settled

IInv ==
    /\ TypeOK
    /\ PhaseInv
    /\ DoneInv
    /\ ReadyInv
    /\ LayeredInv
    /\ ResolvedInv
    /\ SeesItsAncestors

-----------------------------------------------------------------------------
(* The two parts of a workflow, and what is decided.                       *)

LEMMA PartFacts ==
    ASSUME TypeOK, PhaseInv
    PROVE  /\ Part \in SUBSET Nodes
           /\ Outside \in SUBSET Nodes
           /\ Part \cap Outside = {}
           /\ \A n \in Part : wf.deps[n] \subseteq Part \cup Outside
           /\ \A n \in Outside : wf.deps[n] \subseteq Outside
           /\ scope = "rest" => Part = Nodes \ Subgraph(wf) /\ Outside = Subgraph(wf)
           /\ scope = "subgraph" => Part = Subgraph(wf) /\ Outside = {}
<1>1. IsWorkflow(wf) /\ scope \in {"subgraph", "rest"}
  BY DEF TypeOK
<1>2. /\ Subgraph(wf) \in SUBSET Nodes
      /\ \A m \in Subgraph(wf) : wf.deps[m] \subseteq Subgraph(wf)
      /\ wf.gate = NoGate => Subgraph(wf) = {}
  BY <1>1, SubgraphClosed
<1>3. \A n \in Nodes : wf.deps[n] \subseteq Nodes
  BY <1>1 DEF IsWorkflow
<1>4. CASE scope = "rest"
  <2>1. Part = Nodes \ Subgraph(wf) /\ Outside = Subgraph(wf)
    BY <1>2, <1>4 DEF Part, Partition, Outside
  <2> QED BY <1>2, <1>3, <1>4, <2>1
<1>5. CASE scope = "subgraph"
  <2>1. Part = Subgraph(wf) /\ Outside = {}
    BY <1>5 DEF Part, Partition, Outside, PhaseInv
  <2> QED BY <1>2, <1>3, <1>5, <2>1
<1> QED BY <1>1, <1>4, <1>5

LEMMA DoneFacts ==
    ASSUME TypeOK, PhaseInv, DoneInv, Scheduling
    PROVE  /\ Done \in SUBSET Nodes
           /\ \A n \in Done : wf.deps[n] \subseteq Done /\ outputs[n] # "none"
<1>1. Done \in SUBSET Nodes
  BY PartFacts DEF Done, TypeOK
<1>2. \A n \in Outside : wf.deps[n] \subseteq Done
  BY PartFacts DEF Done
<1> QED BY <1>1, <1>2 DEF Done, DoneInv

\* If what n depends on is decided, so is everything upstream of it.
LEMMA AncestorsDone ==
    ASSUME TypeOK, PhaseInv, DoneInv, Scheduling,
           NEW n \in Nodes, wf.deps[n] \subseteq Done
    PROVE  \A d \in Upstream(wf, wf.deps[n]) :
              d \in Done /\ outputs[d] # "none" /\ Visible(n)[d] = outputs[d]
<1>1. Upstream(wf, wf.deps[n]) \subseteq Done
  BY DoneFacts, UpstreamLeast
<1> QED BY <1>1, DoneFacts DEF Visible

\* A step that touches no decided output, and starts only nodes whose
\* dependencies are decided, leaves every handler with a true view.
LEMMA ViewsStayTrue ==
    ASSUME TypeOK, PhaseInv, DoneInv, SeesItsAncestors, Scheduling,
           inFlight' \in SUBSET Nodes, wf' = wf,
           \A d \in Done : outputs'[d] = outputs[d],
           \A n \in inFlight' \cap inFlight : view'[n] = view[n],
           \A n \in inFlight' \ inFlight : view'[n] = Visible(n) /\ wf.deps[n] \subseteq Done
    PROVE  SeesItsAncestors'
<1> SUFFICES ASSUME NEW n \in inFlight', NEW d \in Upstream(wf, wf.deps[n])
             PROVE  view'[n][d] = outputs'[d] /\ outputs'[d] # "none"
  BY DEF SeesItsAncestors
<1>1. wf.deps[n] \subseteq Done
  BY DEF DoneInv
<1>2. d \in Done /\ outputs[d] # "none" /\ Visible(n)[d] = outputs[d]
  BY <1>1, AncestorsDone
<1>3. CASE n \in inFlight
  BY <1>2, <1>3 DEF SeesItsAncestors
<1>4. CASE n \notin inFlight
  BY <1>2, <1>4
<1> QED BY <1>3, <1>4

\* Finite, so that the counters can count.
LEMMA DependenciesFinite ==
    ASSUME TypeOK, NEW n \in Nodes, NEW S
    PROVE  /\ IsFiniteSet(wf.deps[n] \cap S)
           /\ Cardinality(wf.deps[n] \cap S) \in Nat
           /\ Cardinality(wf.deps[n] \cap S) = 0 <=> wf.deps[n] \cap S = {}
<1>1. wf.deps[n] \cap S \in SUBSET Nodes
  BY DEF TypeOK, IsWorkflow
<1>2. IsFiniteSet(wf.deps[n] \cap S)
  BY <1>1, NodesAssumption, FS_Subset
<1> QED BY <1>2, FS_CardinalityType, FS_EmptySet

-----------------------------------------------------------------------------
(* Entering a scheduler.                                                   *)

LEMMA BeginInv ==
    ASSUME TypeOK, PhaseInv, pc \notin {"dispatch", "await"},
           NEW sc \in {"subgraph", "rest"}, BeginPartition(sc),
           sc = "subgraph" => wf.gate # NoGate,
           wf' = wf, inFlight' = inFlight, outputs' \in OutputMaps,
           sc = "rest" => /\ \A n \in Subgraph(wf) : outputs'[n] # "none"
                          /\ wf.gate # NoGate => outputs'[wf.gate] = "completed"
    PROVE  /\ scope' = sc /\ pc' = "dispatch"
           /\ settled' \in SUBSET Nodes /\ ready' \in SUBSET Nodes
           /\ remaining' \in [Nodes -> Nat]
           /\ PhaseInv' /\ DoneInv' /\ ReadyInv' /\ LayeredInv' /\ ResolvedInv'
           /\ SeesItsAncestors'
<1> DEFINE part == Partition(wf, sc)
<1>1. IsWorkflow(wf) /\ inFlight = {}
  BY DEF TypeOK, PhaseInv
<1>2. /\ Subgraph(wf) \in SUBSET Nodes
      /\ \A m \in Subgraph(wf) : wf.deps[m] \subseteq Subgraph(wf)
      /\ wf.gate = NoGate => Subgraph(wf) = {}
  BY <1>1, SubgraphClosed
<1>3. part = IF sc = "subgraph" THEN Subgraph(wf) ELSE Nodes \ Subgraph(wf)
  BY <1>2 DEF Partition
<1>4. /\ scope' = sc /\ settled' = {} /\ pc' = "dispatch"
      /\ ready' = {n \in part : wf.deps[n] \cap part = {}}
      /\ remaining' = [n \in Nodes |-> Cardinality(wf.deps[n] \cap part)]
  BY DEF BeginPartition
<1>5. /\ Part' = part
      /\ Done' = IF sc = "rest" THEN Subgraph(wf) ELSE {}
  BY <1>4 DEF Part, Done, Outside
<1> HIDE DEF part
<1>6. part \in SUBSET Nodes
  BY <1>2, <1>3
<1>7. remaining' \in [Nodes -> Nat]
  BY <1>4, DependenciesFinite
<1>8. PhaseInv'
  BY <1>1, <1>4 DEF PhaseInv, Scheduling
<1>9. DoneInv'
  <2>1. ASSUME NEW n \in ready' PROVE wf.deps[n] \subseteq Done'
    <3>1. n \in part /\ wf.deps[n] \cap part = {} /\ wf.deps[n] \subseteq Nodes
      BY <1>1, <1>4, <1>6 DEF IsWorkflow
    <3> QED BY <3>1, <1>2, <1>3, <1>5
  <2> QED BY <1>1, <1>4, <1>5, <2>1 DEF DoneInv
<1>10. ReadyInv'
  <2>1. \A m \in part : remaining'[m] = Cardinality((wf.deps[m] \cap part) \ settled')
    <3> SUFFICES ASSUME NEW m \in part
                 PROVE  Cardinality(wf.deps[m] \cap part)
                          = Cardinality((wf.deps[m] \cap part) \ settled')
      BY <1>4, <1>6
    <3>1. (wf.deps[m] \cap part) \ settled' = wf.deps[m] \cap part
      BY <1>4
    <3> QED BY <3>1
  <2> QED BY <1>1, <1>4, <1>5, <2>1 DEF ReadyInv
<1>11. LayeredInv' /\ ResolvedInv' /\ SeesItsAncestors'
  BY <1>1, <1>4 DEF LayeredInv, ResolvedInv, SeesItsAncestors
<1> QED BY <1>4, <1>6, <1>7, <1>8, <1>9, <1>10, <1>11

-----------------------------------------------------------------------------
(* runReady.                                                               *)

\* settle(n), for a node taken off the queue or come back: the counters still
\* count, and the dependents it makes ready were nowhere before.
LEMMA SettleInv ==
    ASSUME IInv, Scheduling, wf.scheduling = "ready",
           NEW n \in ready \cup inFlight, NEW queue, Settle(n, queue),
           queue \cup inFlight' = (ready \cup inFlight) \ {n},
           queue \subseteq ready, inFlight' \subseteq inFlight,
           wf' = wf, scope' = scope, pc' \in {"dispatch", "await", "resolved"},
           outputs'[n] # "none", \A m \in Nodes \ {n} : outputs'[m] = outputs[m]
    PROVE  /\ settled' \in SUBSET Nodes /\ ready' \in SUBSET Nodes
           /\ remaining' \in [Nodes -> Nat]
           /\ DoneInv' /\ ReadyInv'
<1> DEFINE dependents == {m \in Part : n \in wf.deps[m]}
           left(m) == (wf.deps[m] \cap Part) \ settled
<1>1. TypeOK /\ PhaseInv /\ DoneInv /\ ReadyInv
  BY DEF IInv
<1>2. /\ Part \in SUBSET Nodes /\ settled \cup ready \cup inFlight \subseteq Part
      /\ n \in Part /\ n \notin settled
      /\ ready \cap inFlight = {} /\ ready \cap settled = {} /\ inFlight \cap settled = {}
      /\ wf.deps[n] \subseteq Done
  BY <1>1, PartFacts DEF DoneInv, ReadyInv
<1>3. /\ Part' = Part /\ Outside' = Outside /\ Scheduling'
      /\ settled' = settled \cup {n}
      /\ ready' = queue \cup {m \in dependents : remaining[m] = 1}
      /\ remaining' = [m \in Nodes |-> IF m \in dependents THEN remaining[m] - 1 ELSE remaining[m]]
  BY DEF Part, Outside, Scheduling, Settle
<1>4. \A m \in Part : /\ IsFiniteSet(left(m)) /\ Cardinality(left(m)) \in Nat
                      /\ remaining[m] = Cardinality(left(m))
  <2> SUFFICES ASSUME NEW m \in Part
               PROVE  /\ IsFiniteSet(left(m)) /\ Cardinality(left(m)) \in Nat
                      /\ remaining[m] = Cardinality(left(m))
    OBVIOUS
  <2>1. left(m) = wf.deps[m] \cap (Part \ settled)
    OBVIOUS
  <2>2. IsFiniteSet(left(m)) /\ Cardinality(left(m)) \in Nat
    BY <1>1, <1>2, <2>1, DependenciesFinite
  <2> QED BY <1>1, <2>2 DEF ReadyInv
<1>5. ASSUME NEW m \in Part
      PROVE  /\ (wf.deps[m] \cap Part) \ settled' = left(m) \ {n}
             /\ m \in dependents <=> n \in left(m)
             /\ Cardinality(left(m) \ {n}) =
                   IF m \in dependents THEN Cardinality(left(m)) - 1 ELSE Cardinality(left(m))
             /\ m \in dependents => /\ Cardinality(left(m)) # 0
                                    /\ Cardinality(left(m)) = 1 => left(m) = {n}
  <2>1. (wf.deps[m] \cap Part) \ settled' = left(m) \ {n}
    BY <1>3
  <2>2. m \in dependents <=> n \in left(m)
    BY <1>2
  <2>3. Cardinality(left(m) \ {n}) =
           IF n \in left(m) THEN Cardinality(left(m)) - 1 ELSE Cardinality(left(m))
    BY <1>4, FS_RemoveElement
  <2>4. n \in left(m) => /\ Cardinality(left(m)) # 0
                         /\ Cardinality(left(m)) = 1 => left(m) = {n}
    <3>1. Cardinality(left(m)) = 0 => left(m) = {}
      BY <1>4, FS_EmptySet
    <3>2. Cardinality(left(m)) = 1 => \E x : left(m) = {x}
      BY <1>4, FS_Singleton
    <3> QED BY <3>1, <3>2
  <2> HIDE DEF left, dependents
  <2> QED BY <2>1, <2>2, <2>3, <2>4
<1> HIDE DEF left
<1>6. remaining' \in [Nodes -> Nat]
  <2> SUFFICES ASSUME NEW m \in Nodes PROVE remaining'[m] \in Nat
    BY <1>3
  <2>1. CASE m \in dependents
    <3>1. m \in Part /\ remaining'[m] = remaining[m] - 1
      BY <2>1, <1>3
    <3>2. remaining[m] = Cardinality(left(m)) /\ Cardinality(left(m)) \in Nat
      BY <3>1, <1>4
    <3>3. Cardinality(left(m)) # 0
      BY <2>1, <3>1, <1>5
    <3> QED BY <3>1, <3>2, <3>3
  <2>2. CASE m \notin dependents
    BY <2>2, <1>1, <1>3 DEF TypeOK
  <2> QED BY <2>1, <2>2
<1>7. \A m \in Part : remaining'[m] = Cardinality((wf.deps[m] \cap Part) \ settled')
  BY <1>2, <1>3, <1>4, <1>5
<1>8. ASSUME NEW m \in dependents, remaining[m] = 1
      PROVE  /\ wf.deps[m] \cap Part \subseteq settled'
             /\ wf.deps[m] \subseteq Done'
             /\ m \notin settled \cup ready \cup inFlight
             /\ m # n
  <2>1. left(m) = {n}
    BY <1>4, <1>5, <1>8
  <2>2. wf.deps[m] \cap Part \subseteq settled'
    BY <2>1, <1>3 DEF left
  <2>3. wf.deps[m] \subseteq Done'
    BY <1>1, <1>3, <2>2, PartFacts DEF Done
  <2>4. n \in wf.deps[m] /\ n \notin Done
    BY <1>1, <1>2, PartFacts DEF Done
  <2> QED BY <1>1, <1>2, <2>2, <2>3, <2>4 DEF DoneInv
<1>9. ready' \subseteq Part /\ settled' \subseteq Part
  BY <1>2, <1>3
<1>10. DoneInv'
  <2>1. settled' \cup ready' \cup inFlight' \subseteq Part'
    BY <1>2, <1>3, <1>9
  <2>2. Done' = Done \cup {n}
    BY <1>3 DEF Done
  <2>3. \A m \in Done' : outputs'[m] # "none"
    BY <1>1, <2>2, DoneFacts
  <2>4. \A m \in settled' \cup ready' \cup inFlight' : wf.deps[m] \subseteq Done'
    BY <1>1, <1>2, <1>3, <1>8, <2>2 DEF DoneInv
  <2>5. \A m \in inFlight' : outputs'[m] = "none"
    BY <1>1, <1>2 DEF DoneInv
  <2> QED BY <2>1, <2>3, <2>4, <2>5 DEF DoneInv
<1>11. ReadyInv'
  <2>1. ready' \cap inFlight' = {} /\ ready' \cap settled' = {} /\ inFlight' \cap settled' = {}
    BY <1>2, <1>3, <1>8
  <2>2. ASSUME NEW m \in Part, wf.deps[m] \cap Part \subseteq settled'
        PROVE  m \in settled' \cup ready' \cup inFlight'
    <3>1. CASE m \in dependents
      <4>1. left(m) = {n}
        BY <1>2, <1>3, <2>2, <3>1 DEF left
      <4>2. Cardinality(left(m)) = 1
        BY <4>1, FS_Singleton
      <4> QED BY <1>3, <1>4, <3>1, <4>2
    <3>2. CASE m \notin dependents
      <4>1. wf.deps[m] \cap Part \subseteq settled
        BY <1>3, <2>2, <3>2
      <4> QED BY <1>1, <1>3, <4>1 DEF ReadyInv
    <3> QED BY <3>1, <3>2
  <2> QED BY <1>3, <1>7, <2>1, <2>2 DEF ReadyInv
<1> QED BY <1>2, <1>6, <1>9, <1>10, <1>11

LEMMA TakeSeededInv ==
    ASSUME IInv, NEW n \in Nodes, TakeSeeded(n)
    PROVE  IInv'
<1>1. TypeOK /\ PhaseInv /\ DoneInv /\ ReadyInv /\ SeesItsAncestors /\ Scheduling
  BY DEF IInv, TakeSeeded, Scheduling
<1>2. /\ settled' \in SUBSET Nodes /\ ready' \in SUBSET Nodes
      /\ remaining' \in [Nodes -> Nat]
      /\ DoneInv' /\ ReadyInv'
  <2>1. (ready \ {n}) \cup inFlight = (ready \cup inFlight) \ {n}
    BY <1>1 DEF TakeSeeded, ReadyInv
  <2> QED BY <1>1, <2>1, SettleInv DEF TakeSeeded, contractVars, nodeVars
<1>3. TypeOK'
  BY <1>1, <1>2 DEF TakeSeeded, TypeOK, contractVars, nodeVars
<1>4. PhaseInv' /\ LayeredInv' /\ ResolvedInv'
  BY <1>1 DEF TakeSeeded, PhaseInv, LayeredInv, ResolvedInv, Scheduling, contractVars, nodeVars
<1>5. SeesItsAncestors'
  BY <1>1 DEF TakeSeeded, SeesItsAncestors, contractVars, nodeVars
<1> QED BY <1>2, <1>3, <1>4, <1>5 DEF IInv

LEMMA ReadyNodeSettlesInv ==
    ASSUME IInv, NEW n \in Nodes, NEW o \in Outcomes, ReadyNodeSettles(n, o)
    PROVE  IInv'
<1>1. TypeOK /\ PhaseInv /\ DoneInv /\ ReadyInv /\ SeesItsAncestors /\ Scheduling
  BY DEF IInv, ReadyNodeSettles, Scheduling
<1>2. /\ outputs' \in OutputMaps
      /\ outputs'[n] = o /\ o # "none"
      /\ \A m \in Nodes \ {n} : outputs'[m] = outputs[m]
  BY <1>1 DEF ReadyNodeSettles, TypeOK, OutputMaps, Outcomes
<1>3. /\ settled' \in SUBSET Nodes /\ ready' \in SUBSET Nodes
      /\ remaining' \in [Nodes -> Nat]
      /\ DoneInv' /\ ReadyInv'
  <2>1. ready \cup (inFlight \ {n}) = (ready \cup inFlight) \ {n}
    BY <1>1 DEF ReadyNodeSettles, ReadyInv
  <2> QED BY <1>1, <1>2, <2>1, SettleInv DEF ReadyNodeSettles
<1>4. TypeOK'
  BY <1>1, <1>2, <1>3 DEF ReadyNodeSettles, TypeOK
<1>5. PhaseInv'
  <2>1. n \in Part /\ outputs[n] = "none"
    BY <1>1 DEF ReadyNodeSettles, DoneInv
  <2> QED BY <1>1, <1>2, <2>1 DEF ReadyNodeSettles, PhaseInv, Scheduling
<1>6. LayeredInv' /\ ResolvedInv'
  BY <1>1 DEF ReadyNodeSettles, LayeredInv, ResolvedInv
<1>7. SeesItsAncestors'
  <2>1. \A d \in Done : outputs'[d] = outputs[d]
    BY <1>1, <1>2, DoneFacts DEF ReadyNodeSettles, DoneInv
  <2> QED BY <1>1, <2>1, ViewsStayTrue DEF ReadyNodeSettles, TypeOK
<1> QED BY <1>3, <1>4, <1>5, <1>6, <1>7 DEF IInv

\* What dispatching nodes does to the types and views.
LEMMA DispatchTypes ==
    ASSUME TypeOK, NEW S \in SUBSET Nodes, Dispatch(S)
    PROVE  /\ inFlight' = inFlight \cup S
           /\ view' \in [Nodes -> OutputMaps]
           /\ \A n \in Nodes : view'[n] = IF n \in S THEN Visible(n) ELSE view[n]
           /\ verdict' \in [Nodes -> {"none", "run", "skip"}]
<1>1. \A n \in Nodes : Visible(n) \in OutputMaps
  BY DEF TypeOK, Visible, OutputMaps, Outcomes
<1>2. view' \in [Nodes -> OutputMaps]
  BY <1>1 DEF TypeOK, Dispatch
<1>3. verdict' \in [Nodes -> {"none", "run", "skip"}]
  <2>1. PICK v \in [S -> {"run", "skip"}] :
           verdict' = [n \in Nodes |-> IF n \in S THEN v[n] ELSE verdict[n]]
    BY DEF Dispatch
  <2> QED BY <2>1 DEF TypeOK
<1> QED BY <1>2, <1>3 DEF Dispatch

LEMMA TakeNodeInv ==
    ASSUME IInv, NEW n \in Nodes, TakeNode(n)
    PROVE  IInv'
<1>1. TypeOK /\ PhaseInv /\ DoneInv /\ ReadyInv /\ SeesItsAncestors /\ Scheduling
  BY DEF IInv, TakeNode, Scheduling
<1>2. /\ wf' = wf /\ seed' = seed /\ outputs' = outputs /\ status' = status
      /\ pc' = pc /\ scope' = scope /\ round' = round /\ settled' = settled
      /\ remaining' = remaining /\ results' = results
      /\ aborted' = aborted /\ cancelled' = cancelled
      /\ ready' = ready \ {n} /\ n \in ready /\ outputs[n] = "none"
      /\ pc = "dispatch" /\ wf.scheduling = "ready"
  BY DEF TakeNode, contractVars
<1>3. /\ inFlight' = inFlight \cup {n}
      /\ view' \in [Nodes -> OutputMaps]
      /\ \A m \in Nodes : view'[m] = IF m \in {n} THEN Visible(m) ELSE view[m]
      /\ verdict' \in [Nodes -> {"none", "run", "skip"}]
  BY <1>1, DispatchTypes DEF TakeNode
<1>4. TypeOK'
  BY <1>1, <1>2, <1>3 DEF TypeOK
<1>5. Part' = Part /\ Outside' = Outside /\ Done' = Done /\ Scheduling'
  BY <1>1, <1>2 DEF Part, Outside, Done, Scheduling
<1>6. PhaseInv' /\ LayeredInv' /\ ResolvedInv'
  BY <1>1, <1>2 DEF PhaseInv, LayeredInv, ResolvedInv, Scheduling
<1>7. DoneInv'
  BY <1>1, <1>2, <1>3, <1>5 DEF DoneInv
<1>8. ReadyInv'
  BY <1>1, <1>2, <1>3, <1>5 DEF ReadyInv
<1>9. SeesItsAncestors'
  <2>1. wf.deps[n] \subseteq Done /\ n \notin inFlight
    BY <1>1, <1>2 DEF DoneInv, ReadyInv
  <2>2. /\ inFlight' \in SUBSET Nodes
        /\ \A m \in inFlight' \cap inFlight : view'[m] = view[m]
        /\ \A m \in inFlight' \ inFlight : view'[m] = Visible(m) /\ wf.deps[m] \subseteq Done
    BY <1>1, <1>3, <2>1 DEF TypeOK
  <2> QED BY <1>1, <1>2, <2>2, ViewsStayTrue
<1> QED BY <1>4, <1>6, <1>7, <1>8, <1>9 DEF IInv

\* Nothing is left in the partition once no node of it can start.
LEMMA NothingPlaceable ==
    ASSUME TypeOK, PhaseInv,
           \A m \in Part \ settled : ~(wf.deps[m] \cap Part \subseteq settled)
    PROVE  Part \subseteq settled
<1>1. IsWorkflow(wf) /\ Part \in SUBSET Nodes
  BY PartFacts DEF TypeOK
<1> QED BY <1>1, FirstMissing

LEMMA ReadyLoopEndsInv ==
    ASSUME IInv, ReadyLoopEnds
    PROVE  IInv'
<1>1. TypeOK /\ PhaseInv /\ DoneInv /\ ReadyInv /\ SeesItsAncestors /\ Scheduling
  BY DEF IInv, ReadyLoopEnds, Scheduling
<1>2. /\ wf' = wf /\ seed' = seed /\ outputs' = outputs /\ status' = status
      /\ scope' = scope /\ round' = round /\ settled' = settled
      /\ remaining' = remaining /\ ready' = ready /\ inFlight' = inFlight
      /\ view' = view /\ verdict' = verdict /\ results' = results /\ aborted' = aborted
      /\ pc = "dispatch" /\ wf.scheduling = "ready"
      /\ \/ inFlight = {} /\ pc' = "resolved" /\ cancelled' = aborted
         \/ inFlight # {} /\ pc' = "await" /\ cancelled' = cancelled
  BY DEF ReadyLoopEnds, Resolve, contractVars, queueVars, nodeVars
<1>3. Part' = Part /\ Outside' = Outside /\ Done' = Done /\ Scheduling'
  BY <1>1, <1>2 DEF Part, Outside, Done, Scheduling
<1>4. TypeOK' /\ PhaseInv' /\ LayeredInv'
  BY <1>1, <1>2, <1>3 DEF TypeOK, PhaseInv, LayeredInv, Scheduling
<1>5. DoneInv' /\ ReadyInv' /\ SeesItsAncestors'
  BY <1>1, <1>2, <1>3 DEF DoneInv, ReadyInv, SeesItsAncestors
<1>6. ResolvedInv'
  <2> SUFFICES ASSUME inFlight = {}, ~aborted PROVE Part \subseteq settled
    BY <1>2, <1>3 DEF ResolvedInv
  <2>1. ready = {}
    BY DEF ReadyLoopEnds
  <2> QED BY <1>1, <1>2, <2>1, NothingPlaceable DEF ReadyInv
<1> QED BY <1>4, <1>5, <1>6 DEF IInv

-----------------------------------------------------------------------------
(* runLayers.                                                              *)

\* What the nodes of a layer depend on is decided.
LEMMA LayerFacts ==
    ASSUME TypeOK, PhaseInv
    PROVE  /\ Layer \in SUBSET Part /\ Layer \in SUBSET Nodes
           /\ Layer \cap settled = {}
           /\ \A n \in Layer : wf.deps[n] \subseteq Done
<1>1. Layer = {n \in Part \ settled : wf.deps[n] \cap Part \subseteq settled}
  BY DEF Layer
<1> QED BY <1>1, PartFacts DEF Done

LEMMA StartLayerInv ==
    ASSUME IInv, StartLayer
    PROVE  IInv'
<1> DEFINE S == {n \in Layer : outputs[n] = "none"}
<1>1. TypeOK /\ PhaseInv /\ DoneInv /\ LayeredInv /\ SeesItsAncestors /\ Scheduling
  BY DEF IInv, StartLayer, Scheduling
<1>2. /\ wf' = wf /\ seed' = seed /\ outputs' = outputs /\ status' = status
      /\ pc' = "await" /\ scope' = scope /\ round' = round /\ settled' = settled
      /\ remaining' = remaining /\ ready' = ready
      /\ aborted' = aborted /\ cancelled' = cancelled
      /\ results' = NoOutputs
      /\ pc = "dispatch" /\ wf.scheduling = "layered" /\ inFlight = {}
  BY <1>1 DEF StartLayer, contractVars, queueVars, LayeredInv
<1>3. /\ S \in SUBSET Layer /\ S \in SUBSET Nodes
      /\ \A n \in Layer : wf.deps[n] \subseteq Done
      /\ Layer \in SUBSET Part /\ Layer \in SUBSET Nodes
  BY <1>1, LayerFacts
<1>4. /\ inFlight' = S
      /\ view' \in [Nodes -> OutputMaps]
      /\ \A m \in Nodes : view'[m] = IF m \in S THEN Visible(m) ELSE view[m]
      /\ verdict' \in [Nodes -> {"none", "run", "skip"}]
  BY <1>1, <1>2, <1>3, DispatchTypes DEF StartLayer
<1>5. NoOutputs \in OutputMaps /\ \A n \in Nodes : NoOutputs[n] = "none"
  BY DEF NoOutputs, OutputMaps
<1>6. TypeOK'
  BY <1>1, <1>2, <1>3, <1>4, <1>5 DEF TypeOK
<1>7. Part' = Part /\ Outside' = Outside /\ Done' = Done /\ Scheduling' /\ Layer' = Layer
  BY <1>1, <1>2 DEF Part, Outside, Done, Scheduling, Layer
<1>8. PhaseInv' /\ ReadyInv' /\ ResolvedInv'
  BY <1>1, <1>2 DEF PhaseInv, ReadyInv, ResolvedInv, Scheduling
<1>9. DoneInv'
  BY <1>1, <1>2, <1>3, <1>4, <1>7 DEF DoneInv
<1>10. LayeredInv'
  BY <1>2, <1>3, <1>4, <1>5, <1>7 DEF LayeredInv
<1>11. SeesItsAncestors'
  <2>1. /\ inFlight' \in SUBSET Nodes
        /\ \A m \in inFlight' \cap inFlight : view'[m] = view[m]
        /\ \A m \in inFlight' \ inFlight : view'[m] = Visible(m) /\ wf.deps[m] \subseteq Done
    BY <1>2, <1>3, <1>4
  <2> QED BY <1>1, <1>2, <2>1, ViewsStayTrue
<1> QED BY <1>6, <1>8, <1>9, <1>10, <1>11 DEF IInv

LEMMA LayeredNodeSettlesInv ==
    ASSUME IInv, NEW n \in Nodes, NEW o \in Outcomes, LayeredNodeSettles(n, o)
    PROVE  IInv'
<1>1. TypeOK /\ PhaseInv /\ DoneInv /\ LayeredInv /\ SeesItsAncestors /\ Scheduling
  BY DEF IInv, LayeredNodeSettles, Scheduling
<1>2. /\ wf' = wf /\ seed' = seed /\ outputs' = outputs /\ status' = status
      /\ pc' = pc /\ scope' = scope /\ round' = round /\ settled' = settled
      /\ remaining' = remaining /\ ready' = ready /\ view' = view /\ verdict' = verdict
      /\ aborted' = aborted /\ cancelled' = cancelled
      /\ inFlight' = inFlight \ {n} /\ n \in inFlight
      /\ pc = "await" /\ wf.scheduling = "layered"
  BY DEF LayeredNodeSettles, contractVars, queueVars
<1>3. results' \in OutputMaps /\ o # "none"
      /\ \A m \in Nodes : results'[m] = IF m = n THEN o ELSE results[m]
  BY <1>1 DEF LayeredNodeSettles, TypeOK, OutputMaps, Outcomes
<1>4. TypeOK'
  BY <1>1, <1>2, <1>3 DEF TypeOK
<1>5. Part' = Part /\ Outside' = Outside /\ Done' = Done /\ Scheduling' /\ Layer' = Layer
  BY <1>1, <1>2 DEF Part, Outside, Done, Scheduling, Layer
<1>6. PhaseInv' /\ ReadyInv' /\ ResolvedInv' /\ SeesItsAncestors'
  BY <1>1, <1>2 DEF PhaseInv, ReadyInv, ResolvedInv, SeesItsAncestors, Scheduling
<1>7. DoneInv'
  BY <1>1, <1>2, <1>5 DEF DoneInv
<1>8. LayeredInv'
  <2>1. n \in Layer /\ outputs[n] = "none" /\ Layer \in SUBSET Nodes
    BY <1>1, <1>2, LayerFacts DEF LayeredInv, DoneInv
  <2> QED BY <1>1, <1>2, <1>3, <1>5, <2>1 DEF LayeredInv
<1> QED BY <1>4, <1>6, <1>7, <1>8 DEF IInv

LEMMA MergeLayerInv ==
    ASSUME IInv, MergeLayer
    PROVE  IInv'
<1>1. TypeOK /\ PhaseInv /\ DoneInv /\ LayeredInv /\ SeesItsAncestors /\ Scheduling
  BY DEF IInv, MergeLayer, Scheduling
<1>2. /\ wf' = wf /\ seed' = seed /\ status' = status
      /\ pc' = "dispatch" /\ scope' = scope /\ round' = round /\ settled' = settled \cup Layer
      /\ remaining' = remaining /\ ready' = ready /\ view' = view /\ verdict' = verdict
      /\ aborted' = aborted /\ cancelled' = cancelled
      /\ inFlight' = {} /\ inFlight = {}
      /\ pc = "await" /\ wf.scheduling = "layered" /\ results' = NoOutputs
  BY DEF MergeLayer
<1>3. /\ outputs' \in OutputMaps
      /\ \A m \in Nodes : outputs'[m] = IF results[m] # "none" THEN results[m] ELSE outputs[m]
      /\ NoOutputs \in OutputMaps
  BY <1>1 DEF MergeLayer, TypeOK, OutputMaps, NoOutputs
<1>4. TypeOK'
  <2>1. Layer \in SUBSET Nodes
    BY <1>1, LayerFacts
  <2> QED BY <1>1, <1>2, <1>3, <2>1 DEF TypeOK
<1>5. Part' = Part /\ Outside' = Outside /\ Done' = Done \cup Layer /\ Scheduling'
  BY <1>1, <1>2 DEF Part, Outside, Done, Scheduling
<1>6. \A m \in Layer : outputs'[m] # "none"
  BY <1>1, <1>2, <1>3, LayerFacts DEF LayeredInv
<1>7. \A m \in Nodes \ Layer : outputs'[m] = outputs[m]
  BY <1>1, <1>2, <1>3 DEF LayeredInv
<1>8. PhaseInv'
  <2>1. \A m \in Nodes : outputs[m] # "none" => outputs'[m] = outputs[m]
    BY <1>1, <1>2, <1>3 DEF LayeredInv
  <2>2. wf.gate # NoGate => wf.gate \in Nodes
    BY <1>1 DEF TypeOK, IsWorkflow
  <2> QED BY <1>1, <1>2, <2>1, <2>2 DEF PhaseInv, Scheduling
<1>9. DoneInv'
  <2>1. settled' \cup ready' \cup inFlight' \subseteq Part'
    BY <1>1, <1>2, <1>5, LayerFacts DEF DoneInv
  <2>2. \A m \in Done' : outputs'[m] # "none"
    BY <1>1, <1>5, <1>6, <1>7, DoneFacts
  <2>3. \A m \in settled' \cup ready' \cup inFlight' : wf.deps[m] \subseteq Done'
    BY <1>1, <1>2, <1>5, LayerFacts DEF DoneInv
  <2> QED BY <1>2, <2>1, <2>2, <2>3 DEF DoneInv
<1>10. ReadyInv' /\ LayeredInv' /\ ResolvedInv' /\ SeesItsAncestors'
  BY <1>2 DEF ReadyInv, LayeredInv, ResolvedInv, SeesItsAncestors
<1> QED BY <1>4, <1>8, <1>9, <1>10 DEF IInv

LEMMA LayersEndInv ==
    ASSUME IInv, LayersEnd
    PROVE  IInv'
<1>1. TypeOK /\ PhaseInv /\ DoneInv /\ LayeredInv /\ SeesItsAncestors /\ Scheduling
  BY DEF IInv, LayersEnd, Scheduling
<1>2. /\ wf' = wf /\ seed' = seed /\ outputs' = outputs /\ status' = status
      /\ scope' = scope /\ round' = round /\ settled' = settled
      /\ remaining' = remaining /\ ready' = ready /\ inFlight' = inFlight
      /\ view' = view /\ verdict' = verdict /\ results' = results /\ aborted' = aborted
      /\ pc = "dispatch" /\ wf.scheduling = "layered"
      /\ inFlight = {} /\ pc' = "resolved" /\ cancelled' = aborted
  BY <1>1 DEF LayersEnd, Resolve, contractVars, queueVars, nodeVars, LayeredInv
<1>3. Part' = Part /\ Outside' = Outside /\ Done' = Done /\ Scheduling'
  BY <1>1, <1>2 DEF Part, Outside, Done, Scheduling
<1>4. TypeOK' /\ PhaseInv' /\ ReadyInv' /\ LayeredInv'
  BY <1>1, <1>2, <1>3 DEF TypeOK, PhaseInv, ReadyInv, LayeredInv, Scheduling
<1>5. DoneInv' /\ SeesItsAncestors'
  BY <1>1, <1>2, <1>3 DEF DoneInv, SeesItsAncestors
<1>6. ResolvedInv'
  <2> SUFFICES ASSUME ~aborted PROVE Part \subseteq settled
    BY <1>2, <1>3 DEF ResolvedInv
  <2>1. Layer = {}
    BY DEF LayersEnd
  <2> QED BY <1>1, <2>1, NothingPlaceable DEF Layer
<1> QED BY <1>4, <1>5, <1>6 DEF IInv

-----------------------------------------------------------------------------
(* runWorkflow.                                                            *)

\* The rewritings of the outputs are outputs.
LEMMA RewritesTyped ==
    ASSUME TypeOK, NEW out \in OutputMaps, NEW S
    PROVE  /\ SkipMissing(out, S) \in OutputMaps
           /\ ResetSubgraph(out) \in OutputMaps
           /\ GateExhausted \in OutputMaps /\ Absorbed \in OutputMaps
<1>1. \A n \in Nodes : out[n] \in Outcomes \cup {"none"} /\ outputs[n] \in Outcomes \cup {"none"}
  BY DEF TypeOK, OutputMaps
<1>2. SkipMissing(out, S) \in OutputMaps
  BY <1>1 DEF SkipMissing, OutputMaps, Outcomes
<1>3. ResetSubgraph(out) \in OutputMaps
  BY <1>1 DEF ResetSubgraph, OutputMaps
<1>4. GateExhausted \in OutputMaps
  BY DEF TypeOK, GateExhausted, OutputMaps, Outcomes
<1>5. Absorbed \in OutputMaps
  BY <1>1 DEF Absorbed, OutputMaps, Outcomes
<1> QED BY <1>2, <1>3, <1>4, <1>5

LEMMA RunWorkflowInv ==
    ASSUME IInv, NEW s, RunWorkflow(s)
    PROVE  IInv'
<1> DEFINE sc == IF wf.gate = NoGate THEN "rest" ELSE "subgraph"
<1>1. TypeOK /\ PhaseInv /\ pc = "idle"
  BY DEF IInv, RunWorkflow
<1>2. /\ wf' = wf /\ status' = "open" /\ round' = 1 /\ outputs' = seed'
      /\ inFlight' = inFlight /\ view' = view /\ verdict' = verdict /\ results' = results
      /\ aborted' = aborted /\ cancelled' = cancelled
      /\ BeginPartition(sc)
  BY DEF RunWorkflow, nodeVars
<1>3. seed' \in [Nodes -> {"none", "completed", "skipped"}]
  BY DEF RunWorkflow, FilteredSeed, ResetSubgraph
<1>4. outputs' \in OutputMaps
  BY <1>2, <1>3 DEF OutputMaps, Outcomes
<1>5. sc = "rest" => wf.gate = NoGate /\ Subgraph(wf) = {}
  BY DEF Subgraph
<1>6. /\ scope' = sc /\ pc' = "dispatch"
      /\ settled' \in SUBSET Nodes /\ ready' \in SUBSET Nodes
      /\ remaining' \in [Nodes -> Nat]
      /\ PhaseInv' /\ DoneInv' /\ ReadyInv' /\ LayeredInv' /\ ResolvedInv'
      /\ SeesItsAncestors'
  BY <1>1, <1>2, <1>4, <1>5, BeginInv
<1>7. TypeOK'
  BY <1>1, <1>2, <1>3, <1>4, <1>6 DEF TypeOK
<1> QED BY <1>6, <1>7 DEF IInv

\* A scheduler that resolved uncancelled has decided its partition.
LEMMA ResolvedFacts ==
    ASSUME IInv, pc = "resolved", ~cancelled
    PROVE  \A n \in Part : outputs[n] # "none"
  BY DEF IInv, ResolvedInv, DoneInv, Scheduling, Done

LEMMA GatePassedInv ==
    ASSUME IInv, GatePassed
    PROVE  IInv'
<1>1. TypeOK /\ PhaseInv /\ pc = "resolved" /\ scope = "subgraph" /\ ~cancelled
  BY DEF IInv, GatePassed, AfterSubgraph
<1>2. /\ wf' = wf /\ seed' = seed /\ outputs' = outputs /\ status' = status /\ round' = round
      /\ inFlight' = inFlight /\ view' = view /\ verdict' = verdict /\ results' = results
      /\ aborted' = aborted /\ cancelled' = cancelled
      /\ BeginPartition("rest")
  BY DEF GatePassed, contractVars, nodeVars
<1>3. /\ \A n \in Subgraph(wf) : outputs'[n] # "none"
      /\ outputs'[wf.gate] = "completed"
  BY <1>1, <1>2, ResolvedFacts, PartFacts DEF GatePassed, GateCompleted
<1>4. /\ scope' = "rest" /\ pc' = "dispatch"
      /\ settled' \in SUBSET Nodes /\ ready' \in SUBSET Nodes
      /\ remaining' \in [Nodes -> Nat]
      /\ PhaseInv' /\ DoneInv' /\ ReadyInv' /\ LayeredInv' /\ ResolvedInv'
      /\ SeesItsAncestors'
  BY <1>1, <1>2, <1>3, BeginInv DEF TypeOK
<1>5. TypeOK'
  BY <1>1, <1>2, <1>4 DEF TypeOK
<1> QED BY <1>4, <1>5 DEF IInv

LEMMA NextRoundInv ==
    ASSUME IInv, NextRound
    PROVE  IInv'
<1>1. TypeOK /\ PhaseInv /\ pc = "resolved" /\ scope = "subgraph" /\ wf.gate # NoGate
  BY DEF IInv, NextRound, AfterSubgraph, PhaseInv
<1>2. /\ wf' = wf /\ seed' = seed /\ status' = status /\ round' = round + 1
      /\ outputs' = ResetSubgraph(outputs)
      /\ inFlight' = inFlight /\ view' = view /\ verdict' = verdict /\ results' = results
      /\ aborted' = aborted /\ cancelled' = cancelled
      /\ BeginPartition("subgraph")
  BY DEF NextRound, nodeVars
<1>3. outputs' \in OutputMaps
  BY <1>1, <1>2, RewritesTyped DEF TypeOK
<1>4. /\ scope' = "subgraph" /\ pc' = "dispatch"
      /\ settled' \in SUBSET Nodes /\ ready' \in SUBSET Nodes
      /\ remaining' \in [Nodes -> Nat]
      /\ PhaseInv' /\ DoneInv' /\ ReadyInv' /\ LayeredInv' /\ ResolvedInv'
      /\ SeesItsAncestors'
  BY <1>1, <1>2, <1>3, BeginInv
<1>5. TypeOK'
  BY <1>1, <1>2, <1>3, <1>4 DEF TypeOK
<1> QED BY <1>4, <1>5 DEF IInv

\* A closed run is at rest.
LEMMA CloseInv ==
    ASSUME TypeOK, inFlight = {}, NEW out \in OutputMaps, NEW sweep \in BOOLEAN,
           Close(out, sweep), scope = "subgraph" => wf.gate # NoGate,
           UNCHANGED <<wf, seed, scope, round, queueVars, nodeVars, aborted, cancelled>>
    PROVE  IInv'
<1>1. /\ wf' = wf /\ seed' = seed /\ scope' = scope /\ round' = round /\ settled' = settled
      /\ remaining' = remaining /\ ready' = ready /\ inFlight' = {}
      /\ view' = view /\ verdict' = verdict /\ results' = results
      /\ aborted' = aborted /\ cancelled' = cancelled
      /\ pc' = "closed"
  BY DEF queueVars, nodeVars, Close
<1>2. outputs' \in OutputMaps /\ status' \in {"succeeded", "failed", "cancelled"}
  BY RewritesTyped DEF Close, RunStatus
<1>3. TypeOK'
  BY <1>1, <1>2 DEF TypeOK
<1> QED
  BY <1>1, <1>3
  DEF IInv, PhaseInv, DoneInv, ReadyInv, LayeredInv, ResolvedInv, SeesItsAncestors, Scheduling

LEMMA ExhaustedInv ==
    ASSUME IInv, ExhaustFails \/ ExhaustRejected \/ Finish
    PROVE  IInv'
<1>1. /\ TypeOK /\ inFlight = {} /\ (scope = "subgraph" => wf.gate # NoGate)
      /\ outputs \in OutputMaps /\ aborted \in BOOLEAN /\ cancelled \in BOOLEAN
  BY DEF IInv, PhaseInv, TypeOK, ExhaustFails, AfterSubgraph, ExhaustRejected, Finish
<1>2. CASE ExhaustFails
  <2>1. SkipMissing(GateExhausted, Nodes \ Subgraph(wf)) \in OutputMaps
    BY <1>1, RewritesTyped
  <2> QED BY <1>1, <1>2, <2>1, CloseInv DEF ExhaustFails
<1>3. CASE ExhaustRejected
  <2>1. SkipMissing(outputs, Nodes \ Subgraph(wf)) \in OutputMaps
    BY <1>1, RewritesTyped
  <2> QED BY <1>1, <1>3, <2>1, CloseInv DEF ExhaustRejected
<1>4. CASE Finish
  <2>1. (cancelled \/ aborted) \in BOOLEAN
    BY <1>1
  <2> QED BY <1>1, <1>4, <2>1, CloseInv DEF Finish
<1> QED BY <1>2, <1>3, <1>4

LEMMA ExhaustAsksInv ==
    ASSUME IInv, ExhaustAsks
    PROVE  IInv'
<1>1. TypeOK /\ PhaseInv /\ pc = "resolved" /\ scope = "subgraph" /\ ~cancelled
  BY DEF IInv, ExhaustAsks, AfterSubgraph
<1>2. /\ wf' = wf /\ seed' = seed /\ status' = status /\ scope' = scope /\ round' = round
      /\ settled' = settled /\ remaining' = remaining /\ ready' = ready /\ inFlight' = inFlight
      /\ view' = view /\ verdict' = verdict /\ results' = results
      /\ aborted' = aborted /\ cancelled' = cancelled
      /\ outputs' = GateExhausted /\ pc' = "approval"
  BY DEF ExhaustAsks, queueVars, nodeVars
<1>3. GateExhausted \in OutputMaps /\ inFlight = {} /\ wf.gate # NoGate
  BY <1>1, RewritesTyped DEF TypeOK, PhaseInv
<1>4. \A n \in Subgraph(wf) : GateExhausted[n] # "none"
  <2>1. \A n \in Subgraph(wf) : n \in Nodes /\ outputs[n] # "none"
    BY <1>1, ResolvedFacts, PartFacts
  <2> QED BY <1>1, <2>1 DEF GateExhausted, TypeOK, OutputMaps
<1>5. TypeOK' /\ PhaseInv'
  BY <1>1, <1>2, <1>3, <1>4 DEF TypeOK, PhaseInv, Scheduling
<1> QED
  BY <1>2, <1>3, <1>5
  DEF IInv, DoneInv, ReadyInv, LayeredInv, ResolvedInv, SeesItsAncestors, Scheduling

LEMMA ExhaustAcceptedInv ==
    ASSUME IInv, ExhaustAccepted
    PROVE  IInv'
<1>1. /\ TypeOK /\ PhaseInv /\ pc = "approval" /\ scope = "subgraph" /\ wf.gate # NoGate
      /\ inFlight = {} /\ Absorbed \in OutputMaps
  BY RewritesTyped DEF IInv, ExhaustAccepted, PhaseInv, TypeOK
<1>2. CASE aborted
  <2>1. Close(Absorbed, TRUE)
    BY <1>2 DEF ExhaustAccepted
  <2>2. UNCHANGED <<wf, seed, scope, round, queueVars, nodeVars, aborted, cancelled>>
    BY <1>2 DEF ExhaustAccepted
  <2> QED BY <1>1, <2>1, <2>2, CloseInv
<1>3. CASE ~aborted
  <2>1. /\ wf' = wf /\ seed' = seed /\ status' = status /\ round' = round
        /\ inFlight' = inFlight /\ view' = view /\ verdict' = verdict /\ results' = results
        /\ aborted' = aborted /\ cancelled' = cancelled
        /\ outputs' = Absorbed
        /\ BeginPartition("rest")
    BY <1>3 DEF ExhaustAccepted, nodeVars
  <2>2. /\ \A n \in Subgraph(wf) : Absorbed[n] # "none"
        /\ Absorbed[wf.gate] = "completed"
    <3>1. Subgraph(wf) \in SUBSET Nodes /\ wf.gate \in Nodes
      BY <1>1, SubgraphClosed DEF TypeOK
    <3> QED BY <1>1, <3>1 DEF Absorbed, PhaseInv
  <2>3. /\ scope' = "rest" /\ pc' = "dispatch"
        /\ settled' \in SUBSET Nodes /\ ready' \in SUBSET Nodes
        /\ remaining' \in [Nodes -> Nat]
        /\ PhaseInv' /\ DoneInv' /\ ReadyInv' /\ LayeredInv' /\ ResolvedInv'
        /\ SeesItsAncestors'
    BY <1>1, <2>1, <2>2, BeginInv
  <2>4. TypeOK'
    BY <1>1, <2>1, <2>3 DEF TypeOK
  <2> QED BY <2>3, <2>4 DEF IInv
<1> QED BY <1>2, <1>3

LEMMA AbortInv ==
    ASSUME IInv, Abort
    PROVE  IInv'
<1>1. UNCHANGED <<wf, seed, outputs, status, pc, scope, round, settled, remaining, ready,
                  inFlight, view, verdict, results, cancelled>>
      /\ aborted' = TRUE
  BY DEF Abort, contractVars, queueVars, nodeVars
<1> QED
  BY <1>1
  DEF IInv, TypeOK, PhaseInv, DoneInv, ReadyInv, LayeredInv, ResolvedInv, SeesItsAncestors,
      Scheduling, Part, Layer, Done, Outside

-----------------------------------------------------------------------------
LEMMA InitInv == Init => IInv
<1> SUFFICES ASSUME Init PROVE IInv
  OBVIOUS
<1>1. IsWorkflow(wf)
  BY WorkflowsAssumption DEF Init
<1>2. NoOutputs \in OutputMaps /\ NoOutputs \in [Nodes -> {"none", "completed", "skipped"}]
  BY DEF NoOutputs, OutputMaps
<1>3. TypeOK
  BY <1>1, <1>2 DEF Init, TypeOK
<1> QED
  BY <1>3
  DEF Init, IInv, PhaseInv, DoneInv, ReadyInv, LayeredInv, ResolvedInv, SeesItsAncestors,
      Scheduling

\* IInv is inductive: one case per action.
LEMMA NextInv == IInv /\ [Next]_vars => IInv'
<1> SUFFICES ASSUME IInv, [Next]_vars PROVE IInv'
  OBVIOUS
<1>1. ASSUME NEW s \in Seeds, RunWorkflow(s) PROVE IInv'
  BY <1>1, RunWorkflowInv
<1>2. CASE Scheduler
  BY <1>2, TakeSeededInv, TakeNodeInv, ReadyLoopEndsInv, StartLayerInv, MergeLayerInv, LayersEndInv
  DEF Scheduler
<1>3. CASE Controller
  BY <1>3, GatePassedInv, NextRoundInv, ExhaustedInv, ExhaustAsksInv DEF Controller
<1>4. CASE Settles
  <2>1. PICK n \in Nodes : \E o \in OutcomesOf(n) : NodeSettles(n, o)
    BY <1>4 DEF Settles
  <2> PICK o \in OutcomesOf(n) : NodeSettles(n, o)
    BY <2>1
  <2>2. o \in Outcomes
    BY DEF OutcomesOf, HandlerOutcomes, Outcomes
  <2> QED BY <2>1, <2>2, ReadyNodeSettlesInv, LayeredNodeSettlesInv DEF NodeSettles
<1>5. CASE Answered
  BY <1>5, ExhaustAcceptedInv, ExhaustedInv DEF Answered
<1>6. CASE Abort
  BY <1>6, AbortInv
<1>7. CASE UNCHANGED vars
  BY <1>7
  DEF vars, IInv, TypeOK, PhaseInv, DoneInv, ReadyInv, LayeredInv, ResolvedInv, SeesItsAncestors,
      Scheduling, Part, Layer, Done, Outside
<1> QED BY <1>1, <1>2, <1>3, <1>4, <1>5, <1>6, <1>7 DEF Next

LEMMA Invariance == Spec => []IInv
  BY InitInv, NextInv, PTL DEF Spec

-----------------------------------------------------------------------------
\* The variables of the executor keep their types; in particular no counter of
\* runReady ever goes below zero.
THEOREM TypeCorrect == Spec => []TypeOK
  BY Invariance, PTL DEF IInv

\* A handler was shown the outcome of all it transitively depends on, and those
\* outcomes are still what the run records when it settles.
THEOREM HandlersSeeTheirAncestors == Spec => []SeesItsAncestors
  BY Invariance, PTL DEF IInv

\* runReady starts a node at most once, and settles it once.
THEOREM NodesRunOnce == Spec => []EachNodeOnce
<1>1. Init => EachNodeOnce
  BY DEF Init, EachNodeOnce
<1>2. IInv /\ Scheduling => EachNodeOnce
  BY DEF IInv, ReadyInv, EachNodeOnce
<1>3. EachNodeOnce /\ [Next]_vars /\ ~Scheduling'
        => UNCHANGED <<wf, ready, settled, inFlight>>
  <2> SUFFICES ASSUME [Next]_vars, ~Scheduling' PROVE UNCHANGED <<wf, ready, settled, inFlight>>
    OBVIOUS
  <2>1. ASSUME NEW s \in Seeds, RunWorkflow(s) PROVE FALSE
    BY <2>1 DEF RunWorkflow, BeginPartition, Scheduling
  <2>2. CASE Scheduler
    BY <2>2 DEF Scheduler, TakeSeeded, TakeNode, ReadyLoopEnds, StartLayer, MergeLayer, LayersEnd,
                Resolve, Scheduling
  <2>3. CASE Controller
    BY <2>3 DEF Controller, GatePassed, NextRound, ExhaustFails, ExhaustAsks, Finish,
                BeginPartition, Scheduling, queueVars, nodeVars
  <2>4. CASE Settles
    BY <2>4 DEF Settles, NodeSettles, ReadyNodeSettles, LayeredNodeSettles, Scheduling
  <2>5. CASE Answered
    BY <2>5 DEF Answered, ExhaustAccepted, ExhaustRejected, BeginPartition, Scheduling,
                queueVars, nodeVars
  <2>6. CASE Abort
    BY <2>6 DEF Abort, contractVars, queueVars, nodeVars
  <2>7. CASE UNCHANGED vars
    BY <2>7 DEF vars
  <2> QED BY <2>1, <2>2, <2>3, <2>4, <2>5, <2>6, <2>7 DEF Next
<1>4. IInv' /\ EachNodeOnce /\ [Next]_vars => EachNodeOnce'
  <2> SUFFICES ASSUME IInv', EachNodeOnce, [Next]_vars PROVE EachNodeOnce'
    OBVIOUS
  <2>1. CASE Scheduling'
    BY <2>1 DEF IInv, ReadyInv, EachNodeOnce
  <2>2. CASE ~Scheduling'
    BY <1>3, <2>2 DEF EachNodeOnce
  <2> QED BY <2>1, <2>2
<1> QED BY <1>1, <1>4, Invariance, PTL DEF Spec

\* A scheduler that resolves uncancelled has decided every node of its part and
\* left none running: no chain of dependencies is forgotten, on any graph.
THEOREM NothingIsForgotten == Spec => []NothingForgotten
<1>1. IInv => NothingForgotten
  BY ResolvedFacts DEF IInv, PhaseInv, NothingForgotten
<1> QED BY <1>1, Invariance, PTL

\* Nothing outside a converge subgraph runs unless its gate stands completed.
THEOREM GateHolds == Spec => []GateHoldsTheRest
<1>1. IInv => GateHoldsTheRest
  <2> SUFFICES ASSUME IInv, wf.gate # NoGate, NEW n \in inFlight \ Subgraph(wf)
               PROVE  outputs[wf.gate] = "completed"
    BY DEF GateHoldsTheRest
  <2>1. TypeOK /\ PhaseInv /\ DoneInv /\ Scheduling
    BY DEF IInv, PhaseInv, Scheduling
  <2>2. scope = "rest"
    BY <2>1, PartFacts DEF DoneInv, TypeOK
  <2> QED BY <2>1, <2>2 DEF PhaseInv
<1> QED BY <1>1, Invariance, PTL

-----------------------------------------------------------------------------
(* Every run is finite, and stops nowhere but at its end.                  *)

\* How much of runWorkflow is ahead, whatever round it is in.
StagesAhead ==
    CASE pc = "closed" -> 0
      [] pc = "approval" -> 2
      [] pc \notin {"closed", "approval"} /\ scope = "rest" -> 1
      [] pc \notin {"closed", "approval"} /\ scope = "subgraph" -> 3

\* What a run has left to do, the weightiest first: converge rounds, stages of
\* the round, the scheduler's resolution, nodes to settle, a dispatch() to go
\* through, nodes queued or in flight, the abort it may still hear.
ToGo ==
    <<wf.maxRounds - round,
      StagesAhead,
      IF pc \in {"dispatch", "await"} THEN 1 ELSE 0,
      Cardinality(Part \ settled),
      IF pc = "dispatch" THEN 1 ELSE 0,
      Cardinality(IF wf.scheduling = "ready" THEN ready ELSE inFlight),
      IF aborted THEN 0 ELSE 1>>

Measures == [1..7 -> Nat]

\* The lexicographic order.
Lower(a, b) == \E j \in 1..7 : a[j] < b[j] /\ \A i \in 1..(j - 1) : a[i] = b[i]

EveryStepCounts == [][Lower(ToGo', ToGo)]_vars

\* A scheduler waits for something, and a round that missed has a successor.
NeverStuck ==
    /\ pc = "await" => \/ wf.scheduling = "ready" /\ inFlight # {}
                       \/ wf.scheduling = "layered" /\ Layer # {}
    /\ round \in 0..wf.maxRounds
    /\ pc = "idle" => round = 0

LEMMA AheadIsFinite ==
    ASSUME TypeOK, PhaseInv
    PROVE  /\ IsFiniteSet(Part \ settled) /\ Cardinality(Part \ settled) \in Nat
           /\ IsFiniteSet(ready) /\ Cardinality(ready) \in Nat
           /\ IsFiniteSet(inFlight) /\ Cardinality(inFlight) \in Nat
<1>1. Part \ settled \in SUBSET Nodes /\ ready \in SUBSET Nodes /\ inFlight \in SUBSET Nodes
  BY PartFacts DEF TypeOK
<1>2. IsFiniteSet(Part \ settled) /\ IsFiniteSet(ready) /\ IsFiniteSet(inFlight)
  BY <1>1, NodesAssumption, FS_Subset
<1> QED BY <1>2, FS_CardinalityType

\* What is left is counted by natural numbers.
LEMMA ToGoType ==
    ASSUME TypeOK, PhaseInv, NeverStuck
    PROVE  ToGo \in Measures
<1>1. wf.maxRounds - round \in Nat
  BY DEF NeverStuck, TypeOK, IsWorkflow
<1>2. StagesAhead \in Nat
  BY DEF StagesAhead, TypeOK
<1>3. Cardinality(IF wf.scheduling = "ready" THEN ready ELSE inFlight) \in Nat
  BY AheadIsFinite
<1> QED BY <1>1, <1>2, <1>3, AheadIsFinite DEF ToGo, Measures

\* A set that loses a member, or more, counts fewer.
LEMMA FewerLeft ==
    ASSUME NEW S, IsFiniteSet(S), NEW T \in SUBSET S, NEW x \in S, x \notin T
    PROVE  Cardinality(T) < Cardinality(S)
<1>1. IsFiniteSet(T) /\ Cardinality(T) <= Cardinality(S) /\ (Cardinality(T) = Cardinality(S) => S = T)
  BY FS_Subset
<1>2. Cardinality(S) \in Nat /\ Cardinality(T) \in Nat
  BY <1>1, FS_CardinalityType
<1> QED BY <1>1, <1>2

LEMMA TakeSeededCounts ==
    ASSUME IInv, NeverStuck, NEW n \in Nodes, TakeSeeded(n)
    PROVE  NeverStuck' /\ Lower(ToGo', ToGo)
<1>1. TypeOK /\ PhaseInv /\ DoneInv /\ ReadyInv /\ Scheduling
  BY DEF IInv, TakeSeeded, Scheduling
<1>2. /\ wf' = wf /\ scope' = scope /\ round' = round /\ pc' = pc /\ pc = "dispatch"
      /\ settled' = settled \cup {n}
      /\ n \in Part \ settled
  BY <1>1 DEF TakeSeeded, Settle, contractVars, DoneInv, ReadyInv
<1>3. Part' = Part /\ StagesAhead' = StagesAhead
  BY <1>2 DEF Part, StagesAhead
<1>4. Cardinality(Part \ settled') < Cardinality(Part \ settled)
  BY <1>1, <1>2, AheadIsFinite, FewerLeft
<1>5. NeverStuck'
  BY <1>2 DEF NeverStuck
<1> QED BY <1>2, <1>3, <1>4, <1>5 DEF Lower, ToGo

LEMMA TakeNodeCounts ==
    ASSUME IInv, NeverStuck, NEW n \in Nodes, TakeNode(n)
    PROVE  NeverStuck' /\ Lower(ToGo', ToGo)
<1>1. TypeOK /\ PhaseInv
  BY DEF IInv
<1>2. /\ wf' = wf /\ scope' = scope /\ round' = round /\ pc' = pc /\ pc = "dispatch"
      /\ settled' = settled /\ wf.scheduling = "ready"
      /\ n \in ready /\ ready' = ready \ {n}
  BY DEF TakeNode, contractVars
<1>3. Part' = Part /\ StagesAhead' = StagesAhead
  BY <1>2 DEF Part, StagesAhead
<1>4. Cardinality(ready') < Cardinality(ready)
  BY <1>1, <1>2, AheadIsFinite, FewerLeft
<1>5. NeverStuck'
  BY <1>2 DEF NeverStuck
<1> QED BY <1>2, <1>3, <1>4, <1>5 DEF Lower, ToGo

\* The queue is empty, or nothing of it will start: resolved, or one more wait.
LEMMA ReadyLoopEndsCounts ==
    ASSUME IInv, NeverStuck, ReadyLoopEnds
    PROVE  NeverStuck' /\ Lower(ToGo', ToGo)
<1>1. /\ wf' = wf /\ scope' = scope /\ round' = round /\ settled' = settled
      /\ pc = "dispatch" /\ wf.scheduling = "ready" /\ inFlight' = inFlight
      /\ \/ pc' = "resolved"
         \/ pc' = "await" /\ inFlight # {}
  BY DEF ReadyLoopEnds, Resolve, contractVars, queueVars, nodeVars
<1>2. Part' = Part /\ StagesAhead' = StagesAhead
  BY <1>1 DEF Part, StagesAhead
<1>3. NeverStuck'
  BY <1>1 DEF NeverStuck
<1> QED BY <1>1, <1>2, <1>3 DEF Lower, ToGo

LEMMA ReadyNodeSettlesCounts ==
    ASSUME IInv, NeverStuck, NEW n \in Nodes, NEW o, ReadyNodeSettles(n, o)
    PROVE  NeverStuck' /\ Lower(ToGo', ToGo)
<1>1. TypeOK /\ PhaseInv /\ DoneInv /\ ReadyInv /\ Scheduling
  BY DEF IInv, ReadyNodeSettles, Scheduling
<1>2. /\ wf' = wf /\ scope' = scope /\ round' = round /\ pc' = "dispatch" /\ pc = "await"
      /\ settled' = settled \cup {n}
      /\ n \in Part \ settled
  BY <1>1 DEF ReadyNodeSettles, Settle, DoneInv, ReadyInv
<1>3. Part' = Part /\ StagesAhead' = StagesAhead
  BY <1>2 DEF Part, StagesAhead
<1>4. Cardinality(Part \ settled') < Cardinality(Part \ settled)
  BY <1>1, <1>2, AheadIsFinite, FewerLeft
<1>5. NeverStuck'
  BY <1>2 DEF NeverStuck
<1> QED BY <1>2, <1>3, <1>4, <1>5 DEF Lower, ToGo

LEMMA StartLayerCounts ==
    ASSUME IInv, NeverStuck, StartLayer
    PROVE  NeverStuck' /\ Lower(ToGo', ToGo)
<1>1. /\ wf' = wf /\ scope' = scope /\ round' = round /\ settled' = settled
      /\ pc = "dispatch" /\ pc' = "await" /\ wf.scheduling = "layered" /\ Layer # {}
  BY DEF StartLayer, contractVars, queueVars
<1>2. Part' = Part /\ Layer' = Layer /\ StagesAhead' = StagesAhead
  BY <1>1 DEF Part, Layer, StagesAhead
<1>3. NeverStuck'
  BY <1>1, <1>2 DEF NeverStuck
<1> QED BY <1>1, <1>2, <1>3 DEF Lower, ToGo

LEMMA LayeredNodeSettlesCounts ==
    ASSUME IInv, NeverStuck, NEW n \in Nodes, NEW o, LayeredNodeSettles(n, o)
    PROVE  NeverStuck' /\ Lower(ToGo', ToGo)
<1>1. TypeOK /\ PhaseInv
  BY DEF IInv
<1>2. /\ wf' = wf /\ scope' = scope /\ round' = round /\ pc' = pc /\ pc = "await"
      /\ settled' = settled /\ wf.scheduling = "layered"
      /\ n \in inFlight /\ inFlight' = inFlight \ {n}
  BY DEF LayeredNodeSettles, contractVars, queueVars
<1>3. Part' = Part /\ Layer' = Layer /\ StagesAhead' = StagesAhead
  BY <1>2 DEF Part, Layer, StagesAhead
<1>4. Cardinality(inFlight') < Cardinality(inFlight)
  BY <1>1, <1>2, AheadIsFinite, FewerLeft
<1>5. NeverStuck'
  BY <1>2, <1>3 DEF NeverStuck
<1> QED BY <1>2, <1>3, <1>4, <1>5 DEF Lower, ToGo

\* A layer is never empty, so going through one leaves fewer nodes.
LEMMA MergeLayerCounts ==
    ASSUME IInv, NeverStuck, MergeLayer
    PROVE  NeverStuck' /\ Lower(ToGo', ToGo)
<1>1. TypeOK /\ PhaseInv
  BY DEF IInv
<1>2. /\ wf' = wf /\ scope' = scope /\ round' = round /\ pc = "await" /\ pc' = "dispatch"
      /\ settled' = settled \cup Layer /\ wf.scheduling = "layered"
  BY DEF MergeLayer
<1>3. PICK n \in Layer : n \in Part \ settled
  BY <1>2 DEF NeverStuck, Layer
<1>4. Part' = Part /\ StagesAhead' = StagesAhead
  BY <1>2 DEF Part, StagesAhead
<1>5. Cardinality(Part \ settled') < Cardinality(Part \ settled)
  BY <1>1, <1>2, <1>3, AheadIsFinite, FewerLeft
<1>6. NeverStuck'
  BY <1>2 DEF NeverStuck
<1> QED BY <1>2, <1>4, <1>5, <1>6 DEF Lower, ToGo

LEMMA LayersEndCounts ==
    ASSUME IInv, NeverStuck, LayersEnd
    PROVE  NeverStuck' /\ Lower(ToGo', ToGo)
<1>1. /\ wf' = wf /\ scope' = scope /\ round' = round
      /\ pc = "dispatch" /\ pc' = "resolved"
  BY DEF LayersEnd, Resolve, contractVars
<1>2. StagesAhead' = StagesAhead
  BY <1>1 DEF StagesAhead
<1>3. NeverStuck'
  BY <1>1 DEF NeverStuck
<1> QED BY <1>1, <1>2, <1>3 DEF Lower, ToGo

\* runWorkflow goes from one stage of a round to a later one ...
LEMMA StageCounts ==
    ASSUME IInv, NeverStuck, wf' = wf, round' = round, pc' \notin {"idle", "await"},
           StagesAhead' < StagesAhead
    PROVE  NeverStuck' /\ Lower(ToGo', ToGo)
<1>1. NeverStuck'
  BY DEF NeverStuck
<1> QED BY <1>1 DEF Lower, ToGo

\* ... or to a new round.
LEMMA RoundCounts ==
    ASSUME IInv, NeverStuck, wf' = wf, round' = round + 1, round < wf.maxRounds,
           pc' = "dispatch"
    PROVE  NeverStuck' /\ Lower(ToGo', ToGo)
<1>1. wf.maxRounds \in Nat /\ round \in Nat
  BY DEF IInv, TypeOK, IsWorkflow
<1>2. NeverStuck'
  BY <1>1 DEF NeverStuck
<1>3. wf'.maxRounds - round' < wf.maxRounds - round
  BY <1>1
<1> QED BY <1>2, <1>3 DEF Lower, ToGo

LEMMA RunWorkflowCounts ==
    ASSUME IInv, NeverStuck, NEW s \in Seeds, RunWorkflow(s)
    PROVE  NeverStuck' /\ Lower(ToGo', ToGo)
<1>1. wf' = wf /\ round' = 1 /\ pc = "idle" /\ pc' = "dispatch"
  BY DEF RunWorkflow, BeginPartition
<1>2. round = 0 /\ wf.maxRounds \in Nat \ {0}
  BY <1>1 DEF IInv, TypeOK, IsWorkflow, NeverStuck
<1> QED BY <1>1, <1>2, RoundCounts

LEMMA ControllerCounts ==
    ASSUME IInv, NeverStuck, Controller
    PROVE  NeverStuck' /\ Lower(ToGo', ToGo)
<1>1. CASE NextRound
  BY <1>1, RoundCounts DEF NextRound, BeginPartition
<1>2. CASE GatePassed
  <2>1. /\ wf' = wf /\ round' = round /\ pc = "resolved" /\ scope = "subgraph"
        /\ pc' = "dispatch" /\ scope' = "rest"
    BY <1>2 DEF GatePassed, AfterSubgraph, BeginPartition, contractVars
  <2>2. StagesAhead' < StagesAhead
    BY <2>1 DEF StagesAhead
  <2> QED BY <2>1, <2>2, StageCounts
<1>3. CASE ExhaustFails \/ Finish
  <2>1. /\ wf' = wf /\ round' = round /\ pc = "resolved" /\ scope \in {"subgraph", "rest"}
        /\ pc' = "closed"
    BY <1>3 DEF ExhaustFails, Finish, AfterSubgraph, Close, IInv, TypeOK
  <2>2. StagesAhead' < StagesAhead
    BY <2>1 DEF StagesAhead
  <2> QED BY <2>1, <2>2, StageCounts
<1>4. CASE ExhaustAsks
  <2>1. /\ wf' = wf /\ round' = round /\ pc = "resolved" /\ scope = "subgraph"
        /\ pc' = "approval"
    BY <1>4 DEF ExhaustAsks, AfterSubgraph
  <2>2. StagesAhead' < StagesAhead
    BY <2>1 DEF StagesAhead
  <2> QED BY <2>1, <2>2, StageCounts
<1> QED BY <1>1, <1>2, <1>3, <1>4 DEF Controller

LEMMA AnsweredCounts ==
    ASSUME IInv, NeverStuck, Answered
    PROVE  NeverStuck' /\ Lower(ToGo', ToGo)
<1>1. /\ wf' = wf /\ round' = round /\ pc = "approval"
      /\ pc' = "closed" \/ (pc' = "dispatch" /\ scope' = "rest")
  BY DEF Answered, ExhaustAccepted, ExhaustRejected, BeginPartition, Close
<1>2. StagesAhead' < StagesAhead
  BY <1>1 DEF StagesAhead
<1> QED BY <1>1, <1>2, StageCounts

LEMMA AbortCounts ==
    ASSUME IInv, NeverStuck, Abort
    PROVE  NeverStuck' /\ Lower(ToGo', ToGo)
<1>1. /\ wf' = wf /\ scope' = scope /\ round' = round /\ settled' = settled /\ pc' = pc
      /\ ready' = ready /\ inFlight' = inFlight /\ ~aborted /\ aborted'
  BY DEF Abort, contractVars, queueVars, nodeVars
<1>2. Part' = Part /\ Layer' = Layer /\ StagesAhead' = StagesAhead
  BY <1>1 DEF Part, Layer, StagesAhead
<1>3. NeverStuck'
  BY <1>1, <1>2 DEF NeverStuck
<1> QED BY <1>1, <1>2, <1>3 DEF Lower, ToGo

LEMMA StepCounts ==
    ASSUME IInv, NeverStuck, Next
    PROVE  NeverStuck' /\ Lower(ToGo', ToGo)
<1>1. CASE Scheduler
  BY <1>1, TakeSeededCounts, TakeNodeCounts, ReadyLoopEndsCounts, StartLayerCounts,
     MergeLayerCounts, LayersEndCounts DEF Scheduler
<1>2. CASE Settles
  BY <1>2, ReadyNodeSettlesCounts, LayeredNodeSettlesCounts DEF Settles, NodeSettles
<1> QED BY <1>1, <1>2, RunWorkflowCounts, ControllerCounts, AnsweredCounts, AbortCounts DEF Next

\* A run never waits for nothing: while it awaits there is a handler to settle
\* or a layer to merge, and a round whose gate missed is one of those allowed,
\* so that another one, or the exhausted gate's path, comes next.
THEOREM NothingIsStuck == Spec => []NeverStuck
<1>1. Init => NeverStuck
  <2> SUFFICES ASSUME Init PROVE NeverStuck
    OBVIOUS
  <2>1. wf.maxRounds \in Nat
    BY WorkflowsAssumption DEF Init, IsWorkflow
  <2> QED BY <2>1 DEF Init, NeverStuck
<1>2. IInv /\ NeverStuck /\ [Next]_vars => NeverStuck'
  <2>1. NeverStuck /\ UNCHANGED vars => NeverStuck'
    BY DEF NeverStuck, Layer, Part, vars
  <2> QED BY <2>1, StepCounts
<1> QED BY <1>1, <1>2, Invariance, PTL DEF Spec

\* Every step of the executor, of a handler, of the caller brings the run
\* closer to its end, whatever the graph, the outcomes and their order: no
\* cycle of rounds, dispatches and settlings exists ...
THEOREM EveryStepIsProgress == Spec => EveryStepCounts
<1>1. IInv /\ NeverStuck /\ [Next]_vars => [Lower(ToGo', ToGo)]_vars
  BY StepCounts
<1> QED BY <1>1, Invariance, NothingIsStuck, PTL DEF Spec, EveryStepCounts

\* ... and no run can do so forever: what is left to do is counted in a well
\* founded order.  With FairSpec, under which a run that can go on does, this
\* is why a run ends.
THEOREM NoRunIsEndless ==
    /\ Spec => [](ToGo \in Measures)
    /\ IsWellFoundedOn({ab \in Measures \X Measures : Lower(ab[1], ab[2])}, Measures)
<1>1. Spec => [](ToGo \in Measures)
  <2>1. IInv /\ NeverStuck => ToGo \in Measures
    BY ToGoType DEF IInv
  <2> QED BY <2>1, Invariance, NothingIsStuck, PTL
<1>2. ASSUME NEW R, IsWellFoundedOn(R, Nat), \A x, y \in Nat : <<x, y>> \in R <=> x < y
      PROVE  IsWellFoundedOn({ab \in Measures \X Measures : Lower(ab[1], ab[2])}, Measures)
  <2>1. IsWellFoundedOn(LexProductOrdering(R, Nat, 7), Measures)
    BY <1>2, WFLexProductOrdering DEF Measures
  <2>2. {ab \in Measures \X Measures : Lower(ab[1], ab[2])} = LexProductOrdering(R, Nat, 7)
    BY <1>2 DEF LexProductOrdering, Lower, Measures
  <2> QED BY <2>1, <2>2
<1>3. IsWellFoundedOn(OpToRel(<, Nat), Nat)
  BY NatLessThanWellFounded
<1>4. \A x, y \in Nat : <<x, y>> \in OpToRel(<, Nat) <=> x < y
  BY DEF OpToRel
<1> QED BY <1>1, <1>2, <1>3, <1>4
=============================================================================
