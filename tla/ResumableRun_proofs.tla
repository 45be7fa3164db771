------------------------ MODULE ResumableRun_proofs ------------------------
(***************************************************************************)
(* ResumableRun, for every set of nodes, every workflow on them and any    *)
(* number of launches and crashes: the rows a launch leaves are what its   *)
(* executor reported; and while the server has not died, what a resume     *)
(* reuses is what running everything again would have derived.             *)
(***************************************************************************)
EXTENDS ResumableRun, DagRefinement_proofs

-----------------------------------------------------------------------------
(* What is decided of the nodes while a launch runs, and by the rows while *)
(* none does.                                                              *)

\* The outputs, with the results of a layer that are not merged yet.
Decided == [n \in Nodes |-> IF results[n] # "none" THEN results[n] ELSE outputs[n]]

\* The outcomes the rows tell of.
Told == [n \in Nodes |-> IF rows[n] = "succeeded" THEN "completed"
                         ELSE IF rows[n] = "absent" THEN "none" ELSE rows[n]]

AtRest == pc \in {"idle", "closed"}

\* What a node derives from failures, and what is derived from it.
Tainted(w, out) == Downstream(w, {n \in Nodes : out[n] = "failed"})
Reused(w, out, m) == \E n \in Downstream(w, {m}) : out[n] = "completed"

\* Nodes that are not decided yet count as skipped.
Expected(out) == [n \in Nodes |-> IF out[n] = "none" THEN "skipped" ELSE out[n]]

-----------------------------------------------------------------------------
(* The inductive invariant.                                                *)

LaunchInv ==
    /\ pc = "idle" => outputs = NoOutputs
    /\ ~(pc = "await" /\ wf.scheduling = "layered") => results = NoOutputs
    /\ pc = "closed" => /\ status \in {"succeeded", "failed", "cancelled"}
                        /\ \A n \in Nodes : outputs[n] # "none"
    /\ \A n \in inFlight : results[n] = "none" /\ verdict[n] # "none"
    /\ runRow # "running" => AtRest
    /\ pc # "idle" => \A n \in Nodes : seed[n] \in {"none", "completed"}

RowsInv == \A n \in Nodes : Decided[n] # "none" => rows[n] = RowOf(Decided[n])

BookInv == RunTypeOK /\ LaunchInv /\ RowsInv

Dependents(w) == Downstream(w, Subgraph(w)) \ Subgraph(w)

\* Nothing derived from a subgraph is kept unless its gate stands completed.
GateInv ==
    crashes = 0 /\ wf.gate # NoGate =>
        /\ pc # "idle" /\ seed[wf.gate] = "completed" => outputs[wf.gate] = "completed"
        /\ pc # "idle" /\ outputs[wf.gate] # "completed"
               => \A n \in Dependents(wf) : outputs[n] # "completed"
        /\ pc = "idle" /\ rows[wf.gate] = "skipped"
               => \A n \in Dependents(wf) : rows[n] # "succeeded"
        /\ pc # "idle" /\ seed[wf.gate] # "completed"
               => \A n \in Downstream(wf, Subgraph(wf)) : seed[n] = "none"

Simple == crashes = 0 /\ wf.onExhaust = "fail" /\ wf.conditional = {}

\* What is reused of an undecided node can only be skipped again, and what is skipped
\* was skipped for what is decided.
ReuseInv ==
    Simple /\ Running =>
        /\ \A m \in Nodes : Decided[m] = "skipped" =>
              /\ \A d \in wf.deps[m] : Decided[d] # "none"
              /\ m \notin Tainted(wf, Decided) => ~Triggered(wf, m, Decided)
        /\ \A m \in Nodes : Decided[m] = "none" /\ Reused(wf, Decided, m) =>
              /\ m \notin Tainted(wf, Decided)
              /\ ~Triggered(wf, m, Expected(Decided))

\* The same of what a launch leaves.
LeftInv ==
    Simple /\ AtRest =>
        \A m \in Nodes : Told[m] = "skipped" /\ m \notin Tainted(wf, Told) /\ Reused(wf, Told, m)
            => ~Triggered(wf, m, Expected(Told))

FreshInv ==
    Simple =>
        /\ \A n \in outdated : Decided[n] # "completed"
        /\ AtRest => \A n \in outdated : rows[n] # "succeeded"
        /\ \A n \in inFlight : verdict[n] = "run" => n \notin outdated

\* The last three, which need the others.
KeptInv == ReuseInv /\ LeftInv /\ FreshInv

-----------------------------------------------------------------------------
(* What is derived from a set of nodes.                                    *)

\* It holds the set, and every node that depends on one of it.
LEMMA DownstreamClosed ==
    ASSUME NEW w, IsWorkflow(w), NEW roots \in SUBSET Nodes
    PROVE  /\ Downstream(w, roots) \in SUBSET Nodes
           /\ roots \subseteq Downstream(w, roots)
           /\ \A m \in Nodes, d \in Downstream(w, roots) :
                 d \in w.deps[m] => m \in Downstream(w, roots)
<1>1. w.deps \in [Nodes -> SUBSET Nodes]
  BY DEF IsWorkflow
<1>2. ASSUME NEW m \in Nodes, NEW d \in Downstream(w, roots), d \in w.deps[m]
      PROVE  m \in Downstream(w, roots)
  <2> SUFFICES ASSUME NEW S \in SUBSET Nodes, roots \subseteq S,
                      \A k \in Nodes \ S : w.deps[k] \cap S = {}
               PROVE  m \in S
    BY DEF Downstream
  <2>1. d \in S
    BY DEF Downstream
  <2> QED BY <1>2, <2>1
<1> QED BY <1>2 DEF Downstream

\* ... and it is within every set that holds the nodes and is closed.
LEMMA DownstreamLeast ==
    ASSUME NEW w, NEW roots, NEW S \in SUBSET Nodes, roots \subseteq S,
           \A m \in Nodes \ S : w.deps[m] \cap S = {}
    PROVE  Downstream(w, roots) \subseteq S
  BY DEF Downstream

\* What is derived from nodes that are derived from others is derived from those.
LEMMA DownstreamOfDerived ==
    ASSUME NEW w, IsWorkflow(w), NEW roots \in SUBSET Nodes,
           NEW some \in SUBSET Downstream(w, roots)
    PROVE  Downstream(w, some) \subseteq Downstream(w, roots)
<1>1. /\ Downstream(w, roots) \in SUBSET Nodes
      /\ \A m \in Nodes \ Downstream(w, roots) : w.deps[m] \cap Downstream(w, roots) = {}
  BY DownstreamClosed
<1> QED BY <1>1, DownstreamLeast

\* A derived node is derived from one of the nodes.
LEMMA DownstreamOfOne ==
    ASSUME NEW w, IsWorkflow(w), NEW roots \in SUBSET Nodes, NEW n \in Downstream(w, roots)
    PROVE  \E m \in roots : n \in Downstream(w, {m})
<1> DEFINE S == {k \in Nodes : \E m \in roots : k \in Downstream(w, {m})}
<1>1. \A m \in roots : /\ {m} \in SUBSET Nodes
                       /\ m \in Downstream(w, {m})
                       /\ \A k \in Nodes, d \in Downstream(w, {m}) :
                             d \in w.deps[k] => k \in Downstream(w, {m})
  <2> SUFFICES ASSUME NEW m \in roots
               PROVE  /\ {m} \in SUBSET Nodes
                      /\ m \in Downstream(w, {m})
                      /\ \A k \in Nodes, d \in Downstream(w, {m}) :
                            d \in w.deps[k] => k \in Downstream(w, {m})
    OBVIOUS
  <2>1. {m} \in SUBSET Nodes
    OBVIOUS
  <2> QED BY <2>1, DownstreamClosed
<1>2. roots \subseteq S
  BY <1>1
<1>3. \A k \in Nodes \ S : w.deps[k] \cap S = {}
  BY <1>1
<1>4. Downstream(w, roots) \subseteq S
  BY <1>2, <1>3, DownstreamLeast
<1> QED BY <1>4

\* A direct dependent is derived.
LEMMA DependentDerived ==
    ASSUME NEW w, IsWorkflow(w), NEW m \in Nodes, NEW d \in w.deps[m]
    PROVE  d \in Nodes /\ m \in Downstream(w, {d}) /\ m \in Downstream(w, {m})
<1>1. d \in Nodes /\ {d} \in SUBSET Nodes /\ {m} \in SUBSET Nodes
  BY DEF IsWorkflow
<1> QED BY <1>1, DownstreamClosed

\* A node whose dependencies are all in a closed set is derived from no node
\* outside it, itself apart.
LEMMA NotDerived ==
    ASSUME NEW w, NEW D \in SUBSET Nodes, \A k \in D : w.deps[k] \subseteq D,
           NEW n \in Nodes, w.deps[n] \subseteq D, NEW m \in Nodes, m \notin D, m # n
    PROVE  n \notin Downstream(w, {m})
<1> DEFINE S == Nodes \ (D \cup {n})
<1>1. S \in SUBSET Nodes /\ {m} \subseteq S /\ n \notin S
  OBVIOUS
<1>2. \A k \in Nodes \ S : w.deps[k] \cap S = {}
  OBVIOUS
<1> HIDE DEF S
<1> QED BY <1>1, <1>2, DownstreamLeast

-----------------------------------------------------------------------------
(* What the steps of a launch decide.                                      *)

LEMMA DecidedFacts ==
    ASSUME RInv, LaunchInv
    PROVE  /\ Decided \in OutputMaps
           /\ ~(pc = "await" /\ wf.scheduling = "layered") => Decided = outputs
           /\ \A n \in Nodes : outputs[n] # "none" => Decided[n] = outputs[n]
           /\ \A n \in inFlight : n \in Nodes /\ outputs[n] = "none" /\ Decided[n] = "none"
<1>1. /\ TypeOK /\ PhaseInv /\ DoneInv /\ LayeredInv
      /\ outputs \in OutputMaps /\ results \in OutputMaps /\ inFlight \in SUBSET Nodes
  BY DEF RInv, IInv, TypeOK
<1>2. Decided \in OutputMaps
  BY <1>1 DEF Decided, OutputMaps
<1>3. CASE pc = "await" /\ wf.scheduling = "layered"
  <2>1. \A n \in Nodes : outputs[n] # "none" => Decided[n] = outputs[n]
    BY <1>1, <1>3 DEF LayeredInv, Scheduling, Decided
  <2>2. \A n \in inFlight : outputs[n] = "none" /\ results[n] = "none"
    BY <1>1, <1>3 DEF DoneInv, Scheduling, LaunchInv
  <2> QED BY <1>1, <1>2, <1>3, <2>1, <2>2 DEF Decided
<1>4. CASE ~(pc = "await" /\ wf.scheduling = "layered")
  <2>1. results = NoOutputs
    BY <1>4 DEF LaunchInv
  <2>2. Decided = outputs
    BY <1>1, <2>1 DEF Decided, OutputMaps, NoOutputs
  <2>3. \A n \in inFlight : outputs[n] = "none"
    BY <1>1 DEF PhaseInv, DoneInv, Scheduling
  <2> QED BY <1>1, <1>2, <2>2, <2>3
<1> QED BY <1>3, <1>4

LEMMA LaunchFacts ==
    ASSUME RInv, LaunchInv, Launch
    PROVE  /\ wf' = wf /\ pc = "idle" /\ pc' = "dispatch" /\ inFlight' = {}
           /\ results' = NoOutputs /\ UNCHANGED runVars /\ runRow = "running"
           /\ outputs' = seed' /\ Decided' = seed'
           /\ \A n \in Nodes :
                 /\ seed'[n] \in {"none", "completed"}
                 /\ seed'[n] = "completed" => rows[n] = "succeeded" /\ n \notin ResumeExclusions(wf)
           /\ \A n \in Nodes : seed'[n] = "none" =>
                 \/ rows[n] # "succeeded"
                 \/ n \in ResumeExclusions(wf)
                 \/ wf.gate # NoGate /\ seed'[wf.gate] = "none" /\ n \in Subgraph(wf)
           /\ wf.gate # NoGate /\ seed'[wf.gate] = "none" =>
                 \A n \in Subgraph(wf) : seed'[n] = "none"
<1>1. /\ TypeOK /\ PhaseInv /\ IsWorkflow(wf) /\ pc = "idle" /\ results = NoOutputs
      /\ UNCHANGED runVars /\ runRow = "running" /\ inFlight = {}
  BY DEF RInv, IInv, PhaseInv, LaunchInv, Launch, RunWorkflow, TypeOK
<1>2. /\ wf' = wf /\ outputs' = seed' /\ pc' = "dispatch"
      /\ inFlight' = inFlight /\ results' = results
  BY DEF Launch, RunWorkflow, BeginPartition, nodeVars
<1> DEFINE kept == FilteredSeed(ResumeSeed(wf))
<1>3. \A n \in Nodes : kept[n] = IF rows[n] = "succeeded" /\ n \notin ResumeExclusions(wf)
                                 THEN "completed" ELSE "none"
  BY DEF FilteredSeed, ResumeSeed
<1>4. seed' = IF wf.gate # NoGate /\ kept[wf.gate] # "completed"
              THEN ResetSubgraph(kept) ELSE kept
  BY DEF Launch, RunWorkflow
<1>5. Subgraph(wf) \in SUBSET Nodes /\ (wf.gate # NoGate => wf.gate \in Subgraph(wf))
  BY <1>1, SubgraphClosed
<1>6. Decided' = seed'
  <2>1. DOMAIN seed' = Nodes /\ seed' = [n \in Nodes |-> seed'[n]]
    BY <1>4 DEF ResetSubgraph, FilteredSeed
  <2> QED BY <1>1, <1>2, <2>1 DEF Decided, NoOutputs
<1> HIDE DEF kept
<1>7. CASE wf.gate # NoGate /\ kept[wf.gate] # "completed"
  <2>1. \A n \in Nodes : seed'[n] = IF n \in Subgraph(wf) THEN "none" ELSE kept[n]
    BY <1>4, <1>7 DEF ResetSubgraph
  <2> QED BY <1>1, <1>2, <1>3, <1>5, <1>6, <1>7, <2>1
<1>8. CASE ~(wf.gate # NoGate /\ kept[wf.gate] # "completed")
  <2>1. seed' = kept
    BY <1>4, <1>8
  <2> QED BY <1>1, <1>2, <1>3, <1>5, <1>6, <1>8, <2>1
<1> QED BY <1>7, <1>8

LEMMA StartFacts ==
    ASSUME RInv, LaunchInv, NodesStart
    PROVE  /\ wf' = wf /\ seed' = seed /\ outputs' = outputs /\ results' = NoOutputs
           /\ pc = "dispatch" /\ pc' \in {"dispatch", "await"}
           /\ pc' = "await" => wf.scheduling = "layered"
           /\ Decided = outputs /\ Decided' = outputs
           /\ inFlight' \in SUBSET Nodes
           /\ \A n \in inFlight' \ inFlight :
                 /\ outputs[n] = "none" /\ wf.deps[n] \subseteq Done
                 /\ verdict'[n] \in {"run", "skip"}
           /\ \A n \in inFlight : n \in inFlight' /\ verdict'[n] = verdict[n]
           /\ status' = status
<1>1. /\ TypeOK /\ PhaseInv /\ DoneInv /\ LayeredInv /\ outputs \in OutputMaps
      /\ inFlight \in SUBSET Nodes
  BY DEF RInv, IInv, TypeOK
<1>2. CASE \E n \in Nodes : TakeNode(n)
  <2> PICK n \in Nodes : TakeNode(n)
    BY <1>2
  <2>1. /\ UNCHANGED contractVars /\ pc' = pc /\ results' = results /\ pc = "dispatch"
        /\ inFlight' = inFlight \cup {n} /\ outputs[n] = "none" /\ n \in ready
    BY DEF TakeNode, Dispatch
  <2>2. /\ \A m \in Nodes \ {n} : verdict'[m] = verdict[m]
        /\ verdict'[n] \in {"run", "skip"}
    BY DEF TakeNode, Dispatch
  <2>3. wf.deps[n] \subseteq Done /\ n \notin inFlight
    BY <1>1, <2>1 DEF DoneInv, Scheduling, RInv, IInv, ReadyInv, TakeNode
  <2>4. results = NoOutputs
    BY <2>1 DEF LaunchInv
  <2>5. Decided = outputs /\ Decided' = outputs
    BY <1>1, <2>1, <2>4 DEF Decided, OutputMaps, NoOutputs, contractVars
  <2> QED BY <1>1, <2>1, <2>2, <2>3, <2>4, <2>5 DEF contractVars
<1>3. CASE StartLayer
  <2> DEFINE S == {n \in Layer : outputs[n] = "none"}
  <2>1. /\ UNCHANGED contractVars /\ pc' = "await" /\ results' = NoOutputs /\ pc = "dispatch"
        /\ inFlight' = inFlight \cup S /\ inFlight = {} /\ wf.scheduling = "layered"
    BY <1>1, <1>3 DEF StartLayer, Dispatch, LayeredInv, Scheduling
  <2>2. S \in SUBSET Nodes /\ \A n \in S : wf.deps[n] \subseteq Done
    BY <1>1, LayerFacts
  <2>3. results = NoOutputs
    BY <2>1 DEF LaunchInv
  <2>4. Decided = outputs /\ Decided' = outputs
    BY <1>1, <2>1, <2>3 DEF Decided, OutputMaps, NoOutputs, contractVars
  <2>5. \A n \in S : verdict'[n] \in {"run", "skip"}
    BY <1>3, <2>2 DEF StartLayer, Dispatch
  <2> QED BY <1>1, <2>1, <2>2, <2>4, <2>5 DEF contractVars
<1> QED BY <1>2, <1>3 DEF NodesStart

LEMMA SettleFacts ==
    ASSUME RInv, LaunchInv, NEW n \in Nodes, NEW o \in OutcomesOf(n), NodeSettles(n, o)
    PROVE  /\ wf' = wf /\ seed' = seed /\ status' = status /\ verdict' = verdict
           /\ Scheduling /\ Scheduling' /\ pc = "await"
           /\ pc' \in {"dispatch", "await"} /\ (pc' = "await" => wf.scheduling = "layered")
           /\ n \in inFlight /\ inFlight' = inFlight \ {n}
           /\ o \in Outcomes /\ (o # "skipped" => verdict[n] = "run")
           /\ ~Triggered(wf, n, outputs) => o = "skipped"
           /\ o = "skipped" /\ n \notin wf.conditional => ~Triggered(wf, n, outputs)
           /\ wf.deps[n] \subseteq Done
           /\ Decided[n] = "none" /\ outputs[n] = "none"
           /\ Decided' = [m \in Nodes |-> IF m = n THEN o ELSE Decided[m]]
           /\ \A m \in Nodes \ {n} : outputs'[m] = outputs[m] /\ results'[m] = results[m]
           /\ \A m \in inFlight' : results'[m] = "none"
           /\ pc' = "dispatch" => results' = NoOutputs
<1>1. /\ TypeOK /\ DoneInv /\ VerdictInv /\ outputs \in OutputMaps /\ results \in OutputMaps
      /\ n \in inFlight /\ pc = "await" /\ Scheduling
  BY DEF RInv, IInv, TypeOK, NodeSettles, ReadyNodeSettles, LayeredNodeSettles, Scheduling
<1>2. Decided[n] = "none" /\ outputs[n] = "none" /\ wf.deps[n] \subseteq Done
  BY <1>1, DecidedFacts DEF DoneInv
<1>3. /\ o \in Outcomes /\ (o # "skipped" => verdict[n] # "skip") /\ o # "none"
      /\ o = "skipped" => verdict[n] = "skip"
  BY DEF OutcomesOf, HandlerOutcomes, Outcomes
<1>4. /\ verdict[n] \in {"none", "run", "skip"}
      /\ ~Triggered(wf, n, outputs) => o = "skipped"
      /\ o = "skipped" /\ n \notin wf.conditional => ~Triggered(wf, n, outputs)
  BY <1>1, <1>3 DEF VerdictInv, TypeOK, OutcomesOf
<1>5. /\ results[n] = "none" /\ verdict[n] # "none"
      /\ \A m \in inFlight : results[m] = "none"
  BY <1>1 DEF LaunchInv
<1>6. CASE ReadyNodeSettles(n, o)
  <2>1. /\ wf' = wf /\ seed' = seed /\ status' = status /\ verdict' = verdict
        /\ pc' = "dispatch" /\ inFlight' = inFlight \ {n} /\ results' = results
        /\ results = NoOutputs
        /\ \A m \in Nodes : outputs'[m] = IF m = n THEN o ELSE outputs[m]
    BY <1>1, <1>6 DEF ReadyNodeSettles, OutputMaps, LaunchInv
  <2>2. Decided' = [m \in Nodes |-> IF m = n THEN o ELSE Decided[m]]
    BY <2>1 DEF Decided, NoOutputs
  <2>3. \A m \in inFlight' : results'[m] = "none"
    BY <1>5, <2>1
  <2> QED BY <1>1, <1>2, <1>3, <1>4, <1>5, <2>1, <2>2, <2>3 DEF Scheduling
<1>7. CASE LayeredNodeSettles(n, o)
  <2>1. /\ wf' = wf /\ seed' = seed /\ status' = status /\ verdict' = verdict
        /\ pc' = pc /\ inFlight' = inFlight \ {n} /\ outputs' = outputs
        /\ wf.scheduling = "layered"
        /\ \A m \in Nodes : results'[m] = IF m = n THEN o ELSE results[m]
    BY <1>1, <1>7 DEF LayeredNodeSettles, OutputMaps, contractVars
  <2>2. Decided' = [m \in Nodes |-> IF m = n THEN o ELSE Decided[m]]
    BY <1>3, <2>1 DEF Decided
  <2>3. \A m \in inFlight' : results'[m] = "none"
    BY <1>1, <1>5, <2>1 DEF TypeOK
  <2> QED BY <1>1, <1>2, <1>3, <1>4, <1>5, <2>1, <2>2, <2>3 DEF Scheduling
<1> QED BY <1>6, <1>7 DEF NodeSettles

\* A close, or an answer, fills in what is missing and rewrites the subgraph only.
LEMMA ConcludeFacts ==
    ASSUME RInv, LaunchInv, Concludes
    PROVE  /\ wf' = wf /\ seed' = seed /\ inFlight' = {} /\ results' = NoOutputs
           /\ pc \in {"resolved", "approval"} /\ pc' \in {"closed", "approval", "dispatch"}
           /\ Decided = outputs /\ Decided' = outputs' /\ outputs' \in OutputMaps
           /\ pc' = "closed" => /\ status' \in {"succeeded", "failed", "cancelled"}
                                /\ \A n \in Nodes : outputs'[n] # "none"
           /\ \A n \in Nodes : outputs'[n] = "none" => outputs[n] = "none"
           /\ \A n \in Nodes \ Subgraph(wf) :
                 outputs'[n] = outputs[n] \/ (outputs[n] = "none" /\ outputs'[n] = "skipped")
           /\ wf.gate # NoGate /\ outputs[wf.gate] = "completed" => outputs'[wf.gate] = "completed"
<1>1. /\ TypeOK /\ PhaseInv /\ DoneInv /\ IsWorkflow(wf) /\ outputs \in OutputMaps
      /\ pc \in {"resolved", "approval"} /\ inFlight = {} /\ results = NoOutputs
      /\ aborted \in BOOLEAN /\ cancelled \in BOOLEAN
  BY DEF RInv, IInv, TypeOK, PhaseInv, LaunchInv, Concludes, ExhaustFails, ExhaustAsks,
         ExhaustRejected, ExhaustAccepted, Finish, AfterSubgraph
<1>2. wf' = wf /\ seed' = seed /\ inFlight' = {} /\ results' = NoOutputs
  BY <1>1 DEF Concludes, ExhaustFails, ExhaustAsks, ExhaustRejected, ExhaustAccepted, Finish,
              nodeVars
<1>3. Decided = outputs /\ (outputs' \in OutputMaps => Decided' = outputs')
  BY <1>1, <1>2 DEF Decided, OutputMaps, NoOutputs
<1>4. Subgraph(wf) \in SUBSET Nodes /\ (wf.gate # NoGate => wf.gate \in Subgraph(wf))
  BY <1>1, SubgraphClosed
<1>5. AfterSubgraph \/ pc = "approval" =>
         /\ wf.gate # NoGate /\ wf.gate \in Subgraph(wf)
         /\ \A n \in Subgraph(wf) : outputs[n] # "none"
  BY <1>1, GateIsLookedAt, SameOperators DEF Contract!SubgraphDecided
<1> DEFINE Fills(out) ==
             /\ out \in OutputMaps
             /\ \A n \in Nodes : out[n] # "none"
             /\ \A n \in Nodes \ Subgraph(wf) :
                   out[n] = outputs[n] \/ (outputs[n] = "none" /\ out[n] = "skipped")
<1>6. ASSUME NEW out \in OutputMaps,
             \A n \in Nodes \ Subgraph(wf) :
                 out[n] = outputs[n] \/ (outputs[n] = "none" /\ out[n] = "skipped")
      PROVE  Fills(SkipMissing(out, Nodes))
  BY <1>1, <1>6 DEF SkipMissing, OutputMaps, Outcomes
<1>7. ASSUME NEW out \in OutputMaps, \A n \in Nodes : out[n] # "none",
             \A n \in Nodes \ Subgraph(wf) :
                 out[n] = outputs[n] \/ (outputs[n] = "none" /\ out[n] = "skipped"),
             NEW sweep \in BOOLEAN, Close(out, sweep)
      PROVE  /\ Fills(outputs') /\ pc' = "closed"
             /\ status' \in {"succeeded", "failed", "cancelled"}
             /\ \A n \in Nodes : outputs'[n] = out[n]
  <2>1. \A n \in Nodes : outputs'[n] = out[n]
    BY <1>7 DEF Close, SkipMissing
  <2>2. outputs' \in OutputMaps
    BY <1>7, RewritesTyped, <1>1 DEF Close
  <2> QED BY <1>7, <2>1, <2>2 DEF Close, RunStatus
<1>8. CASE ExhaustFails
  <2> DEFINE out == SkipMissing(GateExhausted, Nodes \ Subgraph(wf))
  <2>1. AfterSubgraph /\ outputs[wf.gate] # "completed" /\ Close(out, aborted)
    BY <1>8 DEF ExhaustFails, GateCompleted
  <2>2. out \in OutputMaps
    BY <1>1, RewritesTyped
  <2>3. \A n \in Nodes : /\ out[n] # "none"
                         /\ n \notin Subgraph(wf) =>
                              out[n] = outputs[n] \/ (outputs[n] = "none" /\ out[n] = "skipped")
    BY <1>1, <1>4, <1>5, <2>1 DEF SkipMissing, GateExhausted, OutputMaps, Outcomes
  <2> HIDE DEF out
  <2>4. /\ Fills(outputs') /\ pc' = "closed"
        /\ status' \in {"succeeded", "failed", "cancelled"}
    BY <1>1, <1>7, <2>1, <2>2, <2>3
  <2> QED BY <1>1, <1>2, <1>3, <2>1, <2>4
<1>9. CASE ExhaustRejected
  <2> DEFINE out == SkipMissing(outputs, Nodes \ Subgraph(wf))
  <2>1. pc = "approval" /\ outputs[wf.gate] # "completed" /\ Close(out, aborted)
    BY <1>9 DEF ExhaustRejected, RInv, StandInv
  <2>2. out \in OutputMaps
    BY <1>1, RewritesTyped
  <2>3. \A n \in Nodes : /\ out[n] # "none"
                         /\ n \notin Subgraph(wf) =>
                              out[n] = outputs[n] \/ (outputs[n] = "none" /\ out[n] = "skipped")
    BY <1>1, <1>4, <1>5, <2>1 DEF SkipMissing, OutputMaps, Outcomes
  <2> HIDE DEF out
  <2>4. /\ Fills(outputs') /\ pc' = "closed"
        /\ status' \in {"succeeded", "failed", "cancelled"}
    BY <1>1, <1>7, <2>1, <2>2, <2>3
  <2> QED BY <1>1, <1>2, <1>3, <2>1, <2>4
<1>10. CASE ExhaustAsks
  <2>1. /\ AfterSubgraph /\ outputs[wf.gate] # "completed" /\ outputs' = GateExhausted
        /\ pc' = "approval" /\ GateExhausted \in OutputMaps
    BY <1>1, <1>10, RewritesTyped DEF ExhaustAsks, GateCompleted
  <2>2. \A n \in Nodes : /\ outputs'[n] = "none" => outputs[n] = "none"
                         /\ n \notin Subgraph(wf) => outputs'[n] = outputs[n]
    BY <1>1, <1>5, <2>1 DEF GateExhausted, OutputMaps
  <2> QED BY <1>1, <1>2, <1>3, <2>1, <2>2
<1>11. CASE ExhaustAccepted
  <2>1. /\ Absorbed \in OutputMaps /\ pc = "approval"
        /\ wf.gate # NoGate /\ wf.gate \in Subgraph(wf)
    BY <1>1, <1>5, <1>11, RewritesTyped DEF ExhaustAccepted
  <2>2. \A n \in Nodes : /\ n \notin Subgraph(wf) => Absorbed[n] = outputs[n]
                         /\ Absorbed[n] = "none" => outputs[n] = "none"
    BY <2>1 DEF Absorbed
  <2>3. Absorbed[wf.gate] = "completed"
    BY <1>4, <2>1 DEF Absorbed
  <2>4. CASE aborted
    <3>1. Close(Absorbed, TRUE)
      BY <1>11, <2>4 DEF ExhaustAccepted
    <3>2. /\ outputs' = SkipMissing(Absorbed, Nodes) /\ status' = "cancelled" /\ pc' = "closed"
      BY <3>1 DEF Close
    <3>3. Fills(outputs') /\ outputs'[wf.gate] = "completed"
      <4>1. Fills(outputs')
        BY <1>6, <2>1, <2>2, <3>2
      <4> QED BY <1>4, <2>1, <2>3, <3>2, <4>1 DEF SkipMissing
    <3> QED BY <1>1, <1>2, <1>3, <3>2, <3>3
  <2>5. CASE ~aborted
    <3>1. outputs' = Absorbed /\ pc' = "dispatch"
      BY <1>11, <2>5 DEF ExhaustAccepted, BeginPartition
    <3> QED BY <1>1, <1>2, <1>3, <2>1, <2>2, <2>3, <3>1
  <2> QED BY <2>4, <2>5
<1>12. CASE Finish
  <2>1. Close(outputs, cancelled \/ aborted) /\ pc = "resolved" /\ (scope = "rest" \/ cancelled)
    BY <1>12 DEF Finish
  <2>2. CASE cancelled \/ aborted
    <3>1. outputs' = SkipMissing(outputs, Nodes) /\ status' = "cancelled" /\ pc' = "closed"
      BY <2>1, <2>2 DEF Close
    <3>2. Fills(outputs')
      BY <1>1, <1>6, <3>1
    <3>3. wf.gate # NoGate /\ outputs[wf.gate] = "completed" => outputs'[wf.gate] = "completed"
      BY <1>4, <3>1 DEF SkipMissing
    <3> QED BY <1>1, <1>2, <1>3, <3>1, <3>2, <3>3
  <2>3. CASE ~(cancelled \/ aborted)
    <3>1. outputs' = outputs /\ pc' = "closed" /\ status' \in {"succeeded", "failed", "cancelled"}
      BY <2>1, <2>3 DEF Close, RunStatus
    <3>2. \A n \in Part \cup Outside : outputs[n] # "none"
      BY <1>1, <2>1, <2>3, ResolvedFacts DEF RInv, DoneInv, Done, Scheduling
    <3>3. Part \cup Outside = Nodes
      BY <1>1, <2>1, <2>3, PartFacts
    <3> QED BY <1>1, <1>2, <1>3, <3>1, <3>2, <3>3
  <2> QED BY <2>2, <2>3
<1> QED BY <1>8, <1>9, <1>10, <1>11, <1>12 DEF Concludes

\* The other steps decide nothing, a new round apart.
LEMMA ProceedFacts ==
    ASSUME RInv, LaunchInv, Proceeds
    PROVE  /\ wf' = wf /\ seed' = seed /\ status' = status /\ UNCHANGED runVars
           /\ inFlight' = inFlight /\ verdict' = verdict
           /\ (pc' = "idle") <=> (pc = "idle")
           /\ pc # "closed" /\ pc' # "closed"
           /\ ~(pc' = "await" /\ wf.scheduling = "layered") => results' = NoOutputs
           /\ \A n \in inFlight : results'[n] = "none"
           /\ \/ /\ Decided' = Decided
                 /\ \A n \in Nodes : outputs[n] # "none" => outputs'[n] = outputs[n]
                 /\ pc = "idle" => outputs' = NoOutputs
              \/ /\ NextRound
                 /\ Decided = outputs /\ Decided' = ResetSubgraph(outputs)
                 /\ outputs' = ResetSubgraph(outputs)
<1>1. /\ TypeOK /\ LayeredInv /\ PhaseInv /\ outputs \in OutputMaps /\ results \in OutputMaps
      /\ inFlight \in SUBSET Nodes
  BY DEF RInv, IInv, TypeOK
<1>2. \A n \in inFlight : results[n] = "none"
  BY DEF LaunchInv
<1>3. CASE \/ \E n \in Nodes : TakeSeeded(n)
           \/ ReadyLoopEnds \/ LayersEnd \/ GatePassed \/ Abort
  <2>1. UNCHANGED contractVars /\ UNCHANGED nodeVars /\ UNCHANGED runVars
    BY <1>3 DEF TakeSeeded, ReadyLoopEnds, LayersEnd, GatePassed, Abort, Resolve, Proceeds
  <2>2. /\ (pc' = "idle") <=> (pc = "idle")
        /\ pc # "closed" /\ pc' # "closed"
        /\ pc' = "await" /\ wf.scheduling = "layered" => pc = "await"
    BY <1>3 DEF TakeSeeded, ReadyLoopEnds, LayersEnd, GatePassed, Abort, Resolve, BeginPartition,
                AfterSubgraph
  <2>3. ~(pc' = "await" /\ wf.scheduling = "layered") => results = NoOutputs
    <3>1. pc = "await" /\ wf.scheduling = "layered" => pc' = "await"
      BY <1>3 DEF TakeSeeded, ReadyLoopEnds, LayersEnd, GatePassed, Abort, AfterSubgraph
    <3> QED BY <3>1 DEF LaunchInv
  <2> QED BY <1>2, <2>1, <2>2, <2>3 DEF contractVars, nodeVars, Decided, LaunchInv
<1>4. CASE MergeLayer
  <2>1. /\ pc = "await" /\ pc' = "dispatch" /\ results' = NoOutputs /\ inFlight = {}
        /\ inFlight' = inFlight /\ verdict' = verdict
        /\ wf' = wf /\ seed' = seed /\ status' = status /\ UNCHANGED runVars
        /\ wf.scheduling = "layered"
        /\ outputs' = [n \in Nodes |-> IF results[n] # "none" THEN results[n] ELSE outputs[n]]
    BY <1>4 DEF MergeLayer, Proceeds
  <2>2. Decided' = Decided
    BY <2>1 DEF Decided, NoOutputs
  <2>3. \A n \in Nodes : outputs[n] # "none" => outputs'[n] = outputs[n]
    BY <1>1, <2>1 DEF LayeredInv, Scheduling
  <2> QED BY <2>1, <2>2, <2>3
<1>5. CASE NextRound
  <2>1. /\ pc = "resolved" /\ pc' = "dispatch" /\ results' = results /\ results = NoOutputs
        /\ inFlight' = inFlight /\ verdict' = verdict
        /\ wf' = wf /\ seed' = seed /\ status' = status /\ UNCHANGED runVars
        /\ outputs' = ResetSubgraph(outputs)
    BY <1>5 DEF NextRound, AfterSubgraph, BeginPartition, nodeVars, LaunchInv, Proceeds
  <2>2. Decided = outputs /\ Decided' = ResetSubgraph(outputs)
    BY <1>1, <2>1 DEF Decided, NoOutputs, OutputMaps, ResetSubgraph
  <2> QED BY <1>2, <1>5, <2>1, <2>2
<1> QED BY <1>3, <1>4, <1>5 DEF Proceeds

-----------------------------------------------------------------------------
(* The executor's own invariant, across launches.                          *)

LEMMA RenewFacts ==
    ASSUME IsWorkflow(wf), Renew
    PROVE  /\ RInv' /\ wf' = wf /\ pc' = "idle" /\ inFlight' = {}
           /\ outputs' = NoOutputs /\ results' = NoOutputs /\ Decided' = NoOutputs
<1>1. NoOutputs \in OutputMaps /\ NoOutputs \in [Nodes -> {"none", "completed", "skipped"}]
  BY DEF NoOutputs, OutputMaps
<1>2. /\ wf' = wf /\ pc' = "idle" /\ inFlight' = {} /\ status' = "idle" /\ scope' = "rest"
      /\ outputs' = NoOutputs /\ results' = NoOutputs /\ verdict' = [n \in Nodes |-> "none"]
  BY DEF Renew
<1>3. TypeOK'
  BY <1>1 DEF Renew, TypeOK
<1>4. IInv'
  BY <1>2, <1>3
  DEF IInv, PhaseInv, DoneInv, ReadyInv, LayeredInv, ResolvedInv, SeesItsAncestors, Scheduling
<1>5. StandInv' /\ VerdictInv' /\ FinalInv'
  BY <1>2 DEF StandInv, VerdictInv, FinalInv, Running
<1>6. Decided' = NoOutputs
  BY <1>2 DEF Decided, NoOutputs
<1> QED BY <1>2, <1>4, <1>5, <1>6 DEF RInv

LEMMA ExecutorStep == RInv /\ [RunNext]_allVars => RInv'
<1> SUFFICES ASSUME RInv, [RunNext]_allVars PROVE RInv'
  OBVIOUS
<1>1. CASE Launch
  <2>1. RunWorkflow(ResumeSeed(wf))
    BY <1>1 DEF Launch
  <2>2. IInv'
    BY <2>1, RunWorkflowInv DEF RInv
  <2>3. StandInv' /\ VerdictInv' /\ FinalInv'
    BY <2>1, RunWorkflowConforms
  <2> QED BY <2>2, <2>3 DEF RInv
<1>2. CASE NodesStart \/ NodeDone \/ Concludes \/ Proceeds
  <2>1. Next
    BY <1>2 DEF NodesStart, NodeDone, Concludes, Proceeds, Next, Scheduler, Controller, Settles,
                Answered
  <2> QED BY <2>1, StepRefines
<1>3. CASE SetupFails \/ RunDone \/ UNCHANGED allVars
  <2>1. UNCHANGED vars
    BY <1>3 DEF SetupFails, RunDone, allVars
  <2> QED BY <2>1, StepRefines
<1>4. CASE CrashAndBoot \/ Resume
  <2>1. IsWorkflow(wf) /\ Renew
    BY <1>4 DEF RInv, IInv, TypeOK, CrashAndBoot, Resume
  <2> QED BY <2>1, RenewFacts
<1> QED BY <1>1, <1>2, <1>3, <1>4 DEF RunNext

-----------------------------------------------------------------------------
(* The rows follow what is decided.                                        *)

LEMMA RowOfOutcomes ==
    ASSUME NEW o \in Outcomes
    PROVE  /\ RowOf(o) \in {"succeeded", "failed", "skipped"}
           /\ RowOf(o) = "succeeded" <=> o = "completed"
           /\ RowOf(o) = "skipped" <=> o = "skipped"
           /\ RowOf(o) = "failed" <=> o = "failed"
  BY DEF RowOf, Outcomes

LEMMA LaunchBooks ==
    ASSUME RInv, BookInv, Launch
    PROVE  BookInv'
<1>1. RunTypeOK /\ LaunchInv /\ RowsInv
  BY DEF BookInv
<1>2. /\ pc' = "dispatch" /\ inFlight' = {} /\ results' = NoOutputs /\ UNCHANGED runVars
      /\ runRow = "running" /\ Decided' = seed'
      /\ \A n \in Nodes : /\ seed'[n] \in {"none", "completed"}
                          /\ seed'[n] = "completed" => rows[n] = "succeeded"
  BY <1>1, LaunchFacts
<1>3. RunTypeOK' /\ LaunchInv'
  BY <1>1, <1>2 DEF runVars, RunTypeOK, LaunchInv, AtRest
<1>4. RowsInv'
  BY <1>2 DEF RowsInv, RowOf, runVars
<1> QED BY <1>3, <1>4 DEF BookInv

LEMMA StartBooks ==
    ASSUME RInv, BookInv, NodesStart
    PROVE  BookInv'
<1>1. RunTypeOK /\ LaunchInv /\ RowsInv
  BY DEF BookInv
<1> DEFINE taken == inFlight' \ inFlight
           started == {n \in taken : verdict'[n] = "run"}
<1>2. /\ wf' = wf /\ seed' = seed /\ results' = NoOutputs /\ pc = "dispatch"
      /\ pc' \in {"dispatch", "await"}
      /\ Decided' = Decided
      /\ \A n \in taken : n \in Nodes /\ Decided[n] = "none" /\ verdict'[n] # "none"
      /\ \A n \in inFlight : verdict'[n] = verdict[n]
      /\ inFlight' \in SUBSET Nodes
  BY <1>1, StartFacts
<1>3. /\ rows' = [n \in Nodes |-> IF n \in started THEN "absent"
                                  ELSE IF n \in taken THEN "skipped" ELSE rows[n]]
      /\ outdated' = (outdated \cup Downstream(wf, started)) \ started
      /\ UNCHANGED <<runRow, launches, crashes>>
  BY DEF NodesStart
<1>4. RunTypeOK'
  BY <1>1, <1>3 DEF RunTypeOK, Downstream
<1>5. LaunchInv'
  BY <1>1, <1>2, <1>3 DEF LaunchInv, AtRest, NoOutputs
<1>6. RowsInv'
  BY <1>1, <1>2, <1>3 DEF RowsInv
<1> QED BY <1>4, <1>5, <1>6 DEF BookInv

LEMMA DoneBooks ==
    ASSUME RInv, BookInv, NodeDone
    PROVE  BookInv'
<1>1. RunTypeOK /\ LaunchInv /\ RowsInv
  BY DEF BookInv
<1> PICK n \in Nodes : \E o \in OutcomesOf(n) :
        NodeSettles(n, o) /\ rows' = [rows EXCEPT ![n] = RowOf(o)]
  BY DEF NodeDone
<1> PICK o \in OutcomesOf(n) : NodeSettles(n, o) /\ rows' = [rows EXCEPT ![n] = RowOf(o)]
  OBVIOUS
<1>2. /\ verdict' = verdict /\ inFlight' = inFlight \ {n}
      /\ seed' = seed /\ pc = "await" /\ pc' \in {"dispatch", "await"}
      /\ (pc' = "await" => wf.scheduling = "layered") /\ wf' = wf
      /\ o \in Outcomes
      /\ Decided' = [m \in Nodes |-> IF m = n THEN o ELSE Decided[m]]
      /\ \A m \in inFlight' : results'[m] = "none"
      /\ pc' = "dispatch" => results' = NoOutputs
      /\ UNCHANGED <<runRow, outdated, launches, crashes>>
  BY <1>1, SettleFacts DEF NodeDone
<1>3. RunTypeOK'
  BY <1>1, <1>2, RowOfOutcomes DEF RunTypeOK
<1>4. LaunchInv'
  BY <1>1, <1>2 DEF LaunchInv, AtRest
<1>5. RowsInv'
  BY <1>1, <1>2 DEF RowsInv, RunTypeOK
<1> QED BY <1>3, <1>4, <1>5 DEF BookInv

LEMMA ConcludeBooks ==
    ASSUME RInv, BookInv, Concludes
    PROVE  BookInv'
<1>1. RunTypeOK /\ LaunchInv /\ RowsInv
  BY DEF BookInv
<1>2. /\ wf' = wf /\ seed' = seed /\ inFlight' = {} /\ results' = NoOutputs
      /\ pc \in {"resolved", "approval"} /\ pc' \in {"closed", "approval", "dispatch"}
      /\ Decided = outputs /\ Decided' = outputs' /\ outputs' \in OutputMaps
      /\ pc' = "closed" => /\ status' \in {"succeeded", "failed", "cancelled"}
                           /\ \A n \in Nodes : outputs'[n] # "none"
      /\ \A n \in Nodes : outputs'[n] = "none" => outputs[n] = "none"
  BY <1>1, ConcludeFacts
<1>3. /\ rows' = [n \in Nodes |-> IF outputs'[n] # outputs[n] THEN RowOf(outputs'[n]) ELSE rows[n]]
      /\ outdated' \subseteq outdated
      /\ UNCHANGED <<runRow, launches, crashes>>
  BY DEF Concludes
<1>4. RunTypeOK'
  <2>1. \A n \in Nodes : rows'[n] \in {"absent", "succeeded", "failed", "skipped"}
    <3> SUFFICES ASSUME NEW n \in Nodes
                 PROVE  rows'[n] \in {"absent", "succeeded", "failed", "skipped"}
      OBVIOUS
    <3>1. outputs'[n] # outputs[n] => outputs'[n] \in Outcomes
      BY <1>2 DEF OutputMaps
    <3> QED BY <1>1, <1>3, <3>1, RowOfOutcomes DEF RunTypeOK
  <2> QED BY <1>1, <1>3, <2>1 DEF RunTypeOK
<1>5. LaunchInv'
  BY <1>1, <1>2, <1>3 DEF LaunchInv, AtRest
<1>6. RowsInv'
  BY <1>1, <1>2, <1>3 DEF RowsInv
<1> QED BY <1>4, <1>5, <1>6 DEF BookInv

LEMMA ProceedBooks ==
    ASSUME RInv, BookInv, Proceeds
    PROVE  BookInv'
<1>1. RunTypeOK /\ LaunchInv /\ RowsInv
  BY DEF BookInv
<1>2. /\ wf' = wf /\ seed' = seed /\ UNCHANGED runVars
      /\ inFlight' = inFlight /\ verdict' = verdict
      /\ (pc' = "idle") <=> (pc = "idle")
      /\ pc # "closed" /\ pc' # "closed"
      /\ ~(pc' = "await" /\ wf.scheduling = "layered") => results' = NoOutputs
      /\ \A n \in inFlight : results'[n] = "none"
      /\ \/ Decided' = Decided /\ (pc = "idle" => outputs' = NoOutputs)
         \/ NextRound /\ Decided = outputs /\ Decided' = ResetSubgraph(outputs)
  BY <1>1, ProceedFacts
<1>3. RunTypeOK' /\ LaunchInv'
  BY <1>1, <1>2 DEF runVars, RunTypeOK, LaunchInv, AtRest, NextRound, AfterSubgraph
<1>4. RowsInv'
  BY <1>1, <1>2 DEF RowsInv, runVars, ResetSubgraph
<1> QED BY <1>3, <1>4 DEF BookInv

LEMMA BooksStep ==
    ASSUME RInv, BookInv, [RunNext]_allVars
    PROVE  BookInv'
<1>1. RunTypeOK /\ LaunchInv /\ RowsInv
  BY DEF BookInv
<1>2. CASE SetupFails \/ RunDone \/ UNCHANGED allVars
  <2>1. /\ UNCHANGED vars /\ UNCHANGED <<rows, outdated, launches, crashes>>
        /\ \/ runRow' = runRow
           \/ runRow' \in {"failed", "cancelled"} /\ pc = "idle"
           \/ runRow' = status /\ pc = "closed"
    BY <1>2 DEF SetupFails, RunDone, allVars, runVars
  <2>2. RunTypeOK'
    BY <1>1, <2>1 DEF RunTypeOK, LaunchInv
  <2>3. LaunchInv' /\ RowsInv'
    BY <1>1, <2>1 DEF vars, LaunchInv, AtRest, RowsInv, Decided
  <2> QED BY <2>2, <2>3 DEF BookInv
<1>3. CASE CrashAndBoot \/ Resume
  <2>1. IsWorkflow(wf) /\ Renew /\ UNCHANGED <<rows, outdated>>
    BY <1>3 DEF RInv, IInv, TypeOK, CrashAndBoot, Resume
  <2>2. /\ pc' = "idle" /\ inFlight' = {} /\ outputs' = NoOutputs /\ results' = NoOutputs
        /\ Decided' = NoOutputs
    BY <2>1, RenewFacts
  <2>3. RunTypeOK'
    BY <1>1, <1>3, <2>1, BoundsAssumption DEF RunTypeOK, CrashAndBoot, Resume
  <2>4. LaunchInv' /\ RowsInv'
    BY <1>1, <2>1, <2>2 DEF LaunchInv, AtRest, RowsInv, NoOutputs
  <2> QED BY <2>3, <2>4 DEF BookInv
<1> QED
  BY <1>2, <1>3, LaunchBooks, StartBooks, DoneBooks, ConcludeBooks, ProceedBooks DEF RunNext

LEMMA BooksInit == RunInit => RInv /\ BookInv
<1> SUFFICES ASSUME RunInit PROVE RInv /\ BookInv
  OBVIOUS
<1>1. RInv
  BY InitRefines DEF RunInit
<1>2. RunTypeOK
  BY BoundsAssumption DEF RunInit, RunTypeOK
<1>3. LaunchInv /\ RowsInv
  BY DEF RunInit, Init, LaunchInv, RowsInv, Decided, NoOutputs
<1> QED BY <1>1, <1>2, <1>3 DEF BookInv

LEMMA BooksInvariance == RunSpec => [](RInv /\ BookInv)
  BY BooksInit, ExecutorStep, BooksStep, PTL DEF RunSpec

\* The bookkeeping of a run keeps its types: the row's status is one the store
\* knows, and launches and crashes stay within their bounds.
THEOREM RunTypeCorrect == RunSpec => []RunTypeOK
  BY BooksInvariance, PTL DEF BookInv

\* When a launch closes, each node's row is the outcome its executor reported,
\* whatever earlier launches, rounds and crashes had left in the table.
THEOREM RowsTellTheRun == RunSpec => []RowsMatchTheRun
<1>1. RInv /\ BookInv => RowsMatchTheRun
  <2> SUFFICES ASSUME RInv, BookInv, pc = "closed", NEW n \in Nodes
               PROVE  rows[n] = RowOf(outputs[n])
    BY DEF RowsMatchTheRun
  <2>1. outputs[n] # "none" /\ Decided = outputs
    BY DecidedFacts DEF BookInv, LaunchInv
  <2> QED BY <2>1 DEF BookInv, RowsInv
<1> QED BY <1>1, BooksInvariance, PTL

-----------------------------------------------------------------------------
(* A converge gate and what depends on it.                                 *)

\* While a launch runs, the second part follows from the others: until the gate has
\* completed, nothing outside the subgraph is touched.
LEMMA GateWhileRunning ==
    ASSUME RInv', Running', wf'.gate # NoGate,
           seed'[wf'.gate] = "completed" => outputs'[wf'.gate] = "completed",
           seed'[wf'.gate] # "completed"
               => \A n \in Downstream(wf', Subgraph(wf')) : seed'[n] = "none",
           outputs'[wf'.gate] # "completed", NEW n \in Dependents(wf')
    PROVE  outputs'[n] = "none"
<1>1. IsWorkflow(wf') /\ scope' \in {"subgraph", "rest"}
  BY DEF RInv, IInv, TypeOK
<1>2. scope' = "subgraph"
  BY <1>1 DEF RInv, IInv, PhaseInv, Running, Scheduling
<1>3. n \in Nodes \ Subgraph(wf') /\ seed'[n] = "none"
  <2>1. Subgraph(wf') \in SUBSET Nodes
    BY <1>1, SubgraphClosed
  <2> QED BY <1>1, <2>1, DownstreamClosed DEF Dependents
<1> QED BY <1>2, <1>3 DEF RInv, StandInv

LEMMA LaunchGates ==
    ASSUME RInv, BookInv, GateInv, Launch
    PROVE  GateInv'
<1> SUFFICES ASSUME crashes' = 0, wf'.gate # NoGate PROVE GateInv'
  BY DEF GateInv
<1>1. LaunchInv /\ RunTypeOK /\ IsWorkflow(wf)
  BY DEF BookInv, RInv, IInv, TypeOK
<1>2. /\ wf' = wf /\ pc = "idle" /\ pc' = "dispatch" /\ UNCHANGED runVars
      /\ outputs' = seed'
      /\ \A n \in Nodes :
            /\ seed'[n] \in {"none", "completed"}
            /\ seed'[n] = "completed" => rows[n] = "succeeded" /\ n \notin ResumeExclusions(wf)
      /\ \A n \in Nodes : seed'[n] = "none" =>
            \/ rows[n] # "succeeded"
            \/ n \in ResumeExclusions(wf)
            \/ wf.gate # NoGate /\ seed'[wf.gate] = "none" /\ n \in Subgraph(wf)
      /\ wf.gate # NoGate /\ seed'[wf.gate] = "none" =>
            \A n \in Subgraph(wf) : seed'[n] = "none"
  BY <1>1, LaunchFacts
<1>3. /\ wf.gate # NoGate /\ wf.gate \in Nodes /\ crashes = 0
      /\ Subgraph(wf) \in SUBSET Nodes /\ Subgraph(wf) = Upstream(wf, {wf.gate})
      /\ Downstream(wf, Subgraph(wf)) \in SUBSET Nodes
  BY <1>1, <1>2, SubgraphClosed, DownstreamClosed DEF IsWorkflow, runVars, Subgraph
<1>4. ASSUME seed'[wf.gate] # "completed", NEW n \in Downstream(wf, Subgraph(wf))
      PROVE  seed'[n] = "none"
  <2>1. seed'[wf.gate] = "none"
    BY <1>2, <1>3, <1>4
  <2> SUFFICES ASSUME n \notin Subgraph(wf) PROVE seed'[n] = "none"
    BY <1>2, <1>3, <2>1
  <2>2. n \in Nodes /\ n \in Dependents(wf)
    BY <1>3 DEF Dependents
  <2> DEFINE roots == ResumeRoots(wf)
  <2>3. roots \in SUBSET Nodes
    BY DEF ResumeRoots
  <2>4. CASE wf.gate \in Downstream(wf, roots)
    <3>1. ResumeExclusions(wf) = Downstream(wf, roots \cup Subgraph(wf))
      BY <1>3, <2>4 DEF ResumeExclusions
    <3>2. roots \cup Subgraph(wf) \in SUBSET Nodes
      BY <1>3, <2>3
    <3>3. Subgraph(wf) \in SUBSET Downstream(wf, roots \cup Subgraph(wf))
      BY <1>1, <3>2, DownstreamClosed
    <3>4. Downstream(wf, Subgraph(wf)) \subseteq Downstream(wf, roots \cup Subgraph(wf))
      BY <1>1, <3>2, <3>3, DownstreamOfDerived
    <3> QED BY <1>2, <2>2, <3>1, <3>4
  <2>5. CASE wf.gate \notin Downstream(wf, roots)
    <3>1. wf.gate \notin roots /\ ResumeExclusions(wf) = Downstream(wf, roots)
      BY <1>1, <2>3, <2>5, DownstreamClosed DEF ResumeExclusions
    <3>2. rows[wf.gate] \in {"succeeded", "skipped"}
      BY <1>3, <3>1 DEF ResumeRoots
    <3>3. CASE rows[wf.gate] = "succeeded"
      \* Then the gate is seeded, and so is not looked at again.
      <4>1. FilteredSeed(ResumeSeed(wf))[wf.gate] = "completed"
        BY <1>3, <2>5, <3>1, <3>3 DEF FilteredSeed, ResumeSeed
      <4>2. seed' = FilteredSeed(ResumeSeed(wf))
        BY <4>1 DEF Launch, RunWorkflow
      <4> QED BY <1>4, <4>1, <4>2
    <3>4. CASE rows[wf.gate] = "skipped"
      <4>1. rows[n] # "succeeded"
        BY <1>2, <1>3, <2>2, <3>4 DEF GateInv
      <4> QED BY <1>2, <2>2, <4>1
    <3> QED BY <3>2, <3>3, <3>4
  <2> QED BY <2>4, <2>5
<1>5. RInv' /\ Running'
  BY <1>2, ExecutorStep DEF RunNext, Running
<1>6. \A n \in Dependents(wf) : outputs'[wf.gate] # "completed" => outputs'[n] # "completed"
  BY <1>2, <1>4 DEF Dependents
<1> QED BY <1>2, <1>4, <1>6 DEF GateInv

LEMMA GateStep ==
    ASSUME RInv, BookInv, GateInv, [RunNext]_allVars
    PROVE  GateInv'
<1> SUFFICES ASSUME crashes' = 0, wf'.gate # NoGate PROVE GateInv'
  BY DEF GateInv
<1>1. /\ LaunchInv /\ RunTypeOK /\ RowsInv /\ IsWorkflow(wf) /\ RInv'
  BY ExecutorStep DEF BookInv, RInv, IInv, TypeOK
<1>2. CASE Launch
  BY <1>2, LaunchGates
\* A step of the launch.
<1>3. ASSUME wf' = wf, seed' = seed, crashes' = crashes, pc # "idle", pc' # "idle",
             outputs[wf.gate] = "completed" => outputs'[wf.gate] = "completed",
             Running' \/ \A n \in Dependents(wf) :
                            outputs'[wf.gate] # "completed" => outputs'[n] # "completed"
      PROVE  GateInv'
  <2>1. /\ seed'[wf.gate] = "completed" => outputs'[wf.gate] = "completed"
        /\ seed'[wf.gate] # "completed"
              => \A n \in Downstream(wf, Subgraph(wf)) : seed'[n] = "none"
    BY <1>3 DEF GateInv
  <2>2. \A n \in Dependents(wf) : outputs'[wf.gate] # "completed" => outputs'[n] # "completed"
    BY <1>1, <1>3, <2>1, GateWhileRunning
  <2> QED BY <1>3, <2>1, <2>2 DEF GateInv
<1>4. CASE NodesStart
  BY <1>1, <1>3, <1>4, StartFacts DEF NodesStart, Running
<1>5. CASE NodeDone
  <2>1. PICK n \in Nodes : \E o \in OutcomesOf(n) : NodeSettles(n, o)
    BY <1>5 DEF NodeDone
  <2>2. PICK o \in OutcomesOf(n) : NodeSettles(n, o)
    BY <2>1
  <2>3. /\ wf' = wf /\ seed' = seed /\ pc = "await" /\ pc' \in {"dispatch", "await"}
        /\ outputs[n] = "none" /\ \A m \in Nodes \ {n} : outputs'[m] = outputs[m]
    BY <1>1, <2>2, SettleFacts
  <2>4. wf.gate \in Nodes /\ crashes' = crashes
    BY <1>1, <1>5, <2>3 DEF IsWorkflow, NodeDone
  <2>5. outputs[wf.gate] = "completed" => outputs'[wf.gate] = "completed"
    BY <2>3, <2>4
  <2> QED BY <1>3, <2>3, <2>4, <2>5 DEF Running
<1>6. CASE Concludes
  <2>1. /\ wf' = wf /\ seed' = seed
        /\ pc \in {"resolved", "approval"} /\ pc' \in {"closed", "approval", "dispatch"}
        /\ \A n \in Nodes \ Subgraph(wf) :
              outputs'[n] = outputs[n] \/ (outputs[n] = "none" /\ outputs'[n] = "skipped")
        /\ outputs[wf.gate] = "completed" => outputs'[wf.gate] = "completed"
    BY <1>1, <1>6, ConcludeFacts
  <2>2. \A n \in Dependents(wf) : outputs'[wf.gate] # "completed" => outputs'[n] # "completed"
    <3>1. Dependents(wf) \subseteq Nodes \ Subgraph(wf)
      BY DEF Dependents, Downstream
    <3>2. \A n \in Dependents(wf) : outputs[wf.gate] # "completed" => outputs[n] # "completed"
      BY <1>6, <2>1 DEF GateInv, Concludes
    <3> QED BY <2>1, <3>1, <3>2
  <2>3. crashes' = crashes /\ pc # "idle" /\ pc' # "idle"
    BY <1>6, <2>1 DEF Concludes
  <2> QED BY <1>3, <2>1, <2>2, <2>3
<1>7. CASE Proceeds
  <2>1. /\ wf' = wf /\ seed' = seed /\ UNCHANGED runVars
        /\ (pc' = "idle") <=> (pc = "idle")
        /\ pc' # "closed"
    BY <1>1, <1>7, ProceedFacts
  <2>2. \/ \A n \in Nodes : outputs[n] # "none" => outputs'[n] = outputs[n]
        \/ NextRound
    BY <1>1, <1>7, ProceedFacts
  <2>3. CASE pc = "idle"
    BY <2>1, <2>3 DEF GateInv, runVars
  <2>4. CASE pc # "idle"
    <3>1. wf.gate \in Nodes
      BY <1>1, <2>1 DEF IsWorkflow
    <3>2. outputs[wf.gate] = "completed" => outputs'[wf.gate] = "completed"
      BY <2>2, <3>1 DEF NextRound, GateCompleted
    <3>3. Running'
      <4>1. pc' \in {"idle", "dispatch", "await", "resolved", "approval", "closed"}
        BY <1>1 DEF RInv, IInv, TypeOK
      <4> QED BY <2>1, <2>4, <4>1 DEF Running
    <3> QED BY <1>3, <2>1, <2>4, <3>2, <3>3 DEF runVars
  <2> QED BY <2>3, <2>4
<1>8. CASE SetupFails \/ RunDone \/ UNCHANGED allVars
  <2>1. UNCHANGED vars /\ crashes' = crashes /\ rows' = rows
    BY <1>8 DEF SetupFails, RunDone, allVars, runVars
  <2> QED BY <2>1 DEF vars, GateInv
<1>9. CASE CrashAndBoot
  BY <1>1, <1>9 DEF CrashAndBoot, RunTypeOK
\* Between launches: what the rows tell is what the last launch decided.
<1>10. CASE Resume
  <2>1. /\ wf' = wf /\ pc' = "idle" /\ rows' = rows /\ crashes' = crashes /\ AtRest
    BY <1>1, <1>10 DEF Resume, Renew, LaunchInv
  <2>2. ASSUME rows[wf.gate] = "skipped", NEW n \in Dependents(wf)
        PROVE  rows[n] # "succeeded"
    <3>1. CASE pc = "idle"
      BY <2>1, <2>2, <3>1 DEF GateInv
    <3>2. CASE pc = "closed"
      <4>1. wf.gate \in Nodes /\ n \in Nodes
        BY <1>1, <2>1 DEF IsWorkflow, Dependents, Downstream
      <4>2. \A m \in Nodes : outputs[m] \in Outcomes /\ rows[m] = RowOf(outputs[m])
        <5>1. Decided = outputs /\ \A m \in Nodes : outputs[m] # "none"
          BY <1>1, <3>2, DecidedFacts DEF LaunchInv
        <5>2. \A m \in Nodes : outputs[m] \in Outcomes
          BY <5>1 DEF RInv, IInv, TypeOK, OutputMaps
        <5> QED BY <1>1, <5>1, <5>2 DEF RowsInv
      <4>3. outputs[wf.gate] # "completed"
        BY <2>2, <4>1, <4>2, RowOfOutcomes
      <4>4. outputs[n] # "completed"
        BY <2>1, <3>2, <4>3 DEF GateInv
      <4> QED BY <4>1, <4>2, <4>4, RowOfOutcomes
    <3> QED BY <2>1, <3>1, <3>2 DEF AtRest
  <2> QED BY <2>1, <2>2 DEF GateInv
<1> QED BY <1>2, <1>4, <1>5, <1>6, <1>7, <1>8, <1>9, <1>10 DEF RunNext

LEMMA GateInvariance == RunSpec => []GateInv
<1>1. RunInit => GateInv
  BY WorkflowsAssumption DEF RunInit, Init, GateInv, IsWorkflow
<1>2. RInv /\ BookInv /\ GateInv /\ [RunNext]_allVars => GateInv'
  BY GateStep
<1> QED BY <1>1, <1>2, BooksInvariance, PTL DEF RunSpec

\* Unless the server died, a resumed launch whose gate is to run again seeds
\* nothing of its subgraph nor of what depends on it.
THEOREM GateBeforeDependents == RunSpec => []GateFirstUnlessCrashed
<1>1. GateInv => GateFirstUnlessCrashed
  BY DEF GateInv, GateFirstUnlessCrashed, GateSeededBeforeItsDependents
<1> QED BY <1>1, GateInvariance, PTL

-----------------------------------------------------------------------------
(* What is reused.                                                         *)

\* A node that is about to be decided and of which something was reused is skipped.
LEMMA ReusedIsSkipped ==
    ASSUME RInv, LaunchInv, ReuseInv, Simple, Scheduling,
           NEW n \in Nodes, wf.deps[n] \subseteq Done, Decided[n] = "none",
           Reused(wf, Decided, n)
    PROVE  ~Triggered(wf, n, outputs) /\ n \notin Tainted(wf, Decided)
<1>1. /\ TypeOK /\ PhaseInv /\ DoneInv /\ IsWorkflow(wf) /\ Running
  BY DEF RInv, IInv, TypeOK, Running, Scheduling
<1>2. n \notin Tainted(wf, Decided) /\ ~Triggered(wf, n, Expected(Decided))
  BY <1>1 DEF ReuseInv
<1>3. \A d \in wf.deps[n] : d \in Nodes /\ outputs[d] # "none"
  BY <1>1, DoneFacts
<1>4. \A d \in wf.deps[n] : Expected(Decided)[d] = outputs[d]
  BY <1>3, DecidedFacts DEF Expected
<1> QED BY <1>2, <1>4, TriggeredByDependencies

LEMMA LaunchKeeps ==
    ASSUME RInv, BookInv, GateInv, KeptInv, Launch
    PROVE  KeptInv'
<1>1. /\ LaunchInv /\ RunTypeOK /\ IsWorkflow(wf) /\ GateInv'
      /\ ReuseInv /\ LeftInv /\ FreshInv
  BY LaunchGates DEF BookInv, RInv, IInv, TypeOK, KeptInv
<1>2. /\ wf' = wf /\ pc = "idle" /\ pc' = "dispatch" /\ UNCHANGED runVars
      /\ outputs' = seed' /\ Decided' = seed' /\ inFlight' = {}
      /\ \A n \in Nodes :
            /\ seed'[n] \in {"none", "completed"}
            /\ seed'[n] = "completed" => rows[n] = "succeeded" /\ n \notin ResumeExclusions(wf)
      /\ \A n \in Nodes : seed'[n] = "none" =>
            \/ rows[n] # "succeeded"
            \/ n \in ResumeExclusions(wf)
            \/ wf.gate # NoGate /\ seed'[wf.gate] = "none" /\ n \in Subgraph(wf)
  BY <1>1, LaunchFacts
<1> SUFFICES ASSUME Simple' PROVE KeptInv'
  BY DEF KeptInv, ReuseInv, LeftInv, FreshInv
<1>3. Simple /\ rows' = rows /\ outdated' = outdated
  BY <1>2 DEF Simple, runVars
<1>4. FreshInv' /\ LeftInv'
  BY <1>1, <1>2, <1>3 DEF FreshInv, LeftInv, AtRest, RunTypeOK
<1> DEFINE roots == ResumeRoots(wf)
           all == IF wf.gate # NoGate /\ wf.gate \in Downstream(wf, roots)
                  THEN roots \cup Upstream(wf, {wf.gate}) ELSE roots
<1>5. /\ roots \in SUBSET Nodes /\ all \in SUBSET Nodes /\ roots \subseteq all
      /\ ResumeExclusions(wf) = Downstream(wf, all)
  BY DEF ResumeRoots, ResumeExclusions, Upstream
<1> HIDE DEF all
\* A node that is not seeded, though something derived from it is.
<1>6. ASSUME NEW m \in Nodes, seed'[m] = "none",
             NEW n \in Downstream(wf, {m}), seed'[n] = "completed"
      PROVE  /\ m \notin Tainted(wf, seed')
             /\ ~Triggered(wf, m, Expected(seed'))
  <2>1. {m} \in SUBSET Nodes /\ n \in Nodes
    BY DEF Downstream
  <2>2. m \notin Downstream(wf, all)
    <3> SUFFICES ASSUME m \in Downstream(wf, all) PROVE FALSE
      OBVIOUS
    <3>1. {m} \in SUBSET Downstream(wf, all)
      OBVIOUS
    <3>2. n \in Downstream(wf, all)
      BY <1>1, <1>5, <3>1, DownstreamOfDerived
    <3> QED BY <1>2, <1>5, <1>6, <2>1, <3>2
  <2>3. m \notin roots
    BY <1>1, <1>5, <2>2, DownstreamClosed
  <2>4. ASSUME wf.gate # NoGate, seed'[wf.gate] = "none"
        PROVE  m \notin Downstream(wf, Subgraph(wf))
    <3> SUFFICES ASSUME m \in Downstream(wf, Subgraph(wf)) PROVE FALSE
      OBVIOUS
    <3>1. Subgraph(wf) \in SUBSET Nodes /\ {m} \in SUBSET Downstream(wf, Subgraph(wf))
      BY <1>1, SubgraphClosed
    <3>2. n \in Downstream(wf, Subgraph(wf))
      BY <1>1, <3>1, DownstreamOfDerived
    <3> QED BY <1>1, <1>2, <1>3, <1>6, <2>4, <3>2 DEF GateInv, Simple
  <2>5. Subgraph(wf) \subseteq Downstream(wf, Subgraph(wf))
    BY <1>1, SubgraphClosed, DownstreamClosed
  <2>6. rows[m] = "skipped"
    <3>1. rows[m] \in {"succeeded", "skipped"}
      BY <2>3 DEF ResumeRoots
    <3> QED BY <1>2, <1>5, <1>6, <2>2, <2>4, <2>5, <3>1
  <2>7. Told[m] = "skipped" /\ Told[n] = "completed"
    BY <1>2, <1>6, <2>1, <2>6 DEF Told
  <2>8. m \notin Tainted(wf, Told)
    <3> DEFINE failed == {k \in Nodes : Told[k] = "failed"}
    <3>1. failed \subseteq roots
      BY DEF Told, ResumeRoots
    <3>2. failed \in SUBSET Downstream(wf, all)
      BY <1>1, <1>5, <3>1, DownstreamClosed
    <3>3. Downstream(wf, failed) \subseteq Downstream(wf, all)
      BY <1>1, <1>5, <3>2, DownstreamOfDerived
    <3> QED BY <2>2, <3>3 DEF Tainted
  <2>9. ~Triggered(wf, m, Expected(Told))
    BY <1>1, <1>2, <1>3, <2>7, <2>8 DEF LeftInv, AtRest, Reused
  <2>10. ASSUME NEW d \in wf.deps[m]
         PROVE  Expected(Told)[d] = Expected(seed')[d]
    <3>1. /\ d \in Nodes /\ d \notin Downstream(wf, all)
          /\ wf.gate # NoGate /\ seed'[wf.gate] = "none" => d \notin Subgraph(wf)
      <4>1. d \in Nodes
        BY <1>1 DEF IsWorkflow
      <4>2. d \notin Downstream(wf, all)
        BY <1>1, <1>5, <2>2, DownstreamClosed
      <4>3. Subgraph(wf) \in SUBSET Nodes
        BY <1>1, SubgraphClosed
      <4>4. wf.gate # NoGate /\ seed'[wf.gate] = "none" => d \notin Subgraph(wf)
        BY <1>1, <2>4, <2>5, <4>3, DownstreamClosed
      <4> QED BY <4>1, <4>2, <4>4
    <3>2. d \notin roots
      BY <1>1, <1>5, <3>1, DownstreamClosed
    <3>3. rows[d] \in {"succeeded", "skipped"}
      BY <3>1, <3>2 DEF ResumeRoots
    <3>4. seed'[d] = IF rows[d] = "succeeded" THEN "completed" ELSE "none"
      BY <1>2, <1>5, <3>1, <3>3
    <3> QED BY <3>1, <3>3, <3>4 DEF Told, Expected
  <2>11. ~Triggered(wf, m, Expected(seed'))
    BY <2>9, <2>10, TriggeredByDependencies
  <2>12. Tainted(wf, seed') = {}
    <3>1. {k \in Nodes : seed'[k] = "failed"} = {}
      BY <1>2
    <3> QED BY <3>1, DownstreamLeast DEF Tainted
  <2> QED BY <2>11, <2>12
<1>7. ReuseInv'
  BY <1>2, <1>6 DEF ReuseInv, Reused
<1> QED BY <1>4, <1>7 DEF KeptInv

LEMMA StartKeeps ==
    ASSUME RInv, BookInv, KeptInv, NodesStart
    PROVE  KeptInv'
<1>1. /\ LaunchInv /\ RunTypeOK /\ IsWorkflow(wf) /\ DoneInv /\ PhaseInv /\ TypeOK
      /\ ReuseInv /\ LeftInv /\ FreshInv /\ RInv'
  BY ExecutorStep DEF BookInv, RInv, IInv, TypeOK, KeptInv, RunNext
<1> DEFINE taken == inFlight' \ inFlight
           started == {n \in taken : verdict'[n] = "run"}
<1>2. /\ wf' = wf /\ outputs' = outputs /\ pc = "dispatch" /\ pc' \in {"dispatch", "await"}
      /\ Decided = outputs /\ Decided' = outputs
      /\ inFlight' \in SUBSET Nodes
      /\ \A n \in taken : outputs[n] = "none" /\ wf.deps[n] \subseteq Done
      /\ \A n \in inFlight : n \in inFlight' /\ verdict'[n] = verdict[n]
  BY <1>1, StartFacts
<1>3. /\ outdated' = (outdated \cup Downstream(wf, started)) \ started
      /\ UNCHANGED <<runRow, launches, crashes>>
  BY DEF NodesStart
<1> SUFFICES ASSUME Simple' PROVE KeptInv'
  BY DEF KeptInv, ReuseInv, LeftInv, FreshInv
<1>4. Simple /\ Scheduling /\ Running /\ Done \in SUBSET Nodes
  BY <1>1, <1>2, <1>3, DoneFacts DEF Simple, Scheduling, Running
<1>5. ReuseInv' /\ LeftInv'
  BY <1>1, <1>2, <1>4 DEF ReuseInv, LeftInv, AtRest
<1>6. started \in SUBSET Nodes
  BY <1>2
\* Nothing completed is derived from a node that starts.
<1>7. ASSUME NEW n \in Downstream(wf, started) PROVE outputs[n] # "completed"
  <2> SUFFICES ASSUME outputs[n] = "completed" PROVE FALSE
    OBVIOUS
  <2>1. PICK s \in started : n \in Downstream(wf, {s})
    BY <1>1, <1>6, DownstreamOfOne
  <2>2. Reused(wf, Decided, s)
    BY <1>2, <2>1 DEF Reused
  <2>3. ~Triggered(wf, s, outputs)
    BY <1>1, <1>2, <1>4, <1>6, <2>2, ReusedIsSkipped
  <2>4. verdict'[s] = "skip"
    BY <1>1, <1>2, <2>3 DEF RInv, VerdictInv
  <2> QED BY <2>4
\* Nothing in flight is derived from a node that starts.
<1>8. ASSUME NEW n \in inFlight PROVE n \notin Downstream(wf, started)
  <2> SUFFICES ASSUME n \in Downstream(wf, started) PROVE FALSE
    OBVIOUS
  <2>1. PICK s \in started : n \in Downstream(wf, {s})
    BY <1>1, <1>6, DownstreamOfOne
  <2>2. /\ n \in Nodes /\ wf.deps[n] \subseteq Done /\ s # n /\ s \in Nodes
        /\ s \notin Done
    BY <1>1, <1>2, <1>4, <1>6, DoneFacts DEF DoneInv
  <2>3. \A k \in Done : wf.deps[k] \subseteq Done
    BY <1>1, <1>4, DoneFacts
  <2> QED BY <1>4, <2>1, <2>2, <2>3, NotDerived
<1>9. FreshInv'
  <2>1. \A n \in outdated' : outputs[n] # "completed"
    BY <1>1, <1>2, <1>3, <1>4, <1>7 DEF FreshInv
  <2>2. \A n \in inFlight' : verdict'[n] = "run" => n \notin outdated'
    BY <1>1, <1>2, <1>3, <1>4, <1>8 DEF FreshInv
  <2> QED BY <1>2, <2>1, <2>2 DEF FreshInv, AtRest
<1> QED BY <1>5, <1>9 DEF KeptInv

LEMMA DoneKeeps ==
    ASSUME RInv, BookInv, KeptInv, NodeDone
    PROVE  KeptInv'
<1>1. /\ LaunchInv /\ RunTypeOK /\ IsWorkflow(wf) /\ DoneInv /\ PhaseInv /\ TypeOK
      /\ ReuseInv /\ LeftInv /\ FreshInv
  BY DEF BookInv, RInv, IInv, TypeOK, KeptInv
<1> PICK n \in Nodes : \E o \in OutcomesOf(n) : NodeSettles(n, o)
  BY DEF NodeDone
<1> PICK o \in OutcomesOf(n) : NodeSettles(n, o)
  OBVIOUS
<1>2. /\ wf' = wf /\ verdict' = verdict /\ Scheduling /\ pc' \in {"dispatch", "await"}
      /\ n \in inFlight /\ inFlight' = inFlight \ {n}
      /\ o \in Outcomes /\ (o # "skipped" => verdict[n] = "run")
      /\ ~Triggered(wf, n, outputs) => o = "skipped"
      /\ o = "skipped" /\ n \notin wf.conditional => ~Triggered(wf, n, outputs)
      /\ wf.deps[n] \subseteq Done
      /\ Decided[n] = "none"
      /\ Decided' = [m \in Nodes |-> IF m = n THEN o ELSE Decided[m]]
      /\ UNCHANGED <<runRow, outdated, launches, crashes>>
  BY <1>1, SettleFacts DEF NodeDone
<1> SUFFICES ASSUME Simple' PROVE KeptInv'
  BY DEF KeptInv, ReuseInv, LeftInv, FreshInv
<1>3. Simple /\ Running /\ n \notin wf.conditional
  BY <1>2 DEF Simple, Running, Scheduling
<1>4. /\ Done \in SUBSET Nodes
      /\ \A k \in Done : wf.deps[k] \subseteq Done /\ Decided[k] = outputs[k] /\ Decided[k] # "none"
  BY <1>1, <1>2, DoneFacts, DecidedFacts
<1>5. \A m \in Nodes : wf.deps[m] \subseteq Nodes
  BY <1>1 DEF IsWorkflow
<1>6. LeftInv'
  BY <1>2 DEF LeftInv, AtRest
<1>7. Tainted(wf, Decided) \subseteq Tainted(wf, Decided')
  <2> DEFINE failed(out) == {k \in Nodes : out[k] = "failed"}
  <2>1. failed(Decided) \subseteq failed(Decided')
    BY <1>2
  <2>2. failed(Decided') \in SUBSET Nodes
    OBVIOUS
  <2>3. failed(Decided) \in SUBSET Downstream(wf, failed(Decided'))
    BY <1>1, <2>1, <2>2, DownstreamClosed
  <2>4. Downstream(wf, failed(Decided)) \subseteq Downstream(wf, failed(Decided'))
    BY <1>1, <2>2, <2>3, DownstreamOfDerived
  <2> QED BY <2>4 DEF Tainted
\* The first part: skipped nodes.
<1>8. ASSUME NEW m \in Nodes, Decided'[m] = "skipped"
      PROVE  /\ \A d \in wf.deps[m] : Decided'[d] # "none"
             /\ m \notin Tainted(wf, Decided') => ~Triggered(wf, m, Decided')
  <2>1. CASE m = n
    <3>1. o = "skipped" /\ ~Triggered(wf, n, outputs)
      BY <1>2, <1>3, <1>8, <2>1
    <3>2. \A d \in wf.deps[n] : Decided'[d] = outputs[d] /\ Decided'[d] # "none"
      BY <1>2, <1>4
    <3>3. ~Triggered(wf, n, Decided')
      BY <3>1, <3>2, TriggeredByDependencies
    <3> QED BY <2>1, <3>2, <3>3
  <2>2. CASE m # n
    <3>1. Decided[m] = "skipped"
      BY <1>2, <1>8, <2>2
    <3>2. \A d \in wf.deps[m] : Decided[d] # "none"
      BY <1>1, <1>3, <3>1 DEF ReuseInv
    <3>3. \A d \in wf.deps[m] : Decided'[d] = Decided[d]
      BY <1>2, <1>5, <3>2
    <3>4. m \notin Tainted(wf, Decided') => ~Triggered(wf, m, Decided)
      BY <1>1, <1>3, <1>7, <3>1 DEF ReuseInv
    <3>5. Triggered(wf, m, Decided') <=> Triggered(wf, m, Decided)
      BY <3>3, TriggeredByDependencies
    <3> QED BY <3>2, <3>3, <3>4, <3>5
  <2> QED BY <2>1, <2>2
\* If something was reused of n, it has been skipped.
<1>9. Reused(wf, Decided, n) => o = "skipped"
  BY <1>1, <1>2, <1>3, ReusedIsSkipped
\* The second part: undecided nodes of which something was reused.
<1>10. ASSUME NEW m \in Nodes, Decided'[m] = "none", Reused(wf, Decided', m)
       PROVE  /\ m \notin Tainted(wf, Decided')
              /\ ~Triggered(wf, m, Expected(Decided'))
  <2>1. m # n /\ Decided[m] = "none" /\ m \notin Done
    BY <1>2, <1>4, <1>10 DEF Outcomes
  <2>2. PICK k \in Downstream(wf, {m}) : Decided'[k] = "completed"
    BY <1>10 DEF Reused
  <2>3. n \notin Downstream(wf, {m})
    BY <1>2, <1>4, <2>1, NotDerived
  <2>4. k \in Nodes /\ Decided[k] = "completed"
    BY <1>2, <2>2, <2>3 DEF Downstream
  <2>5. Reused(wf, Decided, m)
    BY <2>2, <2>4 DEF Reused
  <2>6. m \notin Tainted(wf, Decided) /\ ~Triggered(wf, m, Expected(Decided))
    BY <1>1, <1>3, <2>1, <2>5 DEF ReuseInv
  <2>7. m \in Downstream(wf, {n}) => o = "skipped"
    <3> SUFFICES ASSUME m \in Downstream(wf, {n}) PROVE Reused(wf, Decided, n)
      BY <1>9
    <3>1. {n} \in SUBSET Nodes /\ {m} \in SUBSET Downstream(wf, {n})
      OBVIOUS
    <3>2. k \in Downstream(wf, {n})
      BY <1>1, <2>2, <3>1, DownstreamOfDerived
    <3> QED BY <2>4, <3>2 DEF Reused
  <2>8. m \notin Tainted(wf, Decided')
    <3> SUFFICES ASSUME m \in Tainted(wf, Decided') PROVE FALSE
      OBVIOUS
    <3> DEFINE failed(out) == {j \in Nodes : out[j] = "failed"}
    <3>1. PICK j \in failed(Decided') : m \in Downstream(wf, {j})
      BY <1>1, DownstreamOfOne DEF Tainted
    <3>2. CASE j = n
      BY <1>2, <2>7, <3>1, <3>2
    <3>3. CASE j # n
      <4>1. j \in failed(Decided) /\ failed(Decided) \in SUBSET Nodes
        BY <1>2, <3>1, <3>3
      <4>2. {j} \in SUBSET Downstream(wf, failed(Decided))
        BY <1>1, <4>1, DownstreamClosed
      <4>3. Downstream(wf, {j}) \subseteq Downstream(wf, failed(Decided))
        BY <1>1, <4>1, <4>2, DownstreamOfDerived
      <4> QED BY <2>6, <3>1, <4>3 DEF Tainted
    <3> QED BY <3>2, <3>3
  <2>9. \A d \in wf.deps[m] : Expected(Decided')[d] = Expected(Decided)[d]
    <3> SUFFICES ASSUME NEW d \in wf.deps[m] PROVE Expected(Decided')[d] = Expected(Decided)[d]
      OBVIOUS
    <3>1. d \in Nodes /\ m \in Downstream(wf, {d})
      BY <1>1, DependentDerived
    <3> QED BY <1>2, <2>7, <3>1 DEF Expected
  <2>10. ~Triggered(wf, m, Expected(Decided'))
    BY <2>6, <2>9, TriggeredByDependencies
  <2> QED BY <2>8, <2>10
<1>11. ReuseInv'
  BY <1>2, <1>8, <1>10 DEF ReuseInv
<1>12. FreshInv'
  <2>1. \A m \in outdated : Decided'[m] # "completed"
    <3>1. o = "completed" => n \notin outdated
      BY <1>1, <1>2, <1>3 DEF FreshInv
    <3> QED BY <1>1, <1>2, <1>3, <3>1 DEF FreshInv, RunTypeOK
  <2> QED BY <1>1, <1>2, <1>3, <2>1 DEF FreshInv, AtRest
<1> QED BY <1>6, <1>11, <1>12 DEF KeptInv

\* A launch of a run nobody can accept closes on what was decided: what is missing
\* counts as skipped, and an exhausted gate as failed.
LEMMA ClosesOnTheDecided ==
    ASSUME RInv, LaunchInv, Concludes, wf.onExhaust = "fail"
    PROVE  /\ pc' = "closed"
           /\ \A n \in Nodes : \/ outputs'[n] = Expected(outputs)[n]
                               \/ outputs'[n] = "failed" /\ outputs[n] # "completed"
<1>1. /\ TypeOK /\ PhaseInv /\ IsWorkflow(wf) /\ outputs \in OutputMaps
      /\ pc # "approval" /\ wf.onExhaust # "approval"
  BY DEF RInv, IInv, TypeOK, StandInv
<1>2. CASE ExhaustFails
  <2>1. /\ AfterSubgraph /\ outputs[wf.gate] # "completed" /\ pc' = "closed"
        /\ Close(SkipMissing(GateExhausted, Nodes \ Subgraph(wf)), aborted)
    BY <1>2 DEF ExhaustFails, GateCompleted, Close
  <2>2. \A n \in Subgraph(wf) : outputs[n] # "none"
    BY <1>1, <2>1, GateIsLookedAt, SameOperators DEF Contract!SubgraphDecided
  <2>3. \A n \in Nodes :
           outputs'[n] = IF n = wf.gate THEN "failed" ELSE Expected(outputs)[n]
    BY <1>1, <2>1, <2>2 DEF Close, SkipMissing, GateExhausted, Expected, OutputMaps
  <2> QED BY <2>1, <2>3
<1>3. CASE Finish
  <2>1. pc' = "closed" /\ Close(outputs, cancelled \/ aborted)
    BY <1>3 DEF Finish, Close
  <2>2. CASE cancelled \/ aborted
    BY <2>1, <2>2 DEF Close, SkipMissing, Expected
  <2>3. CASE ~(cancelled \/ aborted)
    <3>1. outputs' = outputs
      BY <2>1, <2>3 DEF Close
    <3>2. \A n \in Nodes : outputs'[n] # "none"
      BY <2>1, ConcludeFacts
    <3> QED BY <2>1, <3>1, <3>2 DEF Expected
  <2> QED BY <2>2, <2>3
<1>4. ExhaustFails \/ Finish
  BY <1>1 DEF Concludes, ExhaustAsks, ExhaustRejected, ExhaustAccepted
<1> QED BY <1>2, <1>3, <1>4

LEMMA ConcludeKeeps ==
    ASSUME RInv, BookInv, KeptInv, Concludes
    PROVE  KeptInv'
<1>1. /\ LaunchInv /\ RunTypeOK /\ IsWorkflow(wf) /\ outputs \in OutputMaps
      /\ ReuseInv /\ LeftInv /\ FreshInv /\ BookInv'
  BY BooksStep DEF BookInv, RInv, IInv, TypeOK, KeptInv, RunNext
<1>2. /\ wf' = wf /\ inFlight' = {} /\ pc \in {"resolved", "approval"}
      /\ Decided = outputs /\ Decided' = outputs' /\ outputs' \in OutputMaps
      /\ outdated' \subseteq outdated /\ crashes' = crashes
  BY <1>1, ConcludeFacts DEF Concludes
<1> SUFFICES ASSUME Simple' PROVE KeptInv'
  BY DEF KeptInv, ReuseInv, LeftInv, FreshInv
<1>3. Simple /\ wf.onExhaust = "fail" /\ Running
  BY <1>2 DEF Simple, Running
<1>4. /\ pc' = "closed"
      /\ \A n \in Nodes : \/ outputs'[n] = Expected(outputs)[n]
                          \/ outputs'[n] = "failed" /\ outputs[n] # "completed"
  BY <1>1, <1>3, ClosesOnTheDecided
<1>5. \A n \in Nodes : /\ outputs'[n] = "completed" <=> outputs[n] = "completed"
                       /\ outputs[n] = "failed" => outputs'[n] = "failed"
                       /\ outputs'[n] \in Outcomes
  BY <1>1, <1>4 DEF Expected, OutputMaps, Outcomes
<1>6. \A n \in Nodes : rows'[n] = RowOf(outputs'[n]) /\ Told'[n] = outputs'[n]
  <2>1. \A n \in Nodes : rows'[n] = RowOf(outputs'[n])
    BY <1>1, <1>2, <1>5 DEF BookInv, RowsInv, Outcomes
  <2> QED BY <1>5, <2>1 DEF Told, RowOf, Outcomes
<1> DEFINE failed(out) == {n \in Nodes : out[n] = "failed"}
<1>7. Tainted(wf, Told') = Tainted(wf, outputs')
  <2>1. failed(Told') = failed(outputs')
    BY <1>6
  <2> QED BY <2>1 DEF Tainted
<1>8. Tainted(wf, outputs) \subseteq Tainted(wf, outputs')
  <2>1. failed(outputs') \in SUBSET Nodes
    OBVIOUS
  <2>2. failed(outputs) \in SUBSET Downstream(wf, failed(outputs'))
    BY <1>1, <1>5, <2>1, DownstreamClosed
  <2>3. Downstream(wf, failed(outputs)) \subseteq Downstream(wf, failed(outputs'))
    BY <1>1, <2>1, <2>2, DownstreamOfDerived
  <2> QED BY <2>3 DEF Tainted
<1>9. ASSUME NEW m \in Nodes, Told'[m] = "skipped", m \notin Tainted(wf, Told'),
             Reused(wf, Told', m)
      PROVE  ~Triggered(wf, m, Expected(Told'))
  <2>1. m \notin Tainted(wf, outputs') /\ m \notin Tainted(wf, outputs)
    BY <1>7, <1>8, <1>9
  \* Nothing m depends on has failed.
  <2>2. ASSUME NEW d \in wf.deps[m]
        PROVE  d \in Nodes /\ outputs'[d] = Expected(outputs)[d] /\ Expected(Told')[d] = outputs'[d]
    <3>1. d \in Nodes
      BY <1>1 DEF IsWorkflow
    <3>2. outputs'[d] # "failed"
      <4> SUFFICES ASSUME d \in failed(outputs') PROVE FALSE
        BY <3>1
      <4>1. failed(outputs') \in SUBSET Nodes
        OBVIOUS
      <4>2. m \in Downstream(wf, failed(outputs'))
        BY <1>1, <4>1, DownstreamClosed
      <4> QED BY <2>1, <4>2 DEF Tainted
    <3> QED BY <1>4, <1>5, <1>6, <3>1, <3>2 DEF Expected, Outcomes
  <2>3. Expected(outputs)[m] = "skipped"
    BY <1>4, <1>6, <1>9
  <2>4. CASE outputs[m] = "skipped"
    <3>1. (\A d \in wf.deps[m] : outputs[d] # "none") /\ ~Triggered(wf, m, outputs)
      BY <1>1, <1>2, <1>3, <2>1, <2>4 DEF ReuseInv
    <3>2. \A d \in wf.deps[m] : Expected(Told')[d] = outputs[d]
      BY <2>2, <3>1 DEF Expected
    <3> QED BY <3>1, <3>2, TriggeredByDependencies
  <2>5. CASE outputs[m] = "none"
    <3>1. PICK n \in Downstream(wf, {m}) : Told'[n] = "completed"
      BY <1>9 DEF Reused
    <3>2. outputs[n] = "completed"
      BY <1>5, <1>6, <3>1 DEF Downstream
    <3>3. ~Triggered(wf, m, Expected(outputs))
      BY <1>1, <1>2, <1>3, <2>5, <3>1, <3>2 DEF ReuseInv, Reused
    <3>4. \A d \in wf.deps[m] : Expected(Told')[d] = Expected(outputs)[d]
      BY <2>2
    <3> QED BY <3>3, <3>4, TriggeredByDependencies
  <2> QED BY <2>3, <2>4, <2>5 DEF Expected
<1>10. LeftInv'
  BY <1>2, <1>9 DEF LeftInv
<1>11. ReuseInv'
  BY <1>4 DEF ReuseInv, Running
<1>12. FreshInv'
  <2>1. \A n \in outdated' : n \in Nodes /\ outputs'[n] # "completed"
    BY <1>1, <1>2, <1>3, <1>5 DEF FreshInv, RunTypeOK
  <2>2. \A n \in outdated' : rows'[n] # "succeeded"
    BY <1>5, <1>6, <2>1, RowOfOutcomes
  <2> QED BY <1>2, <2>1, <2>2 DEF FreshInv
<1> QED BY <1>10, <1>11, <1>12 DEF KeptInv

\* A new round: whatever is derived from the subgraph is undecided again.
LEMMA NextRoundKeeps ==
    ASSUME RInv, BookInv, GateInv, KeptInv, NextRound, UNCHANGED runVars
    PROVE  KeptInv'
<1>1. /\ LaunchInv /\ RunTypeOK /\ IsWorkflow(wf) /\ outputs \in OutputMaps
      /\ ReuseInv /\ LeftInv /\ FreshInv
  BY DEF BookInv, RInv, IInv, TypeOK, KeptInv
<1>2. /\ wf' = wf /\ pc = "resolved" /\ pc' = "dispatch" /\ inFlight' = inFlight
      /\ wf.gate # NoGate /\ outputs[wf.gate] # "completed"
      /\ \A n \in Nodes \ Subgraph(wf) : outputs[n] = seed[n]
      /\ Subgraph(wf) \in SUBSET Nodes /\ inFlight = {}
  BY GateIsLookedAt
  DEF NextRound, AfterSubgraph, GateCompleted, BeginPartition, RInv, StandInv, nodeVars
<1>4. Decided = outputs /\ Decided' = ResetSubgraph(outputs)
  <2>1. results = NoOutputs /\ results' = results /\ outputs' = ResetSubgraph(outputs)
    BY <1>1, <1>2 DEF LaunchInv, NextRound, nodeVars
  <2> QED BY <1>1, <1>2, <2>1, DecidedFacts DEF Decided, NoOutputs, ResetSubgraph
<1>5. \A n \in Nodes : Decided'[n] = IF n \in Subgraph(wf) THEN "none" ELSE outputs[n]
  BY <1>4 DEF ResetSubgraph
<1> SUFFICES ASSUME Simple' PROVE KeptInv'
  BY DEF KeptInv, ReuseInv, LeftInv, FreshInv
<1>6. Simple /\ Running
  BY <1>2 DEF Simple, runVars, Running
<1>7. \A n \in Nodes : Decided'[n] \in {"none", "completed"}
  BY <1>1, <1>2, <1>5 DEF LaunchInv
<1>8. Downstream(wf, Subgraph(wf)) \in SUBSET Nodes
      /\ Subgraph(wf) \subseteq Downstream(wf, Subgraph(wf))
  BY <1>1, <1>2, DownstreamClosed
<1>9. \A n \in Downstream(wf, Subgraph(wf)) : Decided'[n] = "none"
  BY <1>2, <1>5, <1>6, <1>7, <1>8 DEF GateInv, Simple, Dependents
<1>10. ASSUME NEW m \in Nodes, Decided'[m] = "none", Reused(wf, Decided', m)
       PROVE  /\ m \notin Tainted(wf, Decided')
              /\ ~Triggered(wf, m, Expected(Decided'))
  <2>1. PICK n \in Downstream(wf, {m}) : Decided'[n] = "completed"
    BY <1>10 DEF Reused
  <2>2. m \notin Downstream(wf, Subgraph(wf))
    <3> SUFFICES ASSUME m \in Downstream(wf, Subgraph(wf)) PROVE FALSE
      OBVIOUS
    <3>1. {m} \in SUBSET Downstream(wf, Subgraph(wf))
      OBVIOUS
    <3>2. n \in Downstream(wf, Subgraph(wf))
      BY <1>1, <1>2, <3>1, DownstreamOfDerived
    <3> QED BY <1>9, <2>1, <3>2
  <2>3. n \in Nodes /\ outputs[n] = "completed" /\ outputs[m] = "none"
    BY <1>5, <1>8, <1>10, <2>1, <2>2 DEF Downstream
  <2>4. ~Triggered(wf, m, Expected(outputs))
    BY <1>1, <1>4, <1>6, <2>1, <2>3 DEF ReuseInv, Reused
  <2>5. \A d \in wf.deps[m] : d \in Nodes /\ d \notin Subgraph(wf)
    BY <1>1, <1>2, <1>8, <2>2, DownstreamClosed DEF IsWorkflow
  <2>6. \A d \in wf.deps[m] : Expected(Decided')[d] = Expected(outputs)[d]
    BY <1>5, <2>5 DEF Expected
  <2>7. Tainted(wf, Decided') = {}
    <3>1. {k \in Nodes : Decided'[k] = "failed"} = {}
      BY <1>7
    <3> QED BY <3>1, DownstreamLeast DEF Tainted
  <2> QED BY <2>4, <2>6, <2>7, TriggeredByDependencies
<1>11. ReuseInv'
  BY <1>2, <1>7, <1>10 DEF ReuseInv
<1>12. LeftInv' /\ FreshInv'
  BY <1>1, <1>2, <1>4, <1>5, <1>6 DEF LeftInv, FreshInv, AtRest, runVars, RunTypeOK
<1> QED BY <1>11, <1>12 DEF KeptInv

LEMMA KeepsStep ==
    ASSUME RInv, BookInv, GateInv, KeptInv, [RunNext]_allVars
    PROVE  KeptInv'
<1>1. /\ LaunchInv /\ RunTypeOK /\ IsWorkflow(wf) /\ ReuseInv /\ LeftInv /\ FreshInv
  BY DEF BookInv, RInv, IInv, TypeOK, KeptInv
<1>2. CASE Proceeds
  <2>1. /\ wf' = wf /\ UNCHANGED runVars /\ inFlight' = inFlight /\ verdict' = verdict
        /\ (pc' = "idle") <=> (pc = "idle")
        /\ pc # "closed" /\ pc' # "closed"
        /\ Decided' = Decided \/ NextRound
    BY <1>1, <1>2, ProceedFacts
  <2>2. CASE NextRound
    BY <2>1, <2>2, NextRoundKeeps
  <2>3. CASE Decided' = Decided
    <3>1. (Simple' <=> Simple) /\ (AtRest' <=> AtRest) /\ Told' = Told
      BY <2>1 DEF Simple, AtRest, Told, runVars
    <3>2. Running' => Running
      <4>1. pc \in {"idle", "dispatch", "await", "resolved", "approval", "closed"}
        BY DEF RInv, IInv, TypeOK
      <4> QED BY <2>1, <4>1 DEF Running
    <3>3. ReuseInv'
      BY <1>1, <2>1, <2>3, <3>1, <3>2 DEF ReuseInv
    <3>4. LeftInv' /\ FreshInv'
      BY <1>1, <2>1, <2>3, <3>1 DEF LeftInv, FreshInv, runVars
    <3> QED BY <3>3, <3>4 DEF KeptInv
  <2> QED BY <2>1, <2>2, <2>3
<1>3. CASE SetupFails \/ RunDone \/ UNCHANGED allVars
  <2>1. UNCHANGED vars /\ UNCHANGED <<rows, outdated, launches, crashes>>
    BY <1>3 DEF SetupFails, RunDone, allVars, runVars
  <2>2. /\ wf' = wf /\ inFlight' = inFlight /\ verdict' = verdict /\ pc' = pc
        /\ Decided' = Decided /\ Told' = Told /\ (Simple' <=> Simple)
    BY <2>1 DEF vars, Decided, Told, Simple
  <2>3. ReuseInv' /\ LeftInv' /\ FreshInv'
    BY <1>1, <2>1, <2>2 DEF ReuseInv, LeftInv, FreshInv, AtRest, Running
  <2> QED BY <2>3 DEF KeptInv
<1>4. CASE CrashAndBoot
  BY <1>1, <1>4 DEF CrashAndBoot, RunTypeOK, KeptInv, ReuseInv, LeftInv, FreshInv, Simple
<1>5. CASE Resume
  <2>1. /\ UNCHANGED <<rows, outdated, crashes>> /\ AtRest /\ Renew
    BY <1>1, <1>5 DEF Resume, LaunchInv
  <2>2. wf' = wf /\ pc' = "idle" /\ inFlight' = {} /\ Decided' = NoOutputs
    BY <1>1, <2>1, RenewFacts
  <2>3. (Simple' <=> Simple) /\ AtRest' /\ ~Running' /\ Told' = Told
    BY <2>1, <2>2 DEF Simple, AtRest, Running, Told
  <2>4. ReuseInv' /\ LeftInv'
    BY <1>1, <2>1, <2>2, <2>3 DEF ReuseInv, LeftInv
  <2>5. FreshInv'
    BY <1>1, <2>1, <2>2, <2>3 DEF FreshInv, NoOutputs, RunTypeOK
  <2> QED BY <2>4, <2>5 DEF KeptInv
<1> QED
  BY <1>2, <1>3, <1>4, <1>5, LaunchKeeps, StartKeeps, DoneKeeps, ConcludeKeeps DEF RunNext

LEMMA KeptInvariance == RunSpec => []KeptInv
<1>1. RunInit => KeptInv
  <2> SUFFICES ASSUME RunInit PROVE KeptInv
    OBVIOUS
  <2>1. /\ pc = "idle" /\ inFlight = {} /\ outdated = {} /\ \A n \in Nodes : Told[n] = "none"
    BY DEF RunInit, Init, Told
  <2> QED BY <2>1 DEF KeptInv, ReuseInv, LeftInv, FreshInv, Running
<1>2. RInv /\ BookInv /\ GateInv /\ KeptInv /\ [RunNext]_allVars => KeptInv'
  BY KeepsStep
<1> QED BY <1>1, <1>2, BooksInvariance, GateInvariance, PTL DEF RunSpec

\* Unless the server died, the gate can be accepted or a node has a `when:`, no run
\* ends with a node completed that last ran before a node it depends on did: the
\* rows are enough to tell a resume what to run again.
THEOREM ReusedIsFresh == RunSpec => []FreshUnlessCrashed
<1>1. RInv /\ BookInv /\ KeptInv => FreshUnlessCrashed
  <2> SUFFICES ASSUME RInv, BookInv, KeptInv, Simple, pc = "closed", NEW n \in outdated
               PROVE  outputs[n] # "completed"
    BY DEF FreshUnlessCrashed, DerivedOutputsAreFresh, Simple
  <2>1. Decided = outputs
    BY DecidedFacts DEF BookInv
  <2> QED BY <2>1 DEF KeptInv, FreshInv
<1> QED BY <1>1, BooksInvariance, KeptInvariance, PTL
=============================================================================
