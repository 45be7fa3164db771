--------------------------- MODULE MCDagExecutor ---------------------------
(***************************************************************************)
(* Instances of DagExecutor.  Nodes are numbered in a topological order,   *)
(* so the dependency functions below are, up to renaming, all the acyclic  *)
(* graphs on the nodes.                                                    *)
(***************************************************************************)
EXTENDS DagExecutor

CONSTANT Count      \* how many nodes

MCNodes == 1 .. Count
MCNoGate == 0

Edges == {e \in MCNodes \X MCNodes : e[1] < e[2]}
Graphs == {[n \in MCNodes |-> {m \in MCNodes : <<m, n>> \in set}] : set \in SUBSET Edges}

\* A node without dependencies runs whatever its rule.
RulesFor(deps, rules) ==
    {rule \in [MCNodes -> rules] : \A n \in MCNodes : deps[n] = {} => rule[n] = "all_success"}

Both == {"ready", "layered"}

AllPlain ==
    UNION {{[deps |-> deps, rule |-> rule, conditional |-> {3}, alwaysRun |-> {},
             scheduling |-> mode, gate |-> 0, maxRounds |-> 1, onExhaust |-> "fail"] :
                rule \in RulesFor(deps, {"all_success", "all_done"}), mode \in Both} :
            deps \in Graphs}

\* A converge gate that depends on something, and two rounds.  The last node waits
\* for the gate; the graph of the others is any.
GatedBy(g) ==
    UNION {{[deps |-> deps, rule |-> rule, conditional |-> {},
             alwaysRun |-> {}, scheduling |-> mode, gate |-> g, maxRounds |-> 2, onExhaust |-> e] :
                rule \in RulesFor([deps EXCEPT ![Count] = {}], TriggerRules), mode \in Both,
                e \in {"fail", "approval"}} :
            deps \in {d \in Graphs : d[g] # {} /\ d[Count] = {g}}}

AllKinds == AllPlain \cup UNION {GatedBy(g) : g \in MCNodes \ {Count}}

\* What a resumed run may be entered with: here, whether 2 is completed.
TwoSeeded == {[n \in MCNodes |-> IF n = 2 THEN o ELSE "none"] : o \in {"none", "completed"}}
=============================================================================
