--------------------------- MODULE MCResumableRun ---------------------------
(***************************************************************************)
(* Instances of ResumableRun: small graphs in topological order, as in     *)
(* MCDagExecutor, with one node that always runs or a converge gate.       *)
(***************************************************************************)
EXTENDS ResumableRun

CONSTANT Count

MCNodes == 1 .. Count
MCNoGate == 0

Graphs == {deps \in [MCNodes -> SUBSET MCNodes] : \A n \in MCNodes : deps[n] \subseteq 1 .. (n - 1)}

Rules == {"all_success", "all_done"}
RulesFor(deps) ==
    {rule \in [MCNodes -> Rules] : \A n \in MCNodes : deps[n] = {} => rule[n] = "all_success"}

Shapes(modes, gates, always, exhaust) ==
    UNION {{[deps |-> deps, rule |-> rule, conditional |-> {}, alwaysRun |-> always,
             scheduling |-> mode, gate |-> gate, maxRounds |-> 2, onExhaust |-> exhaust] :
                rule \in RulesFor(deps), mode \in modes,
                gate \in {g \in gates : g = 0 \/ deps[g] # {}}} : deps \in Graphs}

PlainReady == Shapes({"ready"}, {0}, {}, "fail")
Accepting == Shapes({"ready"}, {2, 3}, {}, "approval")

\* Four nodes: the gate 3 depends on 1 and 2, and 2 may be one that always runs.
GateOfTwo ==
    {w \in Shapes({"ready"}, {3}, {2}, "fail") \cup Shapes({"layered"}, {3}, {}, "fail")
              \cup Shapes({"ready"}, {3}, {}, "approval") :
        /\ w.deps[2] = {} /\ w.deps[3] = {1, 2} /\ w.deps[4] # {}
        /\ w.rule[3] = "all_success"}
PlainOrGate ==
    GateOfTwo \cup {w \in Shapes({"ready", "layered"}, {0}, {2}, "fail") :
                        \A n \in 2 .. 4 : w.deps[n] # {}}

\* The gate 3 is content with either of the nodes before it; 4 is behind it: with a crash
\* and three launches, 4 may be seeded while the subgraph of 3 runs again.
GateOfEither ==
    {[w EXCEPT !.rule[3] = "one_success"] :
        w \in {w \in Shapes({"ready"}, {3}, {}, "fail") :
                  /\ w.deps[2] = {} /\ w.deps[3] = {1, 2} /\ w.deps[4] = {3}
                  /\ w.rule[3] = "all_success"}}

NoSeeds == {}
Anywhere == {"idle", "dispatch", "await", "resolved", "approval", "closed"}
WhileAwaiting == {"await"}
=============================================================================
