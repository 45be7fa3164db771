------------------------------ MODULE Verdict ------------------------------
(***************************************************************************)
(* What an approval promises a turn that asks: one decision per ask, none  *)
(* left open when the turn is torn down, and none open for ever.           *)
(***************************************************************************)
CONSTANT Asks

VARIABLES
    decision,   \* of each ask: none yet, open, accept or reject
    over        \* the asks whose turn is torn down

verdictVars == <<decision, over>>

Init == decision = [a \in Asks |-> "none"] /\ over = {}

Opens(a) ==
    /\ decision[a] = "none" /\ a \notin over
    /\ decision' = [decision EXCEPT ![a] = "open"]
    /\ UNCHANGED over

Refused(a) ==
    /\ decision[a] = "none" /\ a \in over
    /\ decision' = [decision EXCEPT ![a] = "reject"]
    /\ UNCHANGED over

Decided(a) ==
    /\ decision[a] = "open"
    /\ \E d \in {"accept", "reject"} : decision' = [decision EXCEPT ![a] = d]
    /\ UNCHANGED over

\* All that is open in a set of asks is rejected at once: their turn is torn
\* down, or the server is.
TornDown(A) ==
    /\ over' \in {over, over \cup A}
    /\ decision' = [a \in Asks |->
            IF a \in A /\ decision[a] = "open" THEN "reject" ELSE decision[a]]

Next == (\E a \in Asks : Opens(a) \/ Refused(a) \/ Decided(a)) \/ (\E A \in SUBSET Asks : TornDown(A))

Spec ==
    /\ Init /\ [][Next]_verdictVars
    /\ \A a \in Asks : decision[a] = "open" ~> decision[a] # "open"
=============================================================================
