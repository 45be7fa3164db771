---------------------------- MODULE Publication ----------------------------
(***************************************************************************)
(* What "recompose on every change" promises: a copy that never goes back  *)
(* and that catches up with every change of its source.  `source` and      *)
(* `copy` count changes.                                                   *)
(***************************************************************************)
EXTENDS Naturals

CONSTANT MaxChanges     \* bound on the changes

VARIABLES source, copy

publicationVars == <<source, copy>>

Init == source = 0 /\ copy = 0

Change == source' > source /\ UNCHANGED copy

Copy == copy' \in copy + 1 .. source /\ UNCHANGED source

Next == Change \/ Copy

CatchesUp == \A n \in 1 .. MaxChanges : source >= n ~> copy >= n

Spec == Init /\ [][Next]_publicationVars /\ CatchesUp
=============================================================================
