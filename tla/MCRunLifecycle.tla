--------------------------- MODULE MCRunLifecycle ---------------------------
(* Instances of RunLifecycle.  The runs are p and q, which work in place, and *)
(* x and y, which have worktrees of their own.                                *)
EXTENDS RunLifecycle

AllExclusive == [r \in Runs |-> "exclusive"]
\* One of the runs in place writes, the others read.
OneWriter ==
    [r \in Runs |-> IF r = CHOOSE w \in Runs \ Isolated : TRUE THEN "exclusive" ELSE "shared"]
=============================================================================
