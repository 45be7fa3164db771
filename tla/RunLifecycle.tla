---------------------------- MODULE RunLifecycle ----------------------------
(***************************************************************************)
(* The life of workflow runs in the server (apps/server/src/               *)
(* workflows-handler.ts): started, resumed, cancelled, paused, purged,     *)
(* their worktrees pruned, and the server dying under them.                *)
(*                                                                         *)
(* A run is a row of the database.  A launch is one background execution   *)
(* of it (startRunCore or resumeRunCore calling executeRunInBackground);   *)
(* the server finds a run's launch through the activeRuns map.  The        *)
(* phases of a launch are its awaits:                                      *)
(*   queued      acquiring a slot (isolated runs only; see RunSlots)       *)
(*   setup       preflight, or dependencies of a worktree it already has   *)
(*   creating    git adds the worktree                                     *)
(*   installing  the dependencies of the new worktree                      *)
(*   executing   runWorkflow (see DagExecutor)                             *)
(*   ending      run_done was emitted and is held back during the cleanup  *)
(*   over        its promise has settled                                   *)
(* What happens between two awaits is one step.                            *)
(***************************************************************************)
EXTENDS Naturals, FiniteSets

CONSTANTS
    Runs,
    Isolated,     \* runs with a worktree of their own; the others work in place
    Mode,         \* the lock mode of a run's workflow
    CancelNodes,  \* runs whose workflow has a cancel node
    Gates,        \* approval and interactive nodes
    MaxLaunches,
    SlotLimit,
    Entrances,    \* how a resume may arrive: "http", "tool" (chat and MCP)
    Forces,       \* the `force` flags of prune requests
    MaxCrashes

Launches == 1 .. MaxLaunches
NoLaunch == 0

ASSUME RunsAssumption ==
    /\ IsFiniteSet(Runs) /\ NoLaunch \notin Runs
    /\ Isolated \subseteq Runs /\ CancelNodes \subseteq Runs
    /\ Mode \in [Runs -> {"exclusive", "shared", "none"}]
    /\ MaxLaunches \in Nat /\ SlotLimit \in Nat \ {0} /\ MaxCrashes \in Nat
    /\ Entrances \subseteq {"http", "tool"} /\ Forces \subseteq BOOLEAN

VARIABLES
    rows,       \* workflow_runs
    dir,        \* runs whose worktree exists on disk
    operation,  \* worktreeOperations: what is under way on a run's worktree
    active,     \* activeRuns
    of,         \* the run a launch executes
    phase,
    aborted,    \* launches whose abort signal fired
    pending,    \* a launch's pendingApprovals
    outcome,    \* terminalStatus: what runWorkflow reported
    locked,     \* launches that hold the mutation lock of the project
    purging,    \* launches whose end a purge of their run awaits
    reporting,  \* launches whose terminal event the ribs have not been told
    told,       \* the latest run event a rib was told
    crashes

launchVars == <<of, phase, aborted, pending, outcome>>
ribVars == <<reporting, told>>
vars == <<rows, dir, operation, active, launchVars, locked, purging, ribVars, crashes>>

Terminal == {"succeeded", "failed", "cancelled"}
Resumable == {"failed", "cancelled"}
Unsettled == {"running", "paused"}

\* status; has a conversation; worktree_path is set; worktree_pruned; has node rows
Row == [status : Terminal \cup Unsettled \cup {"absent"}, conversation : BOOLEAN,
        path : BOOLEAN, pruned : BOOLEAN, ran : BOOLEAN]
NoRow == [status |-> "absent", conversation |-> FALSE, path |-> FALSE,
          pruned |-> FALSE, ran |-> FALSE]

Phases == {"unused", "queued", "setup", "creating", "installing", "executing", "ending", "over"}
Live(l) == phase[l] \notin {"unused", "over"}
LiveOf(r) == {l \in Launches : Live(l) /\ of[l] = r}

TypeOK ==
    /\ rows \in [Runs -> Row]
    /\ dir \in SUBSET Runs
    /\ operation \in [Runs -> {"none", "create", "list", "listForced", "remove", "removeForGood"}]
    /\ active \in [Runs -> Launches \cup {NoLaunch}]
    /\ of \in [Launches -> Runs \cup {NoLaunch}]
    /\ phase \in [Launches -> Phases]
    /\ aborted \in SUBSET Launches
    /\ pending \in [Launches -> SUBSET Gates]
    /\ outcome \in [Launches -> Terminal \cup {"none"}]
    /\ locked \in SUBSET Launches
    /\ purging \in SUBSET Launches
    /\ reporting \in SUBSET Launches
    /\ told \in [Runs -> Terminal \cup Unsettled \cup {"nothing", "lost"}]
    /\ crashes \in 0 .. MaxCrashes

Init ==
    /\ rows = [r \in Runs |-> NoRow]
    /\ dir = {}
    /\ operation = [r \in Runs |-> "none"]
    /\ active = [r \in Runs |-> NoLaunch]
    /\ of = [l \in Launches |-> NoLaunch]
    /\ phase = [l \in Launches |-> "unused"]
    /\ aborted = {}
    /\ pending = [l \in Launches |-> {}]
    /\ outcome = [l \in Launches |-> "none"]
    /\ locked = {}
    /\ purging = {}
    /\ reporting = {}
    /\ told = [r \in Runs |-> "nothing"]
    /\ crashes = 0

-----------------------------------------------------------------------------
(* Launching.                                                              *)

TakesLock(r) == r \notin Isolated /\ Mode[r] # "none"
LockIsFree(r) ==
    TakesLock(r) => \A l \in locked : Mode[r] = "shared" /\ Mode[of[l]] = "shared"

\* The tail startRunCore and resumeRunCore share: lock, execute, register, tell.
Launch(l, r) ==
    /\ phase[l] = "unused"
    /\ \A k \in Launches : k < l => phase[k] # "unused"
    /\ LockIsFree(r)
    /\ locked' = IF TakesLock(r) THEN locked \cup {l} ELSE locked
    /\ of' = [of EXCEPT ![l] = r]
    /\ phase' = [phase EXCEPT ![l] = IF r \in Isolated THEN "queued" ELSE "setup"]
    /\ active' = [active EXCEPT ![r] = l]
    /\ reporting' = reporting \cup {l}
    /\ told' = [told EXCEPT ![r] = "running"]
    /\ UNCHANGED <<dir, operation, aborted, pending, outcome, purging, crashes>>

\* startRunCore, under a fresh run id.
Start(l, r) ==
    /\ \A k \in Launches : of[k] # r
    /\ Launch(l, r)
    /\ rows' = [rows EXCEPT ![r] = [NoRow EXCEPT !.status = "running", !.conversation = TRUE]]

\* A bug to catch: a pruned worktree is told by its absence from the disk.
MayResume_ByDisk(r) ==
    LET row == rows[r]
    IN  /\ row.status \in Resumable
        /\ row.path => operation[r] = "none" /\ r \in dir
        /\ row.conversation
        /\ r \in Isolated /\ ~row.path => ~row.ran

\* The checks of resumeRunCore, down to the claim of the row.
MayResume(r) ==
    LET row == rows[r]
    IN  /\ row.status \in Resumable
        /\ ~row.pruned
        /\ row.path => operation[r] = "none" /\ r \in dir
        /\ row.conversation
        /\ r \in Isolated /\ ~row.path => ~row.ran

\* A bug to catch: the route trusts the row.
Resume_Unasked(l, r, entrance) ==
    /\ MayResume(r)
    /\ Launch(l, r)
    /\ rows' = [rows EXCEPT ![r].status = "running"]

\* resumeRunCore.  The HTTP route first asks activeRuns, the tools do not.
Resume(l, r, entrance) ==
    /\ entrance = "http" => active[r] = NoLaunch
    /\ MayResume(r)
    /\ Launch(l, r)
    /\ rows' = [rows EXCEPT ![r].status = "running"]

-----------------------------------------------------------------------------
(* A launch ends.                                                          *)

\* A listener of the run that has not heard a run_done passes an event on.
Tell(r, event) ==
    IF \E k \in reporting : of[k] = r THEN [told EXCEPT ![r] = event] ELSE told

\* Closing the row, telling the ribs (every listener of the run hears the
\* run_done frame), unregistering and settling `done`, which releases the slot
\* and the lock and lets a purge delete the row.  The awaits in between are for
\* promises that need no event, so nothing else runs there.
Over(l, closed) ==
    LET r == of[l]
    IN  /\ rows' = [rows EXCEPT ![r] = IF l \in purging \/ @ = NoRow THEN NoRow ELSE closed]
        /\ told' = IF rows[r] # NoRow THEN Tell(r, closed.status) ELSE told
        /\ reporting' = {k \in reporting : of[k] # r}
        /\ active' = [active EXCEPT ![r] = NoLaunch]
        /\ phase' = [phase EXCEPT ![l] = "over"]
        /\ locked' = locked \ {l}
        /\ purging' = purging \ {l}
        /\ UNCHANGED <<of, aborted, pending, outcome, crashes>>

Closed(r, status) == [rows[r] EXCEPT !.status = status]

\* closeBeforeStart: cancelled while it was being prepared, or not preparable.
ClosedEarly(l) == Closed(of[l], IF l \in aborted THEN "cancelled" ELSE "failed")

Goes(l, ph) ==
    /\ phase' = [phase EXCEPT ![l] = ph]
    /\ UNCHANGED <<active, of, aborted, locked, purging, ribVars, crashes>>

-----------------------------------------------------------------------------
(* The launch's own steps.                                                 *)

SlotsTaken == {l \in Launches : Live(l) /\ of[l] \in Isolated /\ phase[l] # "queued"}

GetSlot(l) ==
    /\ phase[l] = "queued"
    /\ l \notin aborted
    /\ Cardinality(SlotsTaken) < SlotLimit
    /\ Goes(l, "setup")
    /\ UNCHANGED <<rows, dir, operation, pending, outcome>>

\* A bug to catch: a cancelled launch waits for its slot like everyone.
LeaveQueue_InTurn(l) ==
    /\ phase[l] = "queued"
    /\ l \in aborted
    /\ Cardinality(SlotsTaken) < SlotLimit
    /\ Over(l, Closed(of[l], "cancelled"))
    /\ UNCHANGED <<dir, operation>>

\* Cancelled while queued: executeRunInBackground closes the row itself.
LeaveQueue(l) ==
    /\ phase[l] = "queued"
    /\ l \in aborted
    /\ Over(l, Closed(of[l], "cancelled"))
    /\ UNCHANGED <<dir, operation>>

\* A worktree that is not on disk any more is forgotten.  (A launch without a
\* worktree waits in setup for what is under way at its path, and could not stop
\* before; no behaviour of the runs has it wait.)
SetupStops(l) ==
    /\ phase[l] = "setup"
    /\ LET r == of[l] IN Over(l, [ClosedEarly(l) EXCEPT !.path = @ /\ r \in dir])
    /\ UNCHANGED <<dir, operation>>

\* An isolated run without a worktree waits for whatever is done to its path.
StartCreating(l) ==
    /\ phase[l] = "setup"
    /\ of[l] \in Isolated
    /\ ~rows[of[l]].path
    /\ operation[of[l]] = "none"
    /\ operation' = [operation EXCEPT ![of[l]] = "create"]
    /\ Goes(l, "creating")
    /\ UNCHANGED <<rows, dir, pending, outcome>>

\* onCreated: the path is recorded before the slow install.
Created(l) ==
    /\ phase[l] = "creating"
    /\ of[l] \notin dir
    /\ dir' = dir \cup {of[l]}
    /\ rows' = [rows EXCEPT ![of[l]].path = @ \/ rows[of[l]] # NoRow]
    /\ Goes(l, "installing")
    /\ UNCHANGED <<operation, pending, outcome>>

\* git fails, or finds a checkout already there and does not adopt it.
CreationFails(l) ==
    /\ phase[l] = "creating"
    /\ operation' = [operation EXCEPT ![of[l]] = "none"]
    /\ Over(l, ClosedEarly(l))
    /\ UNCHANGED dir

\* prepareWorktree removes the checkout it could not prepare, if it can.
InstallFails(l) ==
    /\ phase[l] = "installing"
    /\ operation' = [operation EXCEPT ![of[l]] = "none"]
    /\ dir' \in {dir, dir \ {of[l]}}
    /\ LET r == of[l] IN Over(l, [ClosedEarly(l) EXCEPT !.path = @ /\ r \in dir'])

Installed(l) ==
    /\ phase[l] = "installing"
    /\ operation' = [operation EXCEPT ![of[l]] = "none"]
    /\ IF l \in aborted
       THEN Over(l, ClosedEarly(l))
       ELSE /\ Goes(l, "executing")
            /\ UNCHANGED <<rows, pending, outcome>>
    /\ UNCHANGED dir

\* The run's snapshot key stays registered as long as a launch executes.
KeyIsTaken(r) == \E k \in Launches : of[k] = r /\ phase[k] \in {"executing", "ending"}

Begin(l) ==
    /\ phase[l] = "setup"
    /\ l \notin aborted
    /\ of[l] \in Isolated => rows[of[l]].path
    /\ ~KeyIsTaken(of[l])
    /\ Goes(l, "executing")
    /\ UNCHANGED <<rows, dir, operation, pending, outcome>>

\* register throws on a taken key, outside every try: `done` rejects, and
\* neither the row nor the activeRuns entry is touched.
BeginThrows(l) ==
    /\ phase[l] = "setup"
    /\ l \notin aborted
    /\ KeyIsTaken(of[l])
    /\ phase' = [phase EXCEPT ![l] = "over"]
    /\ locked' = locked \ {l}
    /\ purging' = purging \ {l}
    /\ rows' = IF l \in purging THEN [rows EXCEPT ![of[l]] = NoRow] ELSE rows
    /\ reporting' = reporting \ {l}
    /\ UNCHANGED <<dir, operation, active, of, aborted, pending, outcome, told, crashes>>

\* A node is done: its row is written.
NodeDone(l) ==
    /\ phase[l] = "executing"
    /\ rows[of[l]] # NoRow
    /\ rows' = [rows EXCEPT ![of[l]].ran = TRUE]
    /\ UNCHANGED <<dir, operation, active, launchVars, locked, purging, ribVars, crashes>>

\* awaitApproval, awaitInteraction: the run pauses.
Ask(l, g) ==
    /\ phase[l] = "executing"
    /\ l \notin aborted
    /\ g \notin pending[l]
    /\ pending' = [pending EXCEPT ![l] = @ \cup {g}]
    /\ rows' = [rows EXCEPT ![of[l]] = IF @ = NoRow THEN @
                                       ELSE [@ EXCEPT !.status = "paused", !.ran = TRUE]]
    /\ told' = Tell(of[l], "paused")
    /\ UNCHANGED <<dir, operation, active, of, phase, aborted, outcome, locked, purging,
                   reporting, crashes>>

\* requestCancel: a cancel node writes the row and aborts its own launch.
CancelNode(l) ==
    /\ phase[l] = "executing"
    /\ of[l] \in CancelNodes
    /\ l \notin aborted
    /\ rows' = [rows EXCEPT ![of[l]] = IF @ = NoRow THEN @ ELSE Closed(of[l], "cancelled")]
    /\ aborted' = aborted \cup {l}
    /\ pending' = [pending EXCEPT ![l] = {}]
    /\ UNCHANGED <<dir, operation, active, of, phase, outcome, locked, purging, ribVars, crashes>>

\* A bug to catch: the status of run_done is not kept for the cleanup.
ExecutionEnds_Unlatched(l, status) ==
    /\ phase[l] = "executing"
    /\ pending[l] = {}
    /\ (status = "cancelled") <=> (l \in aborted)
    /\ Goes(l, "ending")
    /\ UNCHANGED <<rows, dir, operation, pending, outcome>>

\* A bug to catch: the launch is unregistered before its cleanup.
ExecutionEnds_Unregisters(l, status) ==
    /\ phase[l] = "executing"
    /\ pending[l] = {}
    /\ (status = "cancelled") <=> (l \in aborted)
    /\ outcome' = [outcome EXCEPT ![l] = status]
    /\ phase' = [phase EXCEPT ![l] = "ending"]
    /\ active' = [active EXCEPT ![of[l]] = NoLaunch]
    /\ UNCHANGED <<rows, dir, operation, of, aborted, pending, locked, purging, ribVars, crashes>>

\* A bug to catch: the lock goes with run_done, not with the launch.
ExecutionEnds_Unlocks(l, status) ==
    /\ phase[l] = "executing"
    /\ pending[l] = {}
    /\ (status = "cancelled") <=> (l \in aborted)
    /\ outcome' = [outcome EXCEPT ![l] = status]
    /\ phase' = [phase EXCEPT ![l] = "ending"]
    /\ locked' = locked \ {l}
    /\ UNCHANGED <<rows, dir, operation, active, of, aborted, pending, purging, ribVars, crashes>>

\* runWorkflow emits run_done; the event is held back.
ExecutionEnds(l, status) ==
    /\ phase[l] = "executing"
    /\ pending[l] = {}
    /\ (status = "cancelled") <=> (l \in aborted)
    /\ outcome' = [outcome EXCEPT ![l] = status]
    /\ Goes(l, "ending")
    /\ UNCHANGED <<rows, dir, operation, pending>>

\* A success removes the worktree, if it can.
Cleanup(l) ==
    /\ phase[l] = "ending"
    /\ outcome[l] = "succeeded"
    /\ rows[of[l]].path
    /\ dir' = dir \ {of[l]}
    /\ rows' = [rows EXCEPT ![of[l]].path = FALSE]
    /\ UNCHANGED <<operation, active, launchVars, locked, purging, ribVars, crashes>>

RunDone(l) ==
    /\ phase[l] = "ending"
    /\ Over(l, Closed(of[l], outcome[l]))
    /\ UNCHANGED <<dir, operation>>

-----------------------------------------------------------------------------
(* Requests.                                                               *)

\* cancelActiveRun: abort, and reject every pending approval.
CancelActive(l) ==
    /\ aborted' = aborted \cup {l}
    /\ pending' = [pending EXCEPT ![l] = {}]

Cancel(r) ==
    /\ active[r] # NoLaunch
    /\ active[r] \notin aborted
    /\ CancelActive(active[r])
    /\ UNCHANGED <<rows, dir, operation, active, of, phase, outcome, locked, purging, ribVars, crashes>>

\* resolveApprovalCore: the last answer flips the row back to running.
Answer(r, g) ==
    LET l == active[r]
    IN  /\ l # NoLaunch
        /\ g \in pending[l]
        /\ pending' = [pending EXCEPT ![l] = @ \ {g}]
        /\ LET status == IF pending'[l] = {} THEN "running" ELSE rows[r].status
           IN  /\ rows' = [rows EXCEPT ![r].status = status]
               /\ told' = Tell(r, IF status = "paused" THEN "paused" ELSE "running")
        /\ UNCHANGED <<dir, operation, active, of, phase, aborted, outcome, locked, purging,
                       reporting, crashes>>

\* A bug to catch: the row is deleted while the launch winds down.
Purge_AtOnce(r) ==
    /\ rows[r] # NoRow
    /\ rows' = [rows EXCEPT ![r] = NoRow]
    /\ IF active[r] = NoLaunch
       THEN UNCHANGED <<aborted, pending>>
       ELSE CancelActive(active[r])
    /\ UNCHANGED <<dir, operation, active, of, phase, outcome, locked, purging, ribVars, crashes>>

\* purgeAndCascade: the conversation goes at once, the row when the launch
\* the purge cancelled has settled; one that is still registered although its
\* promise was rejected has settled already.
Purge(r) ==
    /\ rows[r] # NoRow
    /\ IF active[r] = NoLaunch
       THEN UNCHANGED <<aborted, pending>>
       ELSE CancelActive(active[r])
    /\ IF active[r] # NoLaunch /\ Live(active[r])
       THEN /\ rows' = [rows EXCEPT ![r].conversation = FALSE]
            /\ purging' = purging \cup {active[r]}
       ELSE /\ rows' = [rows EXCEPT ![r] = NoRow]
            /\ UNCHANGED purging
    /\ UNCHANGED <<dir, operation, active, of, phase, outcome, locked, ribVars, crashes>>

\* A bug to catch: a terminal row is taken for the end of the run.
PruneBegins_ByStatus(r, force) ==
    /\ rows[r].path
    /\ operation[r] = "none"
    /\ ~force => rows[r].status \in Terminal
    /\ operation' = [operation EXCEPT ![r] = IF force THEN "listForced" ELSE "list"]
    /\ UNCHANGED <<rows, dir, active, launchVars, locked, purging, ribVars, crashes>>

\* worktree-prune: the worktree is claimed in the step that finds it unused.
PruneBegins(r, force) ==
    /\ rows[r].path
    /\ operation[r] = "none"
    /\ ~force => rows[r].status \in Terminal /\ active[r] = NoLaunch
    /\ operation' = [operation EXCEPT ![r] = IF force THEN "listForced" ELSE "list"]
    /\ UNCHANGED <<rows, dir, active, launchVars, locked, purging, ribVars, crashes>>

\* The mark is persisted before anything is removed; one that is not new, or
\* was forced, is there for good.
PruneMarks(r) ==
    /\ operation[r] \in {"list", "listForced"}
    /\ operation' = [operation EXCEPT ![r] = IF @ = "list" /\ ~rows[r].pruned
                                             THEN "remove" ELSE "removeForGood"]
    /\ rows' = [rows EXCEPT ![r].pruned = rows[r] # NoRow]
    /\ UNCHANGED <<dir, active, launchVars, locked, purging, ribVars, crashes>>

\* Not a worktree the server may remove.
PruneRefuses(r) ==
    /\ operation[r] \in {"list", "listForced"}
    /\ operation' = [operation EXCEPT ![r] = "none"]
    /\ UNCHANGED <<rows, dir, active, launchVars, locked, purging, ribVars, crashes>>

PruneEnds(r) ==
    /\ operation[r] \in {"remove", "removeForGood"}
    /\ operation' = [operation EXCEPT ![r] = "none"]
    /\ dir' = dir \ {r}
    /\ UNCHANGED <<rows, active, launchVars, locked, purging, ribVars, crashes>>

\* The checkout could not be removed: the mark is taken back, unless it is there
\* for good.
PruneFails(r) ==
    /\ operation[r] \in {"remove", "removeForGood"}
    /\ r \in dir
    /\ operation' = [operation EXCEPT ![r] = "none"]
    /\ rows' = IF operation[r] = "remove" THEN [rows EXCEPT ![r].pruned = FALSE] ELSE rows
    /\ UNCHANGED <<dir, active, launchVars, locked, purging, ribVars, crashes>>

\* A bug to catch: a run that was paused survives the restart.
CrashAndBoot_KeepsPaused ==
    /\ crashes < MaxCrashes
    /\ crashes' = crashes + 1
    /\ \E half \in SUBSET {r \in Runs : operation[r] = "create"} : dir' = dir \cup half
    /\ rows' = [r \in Runs |-> IF rows[r].status = "running"
                               THEN Closed(r, "failed") ELSE rows[r]]
    /\ operation' = [r \in Runs |-> "none"]
    /\ active' = [r \in Runs |-> NoLaunch]
    /\ phase' = [l \in Launches |-> IF Live(l) THEN "over" ELSE phase[l]]
    /\ pending' = [l \in Launches |-> {}]
    /\ locked' = {}
    /\ purging' = {}
    /\ told' = [r \in Runs |-> IF \E l \in reporting : of[l] = r THEN "lost" ELSE told[r]]
    /\ reporting' = {}
    /\ UNCHANGED <<of, aborted, outcome>>

\* The server dies; at boot the store fails the runs nobody executes any more.
CrashAndBoot ==
    /\ crashes < MaxCrashes
    /\ crashes' = crashes + 1
    /\ \E half \in SUBSET {r \in Runs : operation[r] = "create"} : dir' = dir \cup half
    /\ rows' = [r \in Runs |-> IF rows[r].status \in Unsettled
                               THEN Closed(r, "failed") ELSE rows[r]]
    /\ operation' = [r \in Runs |-> "none"]
    /\ active' = [r \in Runs |-> NoLaunch]
    /\ phase' = [l \in Launches |-> IF Live(l) THEN "over" ELSE phase[l]]
    /\ pending' = [l \in Launches |-> {}]
    /\ locked' = {}
    /\ purging' = {}
    /\ told' = [r \in Runs |-> IF \E l \in reporting : of[l] = r THEN "lost" ELSE told[r]]
    /\ reporting' = {}
    /\ UNCHANGED <<of, aborted, outcome>>

-----------------------------------------------------------------------------
Requests ==
    \/ \E l \in Launches, r \in Runs : Start(l, r) \/ \E e \in Entrances : Resume(l, r, e)
    \/ \E r \in Runs : \/ Cancel(r) \/ Purge(r)
                       \/ \E g \in Gates : Answer(r, g)
                       \/ \E force \in Forces : PruneBegins(r, force)

Prepares(l) ==
    \/ GetSlot(l) \/ LeaveQueue(l)
    \/ SetupStops(l) \/ StartCreating(l) \/ Created(l) \/ CreationFails(l)
    \/ InstallFails(l) \/ Installed(l) \/ Begin(l) \/ BeginThrows(l)

Ends(l) == (\E status \in Terminal : ExecutionEnds(l, status)) \/ RunDone(l)

Prunes(r) == PruneMarks(r) \/ PruneRefuses(r) \/ PruneEnds(r) \/ PruneFails(r)

Next ==
    \/ Requests
    \/ \E l \in Launches : \/ Prepares(l) \/ NodeDone(l) \/ CancelNode(l)
                           \/ \E g \in Gates : Ask(l, g)
                           \/ Ends(l) \/ Cleanup(l)
    \/ \E r \in Runs : Prunes(r)
    \/ CrashAndBoot

Spec == Init /\ [][Next]_vars

\* Preparations, nodes in flight and prunes finish.  Nobody has to answer.
FairSpec ==
    /\ Spec
    /\ \A l \in Launches : WF_vars(Prepares(l)) /\ WF_vars(Ends(l))
    /\ \A r \in Runs : WF_vars(Prunes(r))

-----------------------------------------------------------------------------
(* Properties.                                                             *)

\* A launch that is alive is the one its run's requests reach: it can be
\* cancelled, answered and purged (activeRuns.get).
LiveIsRegistered == \A l \in Launches : Live(l) => active[of[l]] = l

\* The row says running or paused exactly while a launch of the run lives, but
\* for the launch a cancel node has ended; and paused exactly while a gate of
\* it waits for an answer, unless it is being cancelled.
RowTellsTheTruth ==
    \A r \in Runs :
        /\ rows[r].status \in Unsettled => LiveOf(r) # {}
        /\ \A l \in LiveOf(r) :
              /\ rows[r].status \in Terminal => l \in aborted /\ rows[r].status = "cancelled"
              /\ l \notin aborted => (rows[r].status = "paused" <=> pending[l] # {})

\* A launch that works in its worktree has one, which nobody is removing.
WorksInItsWorktree ==
    \A l \in Launches :
        phase[l] = "executing" /\ of[l] \in Isolated
            => of[l] \in dir /\ rows[of[l]].path /\ ~rows[of[l]].pruned

\* Two launches that change the project's own checkout never overlap.
OneMutatesInPlace ==
    \A k, l \in Launches :
        /\ k # l /\ Live(k) /\ Live(l)
        /\ TakesLock(of[k]) /\ TakesLock(of[l])
        => Mode[of[k]] = "shared" /\ Mode[of[l]] = "shared"

\* No row is deleted under a launch that lives.
NobodyIsOrphaned == \A l \in Launches : Live(l) => rows[of[l]] # NoRow

\* A launch's terminal event reaches the ribs before the next launch's first
\* event, and the latest event they heard is the state of the run, or it was
\* lost with the server; a run being cancelled may be ahead of it.
LaunchesNeverInterleave ==
    /\ \A k, l \in reporting : of[k] = of[l] => k = l
    /\ \A r \in Runs : rows[r] # NoRow /\ LiveOf(r) \cap aborted = {}
                           => told[r] \in {rows[r].status, "lost"}

\* A step that launches a run, or takes back that it was cancelled.
EarnsItsLaunch(r) ==
    /\ rows[r].status = "cancelled" /\ rows'[r].status \notin {"cancelled", "absent"}
           => \E l \in Launches : phase[l] = "unused" /\ of'[l] = r
    /\ (\E l \in Launches : phase[l] = "unused" /\ of'[l] = r)
           => ~rows[r].pruned /\ rows[r].status \in Resumable \cup {"absent"}

\* A cancelled run stays cancelled until it is resumed or purged, a pruned one
\* is never launched again, and a succeeded one never.
LaunchesAreEarned == [][\A r \in Runs : EarnsItsLaunch(r)]_vars

\* A cancelled launch comes to its end, wherever the cancellation met it.
CancelledEnds == \A l \in Launches : (l \in aborted /\ Live(l)) ~> ~Live(l)
=============================================================================
