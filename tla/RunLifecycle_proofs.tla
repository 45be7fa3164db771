------------------------ MODULE RunLifecycle_proofs ------------------------
(***************************************************************************)
(* RunLifecycle, for any runs, any number of launches and crashes.  What   *)
(* the lock guards, and what becomes of a cancelled launch, is proved for  *)
(* every entrance; that a run has one launch at a time, and what follows   *)
(* from it, for servers whose resumes all come over HTTP (a cancel node    *)
(* and a resume through a tool break it).                                  *)
(***************************************************************************)
EXTENDS RunLifecycle, TLAPS

-----------------------------------------------------------------------------
(* The invariant, for every entrance.                                      *)

\* A number that is not used names no run; a launch that ends knows its outcome.
LaunchInv ==
    \A l \in Launches :
        /\ phase[l] = "unused" => of[l] = NoLaunch
        /\ phase[l] # "unused" => of[l] \in Runs
        /\ phase[l] = "ending" => outcome[l] \in Terminal

\* Who needs the lock has it, as long as it lives, and an exclusive holder is alone.
LockInv ==
    /\ \A l \in Launches : Live(l) /\ TakesLock(of[l]) => l \in locked
    /\ \A l \in locked : Live(l)
    /\ \A k, l \in locked : k # l => Mode[of[k]] = "shared" /\ Mode[of[l]] = "shared"

BasicInv == TypeOK /\ LaunchInv /\ LockInv

(* Steps that share a frame.                                               *)

Operations == [Runs -> {"none", "create", "list", "listForced", "remove", "removeForGood"}]

LEMMA StatusRow ==
    ASSUME NEW row \in Row, NEW s \in Terminal \cup Unsettled \cup {"absent"}
    PROVE  [row EXCEPT !.status = s] \in Row
BY DEF Row

LEMMA ConversationRow ==
    ASSUME NEW row \in Row, NEW b \in BOOLEAN
    PROVE  /\ [row EXCEPT !.conversation = b] \in Row
           /\ [row EXCEPT !.conversation = b].status = row.status
BY DEF Row

LEMMA PathRow ==
    ASSUME NEW row \in Row, NEW b \in BOOLEAN
    PROVE  [row EXCEPT !.path = b] \in Row /\ [row EXCEPT !.path = b].status = row.status
BY DEF Row

LEMMA PrunedRow ==
    ASSUME NEW row \in Row, NEW b \in BOOLEAN
    PROVE  [row EXCEPT !.pruned = b] \in Row /\ [row EXCEPT !.pruned = b].status = row.status
BY DEF Row

LEMMA RanRow ==
    ASSUME NEW row \in Row, NEW b \in BOOLEAN
    PROVE  [row EXCEPT !.ran = b] \in Row /\ [row EXCEPT !.ran = b].status = row.status
BY DEF Row

LEMMA PausedRow ==
    ASSUME NEW row \in Row
    PROVE  [row EXCEPT !.status = "paused", !.ran = TRUE] \in Row
BY DEF Row, Unsettled

LEMMA NoRowRow == NoRow \in Row /\ NoRow.status = "absent"
BY DEF NoRow, Row

LEMMA ClosedRow ==
    ASSUME rows \in [Runs -> Row], NEW r \in Runs, NEW s \in Terminal
    PROVE  Closed(r, s) \in Row /\ Closed(r, s).status = s
BY DEF Closed, Row

\* Nothing happens to a launch.
LEMMA QuietBasic ==
    ASSUME BasicInv, rows' \in [Runs -> Row], dir' \in SUBSET Runs, operation' \in Operations,
           UNCHANGED <<active, launchVars, locked, purging, ribVars, crashes>>
    PROVE  BasicInv'
BY DEF BasicInv, TypeOK, LaunchInv, LockInv, Live, Operations, launchVars, ribVars

\* A launch goes on.
LEMMA GoesBasic ==
    ASSUME BasicInv, NEW l \in Launches, Live(l),
           NEW ph \in Phases \ {"unused", "over"}, Goes(l, ph),
           ph = "ending" => outcome'[l] \in Terminal,
           outcome' \in [Launches -> Terminal \cup {"none"}],
           \A k \in Launches \ {l} : outcome'[k] = outcome[k],
           rows' \in [Runs -> Row], dir' \in SUBSET Runs, operation' \in Operations,
           pending' = pending
    PROVE  BasicInv'
<1>1. TypeOK'
  BY DEF BasicInv, TypeOK, Goes, Operations, ribVars
<1>2. LaunchInv' /\ LockInv'
  BY DEF BasicInv, TypeOK, LaunchInv, LockInv, Live, Goes, Phases
<1> QED BY <1>1, <1>2 DEF BasicInv

\* A launch is over.
LEMMA OverBasic ==
    ASSUME BasicInv, NEW l \in Launches, Live(l),
           NEW closed \in Row, closed.status \in Terminal, Over(l, closed),
           dir' \in SUBSET Runs, operation' \in Operations
    PROVE  BasicInv'
<1>1. TypeOK'
  BY DEF BasicInv, TypeOK, LaunchInv, Live, Over, Tell, Row, NoRow, Unsettled, Terminal,
         Phases, Operations
<1>2. LaunchInv' /\ LockInv'
  BY DEF BasicInv, TypeOK, LaunchInv, LockInv, Live, Over, Phases
<1> QED BY <1>1, <1>2 DEF BasicInv

\* A launch begins.
LEMMA LaunchBasic ==
    ASSUME BasicInv, NEW l \in Launches, NEW r \in Runs, Launch(l, r), rows' \in [Runs -> Row]
    PROVE  BasicInv'
<1>1. TypeOK'
  BY DEF BasicInv, TypeOK, Launch, Unsettled, Terminal, Phases
<1>2. LaunchInv' /\ LockInv'
  BY DEF BasicInv, TypeOK, LaunchInv, LockInv, Launch, LockIsFree, TakesLock, Live
<1> QED BY <1>1, <1>2 DEF BasicInv

\* Only what waits for answers, who is cancelled and what ribs hear changes.
LEMMA AnswersBasic ==
    ASSUME BasicInv, rows' \in [Runs -> Row], pending' \in [Launches -> SUBSET Gates],
           aborted' \in SUBSET Launches, purging' \in SUBSET Launches,
           told' \in [Runs -> Terminal \cup Unsettled \cup {"nothing", "lost"}],
           UNCHANGED <<dir, operation, active, of, phase, outcome, locked, reporting, crashes>>
    PROVE  BasicInv'
BY DEF BasicInv, TypeOK, LaunchInv, LockInv, Live

LEMMA CrashBasic ==
    ASSUME BasicInv, CrashAndBoot
    PROVE  BasicInv'
<1>1. /\ crashes' \in 0 .. MaxCrashes
      /\ dir' \in SUBSET Runs
  BY RunsAssumption DEF BasicInv, TypeOK, CrashAndBoot
<1>2. rows' \in [Runs -> Row]
  <2>1. \A r \in Runs : Closed(r, "failed") \in Row
    BY ClosedRow DEF BasicInv, TypeOK, Terminal
  <2> QED BY <2>1 DEF BasicInv, TypeOK, CrashAndBoot
<1>3. /\ operation' \in Operations /\ active' \in [Runs -> Launches \cup {NoLaunch}]
      /\ phase' \in [Launches -> Phases] /\ pending' \in [Launches -> SUBSET Gates]
      /\ told' \in [Runs -> Terminal \cup Unsettled \cup {"nothing", "lost"}]
  BY DEF BasicInv, TypeOK, CrashAndBoot, Operations, Phases
<1>4. TypeOK'
  BY <1>1, <1>2, <1>3 DEF BasicInv, TypeOK, CrashAndBoot, Operations
<1>5. LaunchInv' /\ LockInv'
  BY DEF BasicInv, TypeOK, LaunchInv, LockInv, Live, CrashAndBoot, Phases
<1> QED BY <1>4, <1>5 DEF BasicInv

-----------------------------------------------------------------------------
(* Every step.                                                             *)

LEMMA InitBasic == Init => BasicInv
BY RunsAssumption
   DEF Init, BasicInv, TypeOK, LaunchInv, LockInv, Live, NoRow, Row, Terminal, Unsettled, Phases

\* A row that is there keeps being one, and a launch that ends closes it.
LEMMA EarlyRow ==
    ASSUME BasicInv, NEW l \in Launches, Live(l)
    PROVE  /\ of[l] \in Runs
           /\ ClosedEarly(l) \in Row /\ ClosedEarly(l).status \in Terminal
           /\ \A p \in BOOLEAN : /\ [ClosedEarly(l) EXCEPT !.path = p] \in Row
                                 /\ [ClosedEarly(l) EXCEPT !.path = p].status \in Terminal
           /\ ClosedEarly(l).path \in BOOLEAN
<1>1. of[l] \in Runs
  BY DEF BasicInv, LaunchInv, Live
<1>2. \A s \in Terminal : /\ Closed(of[l], s) \in Row /\ Closed(of[l], s).status = s
  BY <1>1, ClosedRow DEF BasicInv, TypeOK
<1>3. ClosedEarly(l) \in Row /\ ClosedEarly(l).status \in Terminal
  BY <1>2 DEF ClosedEarly, Terminal
<1> QED BY <1>1, <1>3, PathRow DEF Row

LEMMA RequestsBasic ==
    ASSUME BasicInv, Requests
    PROVE  BasicInv'
<1>1. ASSUME NEW l \in Launches, NEW r \in Runs, Start(l, r)
      PROVE  BasicInv'
  <2>1. [NoRow EXCEPT !.status = "running", !.conversation = TRUE] \in Row
    BY DEF NoRow, Row, Unsettled
  <2>2. rows' \in [Runs -> Row]
    BY <1>1, <2>1 DEF Start, BasicInv, TypeOK
  <2> QED BY <1>1, <2>2, LaunchBasic DEF Start
<1>2. ASSUME NEW l \in Launches, NEW r \in Runs, NEW e \in Entrances, Resume(l, r, e)
      PROVE  BasicInv'
  <2>1. [rows[r] EXCEPT !.status = "running"] \in Row
    BY StatusRow DEF BasicInv, TypeOK, Unsettled
  <2>2. rows' \in [Runs -> Row]
    BY <1>2, <2>1 DEF Resume, BasicInv, TypeOK
  <2> QED BY <1>2, <2>2, LaunchBasic DEF Resume
<1>3. ASSUME NEW r \in Runs, Cancel(r)
      PROVE  BasicInv'
  <2>1. active[r] \in Launches
    BY <1>3 DEF Cancel, BasicInv, TypeOK
  <2> QED BY <1>3, <2>1, AnswersBasic DEF Cancel, CancelActive, BasicInv, TypeOK, ribVars
<1>4. ASSUME NEW r \in Runs, Purge(r)
      PROVE  BasicInv'
  <2>1. NoRow \in Row /\ [rows[r] EXCEPT !.conversation = FALSE] \in Row
    BY NoRowRow, ConversationRow DEF BasicInv, TypeOK
  <2>2. rows' \in [Runs -> Row]
    BY <1>4, <2>1 DEF Purge, BasicInv, TypeOK
  <2>3. /\ aborted' \in SUBSET Launches /\ purging' \in SUBSET Launches
        /\ pending' \in [Launches -> SUBSET Gates]
    BY <1>4 DEF Purge, CancelActive, BasicInv, TypeOK
  <2> QED BY <1>4, <2>2, <2>3, AnswersBasic DEF Purge, BasicInv, TypeOK, ribVars
<1>5. ASSUME NEW r \in Runs, NEW g \in Gates, Answer(r, g)
      PROVE  BasicInv'
  <2>1. \A s \in Terminal \cup Unsettled \cup {"absent"} :
            [rows[r] EXCEPT !.status = s] \in Row
    BY StatusRow DEF BasicInv, TypeOK
  <2>2. rows[r].status \in Terminal \cup Unsettled \cup {"absent"}
    BY DEF BasicInv, TypeOK, Row
  <2>3. rows' \in [Runs -> Row]
    BY <1>5, <2>1, <2>2 DEF Answer, BasicInv, TypeOK, Unsettled
  <2>4. /\ told' \in [Runs -> Terminal \cup Unsettled \cup {"nothing", "lost"}]
        /\ pending' \in [Launches -> SUBSET Gates]
    BY <1>5 DEF Answer, Tell, BasicInv, TypeOK, Unsettled
  <2> QED BY <1>5, <2>3, <2>4, AnswersBasic DEF Answer, BasicInv, TypeOK
<1>6. ASSUME NEW r \in Runs, NEW force \in Forces, PruneBegins(r, force)
      PROVE  BasicInv'
  BY <1>6, QuietBasic DEF PruneBegins, BasicInv, TypeOK, Operations
<1> QED BY <1>1, <1>2, <1>3, <1>4, <1>5, <1>6 DEF Requests

LEMMA PreparesBasic ==
    ASSUME BasicInv, NEW l \in Launches, Prepares(l)
    PROVE  BasicInv'
<1>1. Live(l) /\ of[l] \in Runs
  BY DEF Prepares, GetSlot, LeaveQueue, SetupStops, StartCreating, Created, CreationFails,
         InstallFails, Installed, Begin, BeginThrows, Live, BasicInv, LaunchInv
<1>2. CASE GetSlot(l)
  BY <1>1, <1>2, GoesBasic DEF GetSlot, BasicInv, TypeOK, Phases, Operations
<1>3. CASE LeaveQueue(l)
  <2>1. Closed(of[l], "cancelled") \in Row /\ Closed(of[l], "cancelled").status \in Terminal
    BY <1>1, ClosedRow DEF BasicInv, TypeOK, Terminal
  <2> QED BY <1>1, <1>3, <2>1, OverBasic DEF LeaveQueue, BasicInv, TypeOK, Operations
<1>4. CASE SetupStops(l)
  BY <1>1, <1>4, EarlyRow, OverBasic DEF SetupStops, BasicInv, TypeOK, Operations
<1>5. CASE StartCreating(l)
  <2>1. operation' \in Operations
    BY <1>5 DEF StartCreating, BasicInv, TypeOK, Operations
  <2> QED BY <1>1, <1>5, <2>1, GoesBasic DEF StartCreating, BasicInv, TypeOK, Phases
<1>6. CASE Created(l)
  <2>1. \A p \in BOOLEAN : [rows[of[l]] EXCEPT !.path = p] \in Row
    BY <1>1, PathRow DEF BasicInv, TypeOK
  <2>2. rows[of[l]].path \in BOOLEAN
    BY <1>1 DEF BasicInv, TypeOK, Row
  <2>3. rows' \in [Runs -> Row] /\ dir' \in SUBSET Runs
    BY <1>1, <1>6, <2>1, <2>2 DEF Created, BasicInv, TypeOK
  <2> QED BY <1>1, <1>6, <2>3, GoesBasic DEF Created, BasicInv, TypeOK, Phases, Operations
<1>7. CASE CreationFails(l)
  <2>1. operation' \in Operations
    BY <1>7 DEF CreationFails, BasicInv, TypeOK, Operations
  <2> QED BY <1>1, <1>7, <2>1, EarlyRow, OverBasic DEF CreationFails, BasicInv, TypeOK
<1>8. CASE InstallFails(l)
  <2>1. operation' \in Operations /\ dir' \in SUBSET Runs
    BY <1>8 DEF InstallFails, BasicInv, TypeOK, Operations
  <2> QED BY <1>1, <1>8, <2>1, EarlyRow, OverBasic DEF InstallFails
<1>9. CASE Installed(l)
  <2>1. operation' \in Operations /\ dir' \in SUBSET Runs
    BY <1>9 DEF Installed, BasicInv, TypeOK, Operations
  <2>2. CASE l \in aborted
    BY <1>1, <1>9, <2>1, <2>2, EarlyRow, OverBasic DEF Installed
  <2>3. CASE l \notin aborted
    BY <1>1, <1>9, <2>1, <2>3, GoesBasic DEF Installed, BasicInv, TypeOK, Phases
  <2> QED BY <2>2, <2>3
<1>10. CASE Begin(l)
  BY <1>1, <1>10, GoesBasic DEF Begin, BasicInv, TypeOK, Phases, Operations
<1>11. CASE BeginThrows(l)
  <2>1. TypeOK'
    BY <1>1, <1>11, NoRowRow DEF BeginThrows, BasicInv, TypeOK, Phases
  <2>2. LaunchInv' /\ LockInv'
    BY <1>1, <1>11 DEF BeginThrows, BasicInv, TypeOK, LaunchInv, LockInv, Live
  <2> QED BY <2>1, <2>2 DEF BasicInv
<1> QED BY <1>2, <1>3, <1>4, <1>5, <1>6, <1>7, <1>8, <1>9, <1>10, <1>11 DEF Prepares

LEMMA WorksBasic ==
    ASSUME BasicInv, NEW l \in Launches,
           \/ NodeDone(l) \/ CancelNode(l) \/ Cleanup(l) \/ Ends(l)
           \/ \E g \in Gates : Ask(l, g)
    PROVE  BasicInv'
<1>1. Live(l) /\ of[l] \in Runs
  BY DEF NodeDone, CancelNode, Cleanup, Ends, ExecutionEnds, RunDone, Ask, Live,
         BasicInv, LaunchInv
<1>2. CASE NodeDone(l)
  <2>1. [rows[of[l]] EXCEPT !.ran = TRUE] \in Row
    BY <1>1, RanRow DEF BasicInv, TypeOK
  <2>2. rows' \in [Runs -> Row]
    BY <1>2, <2>1 DEF NodeDone, BasicInv, TypeOK
  <2> QED BY <1>2, <2>2, QuietBasic DEF NodeDone, BasicInv, TypeOK, Operations
<1>3. CASE CancelNode(l)
  <2>1. Closed(of[l], "cancelled") \in Row
    BY <1>1, ClosedRow DEF BasicInv, TypeOK, Terminal
  <2>2. rows' \in [Runs -> Row]
    BY <1>3, <2>1 DEF CancelNode, BasicInv, TypeOK
  <2> QED BY <1>3, <2>2, AnswersBasic DEF CancelNode, BasicInv, TypeOK, ribVars
<1>4. CASE Cleanup(l)
  <2>1. [rows[of[l]] EXCEPT !.path = FALSE] \in Row
    BY <1>1, PathRow DEF BasicInv, TypeOK
  <2>2. rows' \in [Runs -> Row] /\ dir' \in SUBSET Runs
    BY <1>4, <2>1 DEF Cleanup, BasicInv, TypeOK
  <2> QED BY <1>4, <2>2, QuietBasic DEF Cleanup, BasicInv, TypeOK, Operations
<1>5. ASSUME NEW status \in Terminal, ExecutionEnds(l, status)
      PROVE  BasicInv'
  <2>1. /\ outcome' \in [Launches -> Terminal \cup {"none"}] /\ outcome'[l] \in Terminal
        /\ \A k \in Launches \ {l} : outcome'[k] = outcome[k]
    BY <1>5 DEF ExecutionEnds, BasicInv, TypeOK
  <2> QED BY <1>1, <1>5, <2>1, GoesBasic DEF ExecutionEnds, BasicInv, TypeOK, Phases, Operations
<1>6. CASE RunDone(l)
  <2>1. outcome[l] \in Terminal
    BY <1>6 DEF RunDone, BasicInv, LaunchInv
  <2>2. Closed(of[l], outcome[l]) \in Row /\ Closed(of[l], outcome[l]).status \in Terminal
    BY <1>1, <2>1, ClosedRow DEF BasicInv, TypeOK
  <2> QED BY <1>1, <1>6, <2>2, OverBasic DEF RunDone, BasicInv, TypeOK, Operations
<1>7. ASSUME NEW g \in Gates, Ask(l, g)
      PROVE  BasicInv'
  <2>1. rows[of[l]] \in Row
    BY <1>1 DEF BasicInv, TypeOK
  <2>2. [rows[of[l]] EXCEPT !.status = "paused", !.ran = TRUE] \in Row
    BY <2>1, PausedRow
  <2>3. rows' \in [Runs -> Row]
    BY <1>7, <2>2 DEF Ask, BasicInv, TypeOK
  <2>4. /\ told' \in [Runs -> Terminal \cup Unsettled \cup {"nothing", "lost"}]
        /\ pending' \in [Launches -> SUBSET Gates]
    BY <1>7 DEF Ask, Tell, BasicInv, TypeOK, Unsettled
  <2> QED BY <1>7, <2>3, <2>4, AnswersBasic DEF Ask, BasicInv, TypeOK
<1> QED BY <1>2, <1>3, <1>4, <1>5, <1>6, <1>7 DEF Ends

LEMMA PrunesBasic ==
    ASSUME BasicInv, NEW r \in Runs, Prunes(r)
    PROVE  BasicInv'
<1>1. \A b \in BOOLEAN : [rows[r] EXCEPT !.pruned = b] \in Row
  BY PrunedRow DEF BasicInv, TypeOK
<1>2. rows' \in [Runs -> Row]
  BY <1>1 DEF Prunes, PruneMarks, PruneRefuses, PruneEnds, PruneFails, BasicInv, TypeOK
<1>3. dir' \in SUBSET Runs /\ operation' \in Operations
  BY DEF Prunes, PruneMarks, PruneRefuses, PruneEnds, PruneFails, BasicInv, TypeOK, Operations
<1> QED BY <1>2, <1>3, QuietBasic DEF Prunes, PruneMarks, PruneRefuses, PruneEnds, PruneFails

LEMMA StepBasic == BasicInv /\ [Next]_vars => BasicInv'
<1> SUFFICES ASSUME BasicInv, [Next]_vars
             PROVE  BasicInv'
  OBVIOUS
<1>1. CASE UNCHANGED vars
  BY <1>1 DEF vars, launchVars, ribVars, BasicInv, TypeOK, LaunchInv, LockInv, Live
<1>2. CASE Next
  BY <1>2, RequestsBasic, PreparesBasic, WorksBasic, PrunesBasic, CrashBasic DEF Next
<1> QED BY <1>1, <1>2

LEMMA AlwaysBasic == Spec => []BasicInv
<1>1. Init => BasicInv
  BY InitBasic
<1>2. BasicInv /\ [Next]_vars => BasicInv'
  BY StepBasic
<1> QED BY <1>1, <1>2, PTL DEF Spec

\* The rows, the worktrees, the launches and what the ribs were told have their types.
THEOREM LifecycleTypeCorrect == Spec => []TypeOK
<1>1. BasicInv => TypeOK
  BY DEF BasicInv
<1> QED BY <1>1, AlwaysBasic, PTL

\* The mutation lock of a project does its work, whichever way the runs are
\* started, resumed, cancelled and purged, and wherever the server dies.
THEOREM MutationLock == Spec => []OneMutatesInPlace
<1>1. BasicInv => OneMutatesInPlace
  BY DEF BasicInv, LockInv, OneMutatesInPlace
<1> QED BY <1>1, AlwaysBasic, PTL

-----------------------------------------------------------------------------
(* A cancelled launch, whichever way the runs are resumed.                 *)

\* A cancelled launch waits for nobody's answer, and knows what to report.
NobodyIsAwaited ==
    \A l \in aborted : /\ pending[l] = {}
                       /\ phase[l] = "ending" => outcome[l] \in Terminal

\* Where a launch may go that was cancelled in a phase: it starts no nodes.
AfterCancel ==
    [queued |-> {"over"}, setup |-> {"creating", "over"}, creating |-> {"installing", "over"},
     installing |-> {"over"}, executing |-> {"ending", "over"}, ending |-> {"over"}]

WindsDown(l) ==
    l \in aborted /\ Live(l) =>
        /\ l \in aborted' /\ of'[l] = of[l]
        /\ phase'[l] \in AfterCancel[phase[l]] \cup {phase[l]}
        /\ phase[l] = "executing" /\ phase'[l] = "ending" => outcome'[l] = "cancelled"

CancelledGoForward == [][\A l \in Launches : WindsDown(l)]_vars

\* Launch k moves on, and is not cancelled or moves as cancelled launches do.
LEMMA OneMoves ==
    ASSUME BasicInv, aborted \subseteq aborted', NEW k \in Launches, WindsDown(k),
           \A l \in Launches \ {k} : phase'[l] = phase[l] /\ of'[l] = of[l]
    PROVE  \A l \in Launches : WindsDown(l)
BY DEF WindsDown

LEMMA NoneMoves ==
    ASSUME aborted \subseteq aborted', UNCHANGED <<phase, of>>
    PROVE  \A l \in Launches : WindsDown(l)
BY DEF WindsDown

LEMMA RequestsWindDown ==
    ASSUME BasicInv, NobodyIsAwaited, Requests
    PROVE  (\A l \in Launches : pending'[l] # {} => l \notin aborted')
           /\ \A l \in Launches : WindsDown(l)
<1>1. ASSUME NEW k \in Launches, NEW r \in Runs, Launch(k, r)
      PROVE  /\ \A l \in Launches : pending'[l] # {} => l \notin aborted'
             /\ \A l \in Launches : WindsDown(l)
  <2>1. /\ UNCHANGED <<aborted, pending>> /\ ~Live(k)
        /\ \A l \in Launches \ {k} : phase'[l] = phase[l] /\ of'[l] = of[l]
    BY <1>1 DEF Launch, Live, BasicInv, TypeOK
  <2>2. WindsDown(k)
    BY <2>1 DEF WindsDown
  <2> QED BY <2>1, <2>2, OneMoves DEF NobodyIsAwaited
<1>2. ASSUME NEW r \in Runs, Cancel(r) \/ Purge(r) \/ \E g \in Gates : Answer(r, g)
      PROVE  /\ \A l \in Launches : pending'[l] # {} => l \notin aborted'
             /\ \A l \in Launches : WindsDown(l)
  <2>1. aborted \subseteq aborted' /\ UNCHANGED <<phase, of>>
    BY <1>2 DEF Cancel, Purge, Answer, CancelActive
  <2>2. \A l \in Launches : pending'[l] # {} => l \notin aborted'
    BY <1>2 DEF Cancel, Purge, Answer, CancelActive, NobodyIsAwaited, BasicInv, TypeOK
  <2> QED BY <2>1, <2>2, NoneMoves
<1>3. ASSUME NEW r \in Runs, NEW force \in Forces, PruneBegins(r, force)
      PROVE  /\ \A l \in Launches : pending'[l] # {} => l \notin aborted'
             /\ \A l \in Launches : WindsDown(l)
  BY <1>3, NoneMoves DEF PruneBegins, launchVars, NobodyIsAwaited
<1> QED BY <1>1, <1>2, <1>3 DEF Requests, Start, Resume

LEMMA OwnStepsWindDown ==
    ASSUME BasicInv, NobodyIsAwaited, NEW k \in Launches, Prepares(k) \/ Ends(k)
    PROVE  UNCHANGED <<aborted, pending>> /\ \A l \in Launches : WindsDown(l)
<1>1. /\ UNCHANGED <<aborted, of>>
      /\ \A l \in Launches \ {k} : phase'[l] = phase[l]
  BY DEF Prepares, Ends, GetSlot, LeaveQueue, SetupStops, StartCreating, Created,
         CreationFails, InstallFails, Installed, Begin, BeginThrows, ExecutionEnds, RunDone,
         Goes, Over, BasicInv, TypeOK
<1>2. pending' = pending
  BY DEF Prepares, Ends, GetSlot, LeaveQueue, SetupStops, StartCreating, Created,
         CreationFails, InstallFails, Installed, Begin, BeginThrows, ExecutionEnds, RunDone, Over
<1>3. WindsDown(k)
  <2>1. CASE Prepares(k)
    BY <1>1, <2>1 DEF WindsDown, AfterCancel, Prepares, GetSlot, LeaveQueue, SetupStops,
       StartCreating, Created, CreationFails, InstallFails, Installed, Begin, BeginThrows,
       Goes, Over, BasicInv, TypeOK
  <2>2. CASE Ends(k)
    BY <1>1, <2>2 DEF WindsDown, AfterCancel, Ends, ExecutionEnds, RunDone, Goes, Over,
       BasicInv, TypeOK
  <2> QED BY <2>1, <2>2
<1> QED BY <1>1, <1>2, <1>3, OneMoves

LEMMA StepWindsDown ==
    BasicInv /\ NobodyIsAwaited /\ [Next]_vars
        => NobodyIsAwaited' /\ [\A l \in Launches : WindsDown(l)]_vars
<1> SUFFICES ASSUME BasicInv, NobodyIsAwaited, [Next]_vars
             PROVE  /\ \A l \in Launches : pending'[l] # {} => l \notin aborted'
                    /\ [\A l \in Launches : WindsDown(l)]_vars
  BY StepBasic DEF NobodyIsAwaited, BasicInv, TypeOK, LaunchInv
<1>1. CASE UNCHANGED vars
  BY <1>1 DEF vars, launchVars, NobodyIsAwaited
<1>2. CASE Requests
  BY <1>2, RequestsWindDown
<1>3. ASSUME NEW k \in Launches, Prepares(k) \/ Ends(k)
      PROVE  /\ \A l \in Launches : pending'[l] # {} => l \notin aborted'
             /\ \A l \in Launches : WindsDown(l)
  BY <1>3, OwnStepsWindDown DEF NobodyIsAwaited
<1>4. ASSUME NEW k \in Launches,
             NodeDone(k) \/ CancelNode(k) \/ Cleanup(k) \/ \E g \in Gates : Ask(k, g)
      PROVE  /\ \A l \in Launches : pending'[l] # {} => l \notin aborted'
             /\ \A l \in Launches : WindsDown(l)
  <2>1. aborted \subseteq aborted' /\ UNCHANGED <<phase, of>>
    BY <1>4 DEF NodeDone, CancelNode, Cleanup, Ask, launchVars
  <2>2. \A l \in Launches : pending'[l] # {} => l \notin aborted'
    BY <1>4 DEF NodeDone, CancelNode, Cleanup, Ask, launchVars, NobodyIsAwaited, BasicInv, TypeOK
  <2> QED BY <2>1, <2>2, NoneMoves
<1>5. ASSUME NEW r \in Runs, Prunes(r)
      PROVE  /\ \A l \in Launches : pending'[l] # {} => l \notin aborted'
             /\ \A l \in Launches : WindsDown(l)
  <2>1. UNCHANGED launchVars
    BY <1>5 DEF Prunes, PruneMarks, PruneRefuses, PruneEnds, PruneFails
  <2> QED BY <2>1, NoneMoves DEF launchVars, NobodyIsAwaited
<1>6. CASE CrashAndBoot
  <2>1. \A l \in Launches : pending'[l] = {} /\ (Live(l) => phase'[l] = "over")
    BY <1>6 DEF CrashAndBoot
  <2>2. UNCHANGED <<aborted, of>>
    BY <1>6 DEF CrashAndBoot
  <2>3. \A l \in Launches : Live(l) => "over" \in AfterCancel[phase[l]]
    BY DEF Live, AfterCancel, Phases, BasicInv, TypeOK
  <2> QED BY <2>1, <2>2, <2>3 DEF WindsDown
<1> QED BY <1>1, <1>2, <1>3, <1>4, <1>5, <1>6 DEF Next

\* A cancellation is never taken back, whichever request arrives and wherever the
\* server dies: the launch waits for no answer, begins no nodes, goes through at most
\* two more phases, and if it was executing, what it reports is that it was cancelled.
THEOREM CancellationsStick == Spec => []NobodyIsAwaited /\ CancelledGoForward
<1>1. Init => BasicInv /\ NobodyIsAwaited
  BY InitBasic DEF Init, NobodyIsAwaited
<1>2. (BasicInv /\ NobodyIsAwaited) /\ [Next]_vars => (BasicInv /\ NobodyIsAwaited)'
  BY StepBasic, StepWindsDown
<1>3. (BasicInv /\ NobodyIsAwaited) /\ [Next]_vars => [\A l \in Launches : WindsDown(l)]_vars
  BY StepWindsDown
<1> QED BY <1>1, <1>2, <1>3, PTL DEF Spec, CancelledGoForward

-----------------------------------------------------------------------------
(* The invariant when every resume comes over HTTP: a launch that lives is *)
(* the one activeRuns names, the one a rib's listener waits for, and it    *)
(* has a row; what the row says and what was told of it follow from what   *)
(* the launch is at.                                                       *)

RegInv ==
    /\ \A l \in Launches : Live(l) => active[of[l]] = l
    /\ \A r \in Runs : active[r] # NoLaunch => Live(active[r]) /\ of[active[r]] = r
    /\ \A l \in Launches : l \in reporting <=> Live(l)

\* Gates wait only in a launch that executes and is not cancelled.
PendInv ==
    \A l \in Launches : phase[l] # "executing" \/ l \in aborted => pending[l] = {}

IdleRow(r) ==
    /\ rows[r].status \notin Unsettled
    /\ rows[r] # NoRow => told[r] \in {rows[r].status, "lost"}

\* A cancel node wrote the end of the run before its launch reports it.
BusyRow(r, l) ==
    /\ rows[r] # NoRow
    /\ rows[r].status \in Terminal =>
          /\ rows[r].status = "cancelled" /\ l \in aborted
          /\ phase[l] = "ending" => outcome[l] = "cancelled"
    /\ l \notin aborted =>
          /\ rows[r].status = "paused" <=> pending[l] # {}
          /\ told[r] \in {rows[r].status, "lost"}

RunInv(r) ==
    /\ rows[r].status = "absent" <=> rows[r] = NoRow
    /\ rows[r] # NoRow => \E k \in Launches : of[k] = r
    /\ active[r] = NoLaunch => IdleRow(r)
    /\ active[r] # NoLaunch => BusyRow(r, active[r])

HttpInv == RegInv /\ PendInv /\ \A r \in Runs : RunInv(r)

RowKept(r) ==
    /\ rows'[r].status = rows[r].status
    /\ rows'[r] = NoRow <=> rows[r] = NoRow

(* Steps that share a frame.                                               *)

LEMMA QuietHttp ==
    ASSUME BasicInv, HttpInv, \A r \in Runs : RowKept(r),
           UNCHANGED <<active, launchVars, ribVars>>
    PROVE  HttpInv'
<1>1. RegInv' /\ PendInv'
  BY DEF HttpInv, RegInv, PendInv, Live, launchVars, ribVars
<1>2. ASSUME NEW r \in Runs PROVE RunInv(r)'
  BY DEF HttpInv, RunInv, IdleRow, BusyRow, RowKept, launchVars, ribVars
<1> QED BY <1>1, <1>2 DEF HttpInv

LEMMA GoesHttp ==
    ASSUME BasicInv, HttpInv, NEW l \in Launches, Live(l),
           NEW ph \in Phases \ {"unused", "over"}, Goes(l, ph),
           \A r \in Runs : RowKept(r), pending' = pending,
           phase[l] = "executing" => pending[l] = {},
           ph = "ending" /\ rows[of[l]].status = "cancelled" => outcome'[l] = "cancelled",
           \A k \in Launches \ {l} : outcome'[k] = outcome[k]
    PROVE  HttpInv'
<1>1. phase \in [Launches -> Phases] /\ active \in [Runs -> Launches \cup {NoLaunch}]
  BY DEF BasicInv, TypeOK
<1>2. \A k \in Launches : Live(k)' <=> Live(k)
  BY <1>1 DEF Goes, Live
<1>3. RegInv'
  BY <1>1, <1>2 DEF HttpInv, RegInv, Goes, ribVars
<1>4. PendInv'
  BY <1>1 DEF HttpInv, PendInv, Goes
<1>5. ASSUME NEW r \in Runs PROVE RunInv(r)'
  <2>1. RunInv(r) /\ RowKept(r)
    BY DEF HttpInv
  <2>2. active'[r] = active[r] /\ of' = of /\ aborted' = aborted /\ told' = told
    BY DEF Goes, ribVars
  <2>3. CASE active[r] = NoLaunch
    BY <2>1, <2>2, <2>3 DEF RunInv, RowKept, IdleRow
  <2>4. CASE active[r] # NoLaunch
    <3>1. active[r] \in Launches /\ of[active[r]] = r
      BY <1>1, <2>4 DEF HttpInv, RegInv
    <3>2. phase'[active[r]] = "ending" /\ rows[r].status = "cancelled"
              => outcome'[active[r]] = "cancelled"
      BY <1>1, <2>1, <2>4, <3>1 DEF Goes, RunInv, BusyRow, Terminal
    <3>3. BusyRow(r, active[r])'
      BY <2>1, <2>2, <2>4, <3>2 DEF RunInv, RowKept, BusyRow
    <3> QED BY <2>1, <2>2, <2>4, <3>3 DEF RunInv, RowKept
  <2> QED BY <2>3, <2>4
<1> QED BY <1>3, <1>4, <1>5 DEF HttpInv

LEMMA OverHttp ==
    ASSUME BasicInv, HttpInv, NEW l \in Launches, Live(l), phase[l] # "executing",
           NEW closed \in Row, closed.status \in Terminal, Over(l, closed)
    PROVE  HttpInv'
<1>1. /\ phase \in [Launches -> Phases] /\ active \in [Runs -> Launches \cup {NoLaunch}]
      /\ rows \in [Runs -> Row] /\ of[l] \in Runs
      /\ told \in [Runs -> Terminal \cup Unsettled \cup {"nothing", "lost"}]
  BY DEF BasicInv, TypeOK, LaunchInv, Live
<1>2. /\ active[of[l]] = l /\ l \in reporting
      /\ \A k \in Launches : Live(k) /\ of[k] = of[l] => k = l
  BY DEF HttpInv, RegInv
<1>3. \A k \in Launches : Live(k)' <=> Live(k) /\ k # l
  BY <1>1 DEF Over, Live
<1>4. RegInv'
  BY <1>1, <1>2, <1>3 DEF HttpInv, RegInv, Over
<1>5. PendInv'
  BY <1>1 DEF HttpInv, PendInv, Over
<1>6. ASSUME NEW r \in Runs PROVE RunInv(r)'
  <2>1. RunInv(r) /\ of' = of
    BY DEF HttpInv, Over
  <2>2. CASE r = of[l]
    <3>1. active'[r] = NoLaunch /\ rows[r] # NoRow
      BY <1>1, <1>2, <2>1, <2>2 DEF Over, RunInv, BusyRow, NoLaunch, Launches
    <3>2. told'[r] = closed.status
      BY <1>1, <1>2, <2>2, <3>1 DEF Over, Tell
    <3>3. rows'[r] \in {NoRow, closed}
      BY <1>1, <2>2 DEF Over
    <3>4. closed # NoRow /\ closed.status # "absent" /\ closed.status \notin Unsettled
      BY NoRowRow DEF Terminal, Unsettled
    <3>5. IdleRow(r)' /\ (rows'[r].status = "absent" <=> rows'[r] = NoRow)
      BY <3>2, <3>3, <3>4, NoRowRow DEF IdleRow, Unsettled
    <3> QED BY <2>1, <2>2, <3>1, <3>5 DEF RunInv
  <2>3. CASE r # of[l]
    <3>1. rows'[r] = rows[r] /\ active'[r] = active[r] /\ told'[r] = told[r]
      BY <1>1, <2>3 DEF Over, Tell
    <3>2. active[r] # NoLaunch => active[r] \in Launches /\ active[r] # l
      BY <1>1, <2>3 DEF HttpInv, RegInv
    <3>3. active[r] # NoLaunch => phase'[active[r]] = phase[active[r]]
      BY <1>1, <3>2 DEF Over
    <3> QED BY <2>1, <3>1, <3>3 DEF RunInv, IdleRow, BusyRow, Over
  <2> QED BY <2>2, <2>3
<1> QED BY <1>4, <1>5, <1>6 DEF HttpInv

LEMMA LaunchHttp ==
    ASSUME BasicInv, HttpInv, NEW l \in Launches, NEW r \in Runs, Launch(l, r),
           active[r] = NoLaunch, rows'[r].status = "running",
           \A q \in Runs \ {r} : rows'[q] = rows[q]
    PROVE  HttpInv'
<1>1. /\ phase \in [Launches -> Phases] /\ active \in [Runs -> Launches \cup {NoLaunch}]
      /\ of \in [Launches -> Runs \cup {NoLaunch}] /\ reporting \in SUBSET Launches
      /\ told \in [Runs -> Terminal \cup Unsettled \cup {"nothing", "lost"}]
  BY DEF BasicInv, TypeOK
<1>2. phase[l] = "unused" /\ ~Live(l)
  BY DEF Launch, Live
<1>3. \A k \in Launches : Live(k)' <=> Live(k) \/ k = l
  BY <1>1 DEF Launch, Live
<1>4. /\ of'[l] = r /\ active'[r] = l /\ reporting' = reporting \cup {l}
      /\ \A k \in Launches \ {l} : of'[k] = of[k] /\ phase'[k] = phase[k]
      /\ \A q \in Runs \ {r} : active'[q] = active[q] /\ told'[q] = told[q]
      /\ phase'[l] \notin {"executing", "ending"} /\ told'[r] = "running"
  BY <1>1 DEF Launch
<1>5. RegInv'
  <2>1. \A k \in Launches : Live(k) => of[k] # r /\ of[k] \in Runs
    BY DEF HttpInv, RegInv, BasicInv, LaunchInv, Live, NoLaunch, Launches
  <2>2. \A k \in Launches : Live(k)' => active'[of'[k]] = k
    BY <1>2, <1>3, <1>4, <2>1 DEF HttpInv, RegInv
  <2>3. ASSUME NEW q \in Runs, active'[q] # NoLaunch
        PROVE  (Live(active[q]) /\ of[active[q]] = q)'
    <3>1. CASE q = r
      BY <1>3, <1>4, <3>1
    <3>2. CASE q # r
      <4>1. active'[q] = active[q]
        BY <1>4, <3>2
      <4>2. active[q] \in Launches /\ active[q] # l /\ Live(active[q]) /\ of[active[q]] = q
        BY <1>1, <1>2, <2>3, <4>1 DEF HttpInv, RegInv
      <4> QED BY <1>3, <1>4, <4>1, <4>2
    <3> QED BY <3>1, <3>2
  <2>4. \A k \in Launches : k \in reporting' <=> Live(k)'
    BY <1>3, <1>4 DEF HttpInv, RegInv
  <2> QED BY <2>2, <2>3, <2>4 DEF RegInv
<1>6. PendInv'
  BY <1>1, <1>2, <1>4 DEF HttpInv, PendInv, Launch
<1>7. ASSUME NEW q \in Runs PROVE RunInv(q)'
  <2>1. RunInv(q)
    BY DEF HttpInv
  <2>2. CASE q = r
    <3>1. rows'[r] # NoRow /\ pending'[l] = {}
      BY <1>2, NoRowRow DEF Launch, HttpInv, PendInv
    <3>2. BusyRow(r, l)'
      BY <1>4, <3>1 DEF BusyRow, Terminal
    <3> QED BY <1>4, <2>2, <3>1, <3>2 DEF RunInv, NoLaunch, Launches
  <2>3. CASE q # r
    <3>1. active[q] # NoLaunch => active[q] \in Launches /\ active[q] # l
      BY <1>1, <1>2 DEF HttpInv, RegInv
    <3>2. \A k \in Launches : of[k] = q => of'[k] = q
      BY <1>2, <1>4, RunsAssumption DEF BasicInv, LaunchInv
    <3> QED BY <1>4, <2>1, <2>3, <3>1, <3>2 DEF RunInv, IdleRow, BusyRow, Launch
  <2> QED BY <2>2, <2>3
<1> QED BY <1>5, <1>6, <1>7 DEF HttpInv

\* Only one run's row, gates, cancellation and report change.
LEMMA OneRunHttp ==
    ASSUME BasicInv, HttpInv, NEW r \in Runs,
           UNCHANGED <<active, of, phase, outcome, reporting>>,
           \A q \in Runs \ {r} : rows'[q] = rows[q] /\ told'[q] = told[q],
           \A k \in Launches : of[k] # r =>
               (k \in aborted' <=> k \in aborted) /\ pending'[k] = pending[k],
           PendInv', RunInv(r)'
    PROVE  HttpInv'
<1>1. RegInv'
  BY DEF HttpInv, RegInv, Live
<1>2. ASSUME NEW q \in Runs \ {r} PROVE RunInv(q)'
  <2>1. RunInv(q)
    BY DEF HttpInv
  <2>2. active[q] # NoLaunch => active[q] \in Launches /\ of[active[q]] # r
    BY DEF HttpInv, RegInv, BasicInv, TypeOK
  <2> QED BY <2>1, <2>2 DEF RunInv, IdleRow, BusyRow
<1> QED BY <1>1, <1>2 DEF HttpInv

-----------------------------------------------------------------------------
(* Every step.                                                             *)

LEMMA InitHttp == Init => HttpInv
BY DEF Init, HttpInv, RegInv, PendInv, RunInv, IdleRow, Live, NoRow, Unsettled, NoLaunch

LEMMA AskHttp ==
    ASSUME BasicInv, HttpInv, NEW l \in Launches, NEW g \in Gates, Ask(l, g)
    PROVE  HttpInv'
<1>1. /\ Live(l) /\ of[l] \in Runs /\ active[of[l]] = l /\ l \in reporting /\ l \notin aborted
      /\ rows \in [Runs -> Row] /\ pending \in [Launches -> SUBSET Gates]
      /\ told \in [Runs -> Terminal \cup Unsettled \cup {"nothing", "lost"}]
      /\ l # NoLaunch
  BY DEF Ask, HttpInv, RegInv, BasicInv, LaunchInv, TypeOK, Live, NoLaunch, Launches
<1>2. PendInv'
  BY <1>1 DEF Ask, HttpInv, PendInv
<1>3. rows[of[l]] # NoRow /\ \E k \in Launches : of[k] = of[l]
  BY <1>1 DEF HttpInv, RunInv, BusyRow
<1>4. /\ rows'[of[l]].status = "paused" /\ told'[of[l]] = "paused"
      /\ pending'[l] # {}
  <2>1. rows'[of[l]] = [rows[of[l]] EXCEPT !.status = "paused", !.ran = TRUE]
    BY <1>1, <1>3 DEF Ask
  <2>2. told'[of[l]] = "paused"
    BY <1>1 DEF Ask, Tell
  <2> QED BY <1>1, <2>1, <2>2, PausedRow DEF Ask, Row
<1>5. RunInv(of[l])'
  <2>1. rows'[of[l]] # NoRow
    BY <1>4, NoRowRow
  <2>2. BusyRow(of[l], l)'
    BY <1>1, <1>4, <2>1 DEF BusyRow, Terminal, Ask
  <2>3. (of[l])' = of[l] /\ active' = active /\ of' = of
    BY DEF Ask
  <2> QED BY <1>1, <1>3, <1>4, <2>1, <2>2, <2>3 DEF RunInv
<1> QED BY <1>1, <1>2, <1>5, OneRunHttp DEF Ask, Tell

LEMMA CancelNodeHttp ==
    ASSUME BasicInv, HttpInv, NEW l \in Launches, CancelNode(l)
    PROVE  HttpInv'
<1>1. /\ Live(l) /\ of[l] \in Runs /\ active[of[l]] = l
      /\ rows \in [Runs -> Row] /\ pending \in [Launches -> SUBSET Gates]
      /\ l # NoLaunch /\ phase[l] = "executing"
  BY DEF CancelNode, HttpInv, RegInv, BasicInv, LaunchInv, TypeOK, Live, NoLaunch, Launches
<1>2. PendInv'
  BY <1>1 DEF CancelNode, HttpInv, PendInv
<1>3. rows[of[l]] # NoRow /\ \E k \in Launches : of[k] = of[l]
  BY <1>1 DEF HttpInv, RunInv, BusyRow
<1>4. rows'[of[l]].status = "cancelled"
  BY <1>1, <1>3, ClosedRow DEF CancelNode, Terminal
<1>5. RunInv(of[l])'
  <2>1. rows'[of[l]] # NoRow
    BY <1>4, NoRowRow
  <2>2. BusyRow(of[l], l)'
    BY <1>1, <1>4, <2>1 DEF BusyRow, Terminal, CancelNode
  <2> QED BY <1>1, <1>3, <1>4, <2>1, <2>2 DEF RunInv, CancelNode
<1> QED BY <1>1, <1>2, <1>5, OneRunHttp DEF CancelNode, ribVars

LEMMA CancelHttp ==
    ASSUME BasicInv, HttpInv, NEW r \in Runs, Cancel(r)
    PROVE  HttpInv'
<1>1. /\ active[r] \in Launches /\ of[active[r]] = r /\ pending \in [Launches -> SUBSET Gates]
  BY DEF Cancel, HttpInv, RegInv, BasicInv, TypeOK
<1>2. PendInv'
  BY <1>1 DEF Cancel, CancelActive, HttpInv, PendInv
<1>3. RunInv(r)'
  BY <1>1 DEF Cancel, CancelActive, HttpInv, RunInv, BusyRow, IdleRow
<1> QED BY <1>1, <1>2, <1>3, OneRunHttp DEF Cancel, CancelActive, ribVars

LEMMA PurgeHttp ==
    ASSUME BasicInv, HttpInv, NEW r \in Runs, Purge(r)
    PROVE  HttpInv'
<1>1. /\ rows \in [Runs -> Row] /\ pending \in [Launches -> SUBSET Gates]
      /\ active \in [Runs -> Launches \cup {NoLaunch}]
  BY DEF BasicInv, TypeOK
<1>2. CASE active[r] = NoLaunch
  <2>1. PendInv'
    BY <1>2 DEF Purge, HttpInv, PendInv
  <2>2. RunInv(r)'
    <3>1. rows'[r] = NoRow /\ active'[r] = NoLaunch
      BY <1>1, <1>2 DEF Purge
    <3> QED BY <3>1, NoRowRow DEF RunInv, IdleRow, Unsettled
  <2> QED BY <1>1, <1>2, <2>1, <2>2, OneRunHttp DEF Purge, ribVars
<1>3. CASE active[r] # NoLaunch
  <2>1. active[r] \in Launches /\ of[active[r]] = r /\ Live(active[r])
    BY <1>1, <1>3 DEF HttpInv, RegInv
  <2>2. PendInv'
    BY <1>1, <1>3, <2>1 DEF Purge, CancelActive, HttpInv, PendInv
  <2>3. RunInv(r)'
    <3>1. RunInv(r) /\ rows[r] # NoRow
      BY DEF HttpInv, Purge
    <3>2. rows'[r] = [rows[r] EXCEPT !.conversation = FALSE]
      BY <1>1, <1>3, <2>1 DEF Purge
    <3>3. rows'[r].status = rows[r].status /\ rows'[r] # NoRow
      BY <1>1, <3>1, <3>2, ConversationRow, NoRowRow DEF RunInv
    <3>4. /\ active[r] \in aborted' /\ active' = active /\ of' = of /\ phase' = phase
          /\ outcome' = outcome
      BY <1>3 DEF Purge, CancelActive
    <3> QED BY <1>3, <3>1, <3>3, <3>4 DEF RunInv, BusyRow
  <2> QED BY <1>1, <1>3, <2>1, <2>2, <2>3, OneRunHttp DEF Purge, CancelActive, ribVars
<1> QED BY <1>2, <1>3

LEMMA AnswerHttp ==
    ASSUME BasicInv, HttpInv, NEW r \in Runs, NEW g \in Gates, Answer(r, g)
    PROVE  HttpInv'
<1> DEFINE l == active[r]
<1>1. /\ l \in Launches /\ of[l] = r /\ Live(l) /\ l # NoLaunch /\ l \in reporting
      /\ pending \in [Launches -> SUBSET Gates] /\ g \in pending[l]
      /\ rows \in [Runs -> Row]
      /\ told \in [Runs -> Terminal \cup Unsettled \cup {"nothing", "lost"}]
  BY DEF Answer, HttpInv, RegInv, BasicInv, TypeOK
<1>2. l \notin aborted /\ PendInv'
  BY <1>1 DEF Answer, HttpInv, PendInv
<1>3. RunInv(r) /\ BusyRow(r, l) /\ rows[r].status = "paused"
  BY <1>1, <1>2 DEF HttpInv, RunInv, BusyRow
<1>4. rows'[r].status = IF pending'[l] = {} THEN "running" ELSE "paused"
  <2>1. \A s \in {"running", "paused"} : [rows[r] EXCEPT !.status = s].status = s
    BY <1>1 DEF Row
  <2> QED BY <1>1, <1>3, <2>1 DEF Answer
<1>5. told'[r] = IF pending'[l] = {} THEN "running" ELSE "paused"
  BY <1>1, <1>3 DEF Answer, Tell
<1>6. RunInv(r)'
  <2>1. rows'[r] # NoRow /\ rows'[r].status # "absent"
    BY <1>4, NoRowRow
  <2>2. BusyRow(r, l)'
    BY <1>1, <1>2, <1>4, <1>5, <2>1 DEF BusyRow, Terminal, Answer
  <2> QED BY <1>1, <1>3, <2>1, <2>2 DEF RunInv, Answer
<1> QED BY <1>1, <1>2, <1>6, OneRunHttp DEF Answer, Tell

LEMMA CrashHttp ==
    ASSUME BasicInv, HttpInv, CrashAndBoot
    PROVE  HttpInv'
<1>1. /\ rows \in [Runs -> Row] /\ phase \in [Launches -> Phases]
      /\ told \in [Runs -> Terminal \cup Unsettled \cup {"nothing", "lost"}]
      /\ active \in [Runs -> Launches \cup {NoLaunch}]
  BY DEF BasicInv, TypeOK
<1>2. \A k \in Launches : ~Live(k)'
  BY <1>1 DEF CrashAndBoot, Live
<1>3. RegInv' /\ PendInv'
  BY <1>2 DEF CrashAndBoot, RegInv, PendInv
<1>4. ASSUME NEW r \in Runs PROVE RunInv(r)'
  <2>1. RunInv(r) /\ active'[r] = NoLaunch /\ of' = of
    BY DEF HttpInv, CrashAndBoot
  <2>2. /\ rows'[r].status = IF rows[r].status \in Unsettled THEN "failed" ELSE rows[r].status
        /\ rows'[r] = NoRow <=> rows[r] = NoRow
    BY <1>1, <2>1, ClosedRow, NoRowRow DEF CrashAndBoot, RunInv, Unsettled, Terminal
  <2>3. CASE \E k \in reporting : of[k] = r
    <3>1. told'[r] = "lost"
      BY <2>3 DEF CrashAndBoot
    <3> QED BY <2>1, <2>2, <3>1 DEF RunInv, IdleRow, Unsettled
  <2>4. CASE ~\E k \in reporting : of[k] = r
    <3>1. active[r] = NoLaunch
      BY <1>1, <2>4 DEF HttpInv, RegInv
    <3>2. told'[r] = told[r]
      BY <2>4 DEF CrashAndBoot
    <3> QED BY <2>1, <2>2, <3>1, <3>2 DEF RunInv, IdleRow
  <2> QED BY <2>3, <2>4
<1> QED BY <1>3, <1>4 DEF HttpInv

\* Rows that keep their status are kept, unless a missing row comes to be.
LEMMA Kept ==
    ASSUME BasicInv, HttpInv, NEW r \in Runs, rows'[r].status = rows[r].status,
           rows[r] = NoRow => rows'[r] = NoRow
    PROVE  RowKept(r)
BY NoRowRow DEF HttpInv, RunInv, RowKept

LEMMA RequestsHttp ==
    ASSUME BasicInv, HttpInv, Entrances \subseteq {"http"}, Requests
    PROVE  HttpInv'
<1>1. ASSUME NEW l \in Launches, NEW r \in Runs, Start(l, r)
      PROVE  HttpInv'
  <2>1. active[r] = NoLaunch
    BY <1>1 DEF Start, HttpInv, RegInv, BasicInv, TypeOK
  <2>2. rows'[r].status = "running" /\ \A q \in Runs \ {r} : rows'[q] = rows[q]
    BY <1>1 DEF Start, BasicInv, TypeOK, NoRow
  <2> QED BY <1>1, <2>1, <2>2, LaunchHttp DEF Start
<1>2. ASSUME NEW l \in Launches, NEW r \in Runs, NEW e \in Entrances, Resume(l, r, e)
      PROVE  HttpInv'
  <2>1. active[r] = NoLaunch
    BY <1>2 DEF Resume
  <2>2. rows'[r].status = "running" /\ \A q \in Runs \ {r} : rows'[q] = rows[q]
    BY <1>2 DEF Resume, BasicInv, TypeOK, Row
  <2> QED BY <1>2, <2>1, <2>2, LaunchHttp DEF Resume
<1>3. ASSUME NEW r \in Runs, NEW force \in Forces, PruneBegins(r, force)
      PROVE  HttpInv'
  <2>1. \A q \in Runs : RowKept(q)
    BY <1>3 DEF PruneBegins, RowKept
  <2> QED BY <1>3, <2>1, QuietHttp DEF PruneBegins
<1> QED BY <1>1, <1>2, <1>3, CancelHttp, PurgeHttp, AnswerHttp DEF Requests

LEMMA PreparesHttp ==
    ASSUME BasicInv, HttpInv, NEW l \in Launches, Prepares(l)
    PROVE  HttpInv'
<1>1. /\ Live(l) /\ of[l] \in Runs /\ phase[l] # "executing"
      /\ rows[of[l]] # NoRow /\ rows[of[l]] \in Row
  <2>1. Live(l) /\ of[l] \in Runs /\ phase[l] # "executing"
    BY DEF Prepares, GetSlot, LeaveQueue, SetupStops, StartCreating, Created, CreationFails,
           InstallFails, Installed, Begin, BeginThrows, Live, BasicInv, LaunchInv
  <2>2. active[of[l]] = l /\ l # NoLaunch
    BY <2>1 DEF HttpInv, RegInv, Launches, NoLaunch
  <2> QED BY <2>1, <2>2 DEF HttpInv, RunInv, BusyRow, BasicInv, TypeOK
<1>2. ~KeyIsTaken(of[l]) \/ phase[l] # "setup"
  BY <1>1 DEF KeyIsTaken, HttpInv, RegInv, Live
<1>3. rows' = rows => \A r \in Runs : RowKept(r)
  BY DEF RowKept
<1>4. CASE GetSlot(l)
  BY <1>1, <1>3, <1>4, GoesHttp DEF GetSlot, Phases
<1>5. CASE LeaveQueue(l)
  <2>1. Closed(of[l], "cancelled") \in Row /\ Closed(of[l], "cancelled").status \in Terminal
    BY <1>1, ClosedRow DEF BasicInv, TypeOK, Terminal
  <2> QED BY <1>1, <1>5, <2>1, OverHttp DEF LeaveQueue
<1>6. CASE SetupStops(l)
  BY <1>1, <1>6, EarlyRow, OverHttp DEF SetupStops
<1>7. CASE StartCreating(l)
  BY <1>1, <1>3, <1>7, GoesHttp DEF StartCreating, Phases
<1>8. CASE Created(l)
  <2>1. rows'[of[l]] = [rows[of[l]] EXCEPT !.path = TRUE]
    BY <1>1, <1>8 DEF Created, BasicInv, TypeOK
  <2>2. \A r \in Runs \ {of[l]} : rows'[r] = rows[r]
    BY <1>8 DEF Created, BasicInv, TypeOK
  <2>3. \A r \in Runs : RowKept(r)
    BY <1>1, <2>1, <2>2, PathRow, Kept
  <2> QED BY <1>1, <1>8, <2>3, GoesHttp DEF Created, Phases
<1>9. CASE CreationFails(l)
  BY <1>1, <1>9, EarlyRow, OverHttp DEF CreationFails
<1>10. CASE InstallFails(l)
  BY <1>1, <1>10, EarlyRow, OverHttp DEF InstallFails
<1>11. CASE Installed(l)
  <2>1. CASE l \in aborted
    BY <1>1, <1>11, <2>1, EarlyRow, OverHttp DEF Installed
  <2>2. CASE l \notin aborted
    BY <1>1, <1>3, <1>11, <2>2, GoesHttp DEF Installed, Phases
  <2> QED BY <2>1, <2>2
<1>12. CASE Begin(l)
  BY <1>1, <1>3, <1>12, GoesHttp DEF Begin, Phases
<1>13. CASE BeginThrows(l)
  BY <1>2, <1>13 DEF BeginThrows
<1> QED BY <1>4, <1>5, <1>6, <1>7, <1>8, <1>9, <1>10, <1>11, <1>12, <1>13 DEF Prepares

LEMMA WorksHttp ==
    ASSUME BasicInv, HttpInv, NEW l \in Launches,
           \/ NodeDone(l) \/ CancelNode(l) \/ Cleanup(l) \/ Ends(l)
           \/ \E g \in Gates : Ask(l, g)
    PROVE  HttpInv'
<1>1. Live(l) /\ of[l] \in Runs /\ rows[of[l]] # NoRow /\ rows[of[l]] \in Row
  <2>1. Live(l) /\ of[l] \in Runs
    BY DEF NodeDone, CancelNode, Cleanup, Ends, ExecutionEnds, RunDone, Ask, Live,
           BasicInv, LaunchInv
  <2>2. active[of[l]] = l /\ l # NoLaunch
    BY <2>1 DEF HttpInv, RegInv, Launches, NoLaunch
  <2> QED BY <2>1, <2>2 DEF HttpInv, RunInv, BusyRow, BasicInv, TypeOK
<1>2. CASE NodeDone(l)
  <2>1. \A r \in Runs : RowKept(r)
    BY <1>1, <1>2, RanRow, Kept DEF NodeDone, BasicInv, TypeOK
  <2> QED BY <1>2, <2>1, QuietHttp DEF NodeDone
<1>3. CASE Cleanup(l)
  <2>1. \A r \in Runs : RowKept(r)
    BY <1>1, <1>3, PathRow, Kept DEF Cleanup, BasicInv, TypeOK
  <2> QED BY <1>3, <2>1, QuietHttp DEF Cleanup
<1>4. ASSUME NEW status \in Terminal, ExecutionEnds(l, status)
      PROVE  HttpInv'
  <2>1. \A r \in Runs : RowKept(r)
    BY <1>4 DEF ExecutionEnds, RowKept
  <2>2. rows[of[l]].status = "cancelled" => l \in aborted
    <3>1. active[of[l]] = l /\ l # NoLaunch
      BY <1>1 DEF HttpInv, RegInv, Launches, NoLaunch
    <3> QED BY <1>1, <3>1 DEF HttpInv, RunInv, BusyRow, Terminal
  <2>3. outcome'[l] = status /\ \A k \in Launches \ {l} : outcome'[k] = outcome[k]
    BY <1>4 DEF ExecutionEnds, BasicInv, TypeOK
  <2> QED BY <1>1, <1>4, <2>1, <2>2, <2>3, GoesHttp DEF ExecutionEnds, Phases
<1>5. CASE RunDone(l)
  <2>1. outcome[l] \in Terminal
    BY <1>5 DEF RunDone, BasicInv, LaunchInv
  <2>2. Closed(of[l], outcome[l]) \in Row /\ Closed(of[l], outcome[l]).status \in Terminal
    BY <1>1, <2>1, ClosedRow DEF BasicInv, TypeOK
  <2> QED BY <1>1, <1>5, <2>2, OverHttp DEF RunDone
<1> QED BY <1>2, <1>3, <1>4, <1>5, AskHttp, CancelNodeHttp DEF Ends

LEMMA PrunesHttp ==
    ASSUME BasicInv, HttpInv, NEW r \in Runs, Prunes(r)
    PROVE  HttpInv'
<1>1. [NoRow EXCEPT !.pruned = FALSE] = NoRow
  <2>1. NoRow = [NoRow EXCEPT !.pruned = NoRow.pruned]
    BY NoRowRow DEF Row
  <2> QED BY <2>1 DEF NoRow
<1>2. ASSUME NEW b \in BOOLEAN, rows' = [rows EXCEPT ![r].pruned = b], rows[r] = NoRow => ~b
      PROVE  \A q \in Runs : RowKept(q)
  <2>1. rows'[r] = [rows[r] EXCEPT !.pruned = b] /\ \A q \in Runs \ {r} : rows'[q] = rows[q]
    BY <1>2 DEF BasicInv, TypeOK
  <2>2. [rows[r] EXCEPT !.pruned = b].status = rows[r].status
    BY PrunedRow DEF BasicInv, TypeOK
  <2>3. rows[r] = NoRow => rows'[r] = NoRow
    BY <1>1, <1>2, <2>1
  <2> QED BY <2>1, <2>2, <2>3, Kept
<1>3. rows' = rows => \A q \in Runs : RowKept(q)
  BY DEF RowKept
<1>4. CASE PruneMarks(r)
  BY <1>2, <1>4, QuietHttp DEF PruneMarks
<1>5. CASE PruneFails(r)
  BY <1>2, <1>3, <1>5, QuietHttp DEF PruneFails
<1>6. CASE PruneRefuses(r) \/ PruneEnds(r)
  BY <1>3, <1>6, QuietHttp DEF PruneRefuses, PruneEnds
<1> QED BY <1>4, <1>5, <1>6 DEF Prunes

LEMMA StepHttp ==
    ASSUME Entrances \subseteq {"http"}
    PROVE  BasicInv /\ HttpInv /\ [Next]_vars => HttpInv'
<1> SUFFICES ASSUME BasicInv, HttpInv, [Next]_vars
             PROVE  HttpInv'
  OBVIOUS
<1>1. CASE UNCHANGED vars
  <2>1. \A r \in Runs : RowKept(r)
    BY <1>1 DEF RowKept, vars
  <2> QED BY <1>1, <2>1, QuietHttp DEF vars
<1>2. CASE Next
  BY <1>2, RequestsHttp, PreparesHttp, WorksHttp, PrunesHttp, CrashHttp DEF Next
<1> QED BY <1>1, <1>2

LEMMA AlwaysHttp ==
    ASSUME Entrances \subseteq {"http"}
    PROVE  Spec => [](BasicInv /\ HttpInv)
<1>1. Init => BasicInv /\ HttpInv
  BY InitBasic, InitHttp
<1>2. (BasicInv /\ HttpInv) /\ [Next]_vars => (BasicInv /\ HttpInv)'
  BY StepBasic, StepHttp
<1> QED BY <1>1, <1>2, PTL DEF Spec

\* Whatever the launches, cancellations, purges and crashes, as long as every
\* resume asks activeRuns first: the requests of a run reach its launch.
THEOREM LaunchesAreRegistered ==
    ASSUME Entrances \subseteq {"http"}
    PROVE  Spec => []LiveIsRegistered
<1>1. BasicInv /\ HttpInv => LiveIsRegistered
  BY DEF HttpInv, RegInv, LiveIsRegistered
<1> QED BY <1>1, AlwaysHttp, PTL

\* The row of a run says of its launch what is true of it.
THEOREM RowsTellTheTruth ==
    ASSUME Entrances \subseteq {"http"}
    PROVE  Spec => []RowTellsTheTruth
<1>1. BasicInv /\ HttpInv => RowTellsTheTruth
  <2> SUFFICES ASSUME BasicInv, HttpInv, NEW r \in Runs
               PROVE  /\ rows[r].status \in Unsettled => LiveOf(r) # {}
                      /\ \A l \in LiveOf(r) :
                            /\ rows[r].status \in Terminal
                                  => l \in aborted /\ rows[r].status = "cancelled"
                            /\ l \notin aborted => (rows[r].status = "paused" <=> pending[l] # {})
    BY DEF RowTellsTheTruth
  <2>1. RunInv(r)
    BY DEF HttpInv
  <2>2. active[r] # NoLaunch => active[r] \in LiveOf(r)
    BY DEF HttpInv, RegInv, LiveOf, BasicInv, TypeOK
  <2>3. \A l \in LiveOf(r) : l = active[r] /\ l # NoLaunch
    BY DEF HttpInv, RegInv, LiveOf, Launches, NoLaunch
  <2> QED BY <2>1, <2>2, <2>3 DEF RunInv, IdleRow, BusyRow
<1> QED BY <1>1, AlwaysHttp, PTL

\* A launch that lives has a row: no purge deletes it first.
THEOREM RowsOutliveLaunches ==
    ASSUME Entrances \subseteq {"http"}
    PROVE  Spec => []NobodyIsOrphaned
<1>1. BasicInv /\ HttpInv => NobodyIsOrphaned
  <2> SUFFICES ASSUME BasicInv, HttpInv, NEW l \in Launches, Live(l)
               PROVE  rows[of[l]] # NoRow
    BY DEF NobodyIsOrphaned
  <2>1. of[l] \in Runs /\ active[of[l]] = l /\ l # NoLaunch
    BY DEF HttpInv, RegInv, BasicInv, LaunchInv, Live, Launches, NoLaunch
  <2> QED BY <2>1 DEF HttpInv, RunInv, BusyRow
<1> QED BY <1>1, AlwaysHttp, PTL

\* What a rib was told last is what the run is at, or was lost in a crash; two
\* launches of a run are never both about to report.
THEOREM RibsHearInOrder ==
    ASSUME Entrances \subseteq {"http"}
    PROVE  Spec => []LaunchesNeverInterleave
<1>1. BasicInv /\ HttpInv => LaunchesNeverInterleave
  <2> SUFFICES ASSUME BasicInv, HttpInv
               PROVE  LaunchesNeverInterleave
    OBVIOUS
  <2>1. \A k, l \in reporting : of[k] = of[l] => k = l
    BY DEF HttpInv, RegInv, BasicInv, TypeOK
  <2>2. ASSUME NEW r \in Runs, rows[r] # NoRow, LiveOf(r) \cap aborted = {}
        PROVE  told[r] \in {rows[r].status, "lost"}
    <3>1. active[r] # NoLaunch => active[r] \notin aborted
      BY <2>2 DEF HttpInv, RegInv, LiveOf, BasicInv, TypeOK
    <3> QED BY <2>2, <3>1 DEF HttpInv, RunInv, IdleRow, BusyRow
  <2> QED BY <2>1, <2>2 DEF LaunchesNeverInterleave
<1> QED BY <1>1, AlwaysHttp, PTL

-----------------------------------------------------------------------------
(* What a step may do to a row that says cancelled.                        *)

StaysCancelled ==
    \A r \in Runs : rows[r].status = "cancelled" => rows'[r].status \in {"cancelled", "absent"}

LEMMA NobodyLaunched ==
    ASSUME BasicInv, of' = of, StaysCancelled, NEW r \in Runs
    PROVE  EarnsItsLaunch(r)
BY RunsAssumption DEF EarnsItsLaunch, StaysCancelled, BasicInv, LaunchInv

LEMMA LaunchEarns ==
    ASSUME BasicInv, NEW l \in Launches, NEW r \in Runs, Launch(l, r),
           ~rows[r].pruned, rows[r].status \in Resumable \cup {"absent"},
           \A q \in Runs \ {r} : rows'[q] = rows[q],
           NEW q \in Runs
    PROVE  EarnsItsLaunch(q)
<1>1. phase[l] = "unused" /\ of'[l] = r /\ \A k \in Launches \ {l} : of'[k] = of[k]
  BY DEF Launch, BasicInv, TypeOK
<1>2. q # r => \A k \in Launches : phase[k] = "unused" => of'[k] # q
  BY <1>1, RunsAssumption DEF BasicInv, LaunchInv
<1> QED BY <1>1, <1>2 DEF EarnsItsLaunch

LEMMA OneRowStays ==
    ASSUME BasicInv, NEW r \in Runs, NEW row \in Row, rows' = [rows EXCEPT ![r] = row],
           row.status \in {rows[r].status, "absent"}
    PROVE  StaysCancelled
<1>1. rows'[r] = row /\ \A q \in Runs \ {r} : rows'[q] = rows[q]
  BY DEF BasicInv, TypeOK
<1> QED BY <1>1 DEF StaysCancelled

LEMMA OverStays ==
    ASSUME BasicInv, NEW l \in Launches, NEW closed \in Row, Over(l, closed),
           of[l] \in Runs, rows[of[l]].status = "cancelled" => closed.status = "cancelled"
    PROVE  StaysCancelled
<1>1. rows'[of[l]] \in {NoRow, closed} /\ \A q \in Runs \ {of[l]} : rows'[q] = rows[q]
  BY DEF Over, BasicInv, TypeOK
<1> QED BY <1>1, NoRowRow DEF StaysCancelled

\* A row that says cancelled under a launch: the launch was cancelled.
LEMMA CancelledUnderway ==
    ASSUME BasicInv, HttpInv, NEW l \in Launches, Live(l), rows[of[l]].status = "cancelled"
    PROVE  l \in aborted /\ (phase[l] = "ending" => outcome[l] = "cancelled")
<1>1. of[l] \in Runs /\ active[of[l]] = l /\ l # NoLaunch
  BY DEF HttpInv, RegInv, BasicInv, LaunchInv, Live, Launches, NoLaunch
<1> QED BY <1>1 DEF HttpInv, RunInv, BusyRow, Terminal

LEMMA RequestsEarn ==
    ASSUME BasicInv, HttpInv, Requests, NEW q \in Runs
    PROVE  EarnsItsLaunch(q)
<1> USE DEF StaysCancelled
<1>1. ASSUME NEW l \in Launches, NEW r \in Runs, Start(l, r)
      PROVE  EarnsItsLaunch(q)
  <2>1. rows[r] = NoRow
    BY <1>1 DEF Start, HttpInv, RunInv
  <2>2. ~rows[r].pruned /\ rows[r].status = "absent"
    BY <2>1 DEF NoRow
  <2>3. \A p \in Runs \ {r} : rows'[p] = rows[p]
    BY <1>1 DEF Start, BasicInv, TypeOK
  <2> QED BY <1>1, <2>2, <2>3, LaunchEarns DEF Start
<1>2. ASSUME NEW l \in Launches, NEW r \in Runs, NEW e \in Entrances, Resume(l, r, e)
      PROVE  EarnsItsLaunch(q)
  <2>1. \A p \in Runs \ {r} : rows'[p] = rows[p]
    BY <1>2 DEF Resume, BasicInv, TypeOK
  <2> QED BY <1>2, <2>1, LaunchEarns DEF Resume, MayResume
<1>3. ASSUME NEW r \in Runs, Cancel(r)
      PROVE  EarnsItsLaunch(q)
  BY <1>3, NobodyLaunched DEF Cancel
<1>4. ASSUME NEW r \in Runs, Purge(r)
      PROVE  EarnsItsLaunch(q)
  <2>1. \/ rows' = [rows EXCEPT ![r] = NoRow]
        \/ rows' = [rows EXCEPT ![r] = [rows[r] EXCEPT !.conversation = FALSE]]
    BY <1>4 DEF Purge
  <2>2. StaysCancelled
    <3>1. rows[r] \in Row
      BY DEF BasicInv, TypeOK
    <3> QED BY <2>1, <3>1, NoRowRow, ConversationRow, OneRowStays
  <2> QED BY <1>4, <2>2, NobodyLaunched DEF Purge
<1>5. ASSUME NEW r \in Runs, NEW g \in Gates, Answer(r, g)
      PROVE  EarnsItsLaunch(q)
  <2>1. active[r] \in Launches /\ of[active[r]] = r /\ Live(active[r]) /\ active[r] \notin aborted
    BY <1>5 DEF Answer, HttpInv, RegInv, PendInv, BasicInv, TypeOK
  <2>2. rows[r].status # "cancelled"
    BY <2>1, CancelledUnderway
  <2>3. \A p \in Runs \ {r} : rows'[p] = rows[p]
    BY <1>5 DEF Answer, BasicInv, TypeOK
  <2> QED BY <1>5, <2>2, <2>3, NobodyLaunched DEF Answer
<1>6. ASSUME NEW r \in Runs, NEW force \in Forces, PruneBegins(r, force)
      PROVE  EarnsItsLaunch(q)
  BY <1>6, NobodyLaunched DEF PruneBegins, launchVars
<1> QED BY <1>1, <1>2, <1>3, <1>4, <1>5, <1>6 DEF Requests

LEMMA PreparesEarn ==
    ASSUME BasicInv, HttpInv, NEW l \in Launches, Prepares(l), NEW q \in Runs
    PROVE  EarnsItsLaunch(q)
<1> USE DEF StaysCancelled
<1>1. Live(l) /\ of[l] \in Runs
  BY DEF Prepares, GetSlot, LeaveQueue, SetupStops, StartCreating, Created, CreationFails,
         InstallFails, Installed, Begin, BeginThrows, Live, BasicInv, LaunchInv
<1>2. Closed(of[l], "cancelled") \in Row /\ Closed(of[l], "cancelled").status = "cancelled"
  BY <1>1, ClosedRow DEF BasicInv, TypeOK, Terminal
<1>3. rows[of[l]].status = "cancelled" => ClosedEarly(l).status = "cancelled"
  BY <1>1, <1>2, CancelledUnderway DEF ClosedEarly
<1>4. \A p \in BOOLEAN : [ClosedEarly(l) EXCEPT !.path = p].status = ClosedEarly(l).status
  BY <1>1, EarlyRow, PathRow
<1>5. CASE GetSlot(l) \/ StartCreating(l) \/ Begin(l)
  BY <1>5, NobodyLaunched DEF GetSlot, StartCreating, Begin, Goes
<1>6. CASE LeaveQueue(l)
  BY <1>1, <1>2, <1>6, OverStays, NobodyLaunched DEF LeaveQueue, Over
<1>7. CASE SetupStops(l)
  <2>1. (ClosedEarly(l).path /\ of[l] \in dir) \in BOOLEAN
    BY <1>1, EarlyRow
  <2>2. StaysCancelled
    BY <1>1, <1>3, <1>4, <1>7, <2>1, EarlyRow, OverStays DEF SetupStops
  <2> QED BY <1>7, <2>2, NobodyLaunched DEF SetupStops, Over
<1>8. CASE Created(l)
  <2>1. rows' = [rows EXCEPT ![of[l]] =
                     [rows[of[l]] EXCEPT !.path = rows[of[l]].path \/ rows[of[l]] # NoRow]]
    BY <1>8 DEF Created
  <2>2. (rows[of[l]].path \/ rows[of[l]] # NoRow) \in BOOLEAN
    BY <1>1 DEF BasicInv, TypeOK, Row
  <2>3. rows'[of[l]].status = rows[of[l]].status /\ \A p \in Runs \ {of[l]} : rows'[p] = rows[p]
    BY <1>1, <2>1, <2>2, PathRow DEF BasicInv, TypeOK
  <2> QED BY <1>8, <2>3, NobodyLaunched DEF Created, Goes
<1>9. CASE CreationFails(l)
  BY <1>1, <1>3, <1>9, EarlyRow, OverStays, NobodyLaunched DEF CreationFails, Over
<1>10. CASE InstallFails(l)
  <2>1. (ClosedEarly(l).path /\ of[l] \in dir') \in BOOLEAN
    BY <1>1, EarlyRow
  <2>2. StaysCancelled
    BY <1>1, <1>3, <1>4, <1>10, <2>1, EarlyRow, OverStays DEF InstallFails
  <2> QED BY <1>10, <2>2, NobodyLaunched DEF InstallFails, Over
<1>11. CASE Installed(l)
  <2>1. CASE l \in aborted
    BY <1>1, <1>3, <1>11, <2>1, EarlyRow, OverStays, NobodyLaunched DEF Installed, Over
  <2>2. CASE l \notin aborted
    BY <1>11, <2>2, NobodyLaunched DEF Installed, Goes
  <2> QED BY <2>1, <2>2
<1>12. CASE BeginThrows(l)
  <2>1. rows' \in {rows, [rows EXCEPT ![of[l]] = NoRow]}
    BY <1>12 DEF BeginThrows
  <2>2. StaysCancelled
    BY <2>1, NoRowRow DEF BasicInv, TypeOK
  <2> QED BY <1>12, <2>2, NobodyLaunched DEF BeginThrows
<1> QED BY <1>5, <1>6, <1>7, <1>8, <1>9, <1>10, <1>11, <1>12 DEF Prepares

LEMMA WorksEarn ==
    ASSUME BasicInv, HttpInv, NEW l \in Launches,
           \/ NodeDone(l) \/ CancelNode(l) \/ Cleanup(l) \/ Ends(l)
           \/ \E g \in Gates : Ask(l, g),
           NEW q \in Runs
    PROVE  EarnsItsLaunch(q)
<1> USE DEF StaysCancelled
<1>1. Live(l) /\ of[l] \in Runs
  BY DEF NodeDone, CancelNode, Cleanup, Ends, ExecutionEnds, RunDone, Ask, Live,
         BasicInv, LaunchInv
<1>2. CASE NodeDone(l) \/ Cleanup(l)
  <2>1. \/ rows' = [rows EXCEPT ![of[l]] = [rows[of[l]] EXCEPT !.ran = TRUE]]
        \/ rows' = [rows EXCEPT ![of[l]] = [rows[of[l]] EXCEPT !.path = FALSE]]
    BY <1>2 DEF NodeDone, Cleanup
  <2>2. StaysCancelled
    <3>1. rows[of[l]] \in Row
      BY <1>1 DEF BasicInv, TypeOK
    <3> QED BY <1>1, <2>1, <3>1, RanRow, PathRow, OneRowStays
  <2> QED BY <1>2, <2>2, NobodyLaunched DEF NodeDone, Cleanup, launchVars
<1>3. CASE CancelNode(l)
  <2>1. rows'[of[l]] \in {rows[of[l]], Closed(of[l], "cancelled")}
        /\ \A p \in Runs \ {of[l]} : rows'[p] = rows[p]
    BY <1>1, <1>3 DEF CancelNode, BasicInv, TypeOK
  <2>2. StaysCancelled
    BY <1>1, <2>1, ClosedRow DEF BasicInv, TypeOK, Terminal
  <2> QED BY <1>3, <2>2, NobodyLaunched DEF CancelNode
<1>4. ASSUME NEW status \in Terminal, ExecutionEnds(l, status)
      PROVE  EarnsItsLaunch(q)
  BY <1>4, NobodyLaunched DEF ExecutionEnds, Goes
<1>5. CASE RunDone(l)
  <2>1. outcome[l] \in Terminal /\ phase[l] = "ending"
    BY <1>5 DEF RunDone, BasicInv, LaunchInv
  <2>2. Closed(of[l], outcome[l]) \in Row /\ Closed(of[l], outcome[l]).status = outcome[l]
    BY <1>1, <2>1, ClosedRow DEF BasicInv, TypeOK
  <2>3. rows[of[l]].status = "cancelled" => outcome[l] = "cancelled"
    BY <1>1, <2>1, CancelledUnderway
  <2> QED BY <1>1, <1>5, <2>2, <2>3, OverStays, NobodyLaunched DEF RunDone, Over
<1>6. ASSUME NEW g \in Gates, Ask(l, g)
      PROVE  EarnsItsLaunch(q)
  <2>1. rows[of[l]].status # "cancelled" /\ \A p \in Runs \ {of[l]} : rows'[p] = rows[p]
    BY <1>1, <1>6, CancelledUnderway DEF Ask, BasicInv, TypeOK
  <2> QED BY <1>6, <2>1, NobodyLaunched DEF Ask
<1> QED BY <1>2, <1>3, <1>4, <1>5, <1>6 DEF Ends

LEMMA StepEarns ==
    ASSUME BasicInv, HttpInv, Next, NEW q \in Runs
    PROVE  EarnsItsLaunch(q)
<1>1. ASSUME NEW r \in Runs, Prunes(r)
      PROVE  EarnsItsLaunch(q)
  <2>1. \/ rows' = rows
        \/ \E b \in BOOLEAN : rows' = [rows EXCEPT ![r] = [rows[r] EXCEPT !.pruned = b]]
    BY <1>1 DEF Prunes, PruneMarks, PruneRefuses, PruneEnds, PruneFails
  <2>2. StaysCancelled
    <3>1. rows[r] \in Row
      BY DEF BasicInv, TypeOK
    <3>2. rows' = rows => StaysCancelled
      BY DEF StaysCancelled
    <3> QED BY <2>1, <3>1, <3>2, PrunedRow, OneRowStays
  <2> QED BY <1>1, <2>2, NobodyLaunched
          DEF Prunes, PruneMarks, PruneRefuses, PruneEnds, PruneFails, launchVars
<1>2. CASE CrashAndBoot
  <2>1. StaysCancelled
    BY <1>2 DEF CrashAndBoot, StaysCancelled, Unsettled
  <2> QED BY <1>2, <2>1, NobodyLaunched DEF CrashAndBoot
<1> QED BY <1>1, <1>2, RequestsEarn, PreparesEarn, WorksEarn DEF Next

\* A cancelled run stays cancelled until somebody resumes or purges it; only a
\* run that failed or was cancelled, and whose worktree was not pruned, is
\* launched again.
THEOREM LaunchesMustBeEarned ==
    ASSUME Entrances \subseteq {"http"}
    PROVE  Spec => LaunchesAreEarned
<1>1. (BasicInv /\ HttpInv) /\ [Next]_vars => [\A r \in Runs : EarnsItsLaunch(r)]_vars
  BY StepEarns
<1> QED BY <1>1, AlwaysHttp, PTL DEF Spec, LaunchesAreEarned

-----------------------------------------------------------------------------
(* Worktrees, when no prune is forced.  A prune that is under way keeps    *)
(* every resume out of the run, a launch every prune; what a launch that   *)
(* prepares or executes was promised stays until it ends.                  *)

\* What a launch at a phase has of its run's worktree.
HasTree(r, l) ==
    /\ ~rows[r].pruned
    /\ phase[l] \in {"queued", "setup", "installing", "executing"} /\ rows[r].path => r \in dir
    /\ phase[l] = "installing" => rows[r].path
    /\ phase[l] = "executing" /\ r \in Isolated => rows[r].path

TreeInv(r) ==
    /\ operation[r] \in {"list", "listForced", "remove", "removeForGood"}
           => active[r] = NoLaunch /\ (rows[r].path \/ rows[r] = NoRow)
    /\ operation[r] = "create"
           <=> active[r] # NoLaunch /\ phase[active[r]] \in {"creating", "installing"}
    /\ active[r] # NoLaunch => HasTree(r, active[r])
    /\ operation[r] # "none" => \E k \in Launches : of[k] = r

TreesInv == \A r \in Runs : TreeInv(r)

\* Everything but one run is as it was.
LEMMA OtherTrees ==
    ASSUME BasicInv, HttpInv, TreesInv, NEW r \in Runs, TreeInv(r)',
           \A q \in Runs \ {r} :
               /\ rows'[q] = rows[q] /\ operation'[q] = operation[q]
               /\ active'[q] = active[q] /\ (q \in dir' <=> q \in dir),
           \A l \in Launches : of[l] \in Runs \ {r} => phase'[l] = phase[l] /\ of'[l] = of[l]
    PROVE  TreesInv'
<1> SUFFICES ASSUME NEW q \in Runs \ {r} PROVE TreeInv(q)'
  BY DEF TreesInv
<1>1. active[q] # NoLaunch => active[q] \in Launches /\ of[active[q]] = q
  BY DEF HttpInv, RegInv, BasicInv, TypeOK
<1> QED BY <1>1 DEF TreesInv, TreeInv, HasTree

\* A row changes in nothing a worktree depends on, or goes with no launch there.
LEMMA QuietTrees ==
    ASSUME BasicInv, HttpInv, TreesInv, UNCHANGED <<dir, operation, active, of, phase>>,
           \A r \in Runs : \/ rows'[r] = NoRow /\ active[r] = NoLaunch
                           \/ /\ rows'[r].path = rows[r].path /\ rows'[r].pruned = rows[r].pruned
                              /\ RowKept(r) \/ active[r] # NoLaunch
    PROVE  TreesInv'
<1> SUFFICES ASSUME NEW r \in Runs PROVE TreeInv(r)'
  BY DEF TreesInv
<1> QED BY DEF TreesInv, TreeInv, HasTree, RowKept, NoRow

LEMMA OverTrees ==
    ASSUME BasicInv, HttpInv, TreesInv, NEW l \in Launches, Live(l),
           NEW closed \in Row, Over(l, closed),
           operation' = [operation EXCEPT ![of[l]] = "none"]
               \/ (operation' = operation /\ operation[of[l]] = "none"),
           dir' \in {dir, dir \ {of[l]}}
    PROVE  TreesInv'
<1>1. of[l] \in Runs
  BY DEF BasicInv, LaunchInv, Live
<1>2. active'[of[l]] = NoLaunch /\ operation'[of[l]] = "none"
  BY <1>1 DEF Over, BasicInv, TypeOK
<1>3. TreeInv(of[l])'
  BY <1>2 DEF TreeInv, Over
<1> QED BY <1>1, <1>3, OtherTrees DEF Over, BasicInv, TypeOK

\* The launch that lives, its run and what is under way on its worktree.
LEMMA LiveTree ==
    ASSUME BasicInv, HttpInv, TreesInv, NEW l \in Launches, Live(l)
    PROVE  /\ of[l] \in Runs /\ active[of[l]] = l /\ l # NoLaunch /\ rows[of[l]] # NoRow
           /\ rows[of[l]] \in Row /\ HasTree(of[l], l)
           /\ phase[l] \notin {"creating", "installing"} => operation[of[l]] = "none"
<1>1. of[l] \in Runs /\ active[of[l]] = l /\ l # NoLaunch
  BY DEF HttpInv, RegInv, BasicInv, LaunchInv, Live, Launches, NoLaunch
<1>2. rows[of[l]] # NoRow /\ rows[of[l]] \in Row
  BY <1>1 DEF HttpInv, RunInv, BusyRow, BasicInv, TypeOK
<1> QED BY <1>1, <1>2 DEF TreesInv, TreeInv, BasicInv, TypeOK

LEMMA InitTrees == Init => TreesInv
BY DEF Init, TreesInv, TreeInv, NoLaunch

LEMMA RequestsTrees ==
    ASSUME BasicInv, HttpInv, TreesInv, Entrances \subseteq {"http"}, Forces \subseteq {FALSE},
           Requests
    PROVE  TreesInv'
<1>1. ASSUME NEW l \in Launches, NEW r \in Runs, Launch(l, r), active[r] = NoLaunch,
             ~rows'[r].pruned, rows'[r].path => r \in dir, operation[r] = "none",
             \A q \in Runs \ {r} : rows'[q] = rows[q]
      PROVE  TreesInv'
  <2>1. /\ active'[r] = l /\ phase'[l] \in {"queued", "setup"}
        /\ \A q \in Runs \ {r} : active'[q] = active[q]
        /\ \A k \in Launches \ {l} : phase'[k] = phase[k] /\ of'[k] = of[k]
        /\ dir' = dir /\ operation' = operation
    BY <1>1 DEF Launch, BasicInv, TypeOK
  <2>2. of[l] = NoLaunch
    BY <1>1 DEF Launch, BasicInv, LaunchInv
  <2>3. TreeInv(r)'
    BY <1>1, <2>1 DEF TreeInv, HasTree
  <2> QED BY <1>1, <2>1, <2>2, <2>3, RunsAssumption, OtherTrees
<1>2. ASSUME NEW l \in Launches, NEW r \in Runs, Start(l, r)
      PROVE  TreesInv'
  <2>1. active[r] = NoLaunch /\ operation[r] = "none"
    BY <1>2 DEF Start, HttpInv, RegInv, BasicInv, TypeOK, TreesInv, TreeInv
  <2>2. ~rows'[r].pruned /\ ~rows'[r].path /\ \A q \in Runs \ {r} : rows'[q] = rows[q]
    BY <1>2 DEF Start, BasicInv, TypeOK, NoRow
  <2> QED BY <1>1, <1>2, <2>1, <2>2 DEF Start
<1>3. ASSUME NEW l \in Launches, NEW r \in Runs, NEW e \in Entrances, Resume(l, r, e)
      PROVE  TreesInv'
  <2>1. active[r] = NoLaunch
    BY <1>3 DEF Resume
  <2>2. operation[r] = "none" /\ ~rows[r].pruned /\ (rows[r].path => r \in dir)
    BY <1>3, <2>1 DEF Resume, MayResume, Resumable, TreesInv, TreeInv, BasicInv, TypeOK, NoRow
  <2>3. /\ rows'[r].pruned = rows[r].pruned /\ rows'[r].path = rows[r].path
        /\ \A q \in Runs \ {r} : rows'[q] = rows[q]
    BY <1>3 DEF Resume, BasicInv, TypeOK, Row
  <2> QED BY <1>1, <1>3, <2>1, <2>2, <2>3 DEF Resume
<1>4. ASSUME NEW r \in Runs, Cancel(r)
      PROVE  TreesInv'
  BY <1>4, QuietTrees DEF Cancel, RowKept
<1>5. ASSUME NEW r \in Runs, Purge(r)
      PROVE  TreesInv'
  <2>1. CASE active[r] = NoLaunch
    BY <1>5, <2>1, QuietTrees DEF Purge, RowKept, BasicInv, TypeOK
  <2>2. CASE active[r] # NoLaunch
    <3>0. Live(active[r])
      BY <2>2 DEF BasicInv, TypeOK, HttpInv, RegInv
    <3>1. rows' = [rows EXCEPT ![r].conversation = FALSE]
      BY <1>5, <2>2, <3>0 DEF Purge
    <3>2. /\ rows'[r].path = rows[r].path /\ rows'[r].pruned = rows[r].pruned
          /\ \A q \in Runs \ {r} : rows'[q] = rows[q]
      BY <3>1 DEF BasicInv, TypeOK, Row
    <3> QED BY <1>5, <2>2, <3>2, QuietTrees DEF Purge, RowKept
  <2> QED BY <2>1, <2>2
<1>6. ASSUME NEW r \in Runs, NEW g \in Gates, Answer(r, g)
      PROVE  TreesInv'
  <2>1. /\ rows'[r].path = rows[r].path /\ rows'[r].pruned = rows[r].pruned
        /\ active[r] # NoLaunch /\ \A q \in Runs \ {r} : rows'[q] = rows[q]
    BY <1>6 DEF Answer, BasicInv, TypeOK, Row
  <2> QED BY <1>6, <2>1, QuietTrees DEF Answer, RowKept
<1>7. ASSUME NEW r \in Runs, NEW force \in Forces, PruneBegins(r, force)
      PROVE  TreesInv'
  <2>1. active[r] = NoLaunch /\ rows[r].path
    BY <1>7 DEF PruneBegins
  <2>2. \E k \in Launches : of[k] = r
    BY <2>1 DEF HttpInv, RunInv, NoRow
  <2>3. TreeInv(r)'
    BY <1>7, <2>1, <2>2 DEF PruneBegins, TreeInv, BasicInv, TypeOK, launchVars
  <2> QED BY <1>7, <2>3, OtherTrees DEF PruneBegins, BasicInv, TypeOK, launchVars
<1> QED BY <1>2, <1>3, <1>4, <1>5, <1>6, <1>7 DEF Requests

LEMMA GoesTrees ==
    ASSUME BasicInv, HttpInv, TreesInv, NEW l \in Launches, Live(l), NEW ph \in Phases,
           Goes(l, ph), HasTree(of[l], l)',
           operation'[of[l]] = IF ph \in {"creating", "installing"} THEN "create" ELSE "none",
           \A q \in Runs \ {of[l]} : /\ rows'[q] = rows[q] /\ operation'[q] = operation[q]
                                     /\ q \in dir' <=> q \in dir
    PROVE  TreesInv'
<1>1. of[l] \in Runs /\ active[of[l]] = l /\ l # NoLaunch
  BY LiveTree
<1>2. phase'[l] = ph /\ active' = active /\ of' = of
      /\ \A k \in Launches \ {l} : phase'[k] = phase[k]
  BY DEF Goes, BasicInv, TypeOK
<1>3. TreeInv(of[l])'
  BY <1>1, <1>2 DEF TreeInv
<1> QED BY <1>1, <1>2, <1>3, OtherTrees

LEMMA PreparesTrees ==
    ASSUME BasicInv, HttpInv, TreesInv, NEW l \in Launches, Prepares(l)
    PROVE  TreesInv'
<1>1. Live(l) /\ phase[l] # "executing"
  BY DEF Prepares, GetSlot, LeaveQueue, SetupStops, StartCreating, Created, CreationFails,
         InstallFails, Installed, Begin, BeginThrows, Live
<1>2. /\ of[l] \in Runs /\ active[of[l]] = l /\ l # NoLaunch /\ rows[of[l]] # NoRow
      /\ rows[of[l]] \in Row /\ HasTree(of[l], l)
      /\ phase[l] \notin {"creating", "installing"} => operation[of[l]] = "none"
  BY <1>1, LiveTree
<1>3. Closed(of[l], "cancelled") \in Row
  BY <1>2, ClosedRow DEF BasicInv, TypeOK, Terminal
<1>4. CASE GetSlot(l) \/ Begin(l)
  <2>1. PICK ph \in {"setup", "executing"} :
            /\ Goes(l, ph) /\ phase[l] \in {"queued", "setup"}
            /\ ph = "executing" /\ of[l] \in Isolated => rows[of[l]].path
    BY <1>4 DEF GetSlot, Begin
  <2>2. phase'[l] = ph /\ UNCHANGED <<rows, dir, operation, of>>
    BY <1>4, <2>1 DEF GetSlot, Begin, Goes, BasicInv, TypeOK
  <2>3. HasTree(of[l], l)'
    BY <1>2, <2>1, <2>2 DEF HasTree
  <2> QED BY <1>1, <1>2, <2>1, <2>2, <2>3, GoesTrees DEF Phases
<1>5. CASE StartCreating(l)
  <2>1. /\ phase'[l] = "creating" /\ UNCHANGED <<rows, dir, of>> /\ operation'[of[l]] = "create"
        /\ \A q \in Runs \ {of[l]} : operation'[q] = operation[q]
    BY <1>2, <1>5 DEF StartCreating, Goes, BasicInv, TypeOK
  <2>2. HasTree(of[l], l)'
    BY <1>2, <2>1 DEF HasTree
  <2> QED BY <1>1, <1>5, <2>1, <2>2, GoesTrees DEF StartCreating, Phases
<1>6. CASE Created(l)
  <2>1. rows' = [rows EXCEPT ![of[l]] =
                     [rows[of[l]] EXCEPT !.path = rows[of[l]].path \/ rows[of[l]] # NoRow]]
    BY <1>6 DEF Created
  <2>2. /\ rows'[of[l]].path /\ ~rows'[of[l]].pruned
        /\ \A q \in Runs \ {of[l]} : rows'[q] = rows[q]
    BY <1>2, <2>1 DEF BasicInv, TypeOK, Row, HasTree
  <2>3. /\ phase'[l] = "installing" /\ dir' = dir \cup {of[l]} /\ of' = of
        /\ operation' = operation
    BY <1>6 DEF Created, Goes, BasicInv, TypeOK
  <2>4. operation[of[l]] = "create"
    BY <1>2, <1>6 DEF Created, TreesInv, TreeInv, BasicInv, TypeOK
  <2>5. HasTree(of[l], l)'
    BY <1>2, <2>2, <2>3 DEF HasTree
  <2> QED BY <1>1, <1>2, <1>6, <2>2, <2>3, <2>4, <2>5, GoesTrees DEF Created, Phases
<1>7. CASE Installed(l)
  <2>1. CASE l \notin aborted
    <3>1. /\ phase'[l] = "executing" /\ UNCHANGED <<rows, dir, of>>
          /\ operation'[of[l]] = "none"
          /\ \A q \in Runs \ {of[l]} : operation'[q] = operation[q]
      BY <1>2, <1>7, <2>1 DEF Installed, Goes, BasicInv, TypeOK
    <3>2. HasTree(of[l], l)'
      BY <1>2, <1>7, <3>1 DEF HasTree, Installed
    <3> QED BY <1>1, <1>7, <2>1, <3>1, <3>2, GoesTrees DEF Installed, Phases
  <2>2. CASE l \in aborted
    BY <1>1, <1>7, <2>2, EarlyRow, OverTrees DEF Installed
  <2> QED BY <2>1, <2>2
<1>8. CASE LeaveQueue(l)
  BY <1>1, <1>2, <1>3, <1>8, OverTrees DEF LeaveQueue
<1>9. CASE SetupStops(l)
  BY <1>1, <1>2, <1>9, EarlyRow, OverTrees DEF SetupStops
<1>10. CASE CreationFails(l)
  BY <1>1, <1>10, EarlyRow, OverTrees DEF CreationFails
<1>11. CASE InstallFails(l)
  BY <1>1, <1>11, EarlyRow, OverTrees DEF InstallFails
<1>12. CASE BeginThrows(l)
  BY <1>1, <1>12 DEF BeginThrows, KeyIsTaken, HttpInv, RegInv, Live
<1> QED BY <1>4, <1>5, <1>6, <1>7, <1>8, <1>9, <1>10, <1>11, <1>12 DEF Prepares

LEMMA WorksTrees ==
    ASSUME BasicInv, HttpInv, TreesInv, NEW l \in Launches,
           \/ NodeDone(l) \/ CancelNode(l) \/ Cleanup(l) \/ Ends(l)
           \/ \E g \in Gates : Ask(l, g)
    PROVE  TreesInv'
<1>1. Live(l) /\ phase[l] \in {"executing", "ending"}
  BY DEF NodeDone, CancelNode, Cleanup, Ends, ExecutionEnds, RunDone, Ask, Live
<1>2. /\ of[l] \in Runs /\ active[of[l]] = l /\ l # NoLaunch /\ rows[of[l]] # NoRow
      /\ rows[of[l]] \in Row /\ HasTree(of[l], l) /\ operation[of[l]] = "none"
  BY <1>1, LiveTree
<1>3. CASE NodeDone(l) \/ CancelNode(l) \/ \E g \in Gates : Ask(l, g)
  <2>1. \/ rows' = [rows EXCEPT ![of[l]] = [rows[of[l]] EXCEPT !.ran = TRUE]]
        \/ rows' = [rows EXCEPT ![of[l]] = [rows[of[l]] EXCEPT !.status = "cancelled"]]
        \/ rows' = [rows EXCEPT ![of[l]] =
                         [rows[of[l]] EXCEPT !.status = "paused", !.ran = TRUE]]
    <3>1. CASE NodeDone(l)
      BY <3>1 DEF NodeDone
    <3>2. CASE CancelNode(l)
      BY <1>2, <3>2 DEF CancelNode, Closed
    <3>3. CASE \E g \in Gates : Ask(l, g)
      BY <1>2, <3>3 DEF Ask
    <3> QED BY <1>3, <3>1, <3>2, <3>3
  <2>2. /\ rows'[of[l]].path = rows[of[l]].path /\ rows'[of[l]].pruned = rows[of[l]].pruned
        /\ \A q \in Runs \ {of[l]} : rows'[q] = rows[q]
    <3>1. ASSUME NEW row, rows' = [rows EXCEPT ![of[l]] = row]
          PROVE  rows'[of[l]] = row /\ \A q \in Runs \ {of[l]} : rows'[q] = rows[q]
      BY <1>2, <3>1 DEF BasicInv, TypeOK
    <3>2. ASSUME NEW row \in Row
          PROVE  /\ [row EXCEPT !.ran = TRUE].path = row.path
                 /\ [row EXCEPT !.ran = TRUE].pruned = row.pruned
                 /\ [row EXCEPT !.status = "cancelled"].path = row.path
                 /\ [row EXCEPT !.status = "cancelled"].pruned = row.pruned
                 /\ [row EXCEPT !.status = "paused", !.ran = TRUE].path = row.path
                 /\ [row EXCEPT !.status = "paused", !.ran = TRUE].pruned = row.pruned
      BY DEF Row
    <3>3. CASE rows' = [rows EXCEPT ![of[l]] = [rows[of[l]] EXCEPT !.ran = TRUE]]
      BY <1>2, <3>1, <3>2, <3>3
    <3>4. CASE rows' = [rows EXCEPT ![of[l]] = [rows[of[l]] EXCEPT !.status = "cancelled"]]
      BY <1>2, <3>1, <3>2, <3>4
    <3>5. CASE rows' = [rows EXCEPT ![of[l]] =
                            [rows[of[l]] EXCEPT !.status = "paused", !.ran = TRUE]]
      BY <1>2, <3>1, <3>2, <3>5
    <3> QED BY <2>1, <3>3, <3>4, <3>5
  <2>3. UNCHANGED <<dir, operation, active, of, phase>>
    BY <1>3 DEF NodeDone, CancelNode, Ask, launchVars
  <2> QED BY <1>2, <2>2, <2>3, QuietTrees DEF RowKept
<1>4. CASE Cleanup(l)
  <2>1. /\ rows'[of[l]].pruned = rows[of[l]].pruned /\ dir' = dir \ {of[l]}
        /\ \A q \in Runs \ {of[l]} : rows'[q] = rows[q]
        /\ phase[l] = "ending" /\ UNCHANGED <<operation, active, of, phase>>
    BY <1>2, <1>4 DEF Cleanup, BasicInv, TypeOK, Row, launchVars
  <2>2. TreeInv(of[l])'
    BY <1>2, <2>1 DEF TreeInv, HasTree
  <2> QED BY <1>2, <2>1, <2>2, OtherTrees
<1>5. ASSUME NEW status \in Terminal, ExecutionEnds(l, status)
      PROVE  TreesInv'
  <2>1. phase'[l] = "ending" /\ UNCHANGED <<rows, dir, operation, of>>
    BY <1>5 DEF ExecutionEnds, Goes, BasicInv, TypeOK
  <2>2. HasTree(of[l], l)'
    BY <1>2, <2>1 DEF HasTree
  <2> QED BY <1>1, <1>2, <1>5, <2>1, <2>2, GoesTrees DEF ExecutionEnds, Phases
<1>6. CASE RunDone(l)
  <2>1. outcome[l] \in Terminal
    BY <1>6 DEF RunDone, BasicInv, LaunchInv
  <2>2. Closed(of[l], outcome[l]) \in Row
    BY <1>2, <2>1, ClosedRow DEF BasicInv, TypeOK
  <2> QED BY <1>1, <1>2, <1>6, <2>2, OverTrees DEF RunDone
<1> QED BY <1>3, <1>4, <1>5, <1>6 DEF Ends

LEMMA PrunesTrees ==
    ASSUME BasicInv, HttpInv, TreesInv, NEW r \in Runs, Prunes(r)
    PROVE  TreesInv'
<1>1. operation[r] \in {"list", "listForced", "remove", "removeForGood"} /\ active[r] = NoLaunch
  BY DEF Prunes, PruneMarks, PruneRefuses, PruneEnds, PruneFails, TreesInv, TreeInv
<1>2. /\ UNCHANGED <<active, of, phase>> /\ dir' \in {dir, dir \ {r}}
      /\ \A q \in Runs \ {r} : rows'[q] = rows[q] /\ operation'[q] = operation[q]
  BY DEF Prunes, PruneMarks, PruneRefuses, PruneEnds, PruneFails, launchVars, BasicInv, TypeOK
<1>3. operation'[r] \in {"none", "remove", "removeForGood"}
  BY DEF Prunes, PruneMarks, PruneRefuses, PruneEnds, PruneFails, BasicInv, TypeOK
<1>4. CASE PruneMarks(r)
  <2>1. rows'[r] = [rows[r] EXCEPT !.pruned = rows[r] # NoRow]
    BY <1>4 DEF PruneMarks, BasicInv, TypeOK
  <2>2. rows[r] = NoRow => rows'[r] = NoRow
    <3>1. NoRow = [NoRow EXCEPT !.pruned = NoRow.pruned]
      BY NoRowRow DEF Row
    <3> QED BY <2>1, <3>1 DEF NoRow
  <2>3. rows[r].path => rows'[r].path
    BY <2>1 DEF BasicInv, TypeOK, Row
  <2>4. TreeInv(r)'
    BY <1>1, <1>2, <1>3, <2>2, <2>3 DEF TreesInv, TreeInv
  <2> QED BY <1>2, <2>4, OtherTrees
<1>5. CASE PruneRefuses(r) \/ PruneEnds(r) \/ PruneFails(r)
  <2>1. operation'[r] = "none"
    BY <1>5 DEF PruneRefuses, PruneEnds, PruneFails, BasicInv, TypeOK
  <2>2. TreeInv(r)'
    BY <1>1, <1>2, <2>1 DEF TreeInv
  <2> QED BY <1>2, <2>2, OtherTrees
<1> QED BY <1>4, <1>5 DEF Prunes

LEMMA CrashTrees ==
    ASSUME CrashAndBoot
    PROVE  TreesInv'
BY DEF CrashAndBoot, TreesInv, TreeInv

LEMMA StepTrees ==
    ASSUME Entrances \subseteq {"http"}, Forces \subseteq {FALSE}
    PROVE  BasicInv /\ HttpInv /\ TreesInv /\ [Next]_vars => TreesInv'
<1> SUFFICES ASSUME BasicInv, HttpInv, TreesInv, [Next]_vars
             PROVE  TreesInv'
  OBVIOUS
<1>1. CASE UNCHANGED vars
  <2>1. \A r \in Runs : RowKept(r)
    BY <1>1 DEF RowKept, vars
  <2> QED BY <1>1, <2>1, QuietTrees DEF vars, launchVars
<1>2. CASE Next
  BY <1>2, RequestsTrees, PreparesTrees, WorksTrees, PrunesTrees, CrashTrees DEF Next
<1> QED BY <1>1, <1>2

\* Nobody prunes the worktree a launch works in, as long as no prune is forced,
\* and a launch that executes has one.
THEOREM WorktreesAreKept ==
    ASSUME Entrances \subseteq {"http"}, Forces \subseteq {FALSE}
    PROVE  Spec => []WorksInItsWorktree
<1>1. Init => BasicInv /\ HttpInv /\ TreesInv
  BY InitBasic, InitHttp, InitTrees
<1>2. (BasicInv /\ HttpInv /\ TreesInv) /\ [Next]_vars => (BasicInv /\ HttpInv /\ TreesInv)'
  BY StepBasic, StepHttp, StepTrees
<1>3. BasicInv /\ HttpInv /\ TreesInv => WorksInItsWorktree
  <2> SUFFICES ASSUME BasicInv, HttpInv, TreesInv, NEW l \in Launches,
                      phase[l] = "executing", of[l] \in Isolated
               PROVE  of[l] \in dir /\ rows[of[l]].path /\ ~rows[of[l]].pruned
    BY DEF WorksInItsWorktree
  <2> QED BY LiveTree DEF HasTree, Live
<1> QED BY <1>1, <1>2, <1>3, PTL DEF Spec
=============================================================================
