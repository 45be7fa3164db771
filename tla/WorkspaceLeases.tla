-------------------------- MODULE WorkspaceLeases --------------------------
(***************************************************************************)
(* createWorkspaceManager (apps/server/src/workspace-manager.ts) over its  *)
(* store (workspace-lease-store.ts): git worktrees leased to ribs and      *)
(* tools, and what a crash leaves of them for the next boot.               *)
(*                                                                         *)
(* A lease row names its checkout by path, and the paths of rows are       *)
(* unique.  Runs, and people, keep checkouts of their own at paths a lease *)
(* may ask for.  Branches, and checkouts that git no longer has registered,*)
(* are left out.                                                           *)
(***************************************************************************)
EXTENDS Naturals

CONSTANTS
    Leases,     \* the leases that may be acquired
    Paths       \* where their checkouts may stand

ASSUME LeasesAssumption == {"free", "other"} \cap Leases = {}

VARIABLES
    pathOf,         \* the path of each lease
    leaseRows,      \* the lease table: none, pending or active
    site,           \* who made the checkout at a path: a lease, other, or free
    stepOf,         \* how far the call that works on a lease is
    booting         \* rows reconcile() has still to look at; the server serves nobody

leaseVars == <<pathOf, leaseRows, site, stepOf, booting>>

LeaseTypeOK ==
    /\ pathOf \in [Leases -> Paths]
    /\ leaseRows \in [Leases -> {"none", "pending", "active"}]
    /\ site \in [Paths -> Leases \cup {"free", "other"}]
    /\ stepOf \in [Leases -> {"idle", "fetching", "installing", "cleaning", "cleaned",
                            "releasing", "released"}]
    /\ booting \in SUBSET Leases

LeaseInit ==
    /\ pathOf \in [Leases -> Paths]
    /\ leaseRows = [l \in Leases |-> "none"]
    /\ site = [p \in Paths |-> "free"]
    /\ stepOf = [l \in Leases |-> "idle"]
    /\ booting = {}

Goes(l, s) == stepOf' = [stepOf EXCEPT ![l] = s]
Row(l, status) == leaseRows' = [leaseRows EXCEPT ![l] = status]
Stands(l) == site[pathOf[l]] # "free"
Serving == booting = {}

-----------------------------------------------------------------------------
(* acquire()                                                               *)

\* The row comes first; the insert throws if another row has the path.
InsertLease(l) ==
    /\ Serving
    /\ stepOf[l] = "idle" /\ leaseRows[l] = "none"
    /\ \A m \in Leases : leaseRows[m] # "none" => pathOf[m] # pathOf[l]
    /\ Row(l, "pending")
    /\ Goes(l, "fetching")
    /\ UNCHANGED <<pathOf, site, booting>>

\* git fetch, then git worktree add.
AddWorktree(l) ==
    /\ stepOf[l] = "fetching"
    /\ ~Stands(l)
    /\ site' = [site EXCEPT ![pathOf[l]] = l]
    /\ Goes(l, "installing")
    /\ UNCHANGED <<pathOf, leaseRows, booting>>

\* A bug to catch: a checkout that already stands there is taken for the lease's.
AddFails_Adopts(l) ==
    /\ stepOf[l] = "fetching"
    /\ Goes(l, "cleaning")
    /\ UNCHANGED <<pathOf, leaseRows, site, booting>>

\* git refuses, or somebody's checkout stands there: nothing is prepared, and the
\* row goes.
AddFails(l) ==
    /\ stepOf[l] = "fetching"
    /\ Row(l, "none")
    /\ Goes(l, "idle")
    /\ UNCHANGED <<pathOf, site, booting>>

DepsInstalled(l) ==
    /\ stepOf[l] = "installing"
    /\ Row(l, "active")
    /\ Goes(l, "idle")
    /\ UNCHANGED <<pathOf, site, booting>>

DepsFail(l) ==
    /\ stepOf[l] = "installing"
    /\ Goes(l, "cleaning")
    /\ UNCHANGED <<pathOf, leaseRows, site, booting>>

\* A bug to catch: the row goes first.
CleanUp_RowFirst(l) ==
    /\ stepOf[l] = "cleaning"
    /\ Row(l, "none")
    /\ Goes(l, "cleaned")
    /\ UNCHANGED <<pathOf, site, booting>>

\* git worktree remove --force; if it fails the row stays, for a release to retry.
CleanUp(l) ==
    /\ stepOf[l] = "cleaning"
    /\ \/ site' = [site EXCEPT ![pathOf[l]] = "free"] /\ Goes(l, "cleaned")
       \/ UNCHANGED site /\ Goes(l, "idle")
    /\ UNCHANGED <<pathOf, leaseRows, booting>>

CleanedUp(l) ==
    /\ stepOf[l] = "cleaned"
    /\ Row(l, "none")
    /\ Goes(l, "idle")
    /\ UNCHANGED <<pathOf, site, booting>>

-----------------------------------------------------------------------------
(* release(): refused while the acquisition is pending in this process; a  *)
(* second call joins the first.                                            *)

Release(l) ==
    /\ Serving
    /\ stepOf[l] = "idle" /\ leaseRows[l] # "none"
    /\ Goes(l, IF Stands(l) THEN "releasing" ELSE "released")
    /\ UNCHANGED <<pathOf, leaseRows, site, booting>>

\* A failure to remove the checkout keeps the row.
RemoveReleased(l) ==
    /\ stepOf[l] = "releasing"
    /\ \/ site' = [site EXCEPT ![pathOf[l]] = "free"] /\ Goes(l, "released")
       \/ UNCHANGED site /\ Goes(l, "idle")
    /\ UNCHANGED <<pathOf, leaseRows, booting>>

Released(l) ==
    /\ stepOf[l] = "released"
    /\ Row(l, "none")
    /\ Goes(l, "idle")
    /\ UNCHANGED <<pathOf, site, booting>>

-----------------------------------------------------------------------------
(* Crash and reconcile(), which boot awaits before it serves               *)

CrashLeases ==
    /\ stepOf' = [l \in Leases |-> "idle"]
    /\ booting' = {l \in Leases : leaseRows[l] # "none"}
    /\ UNCHANGED <<pathOf, leaseRows, site>>

\* A pending row is a crashed acquisition: what stands at its path is removed.
ReconcilePending(l) ==
    /\ l \in booting /\ leaseRows[l] = "pending"
    /\ \/ site' = [site EXCEPT ![pathOf[l]] = "free"] /\ Row(l, "none")
       \/ Stands(l) /\ UNCHANGED <<leaseRows, site>>        \* git refuses: the row stays
    /\ booting' = booting \ {l}
    /\ UNCHANGED <<pathOf, stepOf>>

\* The row of a vanished checkout goes.
ReconcileActive(l) ==
    /\ l \in booting /\ leaseRows[l] = "active"
    /\ IF Stands(l) THEN UNCHANGED leaseRows ELSE Row(l, "none")
    /\ booting' = booting \ {l}
    /\ UNCHANGED <<pathOf, site, stepOf>>

-----------------------------------------------------------------------------
(* Checkouts of others: runs' worktrees, and what people do by hand.       *)

OthersCheckout(p) ==
    /\ \/ site[p] = "free" /\ site' = [site EXCEPT ![p] = "other"]
       \/ site[p] = "other" /\ site' = [site EXCEPT ![p] = "free"]
    /\ UNCHANGED <<pathOf, leaseRows, stepOf, booting>>

HolderRemoves(l) ==
    /\ stepOf[l] = "idle" /\ leaseRows[l] = "active"
    /\ site[pathOf[l]] = l
    /\ site' = [site EXCEPT ![pathOf[l]] = "free"]
    /\ UNCHANGED <<pathOf, leaseRows, stepOf, booting>>

Acquisition(l) ==
    \/ InsertLease(l) \/ AddWorktree(l) \/ AddFails(l) \/ DepsInstalled(l)
    \/ DepsFail(l) \/ CleanUp(l) \/ CleanedUp(l)

LeaseNext ==
    \/ \E l \in Leases :
        \/ Acquisition(l)
        \/ Release(l) \/ RemoveReleased(l) \/ Released(l)
        \/ ReconcilePending(l) \/ ReconcileActive(l)
        \/ HolderRemoves(l)
    \/ CrashLeases
    \/ \E p \in Paths : OthersCheckout(p)

LeaseSpec == LeaseInit /\ [][LeaseNext]_leaseVars

-----------------------------------------------------------------------------
(* Properties.                                                             *)

\* Wherever an acquisition, a release or a boot is cut short or fails, the
\* checkout it made has a row that names it, so that somebody can release it.
CheckoutsAreTracked ==
    \A l \in Leases : site[pathOf[l]] = l => leaseRows[l] # "none"

SparesOthers ==
    \A l \in Leases :
        /\ stepOf[l] \in {"fetching", "installing", "cleaning", "cleaned"}
        /\ stepOf'[l] # stepOf[l] /\ site[pathOf[l]] = "other"
        => site'[pathOf[l]] = "other"

\* Until boot or a release comes to it, an acquisition leaves alone what others
\* have at its path, however it fails.
OthersAreSpared == [][SparesOthers]_leaseVars

\* Boot removes the half-prepared checkouts of crashed acquisitions, and no
\* other owner's checkout.
BootSparesOthers ==
    [][\A p \in Paths : booting # {} /\ booting' # booting /\ site[p] = "other"
        => site'[p] = "other"]_leaseVars
=============================================================================
