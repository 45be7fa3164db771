-------------------------- MODULE Registries_proofs --------------------------
(***************************************************************************)
(* What the server's registries keep, for any number of their entries:     *)
(*   WorkspaceLeases   no checkout is left without a row, and an           *)
(*                     acquisition removes nothing but its own;            *)
(*   OpRegistry        an operation has one verdict, and its frames end    *)
(*                     with it;                                            *)
(*   ApprovalRegistry  an ask is decided once, and not after its turn;     *)
(*   BoundKey          the board of a bound workflow never goes back.      *)
(* And what is proved of a service alone, here and in the modules this one *)
(* extends, holds of it in MCServices, which puts ten of them side by side. *)
(***************************************************************************)
EXTENDS MCServices, RunSlots_proofs, Turns_proofs, Views_proofs

-----------------------------------------------------------------------------
(* WorkspaceLeases                                                         *)

\* The row a call works on stays while it works: nobody but the call touches it,
\* and boot looks at rows when no call is under way.
RowsOfCalls ==
    /\ \A l \in Leases :
        /\ stepOf[l] \in {"fetching", "installing", "cleaning", "cleaned"} =>
               leaseRows[l] = "pending"
        /\ stepOf[l] \in {"releasing", "released"} => leaseRows[l] # "none"
    /\ booting # {} => \A l \in Leases : stepOf[l] = "idle"

\* UNIQUE(path) of the lease table.
PathsOfRowsDiffer ==
    \A l, m \in Leases :
        leaseRows[l] # "none" /\ leaseRows[m] # "none" /\ pathOf[l] = pathOf[m] => l = m

\* What stands at the path of a lease, at each step of its call.
SitesOfCalls ==
    /\ \A p \in Paths : \A l \in Leases : site[p] = l => pathOf[l] = p
    /\ \A l \in Leases :
        /\ stepOf[l] \in {"installing", "cleaning"} => site[pathOf[l]] = l
        /\ stepOf[l] \in {"fetching", "cleaned", "released"} => site[pathOf[l]] # l

LeaseInv ==
    LeaseTypeOK /\ RowsOfCalls /\ PathsOfRowsDiffer /\ SitesOfCalls /\ CheckoutsAreTracked

-----------------------------------------------------------------------------

LEMMA LeaseInitInv == LeaseInit => LeaseInv
BY LeasesAssumption
   DEF LeaseInit, LeaseInv, LeaseTypeOK, RowsOfCalls, PathsOfRowsDiffer, SitesOfCalls,
       CheckoutsAreTracked

LEMMA InsertLeaseInv ==
    ASSUME LeaseInv, NEW l \in Leases, InsertLease(l)
    PROVE  LeaseInv'
BY LeasesAssumption
   DEF LeaseInv, LeaseTypeOK, RowsOfCalls, PathsOfRowsDiffer, SitesOfCalls, CheckoutsAreTracked,
       InsertLease, Goes, Row, Serving

LEMMA AddWorktreeInv ==
    ASSUME LeaseInv, NEW l \in Leases, AddWorktree(l)
    PROVE  LeaseInv'
BY LeasesAssumption
   DEF LeaseInv, LeaseTypeOK, RowsOfCalls, PathsOfRowsDiffer, SitesOfCalls, CheckoutsAreTracked,
       AddWorktree, Goes, Stands

LEMMA AddFailsInv ==
    ASSUME LeaseInv, NEW l \in Leases, AddFails(l)
    PROVE  LeaseInv'
BY LeasesAssumption
   DEF LeaseInv, LeaseTypeOK, RowsOfCalls, PathsOfRowsDiffer, SitesOfCalls, CheckoutsAreTracked,
       AddFails, Goes, Row

LEMMA DepsInv ==
    ASSUME LeaseInv, NEW l \in Leases, DepsInstalled(l) \/ DepsFail(l)
    PROVE  LeaseInv'
BY LeasesAssumption
   DEF LeaseInv, LeaseTypeOK, RowsOfCalls, PathsOfRowsDiffer, SitesOfCalls, CheckoutsAreTracked,
       DepsInstalled, DepsFail, Goes, Row

LEMMA CleanUpInv ==
    ASSUME LeaseInv, NEW l \in Leases, CleanUp(l)
    PROVE  LeaseInv'
BY LeasesAssumption
   DEF LeaseInv, LeaseTypeOK, RowsOfCalls, PathsOfRowsDiffer, SitesOfCalls, CheckoutsAreTracked,
       CleanUp, Goes

LEMMA RemoveReleasedInv ==
    ASSUME LeaseInv, NEW l \in Leases, RemoveReleased(l)
    PROVE  LeaseInv'
BY LeasesAssumption
   DEF LeaseInv, LeaseTypeOK, RowsOfCalls, PathsOfRowsDiffer, SitesOfCalls, CheckoutsAreTracked,
       RemoveReleased, Goes

LEMMA ReleaseInv ==
    ASSUME LeaseInv, NEW l \in Leases, Release(l)
    PROVE  LeaseInv'
BY LeasesAssumption
   DEF LeaseInv, LeaseTypeOK, RowsOfCalls, PathsOfRowsDiffer, SitesOfCalls, CheckoutsAreTracked,
       Release, Goes, Serving, Stands

\* The row goes after the checkout, whichever call ends with it.
LEMMA CallEndsInv ==
    ASSUME LeaseInv, NEW l \in Leases, CleanedUp(l) \/ Released(l)
    PROVE  LeaseInv'
BY LeasesAssumption
   DEF LeaseInv, LeaseTypeOK, RowsOfCalls, PathsOfRowsDiffer, SitesOfCalls, CheckoutsAreTracked,
       CleanedUp, Released, Goes, Row

LEMMA ReconcileInv ==
    ASSUME LeaseInv, NEW l \in Leases, ReconcilePending(l) \/ ReconcileActive(l)
    PROVE  LeaseInv'
BY LeasesAssumption
   DEF LeaseInv, LeaseTypeOK, RowsOfCalls, PathsOfRowsDiffer, SitesOfCalls, CheckoutsAreTracked,
       ReconcilePending, ReconcileActive, Row, Stands

LEMMA CrashInv ==
    ASSUME LeaseInv, CrashLeases
    PROVE  LeaseInv'
BY DEF LeaseInv, LeaseTypeOK, RowsOfCalls, PathsOfRowsDiffer, SitesOfCalls,
       CheckoutsAreTracked, CrashLeases

LEMMA HolderRemovesInv ==
    ASSUME LeaseInv, NEW l \in Leases, HolderRemoves(l)
    PROVE  LeaseInv'
BY LeasesAssumption
   DEF LeaseInv, LeaseTypeOK, RowsOfCalls, PathsOfRowsDiffer, SitesOfCalls, CheckoutsAreTracked,
       HolderRemoves

LEMMA OthersCheckoutInv ==
    ASSUME LeaseInv, NEW p \in Paths, OthersCheckout(p)
    PROVE  LeaseInv'
BY LeasesAssumption
   DEF LeaseInv, LeaseTypeOK, RowsOfCalls, PathsOfRowsDiffer, SitesOfCalls, CheckoutsAreTracked,
       OthersCheckout

LEMMA LeaseInvInductive == LeaseInv /\ [LeaseNext]_leaseVars => LeaseInv'
<1> SUFFICES ASSUME LeaseInv, [LeaseNext]_leaseVars PROVE LeaseInv'
  OBVIOUS
<1>1. ASSUME NEW l \in Leases, Acquisition(l) PROVE LeaseInv'
  BY <1>1, InsertLeaseInv, AddWorktreeInv, AddFailsInv, DepsInv, CleanUpInv, CallEndsInv
     DEF Acquisition
<1>2. ASSUME NEW l \in Leases, Release(l) \/ RemoveReleased(l) \/ Released(l) PROVE LeaseInv'
  BY <1>2, ReleaseInv, RemoveReleasedInv, CallEndsInv
<1>3. ASSUME NEW l \in Leases, ReconcilePending(l) \/ ReconcileActive(l) PROVE LeaseInv'
  BY <1>3, ReconcileInv
<1>4. ASSUME NEW l \in Leases, HolderRemoves(l) PROVE LeaseInv'
  BY <1>4, HolderRemovesInv
<1>5. CASE CrashLeases
  BY <1>5, CrashInv
<1>6. ASSUME NEW p \in Paths, OthersCheckout(p) PROVE LeaseInv'
  BY <1>6, OthersCheckoutInv
<1>7. CASE UNCHANGED leaseVars
  BY <1>7 DEF leaseVars, LeaseInv, LeaseTypeOK, RowsOfCalls, PathsOfRowsDiffer, SitesOfCalls,
              CheckoutsAreTracked
<1> QED
  BY <1>1, <1>2, <1>3, <1>4, <1>5, <1>6, <1>7 DEF LeaseNext

-----------------------------------------------------------------------------

\* Every state of the leases is of its type, whatever the leases and paths.
THEOREM LeaseTypeCorrect == LeaseSpec => []LeaseTypeOK
<1>1. LeaseInv => LeaseTypeOK
  BY DEF LeaseInv
<1> QED
  BY <1>1, LeaseInitInv, LeaseInvInductive, PTL DEF LeaseSpec

\* However acquisitions, releases and boots are cut short or fail, no checkout that
\* a lease made is without a row that names it.
THEOREM NoCheckoutIsLost == LeaseSpec => []CheckoutsAreTracked
<1>1. LeaseInv => CheckoutsAreTracked
  BY DEF LeaseInv
<1> QED
  BY <1>1, LeaseInitInv, LeaseInvInductive, PTL DEF LeaseSpec

\* An acquisition under way leaves alone what others have at its path: when it comes
\* to remove a checkout, the one that stands there is its own.
THEOREM AcquisitionsSpareOthers == LeaseSpec => OthersAreSpared
<1>1. ASSUME LeaseInv, LeaseNext PROVE SparesOthers
  <2> SUFFICES ASSUME NEW l \in Leases,
                      stepOf[l] \in {"fetching", "installing", "cleaning", "cleaned"},
                      stepOf'[l] # stepOf[l], site[pathOf[l]] = "other"
               PROVE  site'[pathOf[l]] = "other"
    BY DEF SparesOthers
  <2>1. stepOf[l] \in {"fetching", "cleaned"}
    BY <1>1, LeasesAssumption DEF LeaseInv, SitesOfCalls
  <2>2. booting = {}
    BY <1>1, <2>1 DEF LeaseInv, RowsOfCalls
  <2>3. ASSUME NEW m \in Leases, Acquisition(m) PROVE site' = site \/ m # l
    BY <1>1, <2>1, <2>3
       DEF LeaseInv, LeaseTypeOK, Acquisition, InsertLease, AddWorktree, AddFails,
           DepsInstalled, DepsFail, CleanUp, CleanedUp, Goes, Stands
  <2>4. ASSUME NEW m \in Leases, m # l,
               Acquisition(m) \/ Release(m) \/ RemoveReleased(m) \/ Released(m)
        PROVE  FALSE
    BY <1>1, <2>4
       DEF LeaseInv, LeaseTypeOK, Acquisition, InsertLease, AddWorktree, AddFails,
           DepsInstalled, DepsFail, CleanUp, CleanedUp, Release, RemoveReleased, Released,
           Goes
  <2>5. ASSUME NEW m \in Leases, Release(m) \/ RemoveReleased(m) \/ Released(m)
        PROVE  m # l
    BY <2>1, <2>5 DEF Release, RemoveReleased, Released
  <2>6. ASSUME NEW m \in Leases, ReconcilePending(m) \/ ReconcileActive(m) PROVE FALSE
    BY <2>2, <2>6 DEF ReconcilePending, ReconcileActive
  <2>7. ASSUME NEW m \in Leases, HolderRemoves(m) PROVE FALSE
    BY <2>7 DEF HolderRemoves
  <2>8. CASE CrashLeases
    BY <2>8 DEF CrashLeases
  <2>9. ASSUME NEW p \in Paths, OthersCheckout(p) PROVE FALSE
    BY <2>9 DEF OthersCheckout
  <2> QED
    BY <1>1, <2>3, <2>4, <2>5, <2>6, <2>7, <2>8, <2>9 DEF LeaseNext
<1>2. ASSUME LeaseInv, [LeaseNext]_leaseVars PROVE [SparesOthers]_leaseVars
  BY <1>1, <1>2
<1> QED
  BY <1>2, LeaseInitInv, LeaseInvInductive, PTL DEF LeaseSpec, OthersAreSpared

-----------------------------------------------------------------------------
(* OpRegistry                                                              *)

OpKinds == {"log", "done", "error"}

OpShapes ==
    /\ opRows \in [Ops -> {"none", "running", "done", "error", "cancelled", "orphaned"}]
    /\ frames \in [Ops -> Seq(OpKinds)]
    /\ live \in Seq(Ops)
    /\ rest \in Seq(Ops)

\* A controller stands for a running row; drain() has rows to visit that were running
\* when it began.
LiveInv ==
    /\ \A i, j \in DOMAIN live : live[i] = live[j] => i = j
    /\ \A i \in DOMAIN live : opRows[live[i]] = "running"
    /\ \A i \in DOMAIN rest : opRows[rest[i]] \notin {"none", "orphaned"}
    /\ rest # <<>> => closed

\* The row and the frames of one operation.
Agree(status, kinds) ==
    /\ status \in {"none", "running", "orphaned"} => Verdicts(kinds) = {}
    /\ status = "done" => Verdicts(kinds) # {} /\ FirstVerdict(kinds) = {"done"}
    /\ status \in {"error", "cancelled"} =>
           Verdicts(kinds) # {} /\ FirstVerdict(kinds) = {"error"}

OpInv == OpShapes /\ LiveInv /\ \A o \in Ops : Agree(opRows[o], frames[o])

\* A frame that is no verdict changes none, and one behind a verdict is not the first.
LEMMA VerdictsOfAppend ==
    ASSUME NEW kinds \in Seq(OpKinds), NEW kind \in OpKinds
    PROVE  /\ kind = "log" => Verdicts(Append(kinds, kind)) = Verdicts(kinds)
                              /\ FirstVerdict(Append(kinds, kind)) = FirstVerdict(kinds)
           /\ kind # "log" => Verdicts(Append(kinds, kind)) # {}
           /\ kind # "log" /\ Verdicts(kinds) = {} =>
                  FirstVerdict(Append(kinds, kind)) = {kind}
           /\ Verdicts(kinds) # {} =>
                  FirstVerdict(Append(kinds, kind)) = FirstVerdict(kinds)
<1> DEFINE more == Append(kinds, kind)
           n == Len(kinds)
<1>1. /\ n \in Nat
      /\ DOMAIN kinds = 1 .. n /\ DOMAIN more = 1 .. n + 1
      /\ \A i \in 1 .. n : more[i] = kinds[i]
      /\ more[n + 1] = kind
  BY AppendProperties, LenProperties
<1> HIDE DEF more, n
<1>2. Verdicts(more) = IF kind = "log" THEN Verdicts(kinds) ELSE Verdicts(kinds) \cup {n + 1}
  BY <1>1 DEF Verdicts
<1>3. Verdicts(kinds) \subseteq 1 .. n
  BY <1>1 DEF Verdicts
<1>4. CASE kind = "log"
  BY <1>1, <1>2, <1>3, <1>4 DEF FirstVerdict, more
<1>5. CASE kind # "log" /\ Verdicts(kinds) = {}
  BY <1>1, <1>2, <1>5 DEF FirstVerdict, more
<1>6. CASE kind # "log" /\ Verdicts(kinds) # {}
  <2>1. {i \in Verdicts(more) : \A j \in Verdicts(more) : i <= j}
            = {i \in Verdicts(kinds) : \A j \in Verdicts(kinds) : i <= j}
    BY <1>1, <1>2, <1>3, <1>6
  <2>2. FirstVerdict(more) = FirstVerdict(kinds)
    BY <1>1, <1>3, <2>1 DEF FirstVerdict
  <2> QED
    BY <1>2, <1>6, <2>2 DEF more
<1> QED
  BY <1>4, <1>5, <1>6

\* Without(o) drops o and keeps the others.
LEMMA WithoutOne ==
    ASSUME OpShapes, LiveInv, NEW o \in Ops
    PROVE  /\ Without(o) \in Seq(Ops)
           /\ \A i, j \in DOMAIN Without(o) : Without(o)[i] = Without(o)[j] => i = j
           /\ \A i \in DOMAIN Without(o) :
                  Without(o)[i] # o /\ \E j \in DOMAIN live : Without(o)[i] = live[j]
<1>1. DOMAIN live = 1 .. Len(live) /\ Len(live) \in Nat
  BY LenProperties DEF OpShapes
<1>2. CASE ~IsLive(o)
  BY <1>2 DEF Without, IsLive, ToSet, OpShapes, LiveInv
<1>3. CASE IsLive(o)
  <2> DEFINE k == CHOOSE i \in DOMAIN live : live[i] = o
             left == RemoveAt(live, k)
  <2>1. k \in 1 .. Len(live) /\ live[k] = o
    BY <1>1, <1>3 DEF IsLive, ToSet
  <2> HIDE DEF k
  <2>2. /\ left \in Seq(Ops)
        /\ Len(left) = Len(live) - 1
        /\ \A j \in 1 .. Len(live) - 1 : left[j] = IF j < k THEN live[j] ELSE live[j + 1]
    BY <2>1, RemoveAtProperties DEF OpShapes
  <2>3. Without(o) = left
    BY <1>3 DEF Without, k
  <2> HIDE DEF left
  <2>4. DOMAIN left = 1 .. Len(live) - 1
    BY <2>2, LenProperties
  <2>5. ASSUME NEW i \in DOMAIN left
        PROVE  \E j \in DOMAIN live :
                   left[i] = live[j] /\ j # k /\ j = IF i < k THEN i ELSE i + 1
    BY <1>1, <2>1, <2>2, <2>4
  <2>6. ASSUME NEW i \in DOMAIN left PROVE left[i] # o
    BY <2>1, <1>1, <2>5 DEF LiveInv
  <2>7. ASSUME NEW i \in DOMAIN left, NEW j \in DOMAIN left, left[i] = left[j] PROVE i = j
    BY <1>1, <2>1, <2>4, <2>5, <2>7 DEF LiveInv
  <2> QED
    BY <2>2, <2>3, <2>5, <2>6, <2>7
<1> QED
  BY <1>2, <1>3

\* A frame for an operation that runs.
LEMMA LoggedOp ==
    ASSUME OpInv, NEW o \in Ops, opRows[o] = "running", AppendEvent(o, "log"), UNCHANGED opRows
    PROVE  frames' \in [Ops -> Seq(OpKinds)] /\ \A p \in Ops : Agree(opRows'[p], frames'[p])
<1>1. frames[o] \in Seq(OpKinds) /\ "log" \in OpKinds
  BY DEF OpInv, OpShapes, OpKinds
<1>2. /\ frames'[o] = Append(frames[o], "log") /\ \A p \in Ops \ {o} : frames'[p] = frames[p]
      /\ frames' \in [Ops -> Seq(OpKinds)]
  BY <1>1, AppendProperties DEF AppendEvent, OpInv, OpShapes
<1>3. Agree(opRows'[o], frames'[o])
  <2>1. Verdicts(frames[o]) = {} /\ opRows'[o] = "running"
    BY DEF OpInv, Agree
  <2>2. Verdicts(frames'[o]) = {}
    BY <1>1, <1>2, <2>1, VerdictsOfAppend
  <2> QED
    BY <2>1, <2>2 DEF Agree
<1> QED
  BY <1>2, <1>3 DEF OpInv

\* settle() of the store, for an operation that has been registered in this process.
LEMMA SettledOp ==
    ASSUME OpInv, NEW o \in Ops, opRows[o] \notin {"none", "orphaned"},
           NEW status, NEW kind, StoreSettle(o, status, kind),
           \/ status = "done" /\ kind = "done"
           \/ status \in {"error", "cancelled"} /\ kind = "error"
    PROVE  /\ frames' \in [Ops -> Seq(OpKinds)]
           /\ opRows' \in [Ops -> {"none", "running", "done", "error", "cancelled", "orphaned"}]
           /\ \A p \in Ops : Agree(opRows'[p], frames'[p])
           /\ opRows'[o] \notin {"none", "running", "orphaned"}
           /\ \A p \in Ops \ {o} : opRows'[p] = opRows[p]
<1>1. frames[o] \in Seq(OpKinds) /\ kind \in OpKinds /\ kind # "log"
  BY DEF OpInv, OpShapes, OpKinds
<1>2. /\ frames'[o] = Append(frames[o], kind) /\ \A p \in Ops \ {o} : frames'[p] = frames[p]
      /\ frames' \in [Ops -> Seq(OpKinds)]
  BY <1>1, AppendProperties DEF StoreSettle, AppendEvent, OpInv, OpShapes
<1>3. /\ opRows'[o] = IF opRows[o] = "running" THEN status ELSE opRows[o]
      /\ \A p \in Ops \ {o} : opRows'[p] = opRows[p]
      /\ opRows' \in [Ops -> {"none", "running", "done", "error", "cancelled", "orphaned"}]
  BY DEF StoreSettle, OpInv, OpShapes
<1>4. opRows[o] \in {"running", "done", "error", "cancelled"}
  BY DEF OpInv, OpShapes
<1>5. Agree(opRows'[o], frames'[o])
  <2>1. Agree(opRows[o], frames[o])
    BY DEF OpInv
  <2>2. CASE opRows[o] = "running"
    BY <1>1, <1>2, <1>3, <2>1, <2>2, VerdictsOfAppend DEF Agree
  <2>3. CASE opRows[o] # "running"
    <3>1. opRows'[o] = opRows[o] /\ opRows[o] \in {"done", "error", "cancelled"}
      BY <1>3, <1>4, <2>3
    <3>2. Verdicts(frames[o]) # {}
      BY <2>1, <3>1 DEF Agree
    <3>3. Verdicts(frames'[o]) # {} /\ FirstVerdict(frames'[o]) = FirstVerdict(frames[o])
      BY <1>1, <1>2, <3>2, VerdictsOfAppend
    <3> QED
      BY <2>1, <3>1, <3>3 DEF Agree
  <2> QED
    BY <2>2, <2>3
<1> QED
  BY <1>2, <1>3, <1>4, <1>5 DEF OpInv

NothingBehind ==
    \A o \in Ops : ~closed /\ Verdicts(frames[o]) # {} => frames'[o] = frames[o]

\* What a step does to the invariant when one operation is dropped from the map and settled.
LEMMA DroppedOp ==
    ASSUME OpInv, NEW o \in Ops, NEW status, NEW kind, StoreSettle(o, status, kind),
           opRows[o] \notin {"none", "orphaned"},
           \/ status = "done" /\ kind = "done"
           \/ status \in {"error", "cancelled"} /\ kind = "error",
           live' = Without(o), UNCHANGED <<closed, rest>>
    PROVE  OpInv'
<1>1. OpShapes'
  BY SettledOp, WithoutOne DEF OpInv, OpShapes
<1>2. ASSUME NEW i \in DOMAIN live' PROVE opRows'[live'[i]] = "running"
  <2>1. PICK j \in DOMAIN live : live'[i] = live[j] /\ live[j] # o
    BY <1>2, WithoutOne DEF OpInv
  <2>2. live[j] \in Ops \ {o} /\ opRows[live[j]] = "running"
    BY <2>1, ElementOfSeq, LenProperties DEF OpInv, OpShapes, LiveInv
  <2> QED
    BY <2>1, <2>2, SettledOp
<1>3. ASSUME NEW i \in DOMAIN rest' PROVE opRows'[rest'[i]] \notin {"none", "orphaned"}
  <2>1. rest[i] \in Ops /\ opRows[rest[i]] \notin {"none", "orphaned"}
    BY <1>3, ElementOfSeq, LenProperties DEF OpInv, OpShapes, LiveInv
  <2> QED
    BY <1>3, <2>1, SettledOp
<1>4. \A i, j \in DOMAIN live' : live'[i] = live'[j] => i = j
  BY WithoutOne DEF OpInv
<1>5. rest' # <<>> => closed'
  BY DEF OpInv, LiveInv
<1> QED
  BY <1>1, <1>2, <1>3, <1>4, <1>5, SettledOp DEF OpInv, LiveInv

LEMMA LiveRuns ==
    ASSUME OpInv, NEW o \in Ops, IsLive(o)
    PROVE  opRows[o] = "running" /\ Verdicts(frames[o]) = {}
BY DEF OpInv, LiveInv, Agree, IsLive, ToSet

LEMMA StaysOp ==
    ASSUME OpInv, UNCHANGED <<opRows, live, rest, closed>>,
           frames' \in [Ops -> Seq(OpKinds)], \A p \in Ops : Agree(opRows'[p], frames'[p])
    PROVE  OpInv'
BY DEF OpInv, OpShapes, LiveInv

LEMMA OpStep ==
    ASSUME OpInv, [OpNext]_opVars
    PROVE  OpInv' /\ NothingBehind
<1>1. ASSUME NEW o \in Ops, RegisterOp(o) PROVE OpInv' /\ NothingBehind
  <2>1. /\ opRows' = [opRows EXCEPT ![o] = "running"]
        /\ live' = Append(live, o) /\ UNCHANGED <<frames, closed, rest>>
        /\ opRows[o] = "none" /\ rest = <<>>
    BY <1>1 DEF RegisterOp, OpInv, LiveInv
  <2>2. /\ DOMAIN live = 1 .. Len(live) /\ DOMAIN live' = 1 .. Len(live) + 1
        /\ Len(live) \in Nat /\ live' \in Seq(Ops)
        /\ \A i \in 1 .. Len(live) : live'[i] = live[i]
        /\ live'[Len(live) + 1] = o
    BY <2>1, AppendProperties, LenProperties DEF OpInv, OpShapes
  <2>3. \A i \in 1 .. Len(live) : live[i] # o /\ live[i] \in Ops
    BY <2>1, <2>2, ElementOfSeq DEF OpInv, OpShapes, LiveInv
  <2>4. OpShapes'
    BY <2>1, <2>2 DEF OpInv, OpShapes
  <2>5. \A i \in DOMAIN live' : opRows'[live'[i]] = "running"
    BY <2>1, <2>2, <2>3 DEF OpInv, OpShapes, LiveInv
  <2>6. \A i, j \in DOMAIN live' : live'[i] = live'[j] => i = j
    BY <2>2, <2>3 DEF OpInv, LiveInv
  <2>7. LiveInv'
    BY <2>1, <2>5, <2>6 DEF LiveInv
  <2>8. \A p \in Ops : Agree(opRows'[p], frames'[p])
    BY <2>1 DEF OpInv, OpShapes, Agree
  <2> QED
    BY <2>1, <2>4, <2>7, <2>8 DEF OpInv, NothingBehind
<1>2. ASSUME NEW o \in Ops, IsLive(o), AppendEvent(o, "log"),
             UNCHANGED <<opRows, live, closed, rest>>
      PROVE  OpInv' /\ NothingBehind
  <2>1. opRows[o] = "running" /\ Verdicts(frames[o]) = {}
    BY <1>2, LiveRuns
  <2>2. OpInv'
    BY <1>2, <2>1, LoggedOp, StaysOp
  <2>3. NothingBehind
    BY <1>2, <2>1 DEF AppendEvent, NothingBehind, OpInv, OpShapes
  <2> QED
    BY <2>2, <2>3
<1>3. ASSUME NEW o \in Ops, IsLive(o), NEW status, NEW kind, StoreSettle(o, status, kind),
             \/ status = "done" /\ kind = "done"
             \/ status \in {"error", "cancelled"} /\ kind = "error",
             live' = Without(o), UNCHANGED <<closed, rest>>
      PROVE  OpInv' /\ NothingBehind
  <2>1. opRows[o] = "running" /\ Verdicts(frames[o]) = {}
    BY <1>3, LiveRuns
  <2>2. OpInv'
    BY <1>3, <2>1, DroppedOp
  <2>3. NothingBehind
    BY <1>3, <2>1 DEF StoreSettle, AppendEvent, NothingBehind, OpInv, OpShapes
  <2> QED
    BY <2>2, <2>3
<1>4. ASSUME UNCHANGED <<opRows, frames, live, closed, rest>> PROVE OpInv' /\ NothingBehind
  BY <1>4 DEF OpInv, OpShapes, LiveInv, NothingBehind
<1>5. ASSUME NEW o \in Ops, Log(o) \/ SteerOp(o) PROVE OpInv' /\ NothingBehind
  BY <1>2, <1>5 DEF Log, SteerOp
<1>6. ASSUME NEW o \in Ops, SettleOp(o, "done") \/ SettleOp(o, "error") \/ CancelOp(o)
      PROVE  OpInv' /\ NothingBehind
  BY <1>3, <1>6 DEF SettleOp, CancelOp
<1>7. ASSUME NEW o \in Ops, SteerThrows(o) PROVE OpInv' /\ NothingBehind
  BY <1>2, <1>4, <1>7 DEF SteerThrows
<1>8. CASE CallbackReturns
  BY <1>4, <1>8 DEF CallbackReturns
<1>9. CASE Drain
  BY <1>9 DEF Drain, OpInv, OpShapes, LiveInv, NothingBehind
<1>10. CASE DrainNext
  <2> DEFINE o == Head(rest)
  <2>1. rest # <<>> /\ closed /\ rest' = Tail(rest) /\ live' = Without(o) /\ closed' = closed
    BY <1>10 DEF DrainNext, OpInv, LiveInv
  <2>2. NothingBehind
    BY <2>1 DEF NothingBehind
  <2>3. o \in Ops /\ opRows[o] \notin {"none", "orphaned"}
    BY <2>1, HeadTailProperties, LenProperties DEF OpInv, OpShapes, LiveInv
  <2>4. /\ rest' \in Seq(Ops)
        /\ \A i \in DOMAIN rest' : \E j \in DOMAIN rest : rest'[i] = rest[j]
    <3>1. rest \in Seq(Ops) /\ Len(rest) \in Nat /\ DOMAIN rest = 1 .. Len(rest)
      BY LenProperties DEF OpInv, OpShapes
    <3>2. /\ rest' \in Seq(Ops) /\ DOMAIN rest' = 1 .. Len(rest) - 1
          /\ \A i \in 1 .. Len(rest) - 1 : rest'[i] = rest[i + 1] /\ i + 1 \in DOMAIN rest
      BY <2>1, <3>1, HeadTailProperties, LenProperties
    <3> QED
      BY <3>2
  <2> HIDE DEF o
  <2>5. /\ frames' \in [Ops -> Seq(OpKinds)]
        /\ opRows' \in [Ops -> {"none", "running", "done", "error", "cancelled", "orphaned"}]
        /\ \A p \in Ops : Agree(opRows'[p], frames'[p])
        /\ opRows'[o] \notin {"none", "orphaned"}
        /\ \A p \in Ops \ {o} : opRows'[p] = opRows[p]
    <3>1. CASE StoreSettle(o, "cancelled", "error")
      BY <2>3, <3>1, SettledOp
    <3>2. CASE UNCHANGED <<opRows, frames>>
      BY <2>3, <3>2 DEF OpInv, OpShapes
    <3> QED
      BY <1>10, <3>1, <3>2 DEF DrainNext, o
  <2>6. OpShapes'
    BY <2>1, <2>3, <2>4, <2>5, WithoutOne DEF OpInv, OpShapes
  <2>7. ASSUME NEW i \in DOMAIN live' PROVE opRows'[live'[i]] = "running"
    <3>1. PICK j \in DOMAIN live : live'[i] = live[j] /\ live[j] # o
      BY <2>1, <2>3, <2>7, WithoutOne DEF OpInv
    <3>2. live[j] \in Ops \ {o} /\ opRows[live[j]] = "running"
      BY <3>1, ElementOfSeq, LenProperties DEF OpInv, OpShapes, LiveInv
    <3> QED
      BY <2>5, <3>1, <3>2
  <2>8. ASSUME NEW i \in DOMAIN rest' PROVE opRows'[rest'[i]] \notin {"none", "orphaned"}
    <3>1. PICK j \in DOMAIN rest : rest'[i] = rest[j]
      BY <2>4, <2>8
    <3>2. rest[j] \in Ops /\ opRows[rest[j]] \notin {"none", "orphaned"}
      BY <3>1, ElementOfSeq, LenProperties DEF OpInv, OpShapes, LiveInv
    <3> QED
      BY <2>5, <3>1, <3>2
  <2>9. \A i, j \in DOMAIN live' : live'[i] = live'[j] => i = j
    BY <2>1, <2>3, WithoutOne DEF OpInv
  <2> QED
    BY <2>1, <2>2, <2>5, <2>6, <2>7, <2>8, <2>9 DEF OpInv, LiveInv
<1>11. CASE Restart
  <2>1. OpShapes' /\ \A p \in Ops : Agree(opRows'[p], frames'[p])
    BY <1>11, EmptySeq DEF Restart, OpInv, OpShapes, Agree
  <2>2. LiveInv'
    BY <1>11, EmptySeq DEF Restart, LiveInv
  <2> QED
    BY <1>11, <2>1, <2>2 DEF Restart, OpInv, NothingBehind
<1>12. CASE UNCHANGED opVars
  BY <1>4, <1>12 DEF opVars
<1> QED
  BY <1>1, <1>5, <1>6, <1>7, <1>8, <1>9, <1>10, <1>11, <1>12 DEF OpNext

LEMMA OpInitInv == OpInit => OpInv
<1> SUFFICES ASSUME OpInit PROVE OpInv
  OBVIOUS
<1>1. OpShapes /\ LiveInv
  BY EmptySeq DEF OpInit, OpShapes, LiveInv
<1>2. Verdicts(<<>>) = {}
  BY DEF Verdicts
<1> QED
  BY <1>1, <1>2 DEF OpInit, OpInv, Agree

\* Whatever the callbacks do to the operations they are called for, and whenever the
\* server drains or dies: a row tells the first verdict among its frames, and nothing
\* is appended behind one before the server drains.
THEOREM OneVerdictPerOp == OpSpec => OneVerdict
<1>1. OpInv => \A o \in Ops : VerdictOf(opRows[o]) = FirstVerdict(frames[o])
  <2> SUFFICES ASSUME OpInv, NEW o \in Ops PROVE VerdictOf(opRows[o]) = FirstVerdict(frames[o])
    OBVIOUS
  <2>1. /\ Agree(opRows[o], frames[o])
        /\ opRows[o] \in {"none", "running", "done", "error", "cancelled", "orphaned"}
    BY DEF OpInv, OpShapes
  <2>2. Verdicts(frames[o]) = {} => FirstVerdict(frames[o]) = {}
    BY DEF FirstVerdict
  <2> QED
    BY <2>1, <2>2 DEF VerdictOf, Agree
<1>2. OpInv /\ [OpNext]_opVars => OpInv'
  BY OpStep
<1>3. OpInv /\ [OpNext]_opVars => [NothingBehind]_opVars
  BY OpStep
<1> QED
  BY <1>1, <1>2, <1>3, OpInitInv, PTL DEF OpSpec, OneVerdict, NothingBehind

\* Every state of the registry is of its type, for any operations.
THEOREM OpTypeCorrect == OpSpec => []OpTypeOK
<1> DEFINE Rest == closed \in BOOLEAN
                   /\ (inside = Outside \/ inside \in [kind : {"abort", "steer"}, op : Ops])
<1>1. OpInit => Rest
  BY DEF OpInit
<1>2. ASSUME OpInv, Rest, [OpNext]_opVars PROVE Rest'
  <2>1. ASSUME NEW o \in Ops,
               \/ RegisterOp(o) \/ Log(o) \/ SettleOp(o, "done") \/ SettleOp(o, "error")
               \/ CancelOp(o) \/ SteerOp(o) \/ SteerThrows(o)
        PROVE  Rest'
    BY <1>2, <2>1 DEF RegisterOp, Log, SettleOp, CancelOp, SteerOp, SteerThrows
  <2>2. CASE CallbackReturns \/ Drain \/ Restart
    BY <1>2, <2>2 DEF CallbackReturns, Drain, Restart
  <2>3. CASE DrainNext
    <3>1. Head(rest) \in Ops
      BY <1>2, <2>3, HeadTailProperties DEF DrainNext, OpInv, OpShapes
    <3> QED
      BY <1>2, <2>3, <3>1 DEF DrainNext
  <2>4. CASE UNCHANGED opVars
    BY <1>2, <2>4 DEF opVars
  <2> QED
    BY <1>2, <2>1, <2>2, <2>3, <2>4 DEF OpNext
<1>3. OpInv /\ Rest => OpTypeOK
  BY DEF OpInv, OpShapes, OpTypeOK, OpKinds
<1>4. OpInv /\ [OpNext]_opVars => OpInv'
  BY OpStep
<1> QED
  BY <1>1, <1>2, <1>3, <1>4, OpInitInv, PTL DEF OpSpec

-----------------------------------------------------------------------------
(* A key with one registration, as ApprovalRegistry and BoundKey have it: k is     *)
(* the key, j its jobs, max the bound on its versions.                     *)

KeyFrames == {[reg |-> 0, version |-> -1]} \cup [reg : {1}, version : Int, data : Nat]

KeyJobs == {[phase |-> "none"]} \cup [phase : {"settled"}] \cup [phase : {"read"}, data : Nat]

OneKey == [composer : 0 .. 1, regs : 0 .. 1, inflight : 0 .. 1, cache : KeyFrames,
           version : Int, life : {"up", "draining", "gone"}, draining : 0 .. 1]

\* A job that has read was started below the bound, and the version has stayed.
KeyTyped(k, j, max) ==
    /\ k \in OneKey
    /\ j \in [1 .. 1 -> KeyJobs]
    /\ k.version \in -1 .. max
    /\ j[1].phase = "read" => k.version < max

\* The manager's steps on them.
Registered(k) == [k EXCEPT !.composer = k.regs + 1, !.regs = @ + 1]
InFlightIs(k, n) == [k EXCEPT !.inflight = n]
Showing(k, frame) == [k EXCEPT !.version = @ + 1, !.cache = frame]
JobIs(j, r, job) == [j EXCEPT ![r] = job]

ReadJob(v) == [phase |-> "read", data |-> v]
OneFrame(n, v) == [reg |-> 1, version |-> n, data |-> v]
SettledJob == [phase |-> "settled"]
NoJob == [phase |-> "none"]

LEMMA KeyValues ==
    /\ [reg |-> 0, version |-> -1] \in KeyFrames
    /\ [phase |-> "none"] \in KeyJobs
    /\ [phase |-> "settled"] \in KeyJobs
    /\ \A v \in Nat : [phase |-> "read", data |-> v] \in KeyJobs
    /\ \A n \in Int, v \in Nat : [reg |-> 1, version |-> n, data |-> v] \in KeyFrames
    /\ \A job \in KeyJobs : job.phase \in {"none", "settled", "read"}
                            /\ (job.phase = "read" => job.data \in Nat)
BY DEF KeyFrames, KeyJobs

LEMMA KeyBegins ==
    ASSUME NEW max \in Nat
    PROVE  KeyTyped([composer |-> 0, regs |-> 0, inflight |-> 0,
                     cache |-> [reg |-> 0, version |-> -1],
                     version |-> -1, life |-> "up", draining |-> 0],
                    [r \in 1 .. 1 |-> [phase |-> "none"]], max)
<1> DEFINE k == [composer |-> 0, regs |-> 0, inflight |-> 0,
                 cache |-> [reg |-> 0, version |-> -1],
                 version |-> -1, life |-> "up", draining |-> 0]
           j == [r \in 1 .. 1 |-> [phase |-> "none"]]
<1>1. k \in OneKey /\ k.version = -1
  BY KeyValues DEF OneKey
<1>2. j \in [1 .. 1 -> KeyJobs] /\ j[1].phase = "none"
  BY KeyValues
<1> HIDE DEF k, j
<1>3. KeyTyped(k, j, max)
  BY <1>1, <1>2 DEF KeyTyped
<1> QED
  BY <1>3 DEF k, j

LEMMA KeyRegisters ==
    ASSUME NEW max \in Nat, NEW k, NEW j, KeyTyped(k, j, max), k.composer = 0, k.regs < 1
    PROVE  /\ KeyTyped(Registered(k), j, max)
           /\ Registered(k).cache = k.cache /\ Registered(k).life = k.life
<1> DEFINE l == Registered(k)
<1>1. k.regs = 0
  BY DEF KeyTyped, OneKey
<1>2. k.regs + 1 = 1 /\ 1 \in 0 .. 1
  BY <1>1
<1>3. /\ l \in OneKey /\ l.cache = k.cache /\ l.version = k.version
      /\ l.life = k.life
  BY <1>2 DEF KeyTyped, OneKey, Registered
<1> QED
  BY <1>3 DEF KeyTyped

LEMMA KeyStarts ==
    ASSUME NEW max \in Nat, NEW k, NEW j, KeyTyped(k, j, max), k.composer # 0, k.version < max,
           NEW v \in Nat
    PROVE  /\ KeyTyped(InFlightIs(k, k.composer), JobIs(j, k.composer, ReadJob(v)), max)
           /\ InFlightIs(k, k.composer).cache = k.cache
           /\ InFlightIs(k, k.composer).life = k.life
           /\ JobIs(j, k.composer, ReadJob(v))[1] = ReadJob(v)
<1> DEFINE l == InFlightIs(k, k.composer)
           m == JobIs(j, k.composer, ReadJob(v))
<1>1. k.composer = 1
  BY DEF KeyTyped, OneKey
<1>2. /\ l \in OneKey /\ l.cache = k.cache /\ l.version = k.version /\ l.life = k.life
  BY <1>1 DEF KeyTyped, OneKey, InFlightIs
<1>3. ReadJob(v) \in KeyJobs
  BY KeyValues DEF ReadJob
<1>4. m \in [1 .. 1 -> KeyJobs] /\ m[1] = ReadJob(v)
  BY <1>1, <1>3 DEF KeyTyped, JobIs
<1> QED
  BY <1>2, <1>4 DEF KeyTyped

LEMMA KeyPublishes ==
    ASSUME NEW max \in Nat, NEW k, NEW j, KeyTyped(k, j, max), j[1].phase = "read",
           NEW frame, frame = OneFrame(k.version + 1, j[1].data)
    PROVE  /\ KeyTyped(Showing(k, frame), JobIs(j, 1, SettledJob), max)
           /\ Showing(k, frame).cache = frame /\ Showing(k, frame).life = k.life
           /\ JobIs(j, 1, SettledJob)[1].phase = "settled"
<1> DEFINE l == Showing(k, frame)
           m == JobIs(j, 1, SettledJob)
<1>1. /\ k \in OneKey /\ k.version \in Int
      /\ k.version + 1 \in Int /\ k.version + 1 \in -1 .. max
  BY DEF KeyTyped, OneKey
<1>2. frame \in KeyFrames
  BY <1>1, KeyValues DEF KeyTyped, OneFrame
<1>3. /\ l \in OneKey /\ l.cache = frame
      /\ l.version = k.version + 1 /\ l.life = k.life
  BY <1>1, <1>2 DEF OneKey, Showing
<1>4. m \in [1 .. 1 -> KeyJobs] /\ m[1].phase = "settled"
  BY KeyValues DEF KeyTyped, JobIs, SettledJob
<1> QED
  BY <1>1, <1>3, <1>4 DEF KeyTyped

LEMMA KeySettles ==
    ASSUME NEW max \in Nat, NEW k, NEW j, KeyTyped(k, j, max),
           NEW n \in {0, k.inflight}, NEW job \in {SettledJob, NoJob}
    PROVE  /\ KeyTyped(InFlightIs(k, n), JobIs(j, 1, job), max)
           /\ KeyTyped(k, JobIs(j, 1, job), max)
           /\ InFlightIs(k, n).cache = k.cache /\ InFlightIs(k, n).life = k.life
           /\ JobIs(j, 1, job)[1].phase # "read"
<1> DEFINE l == InFlightIs(k, n)
           m == JobIs(j, 1, job)
<1>1. /\ l \in OneKey /\ l.cache = k.cache /\ l.version = k.version /\ l.life = k.life
  BY DEF KeyTyped, OneKey, InFlightIs
<1>2. job \in KeyJobs /\ job.phase # "read"
  BY KeyValues DEF SettledJob, NoJob
<1>3. m \in [1 .. 1 -> KeyJobs] /\ m[1].phase # "read"
  BY <1>2 DEF KeyTyped, JobIs
<1> QED
  BY <1>1, <1>3 DEF KeyTyped

-----------------------------------------------------------------------------
(* ApprovalRegistry                                                        *)

\* The map holds the open asks.
ApprovalInv ==
    /\ turnOf \in [Asks -> Turns]
    /\ decision \in [Asks -> {"none", "open", "accept", "reject"}]
    /\ torn \in SUBSET Turns
    /\ entries = {a \in Asks : decision[a] = "open"}

LEMMA ApprovalInvInductive ==
    ASSUME ApprovalInv, [ApprovalNext]_approvalVars
    PROVE  ApprovalInv'
<1>1. ASSUME NEW a \in Asks, Refuse(a) \/ Request(a) PROVE ApprovalInv'
  BY <1>1 DEF ApprovalInv, Refuse, Request
<1>2. ASSUME NEW A \in SUBSET Asks, NEW d \in {"accept", "reject"}, SettleAll(A, d),
             UNCHANGED turnOf, torn' \in SUBSET Turns
      PROVE  ApprovalInv'
  BY <1>2 DEF ApprovalInv, SettleAll
<1>3. ASSUME NEW a \in Asks, Timeout(a) PROVE ApprovalInv'
  BY <1>2, <1>3 DEF Timeout, ApprovalInv
<1>4. ASSUME NEW a \in Asks, NEW d \in {"accept", "reject"}, Resolve(a, d) PROVE ApprovalInv'
  BY <1>2, <1>4 DEF Resolve, ApprovalInv
<1>5. ASSUME NEW t \in Turns, TurnAborts(t) PROVE ApprovalInv'
  BY <1>2, <1>5 DEF TurnAborts, ApprovalInv
<1>6. CASE Clear
  BY <1>2, <1>6 DEF Clear, ApprovalInv
<1>7. CASE RegisterPrompts \/ PromptsComplete \/ UNCHANGED approvalVars
  BY <1>7 DEF RegisterPrompts, PromptsComplete, approvalVars, ApprovalInv
<1> QED
  BY <1>1, <1>3, <1>4, <1>5, <1>6, <1>7 DEF ApprovalNext

\* Every step of the registry is one that Verdict allows, or none.
LEMMA ApprovalStepIsAllowed ==
    ASSUME ApprovalInv, [ApprovalNext]_approvalVars
    PROVE  [Promise!Next]_(Promise!verdictVars)
<1>1. ASSUME NEW a \in Asks, Refuse(a) PROVE Promise!Next
  <2>1. Promise!Refused(a)
    BY <1>1 DEF Refuse, Promise!Refused
  <2> QED BY <2>1 DEF Promise!Next
<1>2. ASSUME NEW a \in Asks, Request(a) PROVE Promise!Next
  <2>1. Promise!Opens(a)
    BY <1>2 DEF Request, Promise!Opens
  <2> QED BY <2>1 DEF Promise!Next
<1>3. ASSUME NEW a \in Asks, NEW d \in {"accept", "reject"}, Resolve(a, d) PROVE Promise!Next
  <2>1. Promise!Decided(a)
    BY <1>3 DEF Resolve, SettleAll, ApprovalInv, Promise!Decided
  <2> QED BY <2>1 DEF Promise!Next
<1>4. ASSUME NEW a \in Asks, Timeout(a) PROVE Promise!Next
  <2>1. Promise!Decided(a)
    BY <1>4 DEF Timeout, SettleAll, ApprovalInv, Promise!Decided
  <2> QED BY <2>1 DEF Promise!Next
<1>5. ASSUME NEW t \in Turns, TurnAborts(t) PROVE Promise!Next
  <2>1. \E A \in SUBSET Asks : A = {a \in Asks : turnOf[a] = t}
    OBVIOUS
  <2>2. PICK A \in SUBSET Asks : A = {a \in Asks : turnOf[a] = t}
    BY <2>1
  <2>3. Promise!TornDown(A)
    BY <1>5, <2>2 DEF TurnAborts, SettleAll, ApprovalInv, Promise!TornDown
  <2> QED BY <2>3 DEF Promise!Next
<1>6. CASE Clear
  <2>1. Promise!TornDown(Asks)
    BY <1>6 DEF Clear, SettleAll, ApprovalInv, Promise!TornDown
  <2> QED BY <2>1 DEF Promise!Next
<1>7. CASE RegisterPrompts \/ PromptsComplete \/ UNCHANGED approvalVars
  BY <1>7 DEF RegisterPrompts, PromptsComplete, approvalVars, Promise!verdictVars
<1> QED
  BY <1>1, <1>2, <1>3, <1>4, <1>5, <1>6, <1>7 DEF ApprovalNext

\* However an answer, a timeout, an abort and a shutdown race, an ask is decided once,
\* none is opened in a turn that is torn down and none stays open in one: the safety
\* half of EachAskIsDecided, for any asks and turns.
THEOREM AsksAreDecidedOnce == ApprovalSpec => Promise!Init /\ [][Promise!Next]_(Promise!verdictVars)
<1>1. ApprovalInit => ApprovalInv /\ Promise!Init
  BY DEF ApprovalInit, ApprovalInv, Promise!Init
<1>2. ApprovalInv /\ [ApprovalNext]_approvalVars => ApprovalInv'
  BY ApprovalInvInductive
<1>3. ApprovalInv /\ [ApprovalNext]_approvalVars => [Promise!Next]_(Promise!verdictVars)
  BY ApprovalStepIsAllowed
<1> QED
  BY <1>1, <1>2, <1>3, PTL DEF ApprovalSpec

\* The changes the asks can still make: two for one that is not asked yet, one for an
\* open one.
Unasked == {a \in Asks : decision[a] = "none"}

ChangesInv ==
    /\ changes \in Nat
    /\ changes + Cardinality(entries) + 2 * Cardinality(Unasked) <= MaxChanges
    /\ KeyTyped(promptKey, promptJobs, MaxChanges)

LEMMA ApprovalSizes ==
    ASSUME ApprovalInv
    PROVE  /\ MaxChanges \in Nat
           /\ IsFiniteSet(entries) /\ Cardinality(entries) \in Nat
           /\ IsFiniteSet(Unasked) /\ Cardinality(Unasked) \in Nat
<1>1. IsFiniteSet(Asks) /\ Cardinality(Asks) \in Nat
  BY ApprovalAssumption, FS_CardinalityType
<1>2. entries \subseteq Asks /\ Unasked \subseteq Asks
  BY DEF ApprovalInv, Unasked
<1> QED
  BY <1>1, <1>2, FS_Subset, FS_CardinalityType DEF MaxChanges

LEMMA ApprovalBegins == ApprovalInit => ApprovalInv /\ ChangesInv
<1> SUFFICES ASSUME ApprovalInit PROVE ApprovalInv /\ ChangesInv
  OBVIOUS
<1>1. ApprovalInv
  BY DEF ApprovalInit, ApprovalInv
<1>2. Unasked = Asks /\ entries = {} /\ changes = 0
  BY DEF ApprovalInit, Unasked
<1>3. MaxChanges \in Nat /\ Cardinality(Asks) \in Nat /\ Cardinality({}) = 0
  BY <1>1, <1>2, ApprovalSizes, FS_EmptySet
<1>4. KeyTyped(promptKey, promptJobs, MaxChanges)
  BY <1>3, KeyBegins
     DEF ApprovalInit, Prompts!ManagerInit, Prompts!Registrations, Prompts!Idle, Prompts!NoFrame
<1> QED
  BY <1>1, <1>2, <1>3, <1>4 DEF ChangesInv, MaxChanges

LEMMA NotifyKeepsTheKey ==
    ASSUME ApprovalInv, ChangesInv, NEW n \in Nat, Notify(n)
    PROVE  /\ changes' = changes + n
           /\ KeyTyped(promptKey', promptJobs', MaxChanges)
<1>1. CASE Prompts!Recompose(changes + 1)
  <2>1. /\ promptKey.composer # 0 /\ promptKey.version < MaxChanges
        /\ promptJobs' = JobIs(promptJobs, promptKey.composer, ReadJob(changes + 1))
        /\ promptKey' = InFlightIs(promptKey, promptKey.composer)
    BY <1>1 DEF Prompts!Recompose, Prompts!Start, Prompts!CanStart, JobIs, ReadJob, InFlightIs
  <2>2. changes + 1 \in Nat /\ MaxChanges \in Nat /\ KeyTyped(promptKey, promptJobs, MaxChanges)
    BY ApprovalSizes DEF ChangesInv
  <2> QED
    BY <2>1, <2>2, KeyStarts DEF Notify
<1>2. CASE UNCHANGED <<promptKey, promptJobs>>
  BY <1>2 DEF Notify, ChangesInv
<1> QED
  BY <1>1, <1>2 DEF Notify

LEMMA ChangesStep ==
    ASSUME ApprovalInv, ChangesInv, [ApprovalNext]_approvalVars
    PROVE  ChangesInv'
<1> DEFINE sizes == changes + Cardinality(entries) + 2 * Cardinality(Unasked)
<1>0. /\ MaxChanges \in Nat /\ changes \in Nat
      /\ IsFiniteSet(entries) /\ Cardinality(entries) \in Nat
      /\ IsFiniteSet(Unasked) /\ Cardinality(Unasked) \in Nat
      /\ sizes <= MaxChanges
      /\ KeyTyped(promptKey, promptJobs, MaxChanges)
  BY ApprovalSizes DEF ChangesInv
<1>1. ASSUME NEW a \in Asks, Refuse(a) PROVE ChangesInv'
  <2>1. a \in Unasked /\ Unasked' = Unasked \ {a}
    BY <1>1 DEF Refuse, Unasked, ApprovalInv
  <2>2. Cardinality(Unasked') = Cardinality(Unasked) - 1
    BY <1>0, <2>1, FS_RemoveElement
  <2> QED
    BY <1>0, <1>1, <2>2 DEF Refuse, ChangesInv
<1>2. ASSUME NEW a \in Asks, Request(a) PROVE ChangesInv'
  <2>1. /\ a \in Unasked /\ Unasked' = Unasked \ {a}
        /\ a \notin entries /\ entries' = entries \cup {a}
    BY <1>2 DEF Request, Unasked, ApprovalInv
  <2>2. Cardinality(Unasked') = Cardinality(Unasked) - 1
    BY <1>0, <2>1, FS_RemoveElement
  <2>3. Cardinality(entries') = Cardinality(entries) + 1
    BY <1>0, <2>1, FS_AddElement
  <2>4. changes' = changes + 1 /\ KeyTyped(promptKey', promptJobs', MaxChanges)
    BY <1>2, NotifyKeepsTheKey DEF Request
  <2> QED
    BY <1>0, <2>2, <2>3, <2>4 DEF ChangesInv
<1>3. ASSUME NEW A \in SUBSET Asks, NEW d \in {"accept", "reject"}, SettleAll(A, d)
      PROVE  ChangesInv'
  <2> DEFINE n == Cardinality(entries \cap A)
  <2>1. n \in Nat /\ Cardinality(entries \ A) = Cardinality(entries) - n
    BY <1>0, FS_Difference, FS_Intersection, FS_CardinalityType
  <2>2. entries' = entries \ A /\ Unasked' = Unasked
    BY <1>3 DEF SettleAll, Unasked, ApprovalInv
  <2> HIDE DEF n
  <2>3. Notify(n)
    BY <1>3 DEF SettleAll, n
  <2>4. changes' = changes + n /\ KeyTyped(promptKey', promptJobs', MaxChanges)
    BY <2>1, <2>3, NotifyKeepsTheKey
  <2> QED
    BY <1>0, <2>1, <2>2, <2>4 DEF ChangesInv
<1>4. ASSUME NEW a \in Asks, Timeout(a) PROVE ChangesInv'
  BY <1>3, <1>4 DEF Timeout
<1>5. ASSUME NEW a \in Asks, NEW d \in {"accept", "reject"}, Resolve(a, d) PROVE ChangesInv'
  BY <1>3, <1>5 DEF Resolve
<1>6. ASSUME NEW t \in Turns, TurnAborts(t) PROVE ChangesInv'
  BY <1>3, <1>6 DEF TurnAborts
<1>7. CASE Clear
  BY <1>3, <1>7 DEF Clear
<1>8. ASSUME UNCHANGED <<changes, entries, decision>>,
             KeyTyped(promptKey', promptJobs', MaxChanges)
      PROVE  ChangesInv'
  <2>1. Unasked' = Unasked
    BY <1>8 DEF Unasked
  <2> QED
    BY <1>0, <1>8, <2>1 DEF ChangesInv
<1>9. CASE RegisterPrompts
  <2>1. promptKey.composer = 0 /\ promptKey.regs < 1
    BY <1>9 DEF RegisterPrompts, Prompts!Register
  <2>2. promptKey' = Registered(promptKey) /\ promptJobs' = promptJobs
    BY <1>9 DEF RegisterPrompts, Prompts!Register, Registered
  <2>3. KeyTyped(promptKey', promptJobs', MaxChanges)
    BY <1>0, <2>1, <2>2, KeyRegisters
  <2> QED
    BY <1>8, <1>9, <2>3 DEF RegisterPrompts
<1>10. CASE PromptsComplete
  <2>1. CASE Prompts!Publish(1)
    <3> DEFINE frame == OneFrame(promptKey.version + 1, promptJobs[1].data)
    <3>1. /\ promptKey' = Showing(promptKey, frame) /\ promptJobs[1].phase = "read"
          /\ promptJobs' = JobIs(promptJobs, 1, SettledJob)
      BY <2>1 DEF Prompts!Publish, Prompts!NextFrame, Prompts!Settled, Showing, OneFrame, JobIs,
                  SettledJob
    <3> HIDE DEF frame
    <3>2. KeyTyped(promptKey', promptJobs', MaxChanges)
      BY <1>0, <3>1, KeyPublishes DEF frame
    <3> QED
      BY <1>8, <1>10, <3>2 DEF PromptsComplete
  <2>2. CASE Prompts!DropStale(1)
    <3>1. promptJobs' = JobIs(promptJobs, 1, SettledJob) /\ promptKey' = promptKey
      BY <2>2 DEF Prompts!DropStale, Prompts!Settled, JobIs, SettledJob
    <3>2. KeyTyped(promptKey', promptJobs', MaxChanges)
      BY <1>0, <3>1, KeySettles
    <3> QED
      BY <1>8, <1>10, <3>2 DEF PromptsComplete
  <2>3. CASE Prompts!Finally(1)
    <3>1. /\ promptJobs' = JobIs(promptJobs, 1, NoJob)
          /\ \E n \in {0, promptKey.inflight} : promptKey' = InFlightIs(promptKey, n)
      BY <2>3 DEF Prompts!Finally, Prompts!Idle, JobIs, NoJob, InFlightIs
    <3>2. KeyTyped(promptKey', promptJobs', MaxChanges)
      BY <1>0, <3>1, KeySettles
    <3> QED
      BY <1>8, <1>10, <3>2 DEF PromptsComplete
  <2> QED
    BY <1>10, <2>1, <2>2, <2>3 DEF PromptsComplete, Prompts!Complete
<1>11. CASE UNCHANGED approvalVars
  BY <1>0, <1>8, <1>11 DEF approvalVars
<1> QED
  BY <1>1, <1>2, <1>4, <1>5, <1>6, <1>7, <1>9, <1>10, <1>11 DEF ApprovalNext

\* Every state of the registry is of its type; in particular the hook is called at most
\* twice for each ask, however many an abort or a shutdown settles at once.
THEOREM ApprovalTypeCorrect == ApprovalSpec => []ApprovalTypeOK
<1>1. ApprovalInv /\ ChangesInv => ApprovalTypeOK
  <2> SUFFICES ASSUME ApprovalInv, ChangesInv PROVE ApprovalTypeOK
    OBVIOUS
  <2>1. KeyTyped(promptKey, promptJobs, MaxChanges)
    BY DEF ChangesInv
  <2>2. Prompts!ManagerTypeOK
    BY <2>1, KeyValues DEF Prompts!ManagerTypeOK, Prompts!Registrations, KeyTyped, OneKey
  <2>3. changes \in 0 .. MaxChanges
    BY ApprovalSizes DEF ChangesInv
  <2> QED
    BY <2>2, <2>3 DEF ApprovalInv, ApprovalTypeOK
<1>2. ApprovalInv /\ [ApprovalNext]_approvalVars => ApprovalInv'
  BY ApprovalInvInductive
<1>3. ApprovalInv /\ ChangesInv /\ [ApprovalNext]_approvalVars => ChangesInv'
  BY ChangesStep
<1> QED
  BY <1>1, <1>2, <1>3, ApprovalBegins, PTL DEF ApprovalSpec

-----------------------------------------------------------------------------
(* BoundKey                                                                *)

BoundShapes ==
    /\ KeyTyped(boundKey, boundJobs, MaxPublishes)
    /\ boundKey.life = "up"
    /\ latest \in 0 .. MaxPublishes
    /\ recomposing \in BOOLEAN
    /\ dirty \in BOOLEAN

\* The job that has read, if there is one, has read what is newer than the frame that
\* is shown; the mark says that a publish came after both.
PumpInv ==
    /\ Shown \in 0 .. latest
    /\ boundJobs[1].phase = "read" =>
           /\ boundJobs[1].data \in Shown + 1 .. latest
           /\ dirty => boundJobs[1].data < latest
    /\ dirty => Shown < latest

BoundInv == BoundShapes /\ PumpInv

LEMMA BoundInitInv == BoundInit => BoundInv /\ Board!Init
<1> SUFFICES ASSUME BoundInit PROVE BoundInv /\ Board!Init
  OBVIOUS
<1>1. KeyTyped(boundKey, boundJobs, MaxPublishes)
  BY KeyBegins, BoundAssumption
     DEF BoundInit, Bound!ManagerInit, Bound!Registrations, Bound!Idle, Bound!NoFrame
<1>2. Shown = 0 /\ latest = 0 /\ dirty = FALSE /\ boundKey.life = "up"
  BY DEF BoundInit, Bound!ManagerInit, Shown
<1>3. boundJobs[1].phase = "none"
  BY DEF BoundInit, Bound!ManagerInit, Bound!Registrations, Bound!Idle
<1>4. recomposing \in BOOLEAN /\ dirty \in BOOLEAN
  BY DEF BoundInit
<1>5. BoundShapes
  BY <1>1, <1>2, <1>4, BoundAssumption DEF BoundShapes
<1> QED
  BY <1>2, <1>3, <1>5 DEF BoundInv, PumpInv, Board!Init

LEMMA BoundRecompose ==
    ASSUME BoundShapes, NEW v \in Nat, Bound!Recompose(v)
    PROVE  /\ KeyTyped(boundKey', boundJobs', MaxPublishes)
           /\ boundJobs'[1] = ReadJob(v)
           /\ boundKey'.life = "up" /\ Shown' = Shown
<1>1. /\ boundKey.composer # 0 /\ boundKey.version < MaxPublishes
      /\ boundJobs' = JobIs(boundJobs, boundKey.composer, ReadJob(v))
      /\ boundKey' = InFlightIs(boundKey, boundKey.composer)
  BY DEF Bound!Recompose, Bound!Start, Bound!CanStart, JobIs, ReadJob, InFlightIs
<1>2. KeyTyped(boundKey, boundJobs, MaxPublishes) /\ boundKey.life = "up"
  BY DEF BoundShapes
<1>3. /\ KeyTyped(boundKey', boundJobs', MaxPublishes)
      /\ boundKey'.cache = boundKey.cache /\ boundKey'.life = "up"
      /\ boundJobs'[1] = ReadJob(v)
  BY <1>1, <1>2, KeyStarts, BoundAssumption
<1> QED
  BY <1>3 DEF Shown

LEMMA BoundSteps ==
    ASSUME BoundInv, [BoundNext]_boundVars
    PROVE  BoundInv' /\ [Board!Next]_(Board!publicationVars)
<1> USE DEF BoundInv, Board!publicationVars
<1>0. /\ latest \in Nat /\ Shown \in 0 .. latest /\ MaxPublishes \in Nat
      /\ KeyTyped(boundKey, boundJobs, MaxPublishes)
      /\ boundKey \in OneKey /\ boundKey.life = "up"
  BY BoundAssumption DEF BoundShapes, PumpInv, KeyTyped
<1>1. CASE RegisterBoundKey
  <2>1. boundKey.regs < 1 /\ boundKey.composer = 0
    BY <1>1 DEF RegisterBoundKey, Bound!Register
  <2>2. boundKey' = Registered(boundKey)
    BY <1>1 DEF RegisterBoundKey, Bound!Register, Registered
  <2>3. /\ KeyTyped(boundKey', boundJobs, MaxPublishes)
        /\ boundKey'.cache = boundKey.cache /\ boundKey'.life = "up"
    BY <1>0, <2>1, <2>2, KeyRegisters
  <2>4. BoundShapes' /\ Shown' = Shown
    BY <1>1, <2>3 DEF RegisterBoundKey, Bound!Register, BoundShapes, Shown
  <2> QED
    BY <1>1, <2>4 DEF RegisterBoundKey, Bound!Register, PumpInv
<1>2. CASE BoundPublish /\ recomposing
  <2>1. /\ latest' = latest + 1 /\ latest' \in 0 .. MaxPublishes
        /\ dirty' = TRUE /\ UNCHANGED <<boundKey, boundJobs, recomposing>>
    BY <1>0, <1>2, BoundAssumption DEF BoundPublish
  <2>2. Shown' = Shown
    BY <2>1 DEF Shown
  <2>3. dirty' \in BOOLEAN
    BY <2>1
  <2>4. BoundShapes'
    BY <2>1, <2>3 DEF BoundShapes
  <2>5. PumpInv'
    BY <1>0, <2>1, <2>2 DEF PumpInv
  <2> QED
    BY <1>0, <2>1, <2>2, <2>4, <2>5 DEF Board!Next, Board!Change
<1>3. CASE BoundPublish /\ ~recomposing
  <2>1. /\ Bound!Recompose(latest + 1) /\ latest' = latest + 1 /\ latest' \in 0 .. MaxPublishes
        /\ recomposing' = TRUE /\ dirty' = FALSE
    BY <1>0, <1>3, BoundAssumption DEF BoundPublish
  <2>2. /\ KeyTyped(boundKey', boundJobs', MaxPublishes)
        /\ boundJobs'[1] = ReadJob(latest + 1)
        /\ boundKey'.life = "up" /\ Shown' = Shown
    BY <1>0, <2>1, BoundRecompose, latest + 1 \in Nat
  <2>3. recomposing' \in BOOLEAN /\ dirty' \in BOOLEAN
    BY <2>1
  <2>4. BoundShapes'
    BY <2>1, <2>2, <2>3 DEF BoundShapes
  <2>5. boundJobs'[1].data \in Shown' + 1 .. latest' /\ Shown' \in 0 .. latest'
    BY <1>0, <2>1, <2>2 DEF ReadJob
  <2>6. PumpInv'
    BY <2>1, <2>5 DEF PumpInv, ReadJob
  <2> QED
    BY <1>0, <2>1, <2>2, <2>4, <2>6 DEF Board!Next, Board!Change
<1>4. CASE PumpContinues /\ dirty
  <2>1. /\ Bound!Recompose(latest) /\ latest' = latest
        /\ recomposing' = recomposing /\ dirty' = FALSE
    BY <1>4 DEF PumpContinues
  <2>2. /\ KeyTyped(boundKey', boundJobs', MaxPublishes)
        /\ boundJobs'[1] = ReadJob(latest)
        /\ boundKey'.life = "up" /\ Shown' = Shown
    BY <1>0, <2>1, BoundRecompose
  <2>3. latest' \in 0 .. MaxPublishes /\ recomposing' \in BOOLEAN /\ dirty' \in BOOLEAN
    BY <2>1 DEF BoundShapes
  <2>4. BoundShapes'
    BY <2>2, <2>3 DEF BoundShapes
  <2>5. Shown < latest
    BY <1>4 DEF PumpInv
  <2>6. boundJobs'[1].data \in Shown' + 1 .. latest' /\ Shown' \in 0 .. latest'
    BY <1>0, <2>1, <2>2, <2>5 DEF ReadJob
  <2>7. PumpInv'
    BY <2>1, <2>6 DEF PumpInv
  <2> QED
    BY <2>1, <2>2, <2>4, <2>7
<1>5. CASE PumpContinues /\ ~dirty
  BY <1>5 DEF PumpContinues, BoundShapes, PumpInv, Shown
<1>6. CASE Bound!Publish(1) /\ UNCHANGED <<latest, recomposing, dirty>>
  <2> DEFINE read == boundJobs[1].data
             frame == OneFrame(boundKey.version + 1, read)
  <2>1. boundJobs[1].phase = "read" /\ read \in Shown + 1 .. latest
    BY <1>6 DEF Bound!Publish, PumpInv
  <2>2. boundKey' = Showing(boundKey, frame) /\ boundJobs' = JobIs(boundJobs, 1, SettledJob)
    BY <1>6 DEF Bound!Publish, Bound!NextFrame, Bound!Settled, Showing, OneFrame, JobIs,
                SettledJob
  <2>3. /\ KeyTyped(boundKey', boundJobs', MaxPublishes)
        /\ boundKey'.cache = frame /\ boundKey'.life = "up" /\ boundJobs'[1].phase = "settled"
    BY <1>0, <2>1, <2>2, KeyPublishes
  <2>4. frame # Bound!NoFrame /\ frame.data = read
    BY DEF Bound!NoFrame, OneFrame
  <2>5. BoundShapes'
    BY <1>6, <2>3 DEF BoundShapes
  <2> HIDE DEF frame
  <2>6. Shown' = read
    BY <2>3, <2>4 DEF Shown
  <2> QED
    BY <1>0, <1>6, <2>1, <2>3, <2>5, <2>6 DEF PumpInv, Board!Next, Board!Copy
<1>7. CASE Bound!DropStale(1) /\ UNCHANGED <<latest, recomposing, dirty>>
  <2>1. boundJobs' = JobIs(boundJobs, 1, SettledJob) /\ UNCHANGED boundKey
    BY <1>7 DEF Bound!DropStale, Bound!Settled, JobIs, SettledJob
  <2>2. KeyTyped(boundKey', boundJobs', MaxPublishes) /\ boundJobs'[1].phase # "read"
    BY <1>0, <2>1, KeySettles
  <2> QED
    BY <1>0, <1>7, <2>1, <2>2 DEF BoundShapes, PumpInv, Shown
<1>8. CASE Bound!Finally(1) /\ UNCHANGED <<latest, recomposing, dirty>>
  <2>1. /\ boundJobs' = JobIs(boundJobs, 1, NoJob)
        /\ \E n \in {0, boundKey.inflight} : boundKey' = InFlightIs(boundKey, n)
    BY <1>8 DEF Bound!Finally, Bound!Idle, JobIs, NoJob, InFlightIs
  <2>2. /\ KeyTyped(boundKey', boundJobs', MaxPublishes) /\ boundJobs'[1].phase # "read"
        /\ boundKey'.cache = boundKey.cache /\ boundKey'.life = "up"
    BY <1>0, <2>1, KeySettles
  <2>3. BoundShapes' /\ Shown' = Shown
    BY <1>8, <2>2 DEF BoundShapes, Shown
  <2> QED
    BY <1>8, <2>2, <2>3 DEF PumpInv
<1>9. CASE UNCHANGED boundVars
  BY <1>9 DEF boundVars, BoundShapes, PumpInv, Shown
<1> QED
  BY <1>1, <1>2, <1>3, <1>4, <1>5, <1>6, <1>7, <1>8, <1>9
     DEF BoundNext, BoundCompletes, Bound!Complete

\* Every state of the pump is of its type, for any number of publishes.
THEOREM BoundTypeCorrect == BoundSpec => []BoundTypeOK
<1>1. BoundInv => BoundTypeOK
  <2> SUFFICES ASSUME BoundInv PROVE BoundTypeOK
    OBVIOUS
  <2>1. KeyTyped(boundKey, boundJobs, MaxPublishes)
    BY DEF BoundInv, BoundShapes
  <2>2. Bound!ManagerTypeOK
    BY <2>1, KeyValues DEF Bound!ManagerTypeOK, Bound!Registrations, KeyTyped, OneKey
  <2> QED
    BY <2>2 DEF BoundInv, BoundShapes, BoundTypeOK
<1>2. BoundInv /\ [BoundNext]_boundVars => BoundInv'
  BY BoundSteps
<1> QED
  BY <1>1, <1>2, BoundInitInv, PTL DEF BoundSpec

\* However the publishes fall between the steps of a recompose, each frame that the
\* board shows is of a later publish than the one before it: the safety half of
\* TheLastValueIsShown, for any number of publishes.
THEOREM BoardGoesForward == BoundSpec => Board!Init /\ [][Board!Next]_(Board!publicationVars)
<1>1. BoundInv /\ [BoundNext]_boundVars => BoundInv'
  BY BoundSteps
<1>2. BoundInv /\ [BoundNext]_boundVars => [Board!Next]_(Board!publicationVars)
  BY BoundSteps
<1> QED
  BY <1>1, <1>2, BoundInitInv, PTL DEF BoundSpec
-----------------------------------------------------------------------------
(* MCServices: the services side by side.                                  *)

ServicesBox == ServicesInit /\ [][ServicesNext]_<<part, allVars>>

LEMMA ServicesBegin ==
    ServicesInit => /\ Init /\ PanelInit /\ BoundInit /\ ApprovalInit /\ OpInit
                    /\ AttemptInit /\ TurnInit /\ LeaseInit /\ RefreshInit /\ ChatInit
                    /\ part \in Parts
BY DEF ServicesInit

\* A step of one part leaves the others as they are.
LEMMA ServicesMove ==
    [ServicesNext]_<<part, allVars>> =>
        /\ [Next]_vars /\ [PanelNext]_panelVars /\ [BoundNext]_boundVars
        /\ [ApprovalNext]_approvalVars /\ [OpNext]_opVars /\ [AttemptNext]_attemptVars
        /\ [TurnNext]_turnVars /\ [LeaseNext]_leaseVars /\ [RefreshNext]_refreshVars
        /\ [ChatNext]_chatVars
        /\ UNCHANGED part
<1>. SUFFICES ASSUME [ServicesNext]_<<part, allVars>>
              PROVE  /\ [Next]_vars /\ [PanelNext]_panelVars /\ [BoundNext]_boundVars
                     /\ [ApprovalNext]_approvalVars /\ [OpNext]_opVars
                     /\ [AttemptNext]_attemptVars /\ [TurnNext]_turnVars
                     /\ [LeaseNext]_leaseVars /\ [RefreshNext]_refreshVars
                     /\ [ChatNext]_chatVars /\ UNCHANGED part
  OBVIOUS
<1>1. CASE UNCHANGED <<part, allVars>>
  BY <1>1 DEF allVars
<1>2. CASE SlotsStep /\ UNCHANGED part
  BY <1>2 DEF SlotsStep, RestAfterPanel
<1>3. CASE PanelStep /\ UNCHANGED part
  BY <1>3 DEF PanelStep, RestAfterPanel
<1>4. CASE BoundStep /\ UNCHANGED part
  BY <1>4 DEF BoundStep, RestAfterOps
<1>5. CASE PromptsStep /\ UNCHANGED part
  BY <1>5 DEF PromptsStep, RestAfterOps
<1>6. CASE OpsStep /\ UNCHANGED part
  BY <1>6 DEF OpsStep, RestAfterOps
<1>7. CASE AttemptsStep /\ UNCHANGED part
  BY <1>7 DEF AttemptsStep, FirstParts
<1>8. CASE TurnStep /\ UNCHANGED part
  BY <1>8 DEF TurnStep, FirstParts
<1>9. CASE LeasesStep /\ UNCHANGED part
  BY <1>9 DEF LeasesStep, FirstParts
<1>10. CASE RefreshStep /\ UNCHANGED part
  BY <1>10 DEF RefreshStep, FirstParts
<1>11. CASE ChatStep /\ UNCHANGED part
  BY <1>11 DEF ChatStep, FirstParts
<1>. QED BY <1>1, <1>2, <1>3, <1>4, <1>5, <1>6, <1>7, <1>8, <1>9, <1>10, <1>11
         DEF ServicesNext

\* What the services do side by side is what each of them does alone: no part of the run
\* is given less room, or more, than its own specification gives it, so that every
\* theorem about one of them holds in the run.
THEOREM ServicesAreThemselves ==
    ServicesSpec => /\ Spec /\ PanelSpec /\ BoundSpec /\ ApprovalSpec /\ OpSpec
                    /\ AttemptSpec /\ TurnSpec /\ LeaseSpec /\ RefreshSpec /\ ChatSpec
<1>1. ServicesSpec => ServicesBox
  BY DEF ServicesSpec, ServicesBox
<1>. QED BY <1>1, ServicesBegin, ServicesMove, PTL
         DEF ServicesBox, Spec, PanelSpec, BoundSpec, ApprovalSpec, OpSpec, AttemptSpec, TurnSpec,
             LeaseSpec, RefreshSpec, ChatSpec

\* Whichever of the services is at work, its state is of its type.
THEOREM ServicesTypeCorrect == ServicesSpec => []ServicesTypeOK
<1>1. ServicesSpec => [](part \in Parts)
  <2>1. ServicesSpec => ServicesBox
    BY DEF ServicesSpec, ServicesBox
  <2>2. part \in Parts /\ [ServicesNext]_<<part, allVars>> => (part \in Parts)'
    BY ServicesMove
  <2>. QED BY <2>1, <2>2, ServicesBegin, PTL DEF ServicesBox
<1>2. /\ part \in Parts
      /\ TypeOK /\ PanelTypeOK /\ BoundTypeOK /\ ApprovalTypeOK /\ OpTypeOK
      /\ AttemptTypeOK /\ TurnTypeOK /\ LeaseTypeOK /\ RefreshTypeOK /\ ChatTypeOK
      => ServicesTypeOK
  BY PartsAssumption DEF ServicesTypeOK
<1>. QED BY <1>1, <1>2, ServicesAreThemselves, TypeCorrect, PanelTypeCorrect, BoundTypeCorrect,
            ApprovalTypeCorrect, OpTypeCorrect, AttemptTypeCorrect, TurnTypeCorrect,
            LeaseTypeCorrect, RefreshTypeCorrect, ChatTypeCorrect, PTL
=============================================================================
