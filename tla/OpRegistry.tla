----------------------------- MODULE OpRegistry -----------------------------
(***************************************************************************)
(* createOpRegistry (apps/server/src/op-registry.ts) over its store        *)
(* (apps/server/src/op-store.ts): the long-running operations of ribs.     *)
(*                                                                         *)
(* Abort listeners and steer callbacks are the rib's code, called in the   *)
(* middle of cancel(), steer() and drain(); there, as anywhere, it may use *)
(* the handles of all its operations.  It cannot cancel or steer there:    *)
(* that is for the tools run_cancel and run_steer (op-tools.ts), which a   *)
(* model calls.  Any operation may accept steering.  A call on a handle    *)
(* that is no longer live does nothing and is no action.  progress() is    *)
(* log().  Rows that the store prunes are kept here.                       *)
(***************************************************************************)
EXTENDS Naturals, Sequences, SequencesExt

CONSTANTS
    Ops,            \* the operations ribs register
    MaxLogs         \* bound on the frames of one operation that are not terminal

VARIABLES
    opRows,         \* status column; "none": no row
    frames,         \* the kinds of the events of each operation
    live,           \* the operations with a controller, in the order of the map
    closed,         \* drain() has begun
    inside,         \* the callback that is running, and whose
    rest            \* what drain() has still to visit

opVars == <<opRows, frames, live, closed, inside, rest>>

Outside == [kind |-> "none"]

OpTypeOK ==
    /\ opRows \in [Ops -> {"none", "running", "done", "error", "cancelled", "orphaned"}]
    /\ frames \in [Ops -> Seq({"log", "done", "error"})]
    /\ {live, rest} \subseteq Seq(Ops)
    /\ closed \in BOOLEAN
    /\ inside = Outside \/ inside \in [kind : {"abort", "steer"}, op : Ops]

OpInit ==
    /\ opRows = [o \in Ops |-> "none"]
    /\ frames = [o \in Ops |-> <<>>]
    /\ live = <<>>
    /\ closed = FALSE
    /\ inside = Outside
    /\ rest = <<>>

IsLive(o) == o \in ToSet(live)
Without(o) == IF IsLive(o) THEN RemoveAt(live, CHOOSE i \in DOMAIN live : live[i] = o) ELSE live
CanLog(o) == Len(frames[o]) < MaxLogs

AppendEvent(o, kind) == frames' = [frames EXCEPT ![o] = Append(@, kind)]

\* store.settle(): the frame always, the row if it is running, in one transaction.
StoreSettle(o, status, kind) ==
    /\ AppendEvent(o, kind)
    /\ opRows' = [opRows EXCEPT ![o] = IF @ = "running" THEN status ELSE @]

-----------------------------------------------------------------------------
(* The handle                                                              *)

\* After drain() has begun the handle is inert.
RegisterOp(o) ==
    /\ ~closed
    /\ opRows[o] = "none"
    /\ opRows' = [opRows EXCEPT ![o] = "running"]
    /\ live' = Append(live, o)
    /\ UNCHANGED <<frames, closed, inside, rest>>

Log(o) ==
    /\ IsLive(o)
    /\ CanLog(o)
    /\ AppendEvent(o, "log")
    /\ UNCHANGED <<opRows, live, closed, inside, rest>>

\* done() and error()
SettleOp(o, kind) ==
    /\ IsLive(o)
    /\ StoreSettle(o, kind, kind)
    /\ live' = Without(o)
    /\ UNCHANGED <<closed, inside, rest>>

-----------------------------------------------------------------------------
(* run_cancel and run_steer                                                *)

\* A bug to catch: the operation is live while its listener runs.
CancelOp_AbortsFirst(o) ==
    /\ inside = Outside /\ rest = <<>>
    /\ opRows[o] = "running" /\ IsLive(o)
    /\ StoreSettle(o, "cancelled", "error")
    /\ inside' = [kind |-> "abort", op |-> o]
    /\ UNCHANGED <<live, closed, rest>>

\* Refused unless the row is running and its controller is here.
CancelOp(o) ==
    /\ inside = Outside /\ rest = <<>>
    /\ opRows[o] = "running" /\ IsLive(o)
    /\ StoreSettle(o, "cancelled", "error")
    /\ live' = Without(o)
    /\ inside' = [kind |-> "abort", op |-> o]
    /\ UNCHANGED <<closed, rest>>

SteerOp(o) ==
    /\ inside = Outside /\ rest = <<>>
    /\ opRows[o] = "running" /\ IsLive(o)
    /\ CanLog(o)
    /\ AppendEvent(o, "log")
    /\ inside' = [kind |-> "steer", op |-> o]
    /\ UNCHANGED <<opRows, live, closed, rest>>

\* A callback that throws is recorded, unless it has settled the operation first.
SteerThrows(o) ==
    /\ inside = [kind |-> "steer", op |-> o]
    /\ IF IsLive(o) /\ CanLog(o) THEN AppendEvent(o, "log") ELSE UNCHANGED frames
    /\ inside' = Outside
    /\ UNCHANGED <<opRows, live, closed, rest>>

CallbackReturns ==
    /\ inside # Outside
    /\ inside' = Outside
    /\ UNCHANGED <<opRows, frames, live, closed, rest>>

-----------------------------------------------------------------------------
(* Shutdown, crash and boot                                                *)

\* Iterates a copy of the map.
Drain ==
    /\ ~closed
    /\ inside = Outside
    /\ closed' = TRUE
    /\ rest' = live
    /\ UNCHANGED <<opRows, frames, live, inside>>

\* Settling is best effort.
DrainNext ==
    /\ inside = Outside
    /\ rest # <<>>
    /\ LET o == Head(rest) IN
        /\ live' = Without(o)
        /\ StoreSettle(o, "cancelled", "error") \/ UNCHANGED <<opRows, frames>>
        /\ inside' = [kind |-> "abort", op |-> o]
    /\ rest' = Tail(rest)
    /\ UNCHANGED closed

\* The process ends, after a drain or without one; createOpStore() of the next
\* one marks what still says running.
Restart ==
    /\ opRows' = [o \in Ops |-> IF opRows[o] = "running" THEN "orphaned" ELSE opRows[o]]
    /\ live' = <<>>
    /\ closed' = FALSE
    /\ inside' = Outside
    /\ rest' = <<>>
    /\ UNCHANGED frames

OpNext ==
    \/ \E o \in Ops :
        \/ RegisterOp(o) \/ Log(o) \/ SettleOp(o, "done") \/ SettleOp(o, "error")
        \/ CancelOp(o) \/ SteerOp(o) \/ SteerThrows(o)
    \/ CallbackReturns
    \/ Drain \/ DrainNext \/ Restart

OpSpec == OpInit /\ [][OpNext]_opVars

-----------------------------------------------------------------------------
(* Properties.                                                             *)

\* Where some frames tell a verdict, and the first one.
Verdicts(kinds) == {i \in DOMAIN kinds : kinds[i] # "log"}
FirstVerdict(kinds) ==
    {kinds[i] : i \in {i \in Verdicts(kinds) : \A j \in Verdicts(kinds) : i <= j}}

VerdictOf(status) ==
    CASE status = "done" -> {"done"}
      [] status \in {"error", "cancelled"} -> {"error"}
      [] OTHER -> {}

\* The row tells the first verdict among the frames, or that there is none yet,
\* and while the server is not shutting down nothing is appended behind a verdict,
\* whatever the callbacks do to the operation they are called for: a poller may
\* stop at the first terminal frame.
OneVerdict ==
    /\ [](\A o \in Ops : VerdictOf(opRows[o]) = FirstVerdict(frames[o]))
    /\ [][\A o \in Ops : ~closed /\ Verdicts(frames[o]) # {} => frames'[o] = frames[o]]_opVars
=============================================================================
