--------------------------- MODULE SnapshotPanel ---------------------------
(***************************************************************************)
(* A panel of the web application that follows a snapshot key: useSnapshot *)
(* (apps/web/src/hooks/useSnapshot.ts) over its reconnecting socket        *)
(* (apps/web/src/ws.ts) and the guard on versions                          *)
(* (apps/web/src/lib/snapshotGuard.ts), against the routes of              *)
(* apps/server/src/snapshots-handler.ts and the SnapshotManager.           *)
(*                                                                         *)
(* The GET and the socket are separate connections: an answer and a frame  *)
(* may overtake each other.  What the key publishes is a counter that its  *)
(* producer increments.                                                    *)
(***************************************************************************)
EXTENDS SnapshotManager

CONSTANT MaxSource      \* bound on the changes of the producer's state

ASSUME PanelAssumption == MaxSource \in Nat

VARIABLES
    source,     \* the state the composer reads
    conn,       \* the reconnecting socket
    get,        \* the GET in flight (`hydrating`): none, sent, or its answer
    cursor,     \* the SnapshotCursor
    shown       \* the frame on display

panelVars == <<key, jobs, socket, source, conn, get, cursor, shown>>
clientVars == <<conn, get, cursor, shown>>
serverVars == <<key, jobs, socket, source>>

Fetch(kind) == [kind |-> kind, frame |-> NoFrame]

PanelTypeOK ==
    /\ ManagerTypeOK
    /\ source \in 0 .. MaxSource
    /\ conn \in {"connecting", "accepted", "open", "reconnecting", "closed"}
    /\ get.kind \in {"none", "sent", "frame", "pending", "gone"}
    /\ cursor \in [seen : -1 .. MaxVersion, applied : BOOLEAN]

\* The effect has run: the socket is connecting and the first GET is on its way.
PanelInit ==
    /\ ManagerInit
    /\ source = 0
    /\ conn = "connecting"
    /\ get = Fetch("sent")
    /\ cursor = [seen |-> -1, applied |-> FALSE]
    /\ shown = NoFrame

-----------------------------------------------------------------------------
(* The producer                                                            *)

\* Changes its state, then calls recompose(): nothing starts if one is in flight.
Produce ==
    /\ source < MaxSource
    /\ source' = source + 1
    /\ \/ RecomposeAsync
       \/ ~CanStart /\ UNCHANGED managerVars
    /\ UNCHANGED clientVars

Compose(r) ==
    /\ \/ ComposerReads(r, source)
       \/ Complete(r)
       \/ Finally(r)
    /\ UNCHANGED <<source, clientVars>>

PanelManager ==
    /\ \/ Register
       \/ DisposeBegin
       \/ DisposeEnd
       \/ \E r \in Registrations : Unregister(r) \/ ComposeFails(r)
    /\ UNCHANGED <<source, clientVars>>

-----------------------------------------------------------------------------
(* hydrate()                                                               *)

\* The in-flight guard: a second call does nothing.
Hydrating == IF get.kind = "none" THEN Fetch("sent") ELSE get

Reload ==
    /\ get.kind = "none"
    /\ get' = Hydrating
    /\ UNCHANGED <<serverVars, conn, cursor, shown>>

\* GET /api/snapshots/:key
GetIsAnswered ==
    /\ get.kind = "sent"
    /\ get' = IF key.cache # NoFrame THEN [kind |-> "frame", frame |-> key.cache]
              ELSE IF key.composer # 0 THEN Fetch("pending")
              ELSE Fetch("gone")
    /\ UNCHANGED <<serverVars, conn, cursor, shown>>

GetFails ==
    /\ get.kind # "none"
    /\ get' = Fetch("none")
    /\ UNCHANGED <<serverVars, conn, cursor, shown>>

\* shouldApplyFrame(): version 0 is always a new baseline.
ShouldApply(v) == v = 0 \/ ~cursor.applied \/ v > cursor.seen

ApplyFrame(f) ==
    IF ShouldApply(f.version)
    THEN /\ cursor' = [seen |-> f.version, applied |-> TRUE]
         /\ shown' = f
    ELSE UNCHANGED <<cursor, shown>>

GetArrives ==
    /\ get.kind \in {"frame", "pending"}
    /\ get' = Fetch("none")
    /\ IF get.kind = "frame" THEN ApplyFrame(get.frame) ELSE UNCHANGED <<cursor, shown>>
    /\ UNCHANGED <<serverVars, conn>>

\* A bug to catch: a key that is gone leaves the socket reconnecting.
GoneArrives_KeepsOpen ==
    /\ get.kind = "gone"
    /\ get' = Fetch("none")
    /\ UNCHANGED <<serverVars, conn, cursor, shown>>

\* handle.close(): the last frame stays on display.
GoneArrives ==
    /\ get.kind = "gone"
    /\ get' = Fetch("none")
    /\ conn' = "closed"
    /\ socket' = [on |-> FALSE, sent |-> <<>>]
    /\ UNCHANGED <<key, jobs, source, cursor, shown>>

-----------------------------------------------------------------------------
(* createReconnectingSnapshotWs()                                          *)

\* The server's open handler subscribes the socket; nothing is replayed.
Accept ==
    /\ conn = "connecting"
    /\ conn' = "accepted"
    /\ socket' = [on |-> TRUE, sent |-> <<>>]
    /\ UNCHANGED <<key, jobs, source, get, cursor, shown>>

\* A bug to catch: the first hydration is the only one.
OnOpen_NoHydrate ==
    /\ conn = "accepted"
    /\ conn' = "open"
    /\ UNCHANGED <<serverVars, get, cursor, shown>>

OnOpen ==
    /\ conn = "accepted"
    /\ conn' = "open"
    /\ get' = Hydrating
    /\ UNCHANGED <<serverVars, cursor, shown>>

OnFrame ==
    /\ conn = "open"
    /\ socket.sent # <<>>
    /\ ApplyFrame(Head(socket.sent))
    /\ socket' = [socket EXCEPT !.sent = Tail(@)]
    /\ UNCHANGED <<key, jobs, source, conn, get>>

\* The server closed it, or the network dropped it with the frames under way.
OnClose ==
    /\ conn \in {"connecting", "accepted", "open"}
    /\ conn' = "reconnecting"
    /\ socket' = [on |-> FALSE, sent |-> <<>>]
    /\ UNCHANGED <<key, jobs, source, get, cursor, shown>>

Reopen ==
    /\ conn = "reconnecting"
    /\ conn' = "connecting"
    /\ UNCHANGED <<serverVars, get, cursor, shown>>

-----------------------------------------------------------------------------
Answer == GetIsAnswered \/ GetArrives \/ GoneArrives

Panel == Reload \/ Answer \/ GetFails \/ Accept \/ OnOpen \/ OnFrame \/ OnClose \/ Reopen

PanelNext ==
    \/ Produce
    \/ \E r \in Registrations : Compose(r)
    \/ PanelManager
    \/ Panel

PanelSpec == PanelInit /\ [][PanelNext]_panelVars

-----------------------------------------------------------------------------
(* Properties.                                                             *)

\* A producer that has dropped its key for good does not drive an endless
\* reopen loop, whatever the network drops in the meantime.
NoEndlessReopening == <>[](key.composer = 0) => <>[](conn \in {"open", "closed"})

\* What a step may show instead of the frame on display.
GoesForward ==
    shown'.reg = shown.reg => shown'.version >= shown.version \/ shown'.version = 0

\* However answers and frames overtake each other, the panel goes back within a
\* registration to version 0 alone, which the guard takes for a new baseline.
OnlyZeroGoesBack == [][GoesForward]_panelVars
=============================================================================
