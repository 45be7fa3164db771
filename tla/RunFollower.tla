---------------------------- MODULE RunFollower ----------------------------
(***************************************************************************)
(* A view that follows one launch of a run: useWorkflowRun                 *)
(* (apps/web/src/hooks/useWorkflowRun.ts) over its reconnecting socket     *)
(* (apps/web/src/ws.ts), against the frames and rows that the launch       *)
(* writes (dispatchRunEvent, awaitApproval and the socket handlers of      *)
(* apps/server/src/workflows-handler.ts).                                  *)
(*                                                                         *)
(* Frames come over the socket in order; the answer of a GET comes when it *)
(* comes.  Of a chunk the view keeps that the node is at work; what it     *)
(* says is left out.                                                       *)
(***************************************************************************)
EXTENDS Naturals, Sequences, SequencesExt

CONSTANTS
    Steps,      \* the nodes of the run
    MaxTurns,   \* bound on what a node does: its starts (a converge round starts it
                \* again), its chunks and the pauses of the launch together
    MaxDrops    \* bound on the losses of the socket

ASSUME FollowAssumption == IsFiniteSet(Steps) /\ MaxTurns \in Nat /\ MaxDrops \in Nat

VARIABLES
    launch,     \* the row of the run, the abort, how it died
    work,       \* each node in memory: currentNodes and pendingApprovals
    nodeRows,   \* workflow_node_outputs
    wire,       \* the reconnecting socket and the frames on their way
    fetch,      \* the GET of the last generation
    view        \* the state of the hook

followVars == <<launch, work, nodeRows, wire, fetch, view>>
serverRun == <<launch, work, nodeRows>>

Outcomes == {"succeeded", "failed"}
IsSettled(s) == s \in {"succeeded", "failed", "skipped", "cancelled"}
NoRow == [status |-> "none"]
EmptyNode == [status |-> "pending", pause |-> 0]
Absent == [status |-> "absent", pause |-> 0]     \* the view has no entry for the node
Entry(node) == IF node = Absent THEN EmptyNode ELSE node
NoFetch == [kind |-> "none"]

FollowTypeOK ==
    /\ launch.status \in {"running", "paused", "succeeded", "failed", "cancelled"}
    /\ \A n \in Steps :
        /\ work[n].phase \in {"waiting", "running", "awaiting", "over"}
        /\ work[n].starts \in 0 .. MaxTurns /\ work[n].pause \in 0 .. MaxTurns
        /\ nodeRows[n].status \in {"none", "awaiting", "skipped"} \cup Outcomes
        /\ view.nodes[n].status \in {"absent", "pending", "running", "awaiting"}
            \/ IsSettled(view.nodes[n].status)
    /\ wire.at \in {"connecting", "accepted", "open", "reconnecting", "closed"}
    /\ wire.subscribed \/ wire.frames # <<>> => wire.at \in {"accepted", "open"}
    /\ fetch.kind \in {"none", "sent", "answer"}

\* The launch has just been started; the effect has run: the socket is connecting and
\* the first GET is on its way.
FollowInit ==
    /\ launch = [status |-> "running", aborted |-> FALSE, byNode |-> FALSE, over |-> FALSE,
                 died |-> FALSE, pauses |-> 0]
    /\ work = [n \in Steps |-> [phase |-> "waiting", starts |-> 0, said |-> 0, pause |-> 0]]
    /\ nodeRows = [n \in Steps |-> NoRow]
    /\ wire = [at |-> "connecting", subscribed |-> FALSE, ended |-> FALSE, frames |-> <<>>,
               stopped |-> FALSE, drops |-> 0]
    /\ fetch = [kind |-> "sent"]
    /\ view = [run |-> "loading", loaded |-> "loading", nodes |-> [n \in Steps |-> Absent]]

-----------------------------------------------------------------------------
(* The launch                                                              *)

\* broadcast(): a frame for whom nobody is subscribed is lost.
Broadcast(f) ==
    wire' = IF wire.subscribed THEN [wire EXCEPT !.frames = Append(@, f)] ELSE wire

Alive == ~launch.over
HasTurns(n) == work[n].starts + work[n].said + launch.pauses < MaxTurns

NodeStarts(n) ==
    /\ Alive /\ ~launch.aborted
    /\ work[n].phase \in {"waiting", "over"} /\ HasTurns(n)
    /\ work' = [work EXCEPT ![n].phase = "running", ![n].starts = @ + 1]
    /\ nodeRows' = [nodeRows EXCEPT ![n] = NoRow]
    /\ Broadcast([type |-> "node_started", node |-> n])
    /\ UNCHANGED <<launch, fetch, view>>

NodeSays(n) ==
    /\ Alive
    /\ work[n].phase = "running" /\ HasTurns(n)
    /\ work' = [work EXCEPT ![n].said = @ + 1]
    /\ Broadcast([type |-> "node_chunk", node |-> n])
    /\ UNCHANGED <<launch, nodeRows, fetch, view>>

\* awaitApproval() and awaitInteraction()
NodePauses(n) ==
    /\ Alive /\ ~launch.aborted
    /\ work[n].phase = "running" /\ HasTurns(n)
    /\ launch' = [launch EXCEPT !.status = "paused", !.pauses = @ + 1]
    /\ work' = [work EXCEPT ![n].phase = "awaiting", ![n].pause = launch.pauses + 1]
    /\ nodeRows' = [nodeRows EXCEPT ![n] = [status |-> "awaiting"]]
    /\ Broadcast([type |-> "approval_awaiting", node |-> n, pause |-> launch.pauses + 1])
    /\ UNCHANGED <<fetch, view>>

Paused == {n \in Steps : work[n].phase = "awaiting"}

\* resolveApprovalCore() and settle.resolve().
NodeIsAnswered(n) ==
    /\ Alive
    /\ work[n].phase = "awaiting"
    /\ launch' = [launch EXCEPT !.status = IF Paused = {n} THEN "running" ELSE @]
    /\ work' = [work EXCEPT ![n].phase = "running"]
    /\ nodeRows' = [nodeRows EXCEPT ![n] = NoRow]
    /\ Broadcast([type |-> "approval_resolved", node |-> n])
    /\ UNCHANGED <<fetch, view>>

\* Also of a node that is skipped without having started.
NodeIsDone(n, o) ==
    /\ Alive
    /\ \/ work[n].phase = "running" /\ o \in Outcomes
       \/ work[n].phase = "waiting" /\ o = "skipped"
    /\ work' = [work EXCEPT ![n].phase = "over"]
    /\ nodeRows' = [nodeRows EXCEPT ![n] = [status |-> o]]
    /\ Broadcast([type |-> "node_done", node |-> n, status |-> o])
    /\ UNCHANGED <<launch, fetch, view>>

\* The abort rejects what is pending; the rows say awaiting until the nodes are done.
Rejected == [n \in Steps |->
    IF work[n].phase = "awaiting" THEN [work[n] EXCEPT !.phase = "running"] ELSE work[n]]

RunIsCancelled ==
    /\ Alive /\ ~launch.aborted
    /\ launch' = [launch EXCEPT !.aborted = TRUE]
    /\ work' = Rejected
    /\ UNCHANGED <<nodeRows, wire, fetch, view>>

\* requestCancel(), called by a cancel node: the row says cancelled at once.
NodeCancelsRun ==
    /\ Alive /\ ~launch.aborted
    /\ \E n \in Steps : work[n].phase = "running"
    /\ launch' = [launch EXCEPT !.aborted = TRUE, !.byNode = TRUE, !.status = "cancelled"]
    /\ work' = Rejected
    /\ UNCHANGED <<nodeRows, wire, fetch, view>>

\* closeRun(): the socket is closed behind the frames it was sent.
Closing(f) ==
    IF wire.subscribed
    THEN [wire EXCEPT !.frames = Append(@, f), !.subscribed = FALSE, !.ended = TRUE]
    ELSE wire

\* The executor leaves an output for every node; a launch that is closed before it
\* starts leaves none.
LaunchEnds(s) ==
    /\ Alive
    /\ \/ \A n \in Steps : work[n].phase = "over"
       \/ \A n \in Steps : work[n].phase = "waiting"
    /\ s \in (IF launch.aborted THEN {"cancelled"} ELSE Outcomes)
    /\ launch' = [launch EXCEPT !.status = s, !.over = TRUE]
    /\ wire' = Closing([type |-> "run_done", status |-> s])
    /\ UNCHANGED <<work, nodeRows, fetch, view>>

\* The server dies and boots: whatever is not over has failed, also the nodes that
\* waited for an answer.
ServerDies ==
    /\ Alive
    /\ launch' = [launch EXCEPT !.status = IF @ \in {"running", "paused"} THEN "failed" ELSE @,
                                !.over = TRUE, !.died = TRUE]
    /\ nodeRows' = [n \in Steps |-> IF nodeRows[n].status = "awaiting"
                                    THEN [nodeRows[n] EXCEPT !.status = "failed"]
                                    ELSE nodeRows[n]]
    /\ work' = [n \in Steps |-> [work[n] EXCEPT !.phase = "over"]]
    /\ wire' = [wire EXCEPT !.at = IF @ = "closed" THEN @ ELSE "reconnecting",
                            !.subscribed = FALSE, !.ended = FALSE, !.frames = <<>>]
    /\ UNCHANGED <<fetch, view>>

ServerFollowed ==
    \/ \E n \in Steps :
        \/ NodeStarts(n) \/ NodeSays(n) \/ NodePauses(n) \/ NodeIsAnswered(n)
        \/ \E o \in Outcomes \cup {"skipped"} : NodeIsDone(n, o)
    \/ RunIsCancelled \/ NodeCancelsRun \/ ServerDies
    \/ \E s \in Outcomes \cup {"cancelled"} : LaunchEnds(s)

-----------------------------------------------------------------------------
(* hydrate()                                                               *)

\* Answers of older generations are ignored, so only the last one is here.
Hydrate == [kind |-> "sent"]

\* GET /api/workflows/runs/:runId with the overlay of running nodes, as
\* hydrateFromSnapshot reads it.
SnapshotOf(n) ==
    LET row == nodeRows[n]
        running == work[n].phase = "running" /\ Alive
    IN  IF running /\ row.status # "awaiting" THEN [EmptyNode EXCEPT !.status = "running"]
        ELSE IF row.status = "none" THEN Absent
        ELSE [status |-> row.status, pause |-> 0]

FetchIsAnswered ==
    /\ fetch.kind = "sent"
    /\ fetch' = [kind |-> "answer", run |-> launch.status,
                 nodes |-> [n \in Steps |-> SnapshotOf(n)]]
    /\ UNCHANGED <<serverRun, wire, view>>

FetchFails ==
    /\ fetch.kind # "none"
    /\ fetch' = NoFetch
    /\ view' = [view EXCEPT !.loaded = "error"]
    /\ UNCHANGED <<serverRun, wire>>

\* A bug to catch: what the view has inferred wins over what was persisted.
WinningStatus_Live(snap, live) ==
    IF live.status # "pending" THEN live.status ELSE snap.status

\* The row of a node whose pause is over has been deleted.
PersistedWins(snap, live) ==
    \/ IsSettled(snap.status)
    \/ snap.status = "awaiting" /\ ~IsSettled(live.status)
    \/ snap.status = "pending" /\ live.status = "awaiting"
    \/ live.status = "pending"

WinningStatus(snap, live) == IF PersistedWins(snap, live) THEN snap.status ELSE live.status

MergeNode(snap, live) ==
    LET status == WinningStatus(snap, live)
    IN  [status |-> status,
         pause |-> IF status = "awaiting" THEN live.pause ELSE 0]

ChooseRunStatus(live, snap) ==
    IF IsSettled(snap) \/ snap = "paused" \/ live = "loading" THEN snap ELSE live

FetchArrives ==
    /\ fetch.kind = "answer"
    /\ fetch' = NoFetch
    /\ view' = [run |-> ChooseRunStatus(view.run, fetch.run), loaded |-> "ready",
                nodes |-> [n \in Steps |->
                    IF view.nodes[n] = Absent THEN fetch.nodes[n]
                    ELSE MergeNode(Entry(fetch.nodes[n]), view.nodes[n])]]
    /\ UNCHANGED <<serverRun, wire>>

-----------------------------------------------------------------------------
(* applyFrame()                                                            *)

NodeAfter(node, f) ==
    CASE f.type = "node_started" ->
            [(IF IsSettled(node.status) THEN EmptyNode ELSE Entry(node))
                EXCEPT !.status = "running"]
      [] f.type = "node_chunk" ->
            [Entry(node) EXCEPT !.status = IF IsSettled(@) THEN @ ELSE "running"]
      [] f.type = "node_done" -> [Entry(node) EXCEPT !.status = f.status]
      [] f.type = "approval_awaiting" ->
            [Entry(node) EXCEPT !.status = "awaiting", !.pause = f.pause]
      [] f.type = "approval_resolved" ->
            IF node = Absent \/ IsSettled(node.status) THEN node
            ELSE [node EXCEPT !.status = "running", !.pause = 0]

ApplyFrameTo(v, f) ==
    IF f.type = "run_done"
    THEN [v EXCEPT !.run = f.status,
                   !.nodes = [n \in Steps |->
                       IF /\ f.status = "cancelled" /\ @[n] # Absent
                          /\ ~IsSettled(@[n].status)
                       THEN [@[n] EXCEPT !.status = "cancelled"] ELSE @[n]]]
    ELSE [v EXCEPT !.nodes[f.node] = NodeAfter(@, f)]

\* A done node is hydrated if the view has nothing of it, going by a copy of the state
\* that is as old as the last effect.
MayHydrate(f) ==
    CASE f.type \in {"approval_awaiting", "approval_resolved", "run_done"} -> {TRUE}
      [] f.type = "node_done" -> BOOLEAN
      [] OTHER -> {FALSE}

FrameIsApplied ==
    /\ wire.at = "open" /\ wire.frames # <<>>
    /\ LET f == Head(wire.frames)
       IN  /\ view' = ApplyFrameTo(view, f)
           /\ \E again \in MayHydrate(f) : fetch' = IF again THEN Hydrate ELSE fetch
           /\ wire' = [wire EXCEPT !.frames = Tail(@),
                                   !.stopped = @ \/ f.type = "run_done"]
    /\ UNCHANGED serverRun

-----------------------------------------------------------------------------
(* createReconnectingWorkflowRunWs() and the server's open handler         *)

\* A bug to catch: the pauses that are open are not replayed.
WsIsAccepted_NoReplay ==
    /\ wire.at = "connecting"
    /\ wire' = IF launch.status \in {"running", "paused"}
               THEN [wire EXCEPT !.at = "accepted", !.subscribed = TRUE]
               ELSE [wire EXCEPT !.at = "accepted", !.ended = TRUE,
                        !.frames = <<[type |-> "run_done", status |-> launch.status]>>]
    /\ UNCHANGED <<serverRun, fetch, view>>

\* A run that is over by its row is told so; otherwise the pauses that are open are
\* replayed.
WsIsAccepted ==
    /\ wire.at = "connecting"
    /\ wire' = IF launch.status \in {"running", "paused"}
               THEN [wire EXCEPT !.at = "accepted", !.subscribed = TRUE,
                        !.frames = SetToSeq({[type |-> "approval_awaiting", node |-> n,
                                              pause |-> work[n].pause] : n \in Paused})]
               ELSE [wire EXCEPT !.at = "accepted", !.ended = TRUE,
                        !.frames = <<[type |-> "run_done", status |-> launch.status]>>]
    /\ UNCHANGED <<serverRun, fetch, view>>

WsOpens ==
    /\ wire.at = "accepted"
    /\ wire' = [wire EXCEPT !.at = "open"]
    /\ fetch' = Hydrate
    /\ UNCHANGED <<serverRun, view>>

\* A bug to catch: the subscriber of a socket that is gone stays in the registry.
AfterClose_StillSubscribed ==
    [wire EXCEPT !.at = IF wire.stopped THEN "closed" ELSE "reconnecting",
                 !.ended = FALSE, !.frames = <<>>]

AfterClose == [wire EXCEPT !.at = IF wire.stopped THEN "closed" ELSE "reconnecting",
                        !.subscribed = FALSE, !.ended = FALSE, !.frames = <<>>]

\* The server has closed it, behind its frames.
WsCloses ==
    /\ wire.at = "open" /\ wire.ended /\ wire.frames = <<>>
    /\ wire' = AfterClose
    /\ UNCHANGED <<serverRun, fetch, view>>

WsIsLost ==
    /\ wire.at \in {"connecting", "accepted", "open"} /\ wire.drops < MaxDrops
    /\ wire' = [AfterClose EXCEPT !.drops = @ + 1]
    /\ UNCHANGED <<serverRun, fetch, view>>

WsReopens ==
    /\ wire.at = "reconnecting"
    /\ wire' = [wire EXCEPT !.at = "connecting"]
    /\ UNCHANGED <<serverRun, fetch, view>>

FollowNext ==
    \/ ServerFollowed
    \/ FetchIsAnswered \/ FetchFails \/ FetchArrives \/ FrameIsApplied
    \/ WsIsAccepted \/ WsOpens \/ WsCloses \/ WsIsLost \/ WsReopens

\* The network delivers what is sent or loses the socket; the reconnect timer fires.
\* Of the launch and of the GETs nothing is assumed.
FollowFairness ==
    /\ WF_followVars(WsIsAccepted) /\ WF_followVars(WsOpens) /\ WF_followVars(WsReopens)
    /\ WF_followVars(FrameIsApplied)

FollowSpec == FollowInit /\ [][FollowNext]_followVars /\ FollowFairness

-----------------------------------------------------------------------------
(* Properties.                                                             *)

\* A view that has heard the end of a run shows what its rows say, whatever it missed
\* and inferred on the way, also when a pause was cut off and the answers of older
\* GETs were still under way; unless a cancel node had the view told of the end while
\* nodes were at work, or the server died under them.
FinishedRunIsShown ==
    /\ wire.at = "closed" /\ fetch.kind = "none" /\ view.loaded = "ready"
    /\ ~launch.byNode /\ ~launch.died
    => /\ view.run = launch.status
       /\ \A n \in Steps : nodeRows[n].status # "none" =>
              view.nodes[n].status = nodeRows[n].status

\* A pause that stays open is shown, with the token that answers it, though the frame
\* that opened it or the socket was lost.
PausesAreShown ==
    \A n \in Steps, p \in 1 .. MaxTurns :
        work[n].phase = "awaiting" /\ work[n].pause = p
            ~> \/ work[n].phase # "awaiting" \/ work[n].pause # p
               \/ view.nodes[n].status = "awaiting" /\ view.nodes[n].pause = p

=============================================================================
