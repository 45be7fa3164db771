# Keelson in TLA+

Keelson is a local harness for agent work: a server (`apps/server`) that runs
declarative workflows (`packages/workflows`), holds chats, and lets extensions
("ribs") contribute tools, workflows and surfaces; a CLI and a web application
are its clients. This directory holds TLA+ models of the part of it that decides
and survives: the workflow executor, the server code that launches, cancels,
pauses, resumes and cleans up runs, the services around it, and the web clients
that follow them over sockets that come and go. TLC checks the models on small
instances and TLAPS proves the most important theorems for every instance.

Contents: [inventory](#inventory), [the models](#the-models),
[runs](#what-the-runs-check), [where code and documentation disagree](#where-code-and-documentation-disagree),
[fairness](#fairness), [proofs](#proofs), [what is not modelled](#what-is-not-modelled),
[plan](#plan).

## Inventory

Everything runs in one Bun process. JavaScript runs to the next `await`, so the
unit of interleaving is the stretch between two awaits; other actors (requests,
other runs, timers, abort listeners) run between them. What survives a crash is
SQLite and the disk; maps, locks and promises do not.

| Component | State | Operations | What is hard | What makes it correct |
|---|---|---|---|---|
| DAG executor (`packages/workflows/src/executor.ts`, `triggers.ts`) | `nodeOutputs`; ready queue, counters, nodes in flight; converge round | `runWorkflow`, `runReady`, `runLayers`, the converge loop, the exhaust approval | nodes settle in any order; cancel at every await; rounds that forget; seeds from an earlier launch | a node runs once, after all it depends on, with outcomes that stay true; nothing is forgotten; the run closes with the status its outputs demand |
| Graph validation (`graph.ts`) | none | `validateDagShape`, `collectTransitiveDependents`, `buildTopologicalLayers` | cycles, unknown names | only graphs the executor can finish get through |
| Run rows and resume (`workflow-store.ts`, `workflows-handler.ts`) | `workflow_runs`, `workflow_node_outputs` | events to rows, boot reconcile, `buildResumeSeed`, `buildResumeExclusions` | crash between any two writes; a resume after a resume | what is reused on a resume is consistent with what is run again |
| Run lifecycle (`workflows-handler.ts`) | `activeRuns`, approvals pending, `worktreeOperations`, the listeners of ribs | start, resume, cancel, answer, purge, prune; prepare, execute, clean up | requests at every await of a launch; deletes under live runs; two entrances to resume | every live launch can be reached; row, registry, disk and what ribs were told agree |
| Run slots (`run-concurrency.ts`) | counter and queue | acquire, release, abort | abort between wake-up and continuation | no slot lost, idle or doubled; first come, first served |
| Mutation locks (`mutation-lock-*.ts`) | records of a project, in memory | acquire, release, reconcile | released by several ends of a launch | an exclusive holder is alone |
| Snapshots (`snapshot-manager.ts`, `snapshot-subscribers.ts`; `useSnapshot.ts` in the web application) | composers, latest frame, version, compose in flight; the cursor of a panel | register, unregister, recompose, dispose; GET, subscribe, reconnect | completion after re-registration; coalescing; GET and socket overtake each other | no frame of an old registration; the last change is shown; a panel never reconnects for ever |
| Workspace leases (`workspace-manager.ts`) | `workspace_leases`, checkouts on disk | acquire, release, reconcile | crash while acquiring; cleanup that fails | every checkout has a row; nobody's checkout is removed by another |
| Tool approvals (`approval-registry.ts`) | open approvals | request, resolve, abort, time out, clear | four ways to settle race | settled once, listed until then |
| Op registry (`op-registry.ts`, `op-store.ts`) | `ops`, `op_events`, live controllers | register, log, done, error, cancel, steer, drain | callbacks re-enter the registry | one terminal frame, the last one |
| Scheduler (`scheduler.ts`) | a timer | tick | hung collectors; de-duplication | a stale region is refreshed if those before it leave room, never twice at once |
| Agent turns and tool policy (`rib-agent-turn.ts`, `policy-engine.ts`) | a turn's controller, timer and drain cutoff; the relay to the rib's stream | run a turn, abort, time out, read the stream | a provider that falls silent; an abort before the cutoff is armed | an aborted turn ends; its verdict is kept |
| Chat (`chat-handler.ts`, `conversation-store.ts`; `Chat.tsx`) | conversation rows, turns; the refs of the view, its queue | send, queue, stop, switch, delete; a turn from frame to row | a socket that closes in mid-turn; a conversation deleted under it; several refs that must agree | what was streamed is stored; the composer comes back |
| Following a run (`useWorkflowRun.ts`, `workflowRunWebSocketHandlers`) | generation of the GET, nodes of the view; subscribers | hydrate, merge, apply a frame, reconnect | frames lost in a gap; answers older than frames | the end shows what was persisted; an open pause can be answered |
| Stores (projects, notebook, memory, usage, credentials, artifacts) | SQLite, files | synchronous transactions | migrations | SQL and file layout |
| Loader, schema, substitution, catalogs, evaluation | none | parse, validate, choose | text | the formats are what they say |
| Providers, MCP, CLI, web | sockets, SDK sessions | bridges and rendering | vendors | adapters |

Interactions. A start or resume *calls* `executeRunInBackground` without awaiting
it: it acquires a slot (isolated runs), prepares a worktree, and calls
`runWorkflow`, which *calls back* with events (`node_started`, `node_done`,
`run_done`) that the server turns into rows, WebSocket frames and rib events. An
approval node calls `awaitApproval`, a promise kept in the launch's entry of
`activeRuns` which the approval route resolves; a cancel node calls
`requestCancel`. Requests meet launches through three shared structures: the
row, `activeRuns`, and `worktreeOperations`.

Smaller services meet through the snapshot manager: the approval registry, bound
workflows and runs each recompose a key on a change, and the scheduler starts the
run that refreshes a stale key. Web clients follow keys, runs and chats over
reconnecting sockets that replay no more than open pauses; what a gap swallows they GET
again.

The hazards of this code are listed, each at its line with the properties aimed
at it, under `hazards` in `PROJECT.json`; every one has a property that a run checks.

## The models

```
WorkflowDag            graphs, trigger rules, subgraph, status of a run (no state)
  ├─ DagContract       what the executor promises, without its schedulers
  └─ DagExecutor       runWorkflow as written; implements DagContract
       └─ ResumableRun DagExecutor + rows + crash + resume
NodeAttempts           one node: retries, backoff, cancel, usage
RunSlots               the slot pool and its caller
RunLifecycle           launches, requests, worktrees, locks, ribs, crash
WorkspaceLeases        checkouts leased to ribs, failures, crash and boot
SnapshotManager        one snapshot key and a socket subscribed to it
  ├─ SnapshotPanel     + the web panel that follows the key
  ├─ BoundKey          + the pump of a bound workflow; implements Publication
  └─ ApprovalRegistry  + the prompts of tool calls; implements Verdict
OpRegistry             operations of ribs, their frames, drain and restart
AgentTurn              a rib's turn on a provider
RefreshScheduler       the heartbeat that starts collectors
Chat                   the chat view, its socket and the turns of the server
RunFollower            a view that follows a run
```

`MCDagExecutor`, `MCResumableRun`, `MCRunLifecycle` and `MCServices` give the
constants small values. The modules whose names end in `_proofs` hold the theorems.
Definitions whose comment begins with "a bug to catch" are broken variants of the
definition that follows them: each property is violated when one of them takes its
place, which shows that the property speaks about the code.

**WorkflowDag.** A workflow is a record: dependencies, trigger rules, conditional
nodes (`when:`), `always_run` nodes, the scheduling mode, the converge gate with
its rounds and exhaustion policy. `IsWorkflow` is what the loader accepts.
`Triggered` is `checkTriggerRule`, `Upstream` and `Downstream` the transitive
closures of `graph.ts` and `executor.ts` (as least closed sets, so that they can
be reasoned about), `RunStatus` is `computeRunStatus`.

**DagContract.** Four variables: workflow, seed, outputs, status. Undecided nodes
whose dependencies are decided get an outcome their trigger rule allows; a
decision is final except for converge rounds; a closed run has an output for
every node and the status the outputs demand. That status is `Judged`, said without the
executor's `RunStatus` (a failed node of whose dependents only those completed that ask for
the success of all fails the run); that the two agree is a lemma, `SameVerdict`.

**DagExecutor.** `pc` stands at the await the controller is at: `idle`,
`dispatch` (the synchronous loop of a scheduler), `await`, `resolved`,
`approval`, `closed`. `scope` is the partition (`subgraph` or `rest`), `remaining`,
`ready` and `inFlight` are `runReady`'s variables, `results` is a layer's
`nodeResults`, `view` what each node in flight was shown (the copy of the outputs
taken at dispatch; the live map for a layer), `verdict` what `runNodeOnceInner` decided
(run or skip). A node settles in one step, with any outcome its handler may have: completed
or failed. (`NodeOutput` would let a handler return `skipped`; none in the repository does.)
`Abort` happens at every await. The synchronous dispatch loop is a step per node
so that the mapping to the contract stays step by step; nothing else runs in it.

**NodeAttempts.** What that one step hides: `runHandlerWithRetry` calls the handler,
classifies its failure, waits and calls again, and adds up the usage that the
attempts report, whether the last of them returns or throws.

**ResumableRun.** Each executor step carries the row writes of its events:
`node_started` deletes the node's row, `node_done` upserts it, `run_done` closes
the run. `CrashAndBoot` forgets the executor, keeps the rows and fails the run, as
the boot reconciliation does. `Resume` computes the seed from rows and graph.
`outdated` is a history variable: the nodes whose last execution is older than
that of something they depend on. `node_started` is in fact emitted a microtask
after the dispatch; no other actor runs in between. Rows of waiting nodes
("awaiting") are left out: the node is in flight and re-runs after a crash either
way.

**RunSlots.** `active` and `queue` are `createRunSlots`' own variables. A caller is
outside, parked, woken (its promise resolved, its continuation still to run) or
running; a cancel may fall between any two of these. A caller that arrives
already aborted gets a release that does nothing; the server never does this, the
function's interface allows it.

**RunLifecycle.** Launches are numbered; each belongs to a run and is in a phase
that names the await it stands at. `rows` holds what the decisions depend on:
status, whether the conversation exists, whether `worktree_path` is set, whether
it was pruned, whether node rows exist. `dir` is the disk, `operation` is
`worktreeOperations`, `reporting` the launches whose listener has not yet passed
on a terminal event, `told` the last event a rib heard. Abstractions, and why they
are sound:
- slots are counted without their queue order (RunSlots has it);
- a run has one worktree path, and all in-place runs share one project, the case
  in which they can conflict;
- the awaits while a launch is closed only wait for microtasks, so `Over` is one
  step; nothing from outside runs between them;
- a purge removes the conversation first, so `MayResume` refuses the run before
  its row is gone; it waits for the launch that is registered, unless that has
  settled (as after `BeginThrows`, which leaves its entry behind);
- a prune that marked a run (`"remove"`) takes its mark back if the removal fails, one
  that was forced or found the mark there (`"removeForGood"`) does not;
- a preparation that finds an operation under way at its path waits for it; TLC
  finds no launch that waits there in the instances of `lifecycle_http` and
  `lifecycle_live`, so `SetupStops` has no such case;
- a start whose worktree path already exists on disk is refused when the
  checkout is found (`CreationFails`);
- a paused run keeps its slot, as in the code;
- a scheduled start that is collapsed into a live run launches nothing and is left out.

**WorkspaceLeases.** A lease names its path by its row; `site` says who made the
checkout that stands at a path: a lease, somebody else, nobody. `stepOf` is the await
the call that works on a lease is at; every git command may fail, and the server may
die at every await. `booting` is `reconcile`'s work list.

**SnapshotManager.** Registrations of a key are numbered, since the code tells them
apart by the identity of their composers. `key` is what the manager's maps hold for
the key, `jobs` what each registration is composing: a recompose that finds one under
way joins it. What a composer reads is a parameter, which the three modules over it
supply.

**SnapshotPanel.** `useSnapshot` and its reconnecting socket. The GET and the socket are
two connections, so an answer and a frame may overtake each other; `cursor` is the
`SnapshotCursor` that decides which of them is shown.

**BoundKey** is the publish function that ribs get for a bound workflow: a holder, and a
pump that recomposes until nothing has changed since. It implements **Publication**, a
copy that never goes back and catches up.

**ApprovalRegistry.** An answer, a timeout, an abort and a shutdown race for each open
ask. It implements **Verdict**: one decision for each, none left open for ever. Its hook
recomposes the key that lists the prompts.

**OpRegistry.** A cancel or a steer comes from the tools `run_cancel` and `run_steer`, so never
from within a callback. `inside` is the callback that is running in the middle of `cancel`,
`steer` or `drain`, which may use any handle in turn. `opRows` and `frames` survive a
restart, the rest does not.

**AgentTurn.** `runTurn` from the gate to its result, the cutoff that gives a provider a
grace period after an abort, and the relay to the rib's stream. The provider yields
chunks, ends, throws, or says nothing more. A turn that is refused at once (an empty prompt,
a signal already aborted, no provider) starts nothing and is left out.

**RefreshScheduler.** Time is counted in ticks. A collector works, fails without
publishing, hangs, or is refused; a tick starts at most `NewRunsPerTick` of those whose
frame is stale, shortest cadence first, and none that runs already. Cadences are numbers of
ticks; a healthy collector of cadence c is due c + 1 ticks after its last start at the
earliest, one that fails at every tick. `HasRoom` adds that up for the collectors in front of
one, and `FreshIfThereIsRoom` promises to keep its region fresh if they cannot use up the
starts.

**Chat.** `tab` holds the refs of the view (streaming, queue, error, expected
conversation), `up` and `down` are the two directions of each socket, `turns` the requests
at the server, from the first checks to the row that stores the answer. Sockets are lost,
conversations deleted, turns stopped by the user at any time. A send is a numbered call of
`doSend`.

**RunFollower.** `launch`, `work` and `nodeRows` are what the server has of a run, `wire`
is the socket with the frames on their way, `fetch` the GET of the last generation (older
answers are ignored), `view` what `mergeNode` and `applyFrame` have made of it all. A
node's content is left out, its status and the token of its pause are kept. Whether a
`node_done` frame makes the view GET again depends on a copy of the state that may be one
render old, so either may happen.

**MCServices** puts ten modules that share no state into one instance. The variable `part`
is chosen in the first state from `Parts`; only the chosen module moves, the others
stay as they begin, and the fairness of each module is asked only of behaviours of its
part. A liveness property of a part says `part = "..." =>` in front. This is one model
checking run instead of ten, and the states are the sum of theirs.

## What the runs check

Deadlock is not checked: launches, sockets, prompts and crashes are bounded and runs
end, so in every instance the system may really stop. What must go on is stated as
liveness instead.

| Run | Instance | Checks |
|---|---|---|
| `dag` | all graphs on 4 nodes with `all_success` and `all_done` and one conditional node; all graphs on 3 nodes with a gate, all 4 rules, 2 rounds, both policies, and a fourth node behind the gate; both schedulers, node 2 seeded or not | types; `EachNodeOnce`, `NothingForgotten`; `SeesItsAncestors` and `GateHoldsTheRest` across rounds; implements `DagContract`; `Closes` |
| `resume_rows` | 4 nodes, one of which may always run, with and without a gate, whose exhaustion may be accepted; 3 launches, a crash anywhere | `RowsMatchTheRun`, `FreshUnlessCrashed`, `GateFirstUnlessCrashed` |
| `resume_crash` | 3 nodes, 2 crashes while nodes are in flight | finds the violation described below |
| `lifecycle_http` | one run in place, one isolated, 3 launches, 1 crash, cancel nodes, 2 gates; resumes over HTTP, no forced prune | `RowTellsTheTruth`, `LiveIsRegistered`, `WorksInItsWorktree`, `NobodyIsOrphaned`, `LaunchesNeverInterleave`, `LaunchesAreEarned` |
| `lifecycle_live` | two runs in place, of which one writes, two isolated, 1 slot, 2 launches, both entrances, forced prunes, cancel nodes | `OneMutatesInPlace`; `CancelledEnds` |
| `lifecycle_interleave` | one isolated run, cancel node, resume through a tool | finds the violation described below |
| `services` | ten parts, see below | `SlotsAccountedFor`, `NoOvertaking`, `SlotsAdmitEveryone`; `FramesAreCurrent`, `ReopeningEnds`; `TheLastValueIsShown` (BoundKey implements Publication); `EachAskIsDecided` (ApprovalRegistry implements Verdict); `OneVerdict`; `NoAttemptAfterCancel`, `UsageIsComplete`; `TurnsEndOnceAborted`; `CheckoutsAreTracked`, `OthersAreSpared`; `RegionsStayFresh`; `StreamedIsStored`, `ComposerIsFreed` |
| `prompts_published`, `leases_boot`, `chat_queue`, `regions_starve` | one part of `services` each | find the violations described below |
| `follow` | one node that starts, speaks and pauses three times in all; the socket is lost once, and once more when the server dies | `FinishedRunIsShown`, `PausesAreShown` |

Every passing run that owns a module also checks its type invariant.

Why the bounds suffice.
- *Executor.* Four nodes are the smallest graphs with a diamond (a node waiting for
  two branches) and with work on both sides of a gate; the code has no constant that
  depends on more. Graphs are numbered topologically, which is all graphs up to
  renaming. Two rounds show the reset and the round after it; a third adds nothing,
  since a reset leaves no trace but the round counter.
- *Resume.* Three launches are needed to resume a run that has been resumed: `outdated`
  arises in the second and is reused in the third. `resume_rows` has a four-node gate
  with work before and behind it.
- *Lifecycle.* Two gates are the least for "the last answer unpauses". Conflicts are
  between two launches of one run or two runs; the third launch follows a cleanup of the
  second. A crash ends every launch, so one crash followed by resumes meets every disk and
  row it can leave. `lifecycle_http` leaves out the tool entrance, which is the
  disagreement that `lifecycle_interleave` exhibits, and forced prunes, which may remove a
  worktree under a live run, as `force` is meant to; `lifecycle_live` has both.
- *Slots.* Two slots with four callers give a queue of two, the least in which order can
  go wrong.
- *Snapshots.* Two registrations, for what outlives the first; versions 0 and 1, since the
  guard tells 0 from the rest; three publishes, of which the second falls into a
  recompose and the third behind it.
- *Prompts, operations, leases.* Two of each, of one turn or of two, at one path or at
  two: the conflicts are between pairs.
- *Attempts.* Four attempts of no, little or much usage. *Turn.* Two chunks with a relay
  of one: one is relayed and one overflows.
- *Refresh.* Three collectors, one of a shorter cadence, for one new run a tick (the code
  has two): the healthy collectors before the last then take 1/2 and 1/3 of the ticks, which
  leaves it one tick in six, and one that fails before it leaves it none. So the instance has
  both sides of the condition under which `RegionsStayFresh` promises anything, and what is
  left to the last collector is as little as can be. `TicksStartTheFirst`, for any number of
  collectors, starts and cadences, is the theorem behind it. `regions_starve` has the
  code's two starts a tick.
- *Chat.* Two prompts, the second queued or entered behind the first, each of which may be
  sent again with a new conversation; two sockets, of which the first is lost.
- *Follow.* Three turns are a pause and the one after it, or a node that is started again
  by a converge round and pauses then. One node: nodes meet only where the last answer
  unpauses the run, which `lifecycle_http` checks with two gates.

## Where code and documentation disagree

Each of these is a run that TLC must find violated, listed under `findings` in
`PROJECT.json`.

- **A crash can leave derived outputs stale** (`resume_crash`). `workflow-nodes.mdx`
  says that when a node re-executes "all of its transitive descendants re-execute
  too". On a resume, node *a* re-executes and succeeds; the server dies before its
  dependent *b* starts. *b* still has its `succeeded` row from the launch before,
  *a* is succeeded now, and the next resume seeds both. Without crashes, and without an
  accepted gate, the property holds (`FreshUnlessCrashed`; nodes with a `when:` are left
  out of it too, since the model lets a `when:` answer anew in each launch).
- **Launches can interleave** (`lifecycle_interleave`). `rib-contract.mdx` says
  "launches never interleave". A cancel node writes `cancelled` to the row while its
  launch is still draining; the resume route asks `activeRuns` first, but
  `workflow_resume` goes by the row and launches the run again. Two launches are then
  alive and only the second is registered. If the second gets ready while the first
  still drains, it finds the run's snapshot key taken and fails outside every handler
  (`BeginThrows`).
- **A prompt that is gone may stay published** (`prompts_published`). Two changes of the
  registry that fall into one recompose publish the list as the first one left it:
  `recompose` joins a composition that has already read. The pump of a bound key exists
  because of this; the hook of the registry has none.
- **Boot may remove somebody else's checkout** (`leases_boot`). The pending row is written
  before git has said whether the path is free, and boot takes it for proof that what
  stands there is its own.
- **A failed turn flushes the queue** (`chat_queue`). The comment says that provider errors
  leave a queued prompt parked; but an `error` frame is followed by `done`, and any `done`
  flushes it.
- **The heartbeat may starve a region** (`regions_starve`). The comment on `createScheduler`
  says that it "keeps snapshot-backed surface regions fresh". But every tick begins with the
  shortest cadence and stops after two starts, and a collector that fails stays due. Two that
  fail take both starts of every tick, and those behind them are never started. It takes no
  two failures: one that fails and two healthy ones at the shortest cadence (each due every
  second tick) use up as much, and so do four healthy ones: the fifth may wait for ever.
  `RegionsStayFresh` says when a region is kept fresh: if those before it leave it room.

Seen while modelling, not runs of their own:

- A crash can let a subgraph run under what depends on it. The comment on `buildResumeSeed`
  says that the excluded nodes are descendant-closed, "so every seeded success remains
  consistent with all ancestors that will re-execute". But a row `skipped` excludes nothing and
  seeds nothing. The first round of a resumed launch may skip the gate; if the server dies when
  the nodes before the gate have succeeded in the second round, no row calls for anything, the
  executor runs the subgraph again because its gate is not seeded, and the nodes behind the gate
  are seeded with outputs of an earlier launch. `GateSeededBeforeItsDependents` with
  `Workflows <- GateOfEither` and one crash anywhere shows it; without crashes it cannot happen
  (`GateFirstUnlessCrashed`, a theorem).
- An accepted gate is older than its subgraph. Accepting an exhausted gate turns its failed
  nodes into completed ones, but nodes that were skipped because of those failures
  stay skipped; skips are derived anew on a resume, so they run now, behind a gate that
  is seeded. `DerivedOutputsAreFresh` with `Workflows <- Accepting` and no crash shows it.
- `useSnapshot` shows version 0 again if a GET that was answered with it arrives after the
  frame of version 1, although `snapshotGuard.ts` says that an out-of-order frame can
  never roll the display back; what is proved is that only version 0 can
  (`OnlyZeroGoesBack`). The guard also loses a frame that falls between the answer of a
  GET and the subscription, and a panel that misses version 0 of a new registration stays
  on the old one.
- `drain` of the op registry may append a second terminal frame to an operation whose
  abort listener has just settled it; `OneVerdict` is stated while it is not shutting down.
- Stop has no effect while the conversation is still being created, though a comment in
  `doSend` relies on it; `UNKNOWN_CONVERSATION` is retried without the limit of one its
  comment claims, since each send has a new message id; and after a stop and a resubmit on
  a new socket two turns of one conversation overlap, since `chatBusy` is kept per socket.
- A provider that yields one more content chunk after an abort loses the usage it reports
  behind it.
- In `useWorkflowRun`, `mergeNode` drops a stale callout only if the snapshot has nothing
  of the node, but the overlay of running nodes makes it `running`: a gap that swallows
  `approval_resolved` leaves the callout of a node that has moved on. A GET answered before
  `node_started` deletes a row, and arriving behind the frame, reads the old outcome back
  until the next hydrate. The longer content wins, so the longer output of an
  earlier round survives a gap. `FinishedRunIsShown` leaves out two more: after the server
  died, nodes that were in flight stay `running` in the view of the failed run; and a view
  that connects after a cancel node has written `cancelled`, while nodes still drain, is
  told that the run is done and never hears of them.

## Fairness

- DagExecutor: weak fairness of the schedulers' and the controller's steps (a
  resolved promise's continuation runs) and of nodes settling (every handler returns
  or throws). A workflow with an approval node keeps this only if somebody answers or
  cancels: for such a workflow `Closes` says that the run ends if people do answer. No
  fairness for the answer to an exhausted gate, unless the run was aborted: an abort
  rejects pending approvals. `Closes` therefore allows a run to wait for that answer
  for ever.
- RunLifecycle: weak fairness, per launch, of preparation and of its end, and, per
  run, of prunes: git and install commands finish or are stopped by a timeout, nodes
  in flight settle, continuations run. No fairness for requests, answers or nodes
  starting. A launch that has been cancelled cannot be kept alive by a gate, since
  cancelling rejects what is pending, so `CancelledEnds` needs no more.
- Slots: continuations run, and a running caller finishes: its nodes end, and an approval
  pause, which keeps its slot, is answered or cancelled. None for cancelling whoever is
  parked.
- Panel: the reconnect timer fires (weak); the network, though it may drop any socket or
  answer, does not drop them all (strong, for connecting and for the GET and its answer).
- Bound key and prompts: resolved promises continue; every ask has a timer.
- Turn: the gate, the policies and the catalog answer, the grace period passes, and the rib
  reads its stream. Nothing is assumed of the provider.
- Refresh: the tick comes, and a run that was started ends unless its collector hangs.
- Chat: the network delivers or loses the socket, the POST that creates a conversation is
  answered or fails, and the provider's stream ends: unlike a rib's turn a chat turn has no
  time limit of its own, so this is the one place where a silent provider would hold the
  composer until the user stops it.
- Following a run: the network delivers what was sent or loses the socket, and the
  reconnect timer fires. Nothing of the launch, and nothing of the GETs: the token of a pause
  comes with a frame.

## Proofs

All theorems are for arbitrary constants: any finite set of nodes, any workflows on
them that the loader accepts, any seed (`NodesAssumption`, `WorkflowsAssumption`,
`SeedsAssumption`), any finite set of runs or asks, any positive limit, any numbers of
launches and crashes, any leases and paths, any bounds that are natural numbers. The named
assumptions of the modules say no more than that; TLC evaluates them in the runs.
None of the properties is inductive; each proof module states the invariant that is, in named
parts, proves it with one lemma per action, and derives the properties from it.

That something must happen is liveness, which TLAPS cannot prove here. But a liveness
property has a *safety half*: that whoever waits, waits for something that is under way (no
lost wake-up, no cycle of waits), and that what is under way gets no further away (a place in a
queue, a measure in a well-founded order, a phase). For all liveness properties but one,
`ReopeningEnds`, these halves are theorems, for every value of the constants; what they leave to
TLC is that the steps under way are taken, which is what
the fairness of the specification says.

| Liveness, checked | Its safety half, proved |
|---|---|
| `Closes` | `NothingIsStuck`, `EveryStepIsProgress`, `NoRunIsEndless` |
| `CancelledEnds` | `CancellationsStick` |
| `SlotsAdmitEveryone` | `WaitersAreOwedASlot`, `TheQueueMoves` |
| `TurnsEndOnceAborted` | `ReadersAreWoken`, `GraceWindsDown` |
| `RegionsStayFresh` | `TicksStartTheFirst` |
| `ComposerIsFreed` | `WaitingComposerIsAnswered` |
| `PausesAreShown` | `OpenPausesArrive`, `ShownPausesAreKept` |
| `EachAskIsDecided` | `AsksAreDecidedOnce` |
| `TheLastValueIsShown` | `BoardGoesForward` |

| Module | Proves about | Theorems |
|---|---|---|
| `DagExecutor_proofs` | DagExecutor | `TypeCorrect`, `HandlersSeeTheirAncestors`, `NodesRunOnce`, `NothingIsForgotten`, `GateHolds`; `NothingIsStuck`, `EveryStepIsProgress`, `NoRunIsEndless` |
| `DagRefinement_proofs` | DagExecutor and DagContract | `ExecutorImplementsContract`, `DispatchedForGood` |
| `ResumableRun_proofs` | ResumableRun | `RunTypeCorrect`, `RowsTellTheRun`, `GateBeforeDependents`, `ReusedIsFresh` |
| `RunLifecycle_proofs` | RunLifecycle | `LifecycleTypeCorrect`, `MutationLock`, `LaunchesAreRegistered`, `RowsTellTheTruth`, `RowsOutliveLaunches`, `RibsHearInOrder`, `LaunchesMustBeEarned`, `WorktreesAreKept`; `CancellationsStick` |
| `RunSlots_proofs` | RunSlots, RefreshScheduler | `SlotsAreAccountedFor`, `NoSlotIsIdle`, `RunningHolds`, `NobodyIsOvertaken`, `WaitersAreOwedASlot`, `TheQueueMoves`; `RefreshTypeCorrect`, `TicksStartTheFirst` |
| `Turns_proofs` | NodeAttempts, AgentTurn, Chat | `AttemptTypeCorrect`, `UsageIsCounted`, `CancelEndsAttempts`; `TurnTypeCorrect`, `EarlyAbortsAreHeard`, `VerdictsAreKept`, `ReadersAreWoken`, `GraceWindsDown`; `StreamedAnswersAreStored`, `ChatTypeCorrect`, `WaitingComposerIsAnswered` |
| `Views_proofs` | SnapshotManager, SnapshotPanel, RunFollower | `FramesStayCurrent`, `PanelGoesForward`, `PanelTypeCorrect`; `FollowTypeCorrect`, `FinishedIsShown`, `OpenPausesArrive`, `ShownPausesAreKept` |
| `Registries_proofs` | WorkspaceLeases, OpRegistry, ApprovalRegistry, BoundKey, MCServices | `LeaseTypeCorrect`, `NoCheckoutIsLost`, `AcquisitionsSpareOthers`; `OneVerdictPerOp`, `OpTypeCorrect`; `AsksAreDecidedOnce`, `ApprovalTypeCorrect`; `BoardGoesForward`, `BoundTypeCorrect`; `ServicesAreThemselves`, `ServicesTypeCorrect` |

**DagExecutor.** That a handler sees its ancestors needs to know that everything ready or in
flight has its dependencies decided, which needs the counters of the ready queue to be right.
`IInv` says so: `PhaseInv` (what is decided where the controller
stands), `DoneInv` (nothing is ready or in flight before its dependencies),
`ReadyInv` (each counter is the number of unsettled dependencies in the partition,
and what could start is somewhere), `LayeredInv` (the current layer is in flight or
has results) and `ResolvedInv`. `FirstMissing` turns acyclicity into "an undecided set has
a first node", which is what lets a scheduler that has run dry conclude that nothing is
left.

Three more theorems say why a run ends. `NeverStuck` says that a dispatcher that awaits has a
handler in flight or a layer to merge, so that the promise it awaits settles. `ToGo` counts
what is left: rounds, stages of the round, the scheduler's resolution, unsettled nodes,
dispatches, nodes queued or in flight, the abort. Every step lowers it lexicographically,
also the one that begins a round over, which is the reason why rounds come first; and
the order is well founded on what `ToGo` may be.

**DagRefinement.** `ExecutorImplementsContract` maps initial states to initial states and every
step to a step of `DagContract` or a stutter; `DispatchedForGood` is `DecisionsAreFinal`.
`SameVerdict` is the part about the status of the run, which the two modules judge each in their
own words. `RInv` adds to `IInv` what the mapping needs: `StandInv` (the status, and that a run in its
subgraph has not touched the rest), `VerdictInv` (a node whose rule does not hold is in
flight only to be skipped) and `FinalInv` (what a decision was taken on has not changed
since).

**ResumableRun.** `BookInv` says, on top of `RInv`, that the row of a decided node is the
decision (`RowsInv`) and what a seed may hold (`LaunchInv`); with it the rows tell the run
whatever happens. `GateInv` says that behind a gate that is not completed nothing is kept,
neither as an output nor, between launches, beside the row of a skipped gate. `KeptInv` is
the invariant for freshness (`FreshInv`: nothing outdated is completed, nor left as succeeded
between launches). Its difficulty are the skipped nodes, which are not seeded but decided
again, in front of seeded nodes that may depend on them. `ReuseInv` says that an undecided node
behind which something was reused can only be skipped again, since nothing it depends on will
come out other than it was; `LeftInv` says the same of the rows a launch leaves, for the next
one. Where the two properties except a crash and an accepted gate, they are false of the code,
as `resume_crash` and the notes on gates after it show.

**RunSlots.** The invariant adds that the queue has no duplicates and holds parked
callers only, and who among the callers holds a slot; `RemoveAtProperties` is the lemma on
sequences an abort in the middle of the queue needs. `NobodyLost` and `SlotsComeBack` say that a
parked caller is in the queue and that all slots are then with callers that give theirs back;
`QueueMoves`, that each one given back brings everyone in the queue forward.

**RefreshScheduler.** `RefreshTypeCorrect`: no frame counts as older than the longest cadence
it may have. `TicksStartTheFirst` is the safety half of `RegionsStayFresh`: a tick starts
as many collectors as it may or all that can start, and passes over none for one of a longer
cadence. `TheFirstOf` is the lemma behind it: those of a finite set of numbers that have fewer
than k members before them are k of them if there are as many, with no gap.

**RunLifecycle**, in three layers.
`BasicInv` (types, which launches exist, who holds the lock) holds with every entrance and
gives `LifecycleTypeCorrect` and `MutationLock`. `HttpInv` says that every live launch is the
registered one (`RegInv`), that only executing launches have gates open (`PendInv`), and for
each run what its row says while nobody or somebody executes it (`RunInv`); it gives
`LaunchesAreRegistered`, `RowsTellTheTruth`, `RowsOutliveLaunches`, `RibsHearInOrder` and
`LaunchesMustBeEarned` under `Entrances \subseteq {"http"}`. Through a tool it is false, as
`lifecycle_interleave` shows: the assumption is where the proof needs the check that
`workflow_resume` does not make. `CancellationsStick` needs `BasicInv` only, and so holds with
every entrance: whatever is requested, a cancelled launch stays cancelled, waits for no answer,
begins no nodes (though it may still add a worktree, which `StartCreating` does without asking
the signal) and has at most two phases before it is over. `TreesInv` (what operation is under
way on the worktree of a run that executes) gives `WorktreesAreKept` if in addition no prune is
forced.

**NodeAttempts.** The usage that is carried from attempt to attempt is the sum over a sequence
that grows. That appending to a sequence adds to its sum (`FoldLeft` of the community modules)
is an induction over its length, which the library's induction theorems cannot give here;
`NatIsInductive` gets it for sets of numbers from the theorems on finite sets.

**AgentTurn.** `EarlyAbortsAreHeard`: an abort that comes before the cutoff is armed arms it.
`VerdictsAreKept`: the first abort decides what the turn is called, its text stays what it was,
its spend is recorded once. `WakeInv` says that the reader sleeps only while the relay is empty
and open, and that a cutoff that has passed was armed by an abort; from there on
`StreamToGo`, four numbers in lexicographic order, falls with every step.

**Chat.** `StreamedAnswersAreStored` is about one turn, and the difficulty is how many there
might be of it. `RequestsInv` follows a request through its lanes (in the client before the
socket opens, on its way, at the server) and says that it is in one of them at most and once;
`TurnsInv` says of each turn how far what it has streamed is stored. Two more theorems rest on
two more invariants. `BooksInv` counts: a prompt is sent, and sent again if its conversation
turns out to be gone, so that the requests made, those still at risk of being answered
"unknown", the "unknown" frames under way and twice the prompt in the queue are together at most
twice the prompts. That needs the model's bound that others delete one conversation at most.
`AwaitInv` says, turn by turn, that what the composer waits for is with the view, the socket, the
server or in a frame; it gives `StreamingIsAwaited`, the safety half of `ComposerIsFreed`: that
the composer is freed needs then only that what is under way arrives.

**SnapshotPanel.** `FramesStayCurrent` is about the manager, `PanelGoesForward` about what the
panel shows. `ManagerInv` says that the socket is behind the key, `CursorInv` that the cursor
is at the frame on display. `BoundsInv` gives the type invariant: a composition that would publish
began when there was room for its version, or its registration is gone and it publishes nothing.

**RunFollower.** `FollowInv` has five parts, of which two are shapes. `ServerInv` says what rows
and steps know of each other, `WireInv` that the end of an undisturbed launch is the last frame
its socket carries and that a view that has heard it listens to no more, `EndInv` that from then
on the answer of a GET tells what the rows say, and the view shows it once it has arrived. What
makes it go through is that the end itself starts a new GET, whose generation makes every older
answer count for nothing, and that the state of a settled row wins over whatever the view
inferred (`PersistedWins`).

`PauseInv` is about pauses that are open. `ComesIntoView` says that such a pause is shown with
its token, or its frame is on the socket, or the socket has yet to be accepted and will replay
it; `LastWord`, that behind its frame nothing else is said of its node; `TellsNothingElse`,
that a view that has the token shows the pause, and that neither a frame under way nor
the answer of a GET (which carries no tokens) will take it away. `AllInSequence` says of `SetToSeq`
what the replay of the open pauses needs: that it leaves none out.

**WorkspaceLeases.** `LeaseInv` adds to the properties what row a call has at each of its
steps, that the paths of rows differ, and who made what stands at its path. That boot spares
others does not follow; see `leases_boot`.

**OpRegistry.** `OpInv` says of each op that its subscribers, its snapshot and its state agree
(`Agree`) and which ops can still be settled (`LiveInv`), also in the middle of a callback.
`VerdictsOfAppend` says what an appended frame does to the list of verdicts, which is why
`OneVerdict` is stated on the frames of one op.

**ApprovalRegistry.** `AsksAreDecidedOnce` is the safety half of `EachAskIsDecided`: initial
states map to initial states of Verdict, every step to a step or a stutter, since the entries of
the registry are exactly the open asks. `ApprovalTypeCorrect` needs that the version of the
published list stays within its bound, which is a count: the changes of the list, the open
asks, and twice the asks that have not been made are together at most twice the asks.

**BoundKey.** `BoardGoesForward` is the safety half of `TheLastValueIsShown`. `PumpInv` says
that a composition that has read holds something newer than what is shown, and that the pump is
marked dirty only while something newer still is to come. ApprovalRegistry
and BoundKey both run a key of the snapshot manager; the lemmas `KeyTyped`, `KeyBegins`,
`KeyRegisters`, `KeyStarts`, `KeyPublishes` and `KeySettles` say once what a key does.

**Services side by side.** `ServicesAreThemselves`: a behaviour of MCServices is, for each of the
ten modules, a behaviour of its own specification, since a part either moves by its own steps or
stands still. So every theorem about a module is one about the run `services`, of which
`ServicesTypeCorrect` draws the one that chooses among ten type invariants. `PartsAssumption`
says that `Parts` names parts there are.

Only model-checked:
- liveness: that steps under way are taken, in the properties of the first table above
  (liveness under fairness and `ENABLED` are out of TLAPS's reach), and the whole of
  `ReopeningEnds`: that a panel whose key is gone stops reopening its socket follows from no order
  of steps, only from the strong fairness of a network that does not drop every answer;
- what a recursive definition computes for every input. The models define closures as least
  closed sets rather than by recursion, so that what is said of them can be proved.

## What is not modelled

- Text: output, substitution, prompts, warnings, errors and the reason of a cancellation.
- Inside a node: timeouts, memory hooks, the agent loop of a prompt node, subprocesses.
- Interactive multi-turn prompts beyond pausing like an approval, de-duplication of
  scheduled starts, catalog resolution, artifacts.
- A `git worktree add` that outlives the server that started it; branches; checkouts that git
  has forgotten.
- In the chat: prompts, the provider's session, usage, names and rendering. In the op
  registry: waiting for new events and pruning. In the scheduler: regions that come and go.
- In the view of a run: content, warnings, `resume-run` from the view, two runs one after the
  other in one view.
- The components marked `not_modelled` in `PROJECT.json`, each with its reason: the web
  application's rendering, vendor SDKs, parsing, wiring that runs once, or one SQL transaction
  per operation. They are most of the lines of the repository: what is left of it once
  rendering, text and tables are taken away is here.

## Plan

Done: all the modules above. Open, in order of worth:

1. The prompt node (`handlers/prompt.ts`): the turn it runs, its session that is resumed over
   interactive pauses and its timeout, refining the step DagExecutor takes for a handler.
2. `DagShape`: `validateDagShape` and `buildTopologicalLayers` against reference definitions
   over bounded graphs.
3. De-duplication of scheduled starts in RunLifecycle, composed with RefreshScheduler.
4. `ChunkQueue` and the tool gate of the provider adapters.
5. Proofs: that a panel whose key stays gone asks once more each time its socket opens, which is
   what can be said of `ReopeningEnds` without fairness.
