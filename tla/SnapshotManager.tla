-------------------------- MODULE SnapshotManager --------------------------
(***************************************************************************)
(* One key of SnapshotManagerImpl (apps/server/src/snapshot-manager.ts)    *)
(* and the one socket subscribed to it (snapshot-subscribers.ts).          *)
(*                                                                         *)
(* A registration is a number, in the order of the register() calls: the   *)
(* code tells registrations apart by the identity of their composers.  A   *)
(* registration composes at most once at a time, so that jobs[r] is also   *)
(* the promise kept under `inflight`.  What a composer reads is a          *)
(* parameter of the actions: its reader decides it.                        *)
(***************************************************************************)
EXTENDS Integers, Sequences

CONSTANTS
    MaxRegs,        \* bound on the registrations of the key
    MaxVersion      \* bound on the versions of one registration

ASSUME SnapshotAssumption == MaxRegs \in Nat /\ MaxVersion \in Nat

VARIABLES
    key,        \* the entries of the manager's maps under this key
    jobs,       \* what each registration is composing
    socket      \* the subscriber: registered or not, frames it was sent

managerVars == <<key, jobs, socket>>

Registrations == 1 .. MaxRegs

Idle == [phase |-> "none"]
NoFrame == [reg |-> 0, version |-> -1]

\* No composer, no cache, no promise; `life` is the flag `disposed`, with the
\* wait of dispose() in the middle.
ManagerInit ==
    /\ key = [composer |-> 0, regs |-> 0, inflight |-> 0, cache |-> NoFrame,
              version |-> -1, life |-> "up", draining |-> 0]
    /\ jobs = [r \in Registrations |-> Idle]
    /\ socket = [on |-> FALSE, sent |-> <<>>]

ManagerTypeOK ==
    /\ {key.composer, key.inflight, key.draining, key.regs} \subseteq 0 .. MaxRegs
    /\ key.version \in -1 .. MaxVersion
    /\ key.life \in {"up", "draining", "gone"}
    /\ \A r \in Registrations : jobs[r].phase \in {"none", "composing", "read", "settled"}
    /\ socket.on \in BOOLEAN

-----------------------------------------------------------------------------
(* SnapshotSubscribers, for one socket                                     *)

\* broadcast()
Sent(frame) == IF socket.on THEN [socket EXCEPT !.sent = Append(@, frame)] ELSE socket

\* closeKey(): the socket is closed behind the frames it was sent.
ClosedKey == [socket EXCEPT !.on = FALSE]

-----------------------------------------------------------------------------
(* register() and the handle it returns                                    *)

\* Throws when disposed or when the key is taken.
Register ==
    /\ key.life = "up"
    /\ key.composer = 0
    /\ key.regs < MaxRegs
    /\ key' = [key EXCEPT !.composer = key.regs + 1, !.regs = @ + 1]
    /\ UNCHANGED <<jobs, socket>>

\* The handle of another registration does nothing.
Unregister(r) ==
    /\ key.composer = r
    /\ key' = [key EXCEPT !.composer = 0, !.inflight = 0, !.cache = NoFrame, !.version = -1]
    /\ socket' = ClosedKey
    /\ UNCHANGED jobs

-----------------------------------------------------------------------------
(* recompose()                                                             *)

\* A call that meets a promise in flight, no composer or a disposed manager
\* starts nothing.
CanStart == key.life = "up" /\ key.composer # 0 /\ key.inflight = 0

\* The composer is called before recompose() returns.
Start(job) ==
    /\ CanStart
    /\ key.version < MaxVersion
    /\ jobs' = [jobs EXCEPT ![key.composer] = job]
    /\ key' = [key EXCEPT !.inflight = key.composer]
    /\ UNCHANGED socket

\* A synchronous composer has read its state when recompose() returns, an
\* asynchronous one reads later.
Recompose(v) == Start([phase |-> "read", data |-> v])
RecomposeAsync == Start([phase |-> "composing"])

ComposerReads(r, v) ==
    /\ jobs[r].phase = "composing"
    /\ jobs' = [jobs EXCEPT ![r] = [phase |-> "read", data |-> v]]
    /\ UNCHANGED <<key, socket>>

Settled(r) == jobs' = [jobs EXCEPT ![r] = [phase |-> "settled"]]

NextFrame(r) == [reg |-> r, version |-> key.version + 1, data |-> jobs[r].data]

\* A bug to catch: the composer is not compared with the registered one.
Publish_Unchecked(r) ==
    /\ jobs[r].phase = "read"
    /\ key.life = "up" /\ key.composer # 0
    /\ key' = [key EXCEPT !.version = @ + 1, !.cache = NextFrame(r)]
    /\ socket' = Sent(NextFrame(r))
    /\ Settled(r)

Publish(r) ==
    /\ jobs[r].phase = "read"
    /\ key.life = "up" /\ key.composer = r
    /\ key' = [key EXCEPT !.version = @ + 1, !.cache = NextFrame(r)]
    /\ socket' = Sent(NextFrame(r))
    /\ Settled(r)

\* Unregistered, registered anew or disposed in the meantime.
DropStale(r) ==
    /\ jobs[r].phase = "read"
    /\ key.life # "up" \/ key.composer # r
    /\ Settled(r)
    /\ UNCHANGED <<key, socket>>

\* The composer throws or the validator does: the last frame stays.
ComposeFails(r) ==
    /\ jobs[r].phase \in {"composing", "read"}
    /\ Settled(r)
    /\ UNCHANGED <<key, socket>>

\* promise.finally(), one turn of the microtask queue after the promise settled.
Finally(r) ==
    /\ jobs[r].phase = "settled"
    /\ jobs' = [jobs EXCEPT ![r] = Idle]
    /\ key' = [key EXCEPT !.inflight = IF @ = r THEN 0 ELSE @]
    /\ UNCHANGED socket

Complete(r) == Publish(r) \/ DropStale(r)

-----------------------------------------------------------------------------
(* dispose()                                                               *)

DisposeBegin ==
    /\ key.life = "up"
    /\ key' = [key EXCEPT !.life = "draining", !.draining = key.inflight]
    /\ UNCHANGED <<jobs, socket>>

\* allSettled() on the promises that were in flight at the beginning.
DisposeEnd ==
    /\ key.life = "draining"
    /\ key.draining # 0 => jobs[key.draining].phase \in {"settled", "none"}
    /\ key' = [key EXCEPT !.life = "gone", !.inflight = 0, !.composer = 0,
                          !.cache = NoFrame, !.version = -1, !.draining = 0]
    /\ socket' = ClosedKey
    /\ UNCHANGED jobs

-----------------------------------------------------------------------------
(* Properties.                                                             *)

Precedes(f, g) == f.reg < g.reg \/ (f.reg = g.reg /\ f.version < g.version)

\* What latest() returns was composed by the composer registered now and carries
\* its last version, and a subscriber is sent frames in the order of their
\* registrations and versions: no composition that outlives its registration is
\* published under another, and nothing is left when the manager is disposed.
FramesAreCurrent ==
    /\ key.cache # NoFrame => key.cache.reg = key.composer
    /\ key.cache.version = key.version
    /\ key.inflight \in {0, key.composer}
    /\ \A i, j \in 1 .. Len(socket.sent) : i < j => Precedes(socket.sent[i], socket.sent[j])
=============================================================================
