---------------------------- MODULE Views_proofs ----------------------------
(***************************************************************************)
(* What two views show.  SnapshotPanel, for any number of registrations,   *)
(* versions and changes of the producer: what the manager publishes is of  *)
(* the registration of the moment, and what the panel makes of it.         *)
(* RunFollower, for any finite set of nodes and any number of frames and   *)
(* losses of the socket: what the view of a run says when the run is over, *)
(* and that a pause comes into it and stays while it is open.              *)
(***************************************************************************)
EXTENDS SnapshotPanel, RunFollower, TLAPS, FiniteSetTheorems, FunctionTheorems

Frame == [reg : Nat, version : Int, data : Int] \cup {NoFrame}

Key == [composer : Nat, regs : Nat, inflight : Nat, cache : Frame, version : Int,
        life : {"up", "draining", "gone"}, draining : Nat]

\* What a composer has read is a number.
Job == [phase : {"none", "composing", "settled"}] \cup [phase : {"read"}, data : Int]

Shapes ==
    /\ key \in Key
    /\ jobs \in [Registrations -> Job]
    /\ socket \in [on : BOOLEAN, sent : Seq(Frame)]

\* The registration of the moment is the latest, and nothing of an earlier one is kept.
Current ==
    /\ key.composer \in {0, key.regs}
    /\ key.composer = 0 => key.cache = NoFrame
    /\ key.cache # NoFrame => key.cache.reg = key.composer
    /\ key.cache.version = key.version
    /\ key.inflight \in {0, key.composer}

\* What the subscriber was sent is behind what the key is at.
Behind ==
    /\ \A i \in 1 .. Len(socket.sent) :
          /\ socket.sent[i].reg <= key.regs
          /\ socket.sent[i].reg = key.regs /\ key.composer # 0 =>
                socket.sent[i].version <= key.version
    /\ \A i, j \in 1 .. Len(socket.sent) : i < j => Precedes(socket.sent[i], socket.sent[j])

ManagerInv == Shapes /\ Current /\ Behind

\* The cursor is at the frame on display.
CursorInv ==
    /\ source \in Int
    /\ get \in [kind : {"none", "sent", "frame", "pending", "gone"}, frame : Frame]
    /\ shown \in Frame
    /\ cursor \in [seen : Int, applied : BOOLEAN]
    /\ cursor.seen = shown.version
    /\ ~cursor.applied => cursor.seen = -1
    /\ \A f \in {get.frame} \cup {socket.sent[i] : i \in 1 .. Len(socket.sent)} : f.version >= -1
    /\ key.version >= -1

PanelInv == ManagerInv /\ CursorInv

-----------------------------------------------------------------------------
(* The manager's steps.                                                    *)

LEMMA FrameFacts ==
    /\ NoFrame \in Frame /\ NoFrame.reg = 0 /\ NoFrame.version = -1
    /\ \A f \in Frame : f.reg \in Nat /\ f.version \in Int
BY DEF Frame, NoFrame

LEMMA JobFacts ==
    /\ Idle \in Job /\ [phase |-> "settled"] \in Job /\ [phase |-> "composing"] \in Job
    /\ \A v \in Int : [phase |-> "read", data |-> v] \in Job
    /\ \A j \in Job : j.phase = "read" => j.data \in Int
BY DEF Job, Idle

LEMMA RegisterManager ==
    ASSUME ManagerInv, Register
    PROVE  ManagerInv'
<1>1. key.regs \in Nat /\ key.regs + 1 \in Nat
  BY DEF ManagerInv, Shapes, Key
<1>2. key' \in Key
  BY <1>1 DEF ManagerInv, Shapes, Register, Key
<1>3. /\ key'.regs = key.regs + 1 /\ key'.composer = key.regs + 1
      /\ key'.cache = key.cache /\ key'.version = key.version /\ key'.inflight = key.inflight
  BY <1>1 DEF ManagerInv, Shapes, Register, Key
<1>4. key.cache = NoFrame /\ key.inflight = 0
  BY DEF ManagerInv, Current, Register
<1>5. Shapes'
  BY <1>2 DEF Register, ManagerInv, Shapes
<1>6. Current'
  BY <1>3, <1>4 DEF Register, ManagerInv, Shapes, Current
<1>7. Behind'
  BY <1>1, <1>3, FrameFacts DEF Register, ManagerInv, Shapes, Behind, Precedes
<1> QED BY <1>5, <1>6, <1>7 DEF ManagerInv

\* The key keeps its registration, and its version unless that is gone.
LEMMA BehindStays ==
    ASSUME ManagerInv, key'.regs = key.regs, socket'.sent = socket.sent,
           key'.composer = 0 \/ (key'.composer = key.composer /\ key'.version = key.version)
    PROVE  Behind'
BY DEF ManagerInv, Behind, Precedes

LEMMA UnregisterManager ==
    ASSUME ManagerInv, NEW r \in Registrations, Unregister(r)
    PROVE  ManagerInv'
<1>1. key' \in Key
  BY FrameFacts DEF ManagerInv, Shapes, Unregister, Key
<1>2. /\ key'.composer = 0 /\ key'.inflight = 0 /\ key'.cache = NoFrame /\ key'.version = -1
      /\ key'.regs = key.regs
  BY DEF ManagerInv, Shapes, Unregister, Key
<1>3. socket' \in [on : BOOLEAN, sent : Seq(Frame)] /\ socket'.sent = socket.sent
  BY DEF ManagerInv, Shapes, Unregister, ClosedKey
<1>4. Shapes' /\ Current'
  BY <1>1, <1>2, <1>3, FrameFacts DEF Unregister, ManagerInv, Shapes, Current
<1> QED BY <1>2, <1>3, <1>4, BehindStays DEF ManagerInv

\* Only jobs, the promise in flight and the manager's life change.
LEMMA KeyStays ==
    ASSUME ManagerInv, key' \in Key, jobs' \in [Registrations -> Job], socket' = socket,
           key'.composer = key.composer, key'.regs = key.regs, key'.cache = key.cache,
           key'.version = key.version, key'.inflight \in {0, key.composer}
    PROVE  ManagerInv'
<1>1. Shapes' /\ Current'
  BY DEF ManagerInv, Shapes, Current
<1>2. Behind'
  BY BehindStays
<1> QED BY <1>1, <1>2 DEF ManagerInv

LEMMA StartManager ==
    ASSUME ManagerInv, NEW job \in Job, Start(job)
    PROVE  ManagerInv'
<1>1. key' \in Key
  BY DEF ManagerInv, Shapes, Start, Key
<1>2. /\ key'.composer = key.composer /\ key'.regs = key.regs /\ key'.cache = key.cache
      /\ key'.version = key.version /\ key'.inflight = key.composer
  BY DEF ManagerInv, Shapes, Start, Key
<1>3. jobs' \in [Registrations -> Job]
  BY DEF ManagerInv, Shapes, Start
<1> QED BY <1>1, <1>2, <1>3, KeyStays DEF Start

LEMMA PublishManager ==
    ASSUME ManagerInv, NEW r \in Registrations, Publish(r)
    PROVE  /\ ManagerInv'
           /\ key'.version = key.version + 1
           /\ socket'.sent \in {socket.sent, Append(socket.sent, NextFrame(r))}
           /\ NextFrame(r).version = key.version + 1
<1> DEFINE frame == NextFrame(r)
<1>1. /\ key.version \in Int /\ key.regs \in Nat /\ jobs[r].data \in Int /\ r \in Nat
      /\ key.composer = r /\ key.regs = r /\ r # 0
  BY SnapshotAssumption, JobFacts
     DEF Publish, ManagerInv, Shapes, Current, Key, Registrations
<1>2. frame \in Frame /\ frame.reg = r /\ frame.version = key.version + 1
  BY <1>1 DEF NextFrame, Frame
<1>3. /\ key' = [key EXCEPT !.version = key.version + 1, !.cache = frame]
      /\ jobs' = [jobs EXCEPT ![r] = [phase |-> "settled"]]
      /\ socket' = Sent(frame)
  BY DEF Publish, Settled
<1> HIDE DEF frame
<1>4. key' \in Key
  <2>1. key \in Key /\ key.version + 1 \in Int
    BY <1>1 DEF ManagerInv, Shapes
  <2> QED BY <1>2, <1>3, <2>1 DEF Key
<1>5. /\ key'.composer = r /\ key'.regs = r /\ key'.inflight = key.inflight
      /\ key'.version = key.version + 1 /\ key'.cache = frame
  BY <1>1, <1>3 DEF ManagerInv, Shapes, Key
<1>6. /\ socket' \in [on : BOOLEAN, sent : Seq(Frame)]
      /\ socket'.sent \in {socket.sent, Append(socket.sent, frame)}
  <2>1. socket \in [on : BOOLEAN, sent : Seq(Frame)] /\ socket.sent \in Seq(Frame)
    BY DEF ManagerInv, Shapes
  <2>2. Append(socket.sent, frame) \in Seq(Frame)
    BY <1>2, <2>1
  <2> QED BY <1>3, <2>1, <2>2 DEF Sent
<1>7. Shapes' /\ Current'
  BY <1>1, <1>2, <1>3, <1>4, <1>5, <1>6, JobFacts DEF ManagerInv, Shapes, Current
<1>8. Behind'
  <2>1. socket.sent \in Seq(Frame)
    BY DEF ManagerInv, Shapes
  <2>2. CASE socket'.sent = socket.sent
    BY <1>1, <1>5, <2>1, <2>2, FrameFacts DEF ManagerInv, Behind, Precedes
  <2>3. CASE socket'.sent = Append(socket.sent, frame)
    <3>1. /\ Len(socket'.sent) = Len(socket.sent) + 1 /\ Len(socket.sent) \in Nat
          /\ \A i \in 1 .. Len(socket.sent) :
                 socket'.sent[i] = socket.sent[i] /\ socket.sent[i] \in Frame
          /\ socket'.sent[Len(socket.sent) + 1] = frame
      BY <1>2, <2>1, <2>3
    <3>2. \A i \in 1 .. Len(socket.sent) :
              /\ socket.sent[i].reg <= r
              /\ socket.sent[i].reg = r => socket.sent[i].version <= key.version
              /\ Precedes(socket.sent[i], frame)
      BY <1>1, <1>2, <3>1, FrameFacts DEF ManagerInv, Behind, Precedes
    <3>3. \A i, j \in 1 .. Len(socket.sent) : i < j => Precedes(socket.sent[i], socket.sent[j])
      BY DEF ManagerInv, Behind
    <3>4. \A i \in 1 .. Len(socket'.sent) :
              /\ socket'.sent[i].reg <= key'.regs
              /\ socket'.sent[i].reg = key'.regs /\ key'.composer # 0 =>
                     socket'.sent[i].version <= key'.version
      <4> SUFFICES ASSUME NEW i \in 1 .. Len(socket'.sent)
                   PROVE  /\ socket'.sent[i].reg <= r
                          /\ socket'.sent[i].reg = r =>
                                 socket'.sent[i].version <= key.version + 1
        BY <1>5
      <4>1. CASE i \in 1 .. Len(socket.sent)
        <5>1. socket.sent[i].version \in Int /\ key.version \in Int
          BY <1>1, <3>1, <4>1, FrameFacts
        <5>2. socket.sent[i].version <= key.version => socket.sent[i].version <= key.version + 1
          BY <5>1
        <5>3. socket'.sent[i] = socket.sent[i]
          BY <3>1, <4>1
        <5> QED BY <3>2, <4>1, <5>2, <5>3
      <4>2. CASE i = Len(socket.sent) + 1
        BY <1>1, <1>2, <3>1, <4>2
      <4> QED BY <3>1, <4>1, <4>2
    <3>5. \A i, j \in 1 .. Len(socket'.sent) :
              i < j => Precedes(socket'.sent[i], socket'.sent[j])
      <4> SUFFICES ASSUME NEW i \in 1 .. Len(socket'.sent), NEW j \in 1 .. Len(socket'.sent),
                          i < j
                   PROVE  Precedes(socket'.sent[i], socket'.sent[j])
        OBVIOUS
      <4>1. i \in 1 .. Len(socket.sent) /\ socket'.sent[i] = socket.sent[i]
        BY <3>1
      <4>2. CASE j \in 1 .. Len(socket.sent)
        BY <3>1, <3>3, <4>1, <4>2
      <4>3. CASE j = Len(socket.sent) + 1
        BY <3>1, <3>2, <4>1, <4>3
      <4> QED BY <3>1, <4>2, <4>3
    <3> QED BY <3>4, <3>5 DEF Behind, Precedes
  <2> QED BY <1>6, <2>2, <2>3
<1> QED BY <1>2, <1>5, <1>6, <1>7, <1>8 DEF ManagerInv, frame

LEMMA QuietManager ==
    ASSUME ManagerInv, NEW r \in Registrations,
           DropStale(r) \/ ComposeFails(r) \/ Finally(r) \/ \E v \in Int : ComposerReads(r, v)
    PROVE  ManagerInv'
<1>1. jobs' \in [Registrations -> Job] /\ socket' = socket
  BY JobFacts DEF ManagerInv, Shapes, DropStale, ComposeFails, Finally, ComposerReads, Settled
<1>2. CASE Finally(r)
  <2>1. key' \in Key
    BY <1>2 DEF ManagerInv, Shapes, Finally, Key
  <2>2. /\ key'.composer = key.composer /\ key'.regs = key.regs /\ key'.cache = key.cache
        /\ key'.version = key.version /\ key'.inflight \in {0, key.inflight}
    BY <1>2 DEF ManagerInv, Shapes, Finally, Key
  <2> QED BY <1>1, <2>1, <2>2, KeyStays DEF ManagerInv, Current
<1>3. CASE key' = key
  BY <1>1, <1>3, KeyStays DEF ManagerInv, Shapes, Current
<1> QED BY <1>2, <1>3 DEF DropStale, ComposeFails, ComposerReads

LEMMA DisposeManager ==
    ASSUME ManagerInv, DisposeBegin \/ DisposeEnd
    PROVE  ManagerInv'
<1>1. CASE DisposeBegin
  <2>1. key' \in Key
    BY <1>1 DEF ManagerInv, Shapes, DisposeBegin, Key
  <2>2. /\ key'.composer = key.composer /\ key'.regs = key.regs /\ key'.cache = key.cache
        /\ key'.version = key.version /\ key'.inflight = key.inflight
    BY <1>1 DEF ManagerInv, Shapes, DisposeBegin, Key
  <2> QED BY <1>1, <2>1, <2>2, KeyStays DEF DisposeBegin, ManagerInv, Shapes, Current
<1>2. CASE DisposeEnd
  <2>1. key' \in Key
    BY <1>2, FrameFacts DEF ManagerInv, Shapes, DisposeEnd, Key
  <2>2. /\ key'.composer = 0 /\ key'.inflight = 0 /\ key'.cache = NoFrame /\ key'.version = -1
        /\ key'.regs = key.regs
    BY <1>2 DEF ManagerInv, Shapes, DisposeEnd, Key
  <2>3. socket' \in [on : BOOLEAN, sent : Seq(Frame)] /\ socket'.sent = socket.sent
    BY <1>2 DEF ManagerInv, Shapes, DisposeEnd, ClosedKey
  <2>4. Shapes' /\ Current'
    BY <1>2, <2>1, <2>2, <2>3, FrameFacts DEF DisposeEnd, ManagerInv, Shapes, Current
  <2> QED BY <2>2, <2>3, <2>4, BehindStays DEF ManagerInv
<1> QED BY <1>1, <1>2

-----------------------------------------------------------------------------
(* The panel.                                                              *)

LEMMA InitPanel == PanelInit => PanelInv
<1> SUFFICES ASSUME PanelInit
             PROVE  PanelInv
  OBVIOUS
<1>1. /\ socket.sent = <<>> /\ key.composer = 0 /\ key.regs = 0 /\ key.inflight = 0
      /\ key.cache = NoFrame /\ key.version = -1
  BY DEF PanelInit, ManagerInit
<1>2. Shapes
  BY FrameFacts, JobFacts DEF PanelInit, ManagerInit, Shapes, Key
<1>3. Current /\ Behind
  BY <1>1, FrameFacts DEF Current, Behind
<1>4. CursorInv
  BY <1>1, FrameFacts DEF PanelInit, CursorInv, Fetch
<1> QED BY <1>2, <1>3, <1>4 DEF PanelInv, ManagerInv

\* A client's step: it may take frames from the socket, or leave it.
LEMMA ClientManager ==
    ASSUME ManagerInv, UNCHANGED <<key, jobs>>,
           \/ socket' = socket
           \/ \E b \in BOOLEAN : socket' = [on |-> b, sent |-> <<>>]
           \/ socket.sent # <<>> /\ socket' = [socket EXCEPT !.sent = Tail(socket.sent)]
    PROVE  ManagerInv'
<1>1. CASE socket' = socket
  BY <1>1 DEF ManagerInv, Shapes, Current, Behind
<1>2. CASE \E b \in BOOLEAN : socket' = [on |-> b, sent |-> <<>>]
  <2>1. socket'.sent = <<>> /\ socket' \in [on : BOOLEAN, sent : Seq(Frame)]
    BY <1>2
  <2> QED BY <2>1 DEF ManagerInv, Shapes, Current, Behind
<1>3. CASE socket.sent # <<>> /\ socket' = [socket EXCEPT !.sent = Tail(socket.sent)]
  <2>1. socket.sent \in Seq(Frame) /\ socket \in [on : BOOLEAN, sent : Seq(Frame)]
    BY DEF ManagerInv, Shapes
  <2>2. Tail(socket.sent) \in Seq(Frame)
    BY <1>3, <2>1
  <2>3. socket' \in [on : BOOLEAN, sent : Seq(Frame)] /\ socket'.sent = Tail(socket.sent)
    BY <1>3, <2>1, <2>2
  <2>4. /\ Len(socket'.sent) = Len(socket.sent) - 1
        /\ \A i \in 1 .. Len(socket'.sent) :
               i + 1 \in 1 .. Len(socket.sent) /\ socket'.sent[i] = socket.sent[i + 1]
    BY <1>3, <2>1, <2>3
  <2>5. \A i, j \in 1 .. Len(socket'.sent) : i < j => i + 1 < j + 1
    BY <2>1, <2>4
  <2>6. \A i, j \in 1 .. Len(socket'.sent) :
            i < j => Precedes(socket'.sent[i], socket'.sent[j])
    <3>1. \A i, j \in 1 .. Len(socket.sent) : i < j => Precedes(socket.sent[i], socket.sent[j])
      BY DEF ManagerInv, Behind
    <3> QED BY <2>4, <2>5, <3>1
  <2>7. \A i \in 1 .. Len(socket'.sent) :
            /\ socket'.sent[i].reg <= key.regs
            /\ socket'.sent[i].reg = key.regs /\ key.composer # 0 =>
                  socket'.sent[i].version <= key.version
    BY <2>4 DEF ManagerInv, Behind
  <2>8. Behind'
    BY <2>6, <2>7 DEF Behind, Precedes
  <2> QED BY <2>3, <2>8 DEF ManagerInv, Shapes, Current
<1> QED BY <1>1, <1>2, <1>3

\* The guard decides about a frame.
LEMMA Guarded ==
    ASSUME CursorInv, NEW f \in Frame, f.version >= -1, ApplyFrame(f)
    PROVE  /\ shown' \in Frame /\ cursor' \in [seen : Int, applied : BOOLEAN]
           /\ cursor'.seen = shown'.version
           /\ ~cursor'.applied => cursor'.seen = -1
           /\ GoesForward
<1>1. CASE ShouldApply(f.version)
  <2>1. cursor' = [seen |-> f.version, applied |-> TRUE] /\ shown' = f
    BY <1>1 DEF ApplyFrame
  <2>2. f.version = 0 \/ shown.version = -1 \/ f.version > shown.version
    BY <1>1 DEF ShouldApply, CursorInv
  <2>3. f.version \in Int /\ shown.version \in Int
    BY FrameFacts DEF CursorInv
  <2> QED BY <2>1, <2>2, <2>3 DEF GoesForward
<1>2. CASE ~ShouldApply(f.version)
  <2>1. shown.version \in Int
    BY FrameFacts DEF CursorInv
  <2> QED BY <1>2, <2>1 DEF ApplyFrame, CursorInv, GoesForward
<1> QED BY <1>1, <1>2

\* The server moves, the panel stands.
LEMMA ServerCursor ==
    ASSUME PanelInv, ManagerInv', UNCHANGED clientVars, source' \in Int, key'.version >= -1,
           \/ socket'.sent = socket.sent
           \/ \E f \in Frame : f.version >= -1 /\ socket'.sent = Append(socket.sent, f)
    PROVE  CursorInv'
<1>1. socket.sent \in Seq(Frame)
  BY DEF PanelInv, ManagerInv, Shapes
<1>2. \A i \in 1 .. Len(socket'.sent) : socket'.sent[i].version >= -1
  <2>1. \A i \in 1 .. Len(socket.sent) : socket.sent[i].version >= -1
    BY DEF PanelInv, CursorInv
  <2>2. ASSUME NEW f \in Frame, f.version >= -1, socket'.sent = Append(socket.sent, f),
               NEW i \in 1 .. Len(socket'.sent)
        PROVE  socket'.sent[i].version >= -1
    <3>1. /\ Len(socket'.sent) = Len(socket.sent) + 1 /\ Len(socket.sent) \in Nat
          /\ \A k \in 1 .. Len(socket.sent) : socket'.sent[k] = socket.sent[k]
          /\ socket'.sent[Len(socket.sent) + 1] = f
      BY <1>1, <2>2
    <3>2. i \in 1 .. Len(socket.sent) \/ i = Len(socket.sent) + 1
      BY <3>1
    <3> QED BY <2>1, <2>2, <3>1, <3>2
  <2> QED BY <2>1, <2>2
<1> QED BY <1>2 DEF PanelInv, CursorInv, clientVars

LEMMA ServerPanel ==
    ASSUME PanelInv,
           Produce \/ PanelManager \/ \E r \in Registrations : Compose(r)
    PROVE  PanelInv' /\ UNCHANGED clientVars
<1>1. /\ ManagerInv /\ UNCHANGED clientVars /\ source \in Int /\ key.version \in Int
      /\ key.version >= -1 /\ socket.sent \in Seq(Frame)
  BY DEF PanelInv, ManagerInv, Shapes, Key, CursorInv, Produce, PanelManager, Compose, clientVars
<1>2. source' \in Int
  BY <1>1 DEF Produce, PanelManager, Compose
<1>3. CASE Produce
  <2>1. CASE RecomposeAsync
    <3>1. ManagerInv'
      BY <1>1, <2>1, JobFacts, StartManager DEF RecomposeAsync
    <3>2. key'.version = key.version /\ socket' = socket
      BY <1>1, <2>1 DEF RecomposeAsync, Start, ManagerInv, Shapes, Key
    <3> QED BY <1>1, <1>2, <3>1, <3>2, ServerCursor DEF PanelInv
  <2>2. CASE UNCHANGED managerVars
    <3>1. ManagerInv' /\ key' = key /\ socket' = socket
      BY <1>1, <2>2 DEF managerVars, ManagerInv, Shapes, Current, Behind
    <3> QED BY <1>1, <1>2, <3>1, ServerCursor DEF PanelInv
  <2> QED BY <1>3, <2>1, <2>2 DEF Produce
<1>4. ASSUME NEW r \in Registrations, Compose(r)
      PROVE  PanelInv'
  <2>1. CASE Publish(r)
    <3>1. /\ ManagerInv' /\ key'.version = key.version + 1
          /\ socket'.sent \in {socket.sent, Append(socket.sent, NextFrame(r))}
          /\ NextFrame(r).version = key.version + 1
      BY <1>1, <2>1, PublishManager
    <3>2. NextFrame(r) \in Frame
      BY <1>1, <2>1, JobFacts, SnapshotAssumption
         DEF Publish, NextFrame, Frame, ManagerInv, Shapes, Registrations
    <3> QED BY <1>1, <1>2, <3>1, <3>2, ServerCursor DEF PanelInv
  <2>2. CASE DropStale(r) \/ Finally(r) \/ ComposerReads(r, source)
    <3>1. ManagerInv'
      BY <1>1, <2>2, QuietManager
    <3>2. key'.version = key.version /\ socket' = socket
      BY <1>1, <2>2 DEF DropStale, Finally, ComposerReads, ManagerInv, Shapes, Key
    <3> QED BY <1>1, <1>2, <3>1, <3>2, ServerCursor DEF PanelInv
  <2> QED BY <1>4, <2>1, <2>2 DEF Compose, Complete
<1>5. CASE PanelManager
  <2>1. ManagerInv'
    BY <1>1, <1>5, RegisterManager, DisposeManager, UnregisterManager, QuietManager
       DEF PanelManager
  <2>2. key'.version \in {key.version, -1} /\ socket'.sent = socket.sent
    BY <1>1, <1>5 DEF PanelManager, Register, DisposeBegin, DisposeEnd, Unregister, ComposeFails,
                      ClosedKey, ManagerInv, Shapes, Key
  <2> QED BY <1>1, <1>2, <2>1, <2>2, ServerCursor DEF PanelInv
<1> QED BY <1>1, <1>3, <1>4, <1>5

LEMMA ClientPanel ==
    ASSUME PanelInv, Panel
    PROVE  PanelInv' /\ (GoesForward \/ UNCHANGED panelVars)
<1> USE DEF Fetch
<1>1. /\ ManagerInv /\ CursorInv /\ socket.sent \in Seq(Frame) /\ key.cache \in Frame
      /\ key.cache.version >= -1
  BY DEF PanelInv, ManagerInv, Shapes, Current, Key, CursorInv
<1>2. GoesForward \/ shown' # shown
  BY <1>1, FrameFacts DEF GoesForward, CursorInv
<1>3. UNCHANGED <<key, jobs, source>>
  BY DEF Panel, Answer, Reload, GetIsAnswered, GetArrives, GoneArrives, GetFails, Accept,
         OnOpen, OnFrame, OnClose, Reopen, serverVars
<1>4. CASE Reload \/ GetIsAnswered \/ GetFails \/ OnOpen \/ Reopen
  <2>1. socket' = socket /\ shown' = shown /\ cursor' = cursor
    BY <1>4 DEF Reload, GetIsAnswered, GetFails, OnOpen, Reopen, serverVars
  <2>2. /\ get' \in [kind : {"none", "sent", "frame", "pending", "gone"}, frame : Frame]
        /\ get'.frame.version >= -1
    BY <1>1, <1>4, FrameFacts
       DEF Reload, GetIsAnswered, GetFails, OnOpen, Reopen, Hydrating, CursorInv
  <2>3. ManagerInv'
    BY <1>1, <1>3, <2>1, ClientManager
  <2>4. CursorInv'
    BY <1>1, <1>3, <2>1, <2>2 DEF CursorInv
  <2> QED BY <1>2, <2>1, <2>3, <2>4 DEF PanelInv
<1>5. CASE GetArrives
  <2>1. socket' = socket /\ get' = [kind |-> "none", frame |-> NoFrame]
    BY <1>5 DEF GetArrives, serverVars
  <2>2. ManagerInv'
    BY <1>1, <1>3, <2>1, ClientManager
  <2>3. CASE get.kind = "frame"
    <3>1. get.frame \in Frame /\ get.frame.version >= -1 /\ ApplyFrame(get.frame)
      BY <1>1, <1>5, <2>3 DEF GetArrives, CursorInv
    <3>2. CursorInv'
      BY <1>1, <1>3, <2>1, <3>1, FrameFacts, Guarded DEF CursorInv
    <3> QED BY <1>1, <2>2, <3>1, <3>2, Guarded DEF PanelInv
  <2>4. CASE get.kind # "frame"
    <3>1. shown' = shown /\ cursor' = cursor
      BY <1>5, <2>4 DEF GetArrives
    <3>2. CursorInv'
      BY <1>1, <1>3, <2>1, <3>1, FrameFacts DEF CursorInv
    <3> QED BY <1>2, <2>2, <3>1, <3>2 DEF PanelInv
  <2> QED BY <2>3, <2>4
<1>6. CASE GoneArrives \/ Accept \/ OnClose
  <2>1. /\ shown' = shown /\ cursor' = cursor
        /\ \E b \in BOOLEAN : socket' = [on |-> b, sent |-> <<>>]
        /\ get' \in {get, [kind |-> "none", frame |-> NoFrame]}
    BY <1>6 DEF GoneArrives, Accept, OnClose
  <2>2. ManagerInv' /\ socket'.sent = <<>>
    BY <1>1, <1>3, <2>1, ClientManager
  <2>3. CursorInv'
    BY <1>1, <1>3, <2>1, <2>2, FrameFacts DEF CursorInv
  <2> QED BY <1>2, <2>1, <2>2, <2>3 DEF PanelInv
<1>7. CASE OnFrame
  <2>1. /\ Head(socket.sent) = socket.sent[1] /\ socket.sent[1] \in Frame
        /\ 1 \in 1 .. Len(socket.sent)
        /\ socket' = [socket EXCEPT !.sent = Tail(socket.sent)]
        /\ get' = get
    BY <1>1, <1>7 DEF OnFrame
  <2>2. socket.sent[1].version >= -1 /\ ApplyFrame(socket.sent[1])
    BY <1>1, <1>7, <2>1 DEF OnFrame, CursorInv
  <2>3. ManagerInv'
    BY <1>1, <1>3, <1>7, <2>1, ClientManager DEF OnFrame
  <2>4. \A i \in 1 .. Len(socket'.sent) : socket'.sent[i].version >= -1
    <3>1. socket'.sent = Tail(socket.sent)
      BY <2>1 DEF PanelInv, ManagerInv, Shapes
    <3>2. \A i \in 1 .. Len(socket'.sent) :
              i + 1 \in 1 .. Len(socket.sent) /\ socket'.sent[i] = socket.sent[i + 1]
      BY <1>1, <1>7, <3>1 DEF OnFrame
    <3> QED BY <1>1, <3>2 DEF CursorInv
  <2>5. CursorInv'
    BY <1>1, <1>3, <2>1, <2>2, <2>4, Guarded DEF CursorInv
  <2> QED BY <1>1, <2>1, <2>2, <2>3, <2>5, Guarded DEF PanelInv
<1> QED BY <1>4, <1>5, <1>6, <1>7 DEF Panel, Answer

LEMMA StepPanel == PanelInv /\ [PanelNext]_panelVars => PanelInv' /\ [GoesForward]_panelVars
<1> SUFFICES ASSUME PanelInv, [PanelNext]_panelVars
             PROVE  PanelInv' /\ [GoesForward]_panelVars
  OBVIOUS
<1>1. CASE UNCHANGED panelVars
  BY <1>1 DEF panelVars, PanelInv, CursorInv, ManagerInv, Shapes, Current, Behind
<1>2. CASE Produce \/ PanelManager \/ \E r \in Registrations : Compose(r)
  <2>1. PanelInv' /\ shown' = shown
    BY <1>2, ServerPanel DEF clientVars
  <2>2. GoesForward
    BY <2>1, FrameFacts DEF GoesForward, PanelInv, CursorInv
  <2> QED BY <2>1, <2>2
<1>3. CASE Panel
  BY <1>3, ClientPanel
<1> QED BY <1>1, <1>2, <1>3 DEF PanelNext

LEMMA AlwaysPanel == PanelSpec => []PanelInv
<1>1. PanelInit => PanelInv
  BY InitPanel
<1>2. PanelInv /\ [PanelNext]_panelVars => PanelInv'
  BY StepPanel
<1> QED BY <1>1, <1>2, PTL DEF PanelSpec

\* No composition that outlives its registration is published under another, and
\* a subscriber is sent frames in the order in which they were published.
THEOREM FramesStayCurrent == PanelSpec => []FramesAreCurrent
<1>1. PanelInv => FramesAreCurrent
  BY DEF PanelInv, ManagerInv, Current, Behind, FramesAreCurrent
<1> QED BY <1>1, AlwaysPanel, PTL

\* Answers and frames may overtake each other: within a registration the panel
\* never goes back but to version 0.
THEOREM PanelGoesForward == PanelSpec => OnlyZeroGoesBack
<1>1. PanelInv /\ [PanelNext]_panelVars => [GoesForward]_panelVars
  BY StepPanel
<1> QED BY <1>1, AlwaysPanel, PTL DEF PanelSpec, OnlyZeroGoesBack

-----------------------------------------------------------------------------
(* The panel's bounds.  A version is published by a composition that began *)
(* when there was room for it, unless its registration is gone.            *)

\* No frame bears a version beyond the bound.
InBounds(f) == f.version \in -1 .. MaxVersion

ServerBounds ==
    /\ source \in 0 .. MaxSource
    /\ key.regs <= MaxRegs /\ key.draining \in 0 .. MaxRegs
    /\ key.version \in -1 .. MaxVersion
    /\ \A r \in Registrations :
          key.composer = r /\ jobs[r].phase \in {"composing", "read"} =>
              key.version < MaxVersion

SentInBounds == \A i \in 1 .. Len(socket.sent) : InBounds(socket.sent[i])

ClientBounds ==
    /\ conn \in {"connecting", "accepted", "open", "reconnecting", "closed"}
    /\ InBounds(get.frame) /\ InBounds(shown)

BoundsInv == ServerBounds /\ SentInBounds /\ ClientBounds

LEMMA InitBounds == PanelInit => BoundsInv
BY PanelAssumption, SnapshotAssumption
   DEF PanelInit, ManagerInit, BoundsInv, ServerBounds, SentInBounds, ClientBounds, InBounds,
       Fetch, NoFrame, Idle, Registrations

LEMMA KeyFacts ==
    ASSUME PanelInv
    PROVE  /\ key \in Key /\ jobs \in [Registrations -> Job] /\ socket.sent \in Seq(Frame)
           /\ key.regs \in Nat /\ key.version \in Int /\ MaxVersion \in Nat /\ MaxRegs \in Nat
           /\ key.composer \in {0, key.regs} /\ key.inflight \in {0, key.composer}
           /\ key.cache.version = key.version
BY SnapshotAssumption DEF PanelInv, ManagerInv, Shapes, Current, Key

\* A frame that is published is within the bounds.
LEMMA AppendInBounds ==
    ASSUME PanelInv, SentInBounds, NEW f \in Frame, InBounds(f),
           socket'.sent \in {socket.sent, Append(socket.sent, f)}
    PROVE  SentInBounds'
<1>1. socket.sent \in Seq(Frame)
  BY KeyFacts
<1>2. CASE socket'.sent = socket.sent
  BY <1>2 DEF SentInBounds, InBounds
<1>3. CASE socket'.sent = Append(socket.sent, f)
  <2> SUFFICES ASSUME NEW i \in 1 .. Len(socket'.sent)
               PROVE  InBounds(socket'.sent[i])
    BY DEF SentInBounds, InBounds
  <2>1. /\ Len(socket'.sent) = Len(socket.sent) + 1 /\ Len(socket.sent) \in Nat
        /\ \A k \in 1 .. Len(socket.sent) : socket'.sent[k] = socket.sent[k]
        /\ socket'.sent[Len(socket.sent) + 1] = f
    BY <1>1, <1>3
  <2>2. i \in 1 .. Len(socket.sent) \/ i = Len(socket.sent) + 1
    BY <2>1
  <2> QED BY <2>1, <2>2 DEF SentInBounds
<1> QED BY <1>2, <1>3

LEMMA PublishBounds ==
    ASSUME PanelInv, BoundsInv, NEW r \in Registrations, Publish(r), source' = source
    PROVE  ServerBounds' /\ SentInBounds'
<1>1. /\ key'.version = key.version + 1 /\ NextFrame(r).version = key.version + 1
      /\ socket'.sent \in {socket.sent, Append(socket.sent, NextFrame(r))}
  BY PublishManager DEF PanelInv
<1>2. key.composer = r /\ jobs[r].phase = "read" /\ jobs[r].data \in Int
  BY JobFacts DEF Publish, PanelInv, ManagerInv, Shapes
<1>3. key.version < MaxVersion /\ key.version \in -1 .. MaxVersion
  BY <1>2 DEF BoundsInv, ServerBounds
<1>4. key.version + 1 \in -1 .. MaxVersion
  BY <1>3, KeyFacts
<1>5. /\ key'.regs = key.regs /\ key'.draining = key.draining /\ key'.composer = r
      /\ jobs' = [jobs EXCEPT ![r] = [phase |-> "settled"]]
  BY KeyFacts DEF Publish, Settled, Key
<1>6. jobs'[r].phase = "settled"
  BY <1>5, KeyFacts
<1>7. NextFrame(r) \in Frame /\ InBounds(NextFrame(r))
  BY <1>1, <1>2, <1>4, SnapshotAssumption, KeyFacts
     DEF NextFrame, Frame, InBounds, Registrations
<1>8. ServerBounds'
  BY <1>1, <1>4, <1>5, <1>6 DEF BoundsInv, ServerBounds, Registrations
<1> QED BY <1>1, <1>7, <1>8, AppendInBounds DEF BoundsInv

\* A composition begins where there is room.
LEMMA StartBounds ==
    ASSUME PanelInv, BoundsInv, NEW job \in Job, Start(job), source' \in 0 .. MaxSource
    PROVE  ServerBounds' /\ SentInBounds'
<1>1. /\ key'.regs = key.regs /\ key'.draining = key.draining
      /\ key'.composer = key.composer /\ key'.version = key.version /\ socket' = socket
  BY KeyFacts DEF Start, Key
<1>2. key.version < MaxVersion
  BY DEF Start
<1> QED BY <1>1, <1>2 DEF BoundsInv, ServerBounds, SentInBounds, InBounds

LEMMA ServerInBounds ==
    ASSUME PanelInv, BoundsInv,
           Produce \/ PanelManager \/ \E r \in Registrations : Compose(r)
    PROVE  BoundsInv'
<1>1. UNCHANGED clientVars /\ ClientBounds'
  BY DEF Produce, PanelManager, Compose, clientVars, BoundsInv, ClientBounds, InBounds
<1>2. CASE Produce
  <2>1. source' \in 0 .. MaxSource
    BY <1>2, PanelAssumption DEF Produce, BoundsInv, ServerBounds
  <2>2. CASE RecomposeAsync
    BY <1>1, <2>1, <2>2, JobFacts, StartBounds DEF RecomposeAsync, BoundsInv
  <2>3. CASE UNCHANGED managerVars
    BY <1>1, <2>1, <2>3 DEF managerVars, BoundsInv, ServerBounds, SentInBounds, InBounds
  <2> QED BY <1>2, <2>2, <2>3 DEF Produce
<1>3. ASSUME NEW r \in Registrations, Publish(r), UNCHANGED source
      PROVE  BoundsInv'
  BY <1>1, <1>3, PublishBounds DEF BoundsInv
<1>4. ASSUME NEW r \in Registrations, UNCHANGED source,
             DropStale(r) \/ Finally(r) \/ ComposeFails(r) \/ ComposerReads(r, source)
      PROVE  BoundsInv'
  <2>1. /\ key'.regs = key.regs /\ key'.draining = key.draining /\ socket' = socket
        /\ key'.composer = key.composer /\ key'.version = key.version
    BY <1>4, KeyFacts DEF DropStale, Finally, ComposeFails, ComposerReads, Key
  <2>2. \A q \in Registrations :
            jobs'[q].phase \in {"composing", "read"} => jobs[q].phase \in {"composing", "read"}
    BY <1>4, KeyFacts DEF DropStale, Finally, ComposeFails, ComposerReads, Settled, Idle
  <2> QED BY <1>1, <1>4, <2>1, <2>2 DEF BoundsInv, ServerBounds, SentInBounds, InBounds
<1>5. ASSUME Register, UNCHANGED source
      PROVE  BoundsInv'
  <2>1. /\ key'.regs = key.regs + 1 /\ key'.draining = key.draining
        /\ key'.version = key.version /\ socket' = socket
    BY <1>5, KeyFacts DEF Register, Key
  <2>2. key.version = -1
    BY <1>5, FrameFacts DEF Register, PanelInv, ManagerInv, Current
  <2>3. key.regs + 1 <= MaxRegs
    BY <1>5, KeyFacts DEF Register
  <2>4. -1 \in -1 .. MaxVersion /\ -1 < MaxVersion
    BY SnapshotAssumption
  <2> QED BY <1>1, <1>5, <2>1, <2>2, <2>3, <2>4
          DEF BoundsInv, ServerBounds, SentInBounds, InBounds
<1>6. ASSUME DisposeBegin, UNCHANGED source
      PROVE  BoundsInv'
  <2>1. /\ key'.regs = key.regs /\ key'.draining = key.inflight /\ socket' = socket
        /\ key'.composer = key.composer /\ key'.version = key.version /\ jobs' = jobs
    BY <1>6, KeyFacts DEF DisposeBegin, Key
  <2>2. key.inflight \in 0 .. MaxRegs
    BY KeyFacts DEF BoundsInv, ServerBounds
  <2> QED BY <1>1, <1>6, <2>1, <2>2 DEF BoundsInv, ServerBounds, SentInBounds, InBounds
<1>7. ASSUME NEW r \in Registrations, Unregister(r), UNCHANGED source
      PROVE  BoundsInv'
  <2>1. /\ key'.regs = key.regs /\ key'.draining = key.draining
        /\ key'.composer = 0 /\ key'.version = -1 /\ socket'.sent = socket.sent
    BY <1>7, KeyFacts DEF Unregister, Key, ClosedKey, PanelInv, ManagerInv, Shapes
  <2>2. -1 \in -1 .. MaxVersion /\ -1 < MaxVersion /\ 0 \in 0 .. MaxRegs
    BY SnapshotAssumption
  <2> QED BY <1>1, <1>7, <2>1, <2>2 DEF BoundsInv, ServerBounds, SentInBounds, InBounds
<1>8. ASSUME DisposeEnd, UNCHANGED source
      PROVE  BoundsInv'
  <2>1. /\ key'.regs = key.regs /\ key'.draining = 0
        /\ key'.composer = 0 /\ key'.version = -1 /\ socket'.sent = socket.sent
    BY <1>8, KeyFacts DEF DisposeEnd, Key, ClosedKey, PanelInv, ManagerInv, Shapes
  <2>2. -1 \in -1 .. MaxVersion /\ -1 < MaxVersion /\ 0 \in 0 .. MaxRegs
    BY SnapshotAssumption
  <2> QED BY <1>1, <1>8, <2>1, <2>2 DEF BoundsInv, ServerBounds, SentInBounds, InBounds
<1> QED BY <1>2, <1>3, <1>4, <1>5, <1>6, <1>7, <1>8 DEF Compose, Complete, PanelManager

LEMMA ClientInBounds ==
    ASSUME PanelInv, BoundsInv, Panel
    PROVE  BoundsInv'
<1> USE DEF Fetch
<1>1. ServerBounds'
  BY DEF Panel, Answer, Reload, GetIsAnswered, GetArrives, GoneArrives, GetFails, Accept,
         OnOpen, OnFrame, OnClose, Reopen, serverVars, BoundsInv, ServerBounds
<1>2. InBounds(NoFrame) /\ InBounds(key.cache)
  BY FrameFacts, KeyFacts DEF InBounds, BoundsInv, ServerBounds
<1>3. CASE Reload \/ GetIsAnswered \/ GetFails \/ OnOpen \/ Reopen
  <2>1. /\ get'.frame \in {get.frame, NoFrame, key.cache}
        /\ socket' = socket /\ shown' = shown
        /\ conn' \in {conn, "open", "connecting"}
    BY <1>3 DEF Reload, GetIsAnswered, GetFails, OnOpen, Reopen, Hydrating, serverVars
  <2> QED BY <1>1, <1>2, <2>1 DEF BoundsInv, SentInBounds, ClientBounds, InBounds
<1>4. CASE GetArrives
  <2>1. /\ get' = [kind |-> "none", frame |-> NoFrame] /\ socket' = socket /\ conn' = conn
        /\ shown' \in {shown, get.frame}
    BY <1>4 DEF GetArrives, ApplyFrame, serverVars
  <2> QED BY <1>1, <1>2, <2>1 DEF BoundsInv, SentInBounds, ClientBounds, InBounds
<1>5. CASE GoneArrives \/ Accept \/ OnClose
  <2>1. /\ socket'.sent = <<>> /\ shown' = shown
        /\ get'.frame \in {get.frame, NoFrame}
        /\ conn' \in {"closed", "accepted", "reconnecting"}
    BY <1>5 DEF GoneArrives, Accept, OnClose
  <2> QED BY <1>1, <1>2, <2>1 DEF BoundsInv, SentInBounds, ClientBounds, InBounds
<1>6. CASE OnFrame
  <2>1. /\ get' = get /\ conn' = conn /\ shown' \in {shown, Head(socket.sent)}
        /\ socket.sent \in Seq(Frame) /\ socket.sent # <<>>
        /\ socket'.sent = Tail(socket.sent)
    BY <1>6, KeyFacts DEF OnFrame, ApplyFrame, PanelInv, ManagerInv, Shapes
  <2>2. /\ Head(socket.sent) = socket.sent[1] /\ 1 \in 1 .. Len(socket.sent)
        /\ \A i \in 1 .. Len(socket'.sent) :
               i + 1 \in 1 .. Len(socket.sent) /\ socket'.sent[i] = socket.sent[i + 1]
    BY <2>1
  <2> QED BY <1>1, <2>1, <2>2 DEF BoundsInv, SentInBounds, ClientBounds, InBounds
<1> QED BY <1>3, <1>4, <1>5, <1>6 DEF Panel, Answer

\* The versions a panel is shown stay within those a registration may publish: a
\* composition that outlives its registration adds none, since recompose() compares the
\* composer before it counts.
THEOREM PanelTypeCorrect == PanelSpec => []PanelTypeOK
<1>1. PanelInv /\ BoundsInv /\ [PanelNext]_panelVars => BoundsInv'
  <2>1. CASE UNCHANGED panelVars
    BY <2>1 DEF panelVars, BoundsInv, ServerBounds, SentInBounds, ClientBounds, InBounds
  <2> QED BY <2>1, ServerInBounds, ClientInBounds DEF PanelNext
<1>2. PanelInv /\ BoundsInv => PanelTypeOK
  <2> SUFFICES ASSUME PanelInv, BoundsInv
               PROVE  PanelTypeOK
    OBVIOUS
  <2>1. {key.composer, key.inflight, key.draining, key.regs} \subseteq 0 .. MaxRegs
    <3>1. key.regs \in 0 .. MaxRegs /\ 0 \in 0 .. MaxRegs
      BY KeyFacts DEF BoundsInv, ServerBounds
    <3>2. key.draining \in 0 .. MaxRegs
      BY DEF BoundsInv, ServerBounds
    <3> QED BY <3>1, <3>2, KeyFacts
  <2>2. ManagerTypeOK
    BY <2>1, KeyFacts
       DEF ManagerTypeOK, BoundsInv, ServerBounds, PanelInv, ManagerInv, Shapes, Key, Job
  <2>3. cursor \in [seen : -1 .. MaxVersion, applied : BOOLEAN]
    BY DEF PanelInv, CursorInv, BoundsInv, ClientBounds, InBounds
  <2> QED BY <2>2, <2>3 DEF PanelTypeOK, BoundsInv, ServerBounds, ClientBounds, PanelInv, CursorInv
<1> QED BY <1>1, <1>2, InitBounds, AlwaysPanel, PTL DEF PanelSpec

-----------------------------------------------------------------------------
(* Following a run: the invariant.                                         *)

RunStatus == {"running", "paused", "succeeded", "failed", "cancelled"}
RowStatus == {"none", "awaiting", "skipped"} \cup Outcomes

WireFrame ==
    [type : {"node_started", "node_chunk", "approval_resolved"}, node : Steps]
    \cup [type : {"node_done"}, node : Steps, status : Outcomes \cup {"skipped"}]
    \cup [type : {"approval_awaiting"}, node : Steps, pause : 0 .. MaxTurns]
    \cup [type : {"run_done"}, status : RunStatus]

ShownNode ==
    [status : {"absent", "pending", "running", "awaiting", "succeeded", "failed", "skipped",
               "cancelled"},
     pause : 0 .. MaxTurns]

LaunchType ==
    [status : RunStatus, aborted : BOOLEAN, byNode : BOOLEAN, over : BOOLEAN,
     died : BOOLEAN, pauses : 0 .. MaxTurns]
WorkType ==
    [phase : {"waiting", "running", "awaiting", "over"}, starts : 0 .. MaxTurns,
     said : 0 .. MaxTurns, pause : 0 .. MaxTurns]
WireType ==
    [at : {"connecting", "accepted", "open", "reconnecting", "closed"}, subscribed : BOOLEAN,
     ended : BOOLEAN, frames : Seq(WireFrame), stopped : BOOLEAN, drops : Nat]
FetchType ==
    [kind : {"none", "sent"}]
    \cup [kind : {"answer"}, run : RunStatus, nodes : [Steps -> ShownNode]]
ViewType ==
    [run : RunStatus \cup {"loading"}, loaded : {"loading", "ready", "error"},
     nodes : [Steps -> ShownNode]]

ServerShapes ==
    /\ launch \in LaunchType
    /\ work \in [Steps -> WorkType]
    /\ nodeRows \in [Steps -> [status : RowStatus]]

ClientShapes == fetch \in FetchType /\ view \in ViewType

\* A node that is over has an outcome in its row, and one that has not begun has no row.
\* The row of the run says that it is over when it is.
ServerInv ==
    /\ ~launch.died =>
          /\ \A n \in Steps :
                /\ work[n].phase = "over" => nodeRows[n].status \in Outcomes \cup {"skipped"}
                /\ work[n].phase = "waiting" => nodeRows[n].status = "none"
          /\ launch.over => \/ \A n \in Steps : work[n].phase = "over"
                            \/ \A n \in Steps : work[n].phase = "waiting"
    /\ ~launch.byNode => (launch.over <=> IsSettled(launch.status))

Undisturbed(l) == ~l.byNode /\ ~l.died

\* Unless something disturbed the launch, its end is the last that the socket carries, and
\* a view that has heard it listens to nothing else.
WireOK(w, l) ==
    /\ w.subscribed \/ w.frames # <<>> => w.at \in {"accepted", "open"}
    /\ w.at = "closed" => w.stopped
    /\ Undisturbed(l) =>
          /\ w.subscribed => ~l.over
          /\ \A i \in 1 .. Len(w.frames) : w.frames[i].type = "run_done" =>
                i = Len(w.frames) /\ l.over /\ ~w.subscribed
          /\ w.stopped => /\ w.at \in {"open", "closed"} /\ l.over
                          /\ w.frames = <<>> /\ ~w.subscribed

WireInv == wire \in WireType /\ WireOK(wire, launch)

Shows(run, nodes) ==
    /\ run = launch.status
    /\ \A n \in Steps : nodeRows[n].status # "none" => nodes[n].status = nodeRows[n].status

\* Once the end was heard, an answer on its way tells what the rows say, and the view shows
\* it when it has arrived.
EndInv ==
    Undisturbed(launch) /\ wire.stopped =>
        /\ fetch.kind = "answer" => Shows(fetch.run, fetch.nodes)
        /\ fetch.kind = "none" /\ view.loaded = "ready" => Shows(view.run, view.nodes)

FollowInv == ServerShapes /\ ClientShapes /\ ServerInv /\ WireInv /\ EndInv

-----------------------------------------------------------------------------
(* Following a run: the frames on the socket.                              *)

\* A finite set in a sequence, with nothing left out.
LEMMA AllInSequence ==
    ASSUME NEW T, IsFiniteSet(T)
    PROVE  /\ SetToSeq(T) \in Seq(T)
           /\ \A e \in T : \E i \in 1 .. Len(SetToSeq(T)) : SetToSeq(T)[i] = e
<1>1. Cardinality(T) \in Nat /\ ExistsBijection(1 .. Cardinality(T), T)
  BY FS_CardinalityType
<1>2. PICK g \in [1 .. Cardinality(T) -> T] : IsInjective(g)
  BY <1>1 DEF ExistsBijection, Bijection, Injection
<1>3. SetToSeq(T) \in [1 .. Cardinality(T) -> T] /\ IsInjective(SetToSeq(T))
  BY <1>2 DEF SetToSeq
<1>4. SetToSeq(T) \in Seq(T) /\ Len(SetToSeq(T)) = Cardinality(T)
  BY <1>1, <1>3
<1>5. SetToSeq(T) \in Surjection(1 .. Cardinality(T), T)
  <2>1. SetToSeq(T) \in Injection(1 .. Cardinality(T), T)
    BY <1>3 DEF Injection
  <2>2. Cardinality(1 .. Cardinality(T)) = Cardinality(T)
    BY <1>1, FS_Interval
  <2>. QED BY <2>1, <2>2, FS_Injection
<1>6. \A e \in T : \E i \in 1 .. Len(SetToSeq(T)) : SetToSeq(T)[i] = e
  BY <1>4, <1>5 DEF Surjection
<1>. QED BY <1>4, <1>6

\* One frame for each of some nodes is finitely many.
LEMMA FewFrames ==
    ASSUME NEW S, S \subseteq Steps, NEW f, f \in [S -> WireFrame]
    PROVE  IsFiniteSet({f[n] : n \in S})
<1>. DEFINE T == {f[n] : n \in S}
<1>1. IsFiniteSet(S)
  BY FollowAssumption, FS_Subset
<1>2. f \in Surjection(S, T)
  BY Fun_IsSurj
<1>. HIDE DEF T
<1>3. IsFiniteSet(T)
  BY <1>1, <1>2, FS_Surjection
<1>. QED BY <1>3 DEF T

LEMMA AppendedFrame ==
    ASSUME NEW S, NEW s \in Seq(S), NEW e \in S
    PROVE  /\ Append(s, e) \in Seq(S) /\ Append(s, e) # <<>>
           /\ Len(s) \in Nat /\ Len(Append(s, e)) = Len(s) + 1
           /\ Append(s, e)[Len(s) + 1] = e
           /\ \A i \in 1 .. Len(s) : Append(s, e)[i] = s[i]
OBVIOUS

LEMMA FrameIsSent ==
    ASSUME NEW w \in WireType, NEW l, NEW f \in WireFrame, f.type # "run_done",
           WireOK(w, l), ~l.over,
           NEW v, v = IF w.subscribed THEN [w EXCEPT !.frames = Append(@, f)] ELSE w
    PROVE  v \in WireType /\ WireOK(v, l) /\ v.stopped = w.stopped
<1>1. CASE ~w.subscribed
  BY <1>1
<1>2. CASE w.subscribed
  <2>1. w.frames \in Seq(WireFrame) /\ Append(w.frames, f) \in Seq(WireFrame)
    BY DEF WireType
  <2>2. /\ v \in WireType /\ v.frames = Append(w.frames, f) /\ v.at = w.at
        /\ v.subscribed = w.subscribed /\ v.stopped = w.stopped
    BY <1>2, <2>1 DEF WireType
  <2>3. /\ Len(w.frames) \in Nat /\ Len(v.frames) = Len(w.frames) + 1 /\ v.frames # <<>>
        /\ v.frames[Len(w.frames) + 1] = f
        /\ \A i \in 1 .. Len(w.frames) : v.frames[i] = w.frames[i]
    BY <2>1, <2>2, AppendedFrame
  <2>4. Undisturbed(l) => \A i \in 1 .. Len(v.frames) : v.frames[i].type # "run_done"
    BY <2>3 DEF WireOK
  <2>5. w.at \in {"accepted", "open"} /\ (Undisturbed(l) => ~w.stopped)
    BY <1>2 DEF WireOK
  <2>. QED BY <2>2, <2>4, <2>5 DEF WireOK
<1>. QED BY <1>1, <1>2

\* The socket is gone, with its frames.
LEMMA SocketIsGone ==
    ASSUME NEW w \in WireType, NEW l, WireOK(w, l),
           NEW v \in WireType, v.stopped = w.stopped, v.frames = <<>>, ~v.subscribed,
           v.at = IF w.stopped THEN "closed" ELSE "reconnecting"
    PROVE  WireOK(v, l)
<1>1. Len(v.frames) = 0
  BY DEF WireType
<1>. QED BY <1>1 DEF WireOK

-----------------------------------------------------------------------------
(* Following a run: the steps of the launch.                               *)

\* A step of a live launch that sends at most a frame about a node.
LEMMA LiveStep ==
    ASSUME FollowInv, Alive, ServerShapes', ServerInv', UNCHANGED <<fetch, view>>,
           launch'.over = launch.over, launch'.died = launch.died,
           launch'.byNode = launch.byNode,
           \/ wire' = wire
           \/ \E f \in WireFrame : f.type # "run_done" /\ Broadcast(f)
    PROVE  FollowInv'
<1>1. wire \in WireType /\ WireOK(wire, launch) /\ ~launch.over
  BY DEF FollowInv, WireInv, Alive
<1>2. wire' \in WireType /\ WireOK(wire', launch) /\ wire'.stopped = wire.stopped
  <2>1. CASE wire' = wire
    BY <1>1, <2>1
  <2>2. ASSUME NEW f \in WireFrame, f.type # "run_done", Broadcast(f)
        PROVE  wire' \in WireType /\ WireOK(wire', launch) /\ wire'.stopped = wire.stopped
    <3>1. wire' = IF wire.subscribed THEN [wire EXCEPT !.frames = Append(@, f)] ELSE wire
      BY <2>2 DEF Broadcast
    <3>. QED BY <1>1, <2>2, <3>1, FrameIsSent
  <2>. QED BY <2>1, <2>2
<1>3. WireInv'
  BY <1>2 DEF WireInv, WireOK, Undisturbed
<1>4. Undisturbed(launch') => ~wire'.stopped
  BY <1>1, <1>2 DEF WireOK, Undisturbed
<1>5. EndInv'
  BY <1>4 DEF EndInv
<1>6. ClientShapes'
  BY DEF FollowInv, ClientShapes
<1>. QED BY <1>3, <1>5, <1>6 DEF FollowInv

\* What a step writes about one node.
LEMMA NodeStep ==
    ASSUME FollowInv, Alive, NEW n \in Steps, NEW k \in WorkType, NEW r \in [status : RowStatus],
           work' = [work EXCEPT ![n] = k], nodeRows' = [nodeRows EXCEPT ![n] = r],
           k.phase = "over" => r.status \in Outcomes \cup {"skipped"}, k.phase # "waiting",
           launch' \in LaunchType, launch'.over = launch.over, launch'.died = launch.died,
           launch'.byNode = launch.byNode,
           ~launch.byNode => ~IsSettled(launch'.status)
    PROVE  ServerShapes' /\ ServerInv'
<1>1. ServerShapes'
  BY DEF FollowInv, ServerShapes
<1>2. \A m \in Steps : /\ work'[m] = IF m = n THEN k ELSE work[m]
                       /\ nodeRows'[m] = IF m = n THEN r ELSE nodeRows[m]
  BY DEF FollowInv, ServerShapes
<1>3. ServerInv'
  BY <1>2 DEF FollowInv, ServerInv, Alive
<1>. QED BY <1>1, <1>3

LEMMA NodeSteps ==
    ASSUME FollowInv, NEW n \in Steps,
           \/ NodeStarts(n) \/ NodeSays(n) \/ NodePauses(n) \/ NodeIsAnswered(n)
           \/ \E o \in Outcomes \cup {"skipped"} : NodeIsDone(n, o)
    PROVE  FollowInv'
<1>1. /\ launch \in LaunchType /\ work \in [Steps -> WorkType] /\ work[n] \in WorkType
      /\ nodeRows \in [Steps -> [status : RowStatus]] /\ MaxTurns \in Nat
      /\ ~launch.over /\ ~launch.byNode => ~IsSettled(launch.status)
  BY FollowAssumption DEF FollowInv, ServerShapes, ServerInv
<1>2. NoRow \in [status : RowStatus] /\ NoRow.status = "none"
  BY DEF NoRow, RowStatus
<1>3. CASE NodeStarts(n)
  <2>. DEFINE k == [work[n] EXCEPT !.phase = "running", !.starts = @ + 1]
              f == [type |-> "node_started", node |-> n]
  <2>1. /\ Alive /\ UNCHANGED <<launch, fetch, view>> /\ Broadcast(f)
        /\ work' = [work EXCEPT ![n] = k] /\ nodeRows' = [nodeRows EXCEPT ![n] = NoRow]
        /\ HasTurns(n)
    BY <1>1, <1>3 DEF NodeStarts
  <2>2. work[n].starts + 1 \in 0 .. MaxTurns
    BY <1>1, <2>1 DEF HasTurns, WorkType, LaunchType
  <2>3. k \in WorkType /\ k.phase = "running"
    BY <1>1, <2>2 DEF WorkType
  <2>4. f \in WireFrame /\ f.type # "run_done"
    BY DEF WireFrame
  <2>. HIDE DEF k, f
  <2>5. ServerShapes' /\ ServerInv'
    BY <1>1, <1>2, <2>1, <2>3, NodeStep DEF Alive
  <2>. QED BY <2>1, <2>4, <2>5, LiveStep
<1>4. CASE NodeSays(n)
  <2>. DEFINE k == [work[n] EXCEPT !.said = @ + 1]
              f == [type |-> "node_chunk", node |-> n]
  <2>1. /\ Alive /\ UNCHANGED <<launch, nodeRows, fetch, view>> /\ Broadcast(f)
        /\ work' = [work EXCEPT ![n] = k] /\ HasTurns(n) /\ work[n].phase = "running"
    BY <1>1, <1>4 DEF NodeSays
  <2>2. work[n].said + 1 \in 0 .. MaxTurns
    BY <1>1, <2>1 DEF HasTurns, WorkType, LaunchType
  <2>3. k \in WorkType /\ k.phase = "running"
    BY <1>1, <2>1, <2>2 DEF WorkType
  <2>4. f \in WireFrame /\ f.type # "run_done"
    BY DEF WireFrame
  <2>5. nodeRows[n] \in [status : RowStatus] /\ nodeRows' = [nodeRows EXCEPT ![n] = nodeRows[n]]
    BY <1>1, <2>1
  <2>. HIDE DEF k, f
  <2>6. ServerShapes' /\ ServerInv'
    BY <1>1, <2>1, <2>3, <2>5, NodeStep DEF Alive
  <2>. QED BY <2>1, <2>4, <2>6, LiveStep
<1>5. CASE NodePauses(n)
  <2>. DEFINE p == launch.pauses + 1
              k == [work[n] EXCEPT !.phase = "awaiting", !.pause = p]
              f == [type |-> "approval_awaiting", node |-> n, pause |-> p]
              l == [launch EXCEPT !.status = "paused", !.pauses = p]
              r == [status |-> "awaiting"]
  <2>1. /\ Alive /\ UNCHANGED <<fetch, view>> /\ Broadcast(f) /\ launch' = l
        /\ work' = [work EXCEPT ![n] = k] /\ nodeRows' = [nodeRows EXCEPT ![n] = r]
        /\ HasTurns(n)
    BY <1>1, <1>5 DEF NodePauses
  <2>2. p \in 0 .. MaxTurns
    BY <1>1, <2>1 DEF HasTurns, WorkType, LaunchType
  <2>. HIDE DEF p
  <2>3. k \in WorkType /\ k.phase = "awaiting"
    BY <1>1, <2>2 DEF WorkType
  <2>4. f \in WireFrame /\ f.type # "run_done"
    BY <2>2 DEF WireFrame
  <2>5. /\ l \in LaunchType /\ l.over = launch.over /\ l.died = launch.died
        /\ l.byNode = launch.byNode /\ ~IsSettled(l.status)
    BY <1>1, <2>2 DEF LaunchType, RunStatus, IsSettled
  <2>6. r \in [status : RowStatus]
    BY DEF RowStatus
  <2>. HIDE DEF k, f, l, r
  <2>7. ServerShapes' /\ ServerInv'
    BY <2>1, <2>3, <2>5, <2>6, NodeStep
  <2>. QED BY <2>1, <2>4, <2>5, <2>7, LiveStep
<1>6. CASE NodeIsAnswered(n)
  <2>. DEFINE k == [work[n] EXCEPT !.phase = "running"]
              f == [type |-> "approval_resolved", node |-> n]
              l == [launch EXCEPT !.status = IF Paused = {n} THEN "running" ELSE @]
  <2>1. /\ Alive /\ UNCHANGED <<fetch, view>> /\ Broadcast(f) /\ launch' = l
        /\ work' = [work EXCEPT ![n] = k] /\ nodeRows' = [nodeRows EXCEPT ![n] = NoRow]
    BY <1>1, <1>6 DEF NodeIsAnswered
  <2>2. k \in WorkType /\ k.phase = "running"
    BY <1>1 DEF WorkType
  <2>3. f \in WireFrame /\ f.type # "run_done"
    BY DEF WireFrame
  <2>4. /\ l \in LaunchType /\ l.over = launch.over /\ l.died = launch.died
        /\ l.byNode = launch.byNode
        /\ ~launch.byNode => ~IsSettled(l.status)
    BY <1>1, <2>1 DEF LaunchType, RunStatus, IsSettled, Alive
  <2>. HIDE DEF k, f, l
  <2>5. ServerShapes' /\ ServerInv'
    BY <1>2, <2>1, <2>2, <2>4, NodeStep
  <2>. QED BY <2>1, <2>3, <2>4, <2>5, LiveStep
<1>7. ASSUME NEW o \in Outcomes \cup {"skipped"}, NodeIsDone(n, o)
      PROVE  FollowInv'
  <2>. DEFINE k == [work[n] EXCEPT !.phase = "over"]
              f == [type |-> "node_done", node |-> n, status |-> o]
              r == [status |-> o]
  <2>1. /\ Alive /\ UNCHANGED <<launch, fetch, view>> /\ Broadcast(f)
        /\ work' = [work EXCEPT ![n] = k] /\ nodeRows' = [nodeRows EXCEPT ![n] = r]
    BY <1>1, <1>7 DEF NodeIsDone
  <2>2. k \in WorkType /\ k.phase = "over"
    BY <1>1 DEF WorkType
  <2>3. f \in WireFrame /\ f.type # "run_done"
    BY DEF WireFrame
  <2>4. r \in [status : RowStatus] /\ r.status = o
    BY DEF RowStatus
  <2>. HIDE DEF k, f, r
  <2>5. ServerShapes' /\ ServerInv'
    BY <1>1, <2>1, <2>2, <2>4, NodeStep DEF Alive
  <2>. QED BY <2>1, <2>3, <2>5, LiveStep
<1>. QED BY <1>3, <1>4, <1>5, <1>6, <1>7

\* The abort rejects what is pending.
LEMMA AbortSteps ==
    ASSUME FollowInv, RunIsCancelled \/ NodeCancelsRun
    PROVE  FollowInv'
<1>1. /\ launch \in LaunchType /\ work \in [Steps -> WorkType]
      /\ Alive /\ work' = Rejected /\ UNCHANGED <<nodeRows, wire, fetch, view>>
  BY DEF FollowInv, ServerShapes, RunIsCancelled, NodeCancelsRun
<1>2. work' \in [Steps -> WorkType] /\ \A n \in Steps :
        /\ work'[n].phase = "over" <=> work[n].phase = "over"
        /\ work'[n].phase = "waiting" <=> work[n].phase = "waiting"
  <2>1. ASSUME NEW n \in Steps
        PROVE  /\ work'[n] \in WorkType
               /\ work'[n].phase = "over" <=> work[n].phase = "over"
               /\ work'[n].phase = "waiting" <=> work[n].phase = "waiting"
    <3>1. work[n] \in WorkType
      BY <1>1
    <3>2. work'[n] = IF work[n].phase = "awaiting" THEN [work[n] EXCEPT !.phase = "running"]
                     ELSE work[n]
      BY <1>1 DEF Rejected
    <3>. QED BY <3>1, <3>2 DEF WorkType
  <2>2. work' \in [Steps -> WorkType]
    BY <1>1, <2>1 DEF Rejected
  <2>. QED BY <2>1, <2>2
<1>3. CASE RunIsCancelled
  <2>1. /\ launch' \in LaunchType /\ launch'.over = launch.over /\ launch'.died = launch.died
        /\ launch'.byNode = launch.byNode /\ launch'.status = launch.status
    BY <1>1, <1>3 DEF RunIsCancelled, LaunchType
  <2>2. ServerShapes' /\ ServerInv'
    BY <1>1, <1>2, <2>1 DEF FollowInv, ServerShapes, ServerInv
  <2>. QED BY <1>1, <2>1, <2>2, LiveStep
<1>4. CASE NodeCancelsRun
  <2>1. /\ launch' \in LaunchType /\ launch'.over = launch.over /\ launch'.died = launch.died
        /\ launch'.byNode
    BY <1>1, <1>4 DEF NodeCancelsRun, LaunchType, RunStatus
  <2>2. ServerShapes' /\ ServerInv'
    BY <1>1, <1>2, <2>1 DEF FollowInv, ServerShapes, ServerInv
  <2>3. WireInv' /\ EndInv' /\ ClientShapes'
    BY <1>1, <2>1 DEF FollowInv, WireInv, WireOK, EndInv, ClientShapes, Undisturbed
  <2>. QED BY <2>2, <2>3 DEF FollowInv
<1>. QED BY <1>3, <1>4

LEMMA LaunchEndsStep ==
    ASSUME FollowInv, NEW s \in Outcomes \cup {"cancelled"}, LaunchEnds(s)
    PROVE  FollowInv'
<1>. DEFINE f == [type |-> "run_done", status |-> s]
<1>1. /\ launch' = [launch EXCEPT !.status = s, !.over = TRUE] /\ ~launch.over
      /\ wire' = Closing(f) /\ UNCHANGED <<work, nodeRows, fetch, view>>
      /\ \/ \A n \in Steps : work[n].phase = "over"
         \/ \A n \in Steps : work[n].phase = "waiting"
  BY DEF LaunchEnds, Alive
<1>2. /\ launch' \in LaunchType /\ launch'.over /\ launch'.died = launch.died
      /\ launch'.byNode = launch.byNode /\ launch'.status = s /\ IsSettled(s)
  BY <1>1 DEF FollowInv, ServerShapes, LaunchType, RunStatus, Outcomes, IsSettled
<1>3. ServerShapes' /\ ServerInv' /\ ClientShapes'
  BY <1>1, <1>2 DEF FollowInv, ServerShapes, ServerInv, ClientShapes
<1>4. /\ wire \in WireType /\ WireOK(wire, launch)
      /\ Undisturbed(launch') <=> Undisturbed(launch)
      /\ Undisturbed(launch) => ~wire.stopped
      /\ Undisturbed(launch) => \A i \in 1 .. Len(wire.frames) : wire.frames[i].type # "run_done"
  BY <1>1, <1>2 DEF FollowInv, WireInv, WireOK, Undisturbed
<1>5. wire' \in WireType /\ WireOK(wire', launch') /\ wire'.stopped = wire.stopped
  <2>1. CASE ~wire.subscribed
    <3>1. wire' = wire
      BY <1>1, <2>1 DEF Closing
    <3>. QED BY <1>4, <2>1, <3>1 DEF WireOK
  <2>2. CASE wire.subscribed
    <3>1. f \in WireFrame /\ f.type = "run_done"
      BY DEF WireFrame, Outcomes, RunStatus
    <3>2. wire' = [wire EXCEPT !.frames = Append(@, f), !.subscribed = FALSE, !.ended = TRUE]
      BY <1>1, <2>2 DEF Closing
    <3>. HIDE DEF f
    <3>3. wire.frames \in Seq(WireFrame) /\ Append(wire.frames, f) \in Seq(WireFrame)
      BY <1>4, <3>1 DEF WireType
    <3>4. /\ wire' \in WireType /\ wire'.frames = Append(wire.frames, f) /\ wire'.at = wire.at
          /\ ~wire'.subscribed /\ wire'.stopped = wire.stopped
      BY <1>4, <3>2, <3>3 DEF WireType
    <3>5. /\ Len(wire.frames) \in Nat /\ Len(wire'.frames) = Len(wire.frames) + 1
          /\ \A i \in 1 .. Len(wire.frames) : wire'.frames[i] = wire.frames[i]
      BY <3>1, <3>3, <3>4, AppendedFrame
    <3>6. Undisturbed(launch) => \A i \in 1 .. Len(wire'.frames) :
            wire'.frames[i].type = "run_done" => i = Len(wire'.frames)
      <4>1. ASSUME NEW i \in 1 .. Len(wire'.frames)
            PROVE  i \in 1 .. Len(wire.frames) \/ i = Len(wire'.frames)
        BY <3>5
      <4>. QED BY <1>4, <3>5, <4>1
    <3>7. wire.at \in {"accepted", "open"}
      BY <1>4, <2>2 DEF WireOK
    <3>. QED BY <1>2, <1>4, <3>4, <3>6, <3>7 DEF WireOK
  <2>. QED BY <2>1, <2>2
<1>6. EndInv'
  BY <1>4, <1>5 DEF EndInv
<1>. QED BY <1>3, <1>5, <1>6 DEF FollowInv, WireInv

LEMMA ServerDiesStep ==
    ASSUME FollowInv, ServerDies
    PROVE  FollowInv'
<1>1. /\ launch \in LaunchType /\ work \in [Steps -> WorkType] /\ wire \in WireType
      /\ nodeRows \in [Steps -> [status : RowStatus]] /\ WireOK(wire, launch)
      /\ UNCHANGED <<fetch, view>>
  BY DEF FollowInv, ServerShapes, WireInv, ServerDies
<1>2. /\ launch' \in LaunchType /\ launch'.died /\ launch'.over
      /\ ~launch'.byNode => IsSettled(launch'.status)
  <2>1. launch' = [launch EXCEPT !.status = IF @ \in {"running", "paused"} THEN "failed" ELSE @,
                                 !.over = TRUE, !.died = TRUE]
    BY DEF ServerDies
  <2>. QED BY <1>1, <2>1 DEF LaunchType, RunStatus, IsSettled
<1>3. nodeRows' \in [Steps -> [status : RowStatus]]
  <2>1. nodeRows' = [n \in Steps |-> IF nodeRows[n].status = "awaiting"
                                     THEN [nodeRows[n] EXCEPT !.status = "failed"]
                                     ELSE nodeRows[n]]
    BY DEF ServerDies
  <2>. QED BY <1>1, <2>1 DEF RowStatus, Outcomes
<1>4. work' \in [Steps -> WorkType]
  <2>1. work' = [n \in Steps |-> [work[n] EXCEPT !.phase = "over"]]
    BY DEF ServerDies
  <2>. QED BY <1>1, <2>1 DEF WorkType
<1>5. ServerShapes' /\ ServerInv' /\ ClientShapes'
  BY <1>1, <1>2, <1>3, <1>4 DEF FollowInv, ServerShapes, ServerInv, ClientShapes
<1>6. wire' \in WireType /\ WireOK(wire', launch')
  <2>1. wire' = [wire EXCEPT !.at = IF @ = "closed" THEN @ ELSE "reconnecting",
                             !.subscribed = FALSE, !.ended = FALSE, !.frames = <<>>]
    BY DEF ServerDies
  <2>2. <<>> \in Seq(WireFrame)
    OBVIOUS
  <2>3. /\ wire' \in WireType /\ wire'.frames = <<>> /\ ~wire'.subscribed
        /\ wire'.at = "closed" => wire.at = "closed"
        /\ wire'.stopped = wire.stopped
    BY <1>1, <2>1, <2>2 DEF WireType
  <2>. QED BY <1>1, <1>2, <2>3 DEF WireOK, Undisturbed
<1>7. EndInv'
  BY <1>2 DEF EndInv, Undisturbed
<1>. QED BY <1>5, <1>6, <1>7 DEF FollowInv, WireInv

-----------------------------------------------------------------------------
(* Following a run: the steps of the view.                                 *)

LEMMA AnswerStep ==
    ASSUME FollowInv, FetchIsAnswered
    PROVE  FollowInv'
<1>1. /\ UNCHANGED <<launch, work, nodeRows, wire, view>>
      /\ fetch' = [kind |-> "answer", run |-> launch.status,
                   nodes |-> [n \in Steps |-> SnapshotOf(n)]]
  BY DEF FetchIsAnswered, serverRun
<1>2. ASSUME NEW n \in Steps
      PROVE  /\ SnapshotOf(n) \in ShownNode
             /\ ~launch.died /\ launch.over /\ nodeRows[n].status # "none"
                => SnapshotOf(n).status = nodeRows[n].status
  BY FollowAssumption DEF SnapshotOf, EmptyNode, Absent, Alive, ShownNode, FollowInv, ServerShapes,
                          RowStatus, Outcomes
<1>. HIDE DEF SnapshotOf
<1>3. fetch' \in FetchType /\ fetch'.kind = "answer" /\ fetch'.run = launch.status
      /\ \A n \in Steps : fetch'.nodes[n] = SnapshotOf(n)
  BY <1>1, <1>2 DEF FetchType, FollowInv, ServerShapes, LaunchType
<1>4. EndInv'
  <2>1. Undisturbed(launch) /\ wire.stopped => launch.over /\ ~launch.died
    BY DEF FollowInv, WireInv, WireOK, Undisturbed
  <2>. QED BY <1>1, <1>2, <1>3, <2>1 DEF EndInv, Shows
<1>. QED BY <1>1, <1>3, <1>4 DEF FollowInv, ServerShapes, ClientShapes, ServerInv, WireInv

LEMMA FailsStep ==
    ASSUME FollowInv, FetchFails
    PROVE  FollowInv'
<1>1. /\ UNCHANGED <<launch, work, nodeRows, wire>> /\ fetch' = NoFetch
      /\ view' = [view EXCEPT !.loaded = "error"]
  BY DEF FetchFails, serverRun
<1>2. view' \in ViewType /\ view'.loaded = "error" /\ fetch' \in FetchType /\ fetch'.kind = "none"
  BY <1>1 DEF FollowInv, ClientShapes, ViewType, NoFetch, FetchType
<1>. QED BY <1>1, <1>2 DEF FollowInv, ServerShapes, ClientShapes, ServerInv, WireInv, EndInv

LEMMA MergeIsANode ==
    ASSUME NEW snap \in ShownNode, NEW live \in ShownNode
    PROVE  /\ MergeNode(Entry(snap), live) \in ShownNode
           /\ IsSettled(snap.status) => MergeNode(Entry(snap), live).status = snap.status
<1>1. Entry(snap) \in ShownNode /\ (IsSettled(snap.status) => Entry(snap) = snap)
  BY FollowAssumption DEF Entry, EmptyNode, Absent, ShownNode, IsSettled
<1>. HIDE DEF Entry
<1>2. ASSUME NEW e \in ShownNode
      PROVE  /\ MergeNode(e, live) \in ShownNode
             /\ IsSettled(e.status) => MergeNode(e, live).status = e.status
  <2>. DEFINE status == WinningStatus(e, live)
  <2>1. /\ status \in {e.status, live.status}
        /\ IsSettled(e.status) => status = e.status
    BY DEF WinningStatus, PersistedWins
  <2>2. MergeNode(e, live) = [status |-> status,
                              pause |-> IF status = "awaiting" THEN live.pause ELSE 0]
    BY DEF MergeNode
  <2>. HIDE DEF status
  <2>. QED BY <2>1, <2>2, FollowAssumption DEF ShownNode
<1>. QED BY <1>1, <1>2

LEMMA ArrivalStep ==
    ASSUME FollowInv, FetchArrives
    PROVE  FollowInv'
<1>1. /\ UNCHANGED <<launch, work, nodeRows, wire>> /\ fetch' = NoFetch /\ fetch.kind = "answer"
      /\ view' = [run |-> ChooseRunStatus(view.run, fetch.run), loaded |-> "ready",
                  nodes |-> [n \in Steps |->
                      IF view.nodes[n] = Absent THEN fetch.nodes[n]
                      ELSE MergeNode(Entry(fetch.nodes[n]), view.nodes[n])]]
  BY DEF FetchArrives, serverRun
<1>2. /\ view \in ViewType /\ fetch.run \in RunStatus /\ fetch.nodes \in [Steps -> ShownNode]
      /\ launch \in LaunchType
  BY <1>1 DEF FollowInv, ServerShapes, ClientShapes, FetchType
<1>3. ASSUME NEW n \in Steps
      PROVE  LET m == IF view.nodes[n] = Absent THEN fetch.nodes[n]
                      ELSE MergeNode(Entry(fetch.nodes[n]), view.nodes[n])
             IN  /\ m \in ShownNode
                 /\ IsSettled(fetch.nodes[n].status) => m.status = fetch.nodes[n].status
  BY <1>2, MergeIsANode DEF ViewType
<1>. HIDE DEF MergeNode, Entry, Absent
<1>4. /\ ChooseRunStatus(view.run, fetch.run) \in RunStatus \cup {"loading"}
      /\ IsSettled(fetch.run) => ChooseRunStatus(view.run, fetch.run) = fetch.run
  BY <1>2 DEF ChooseRunStatus, ViewType
<1>5. /\ view' \in ViewType /\ fetch' \in FetchType /\ fetch'.kind = "none"
      /\ view'.run = ChooseRunStatus(view.run, fetch.run)
      /\ \A n \in Steps : IsSettled(fetch.nodes[n].status) =>
            view'.nodes[n].status = fetch.nodes[n].status
  BY <1>1, <1>3, <1>4 DEF ViewType, FetchType, NoFetch
<1>6. EndInv'
  <2>1. SUFFICES ASSUME Undisturbed(launch), wire.stopped
                 PROVE  Shows(view.run, view.nodes)'
    BY <1>1, <1>5 DEF EndInv
  <2>2. launch.over /\ ~launch.died /\ IsSettled(launch.status) /\ Shows(fetch.run, fetch.nodes)
    BY <1>1, <2>1 DEF FollowInv, ServerInv, EndInv, WireInv, WireOK, Undisturbed
  <2>3. \A n \in Steps : nodeRows[n].status # "none" => IsSettled(nodeRows[n].status)
    BY <2>2 DEF FollowInv, ServerInv, Outcomes, IsSettled
  <2>. QED BY <1>1, <1>4, <1>5, <2>2, <2>3 DEF Shows
<1>. QED BY <1>1, <1>5, <1>6 DEF FollowInv, ServerShapes, ClientShapes, ServerInv, WireInv

\* A frame that is not the end of the run changes what is shown of a node.
LEMMA NodeAfterIsANode ==
    ASSUME NEW node \in ShownNode, NEW f \in WireFrame, f.type # "run_done"
    PROVE  NodeAfter(node, f) \in ShownNode
<1>1. /\ Entry(node) \in ShownNode /\ EmptyNode \in ShownNode /\ 0 \in 0 .. MaxTurns
      /\ \A e \in ShownNode : [e EXCEPT !.status = "running"] \in ShownNode
  BY FollowAssumption DEF Entry, EmptyNode, Absent, ShownNode
<1>. HIDE DEF Entry, EmptyNode, Absent
<1>2. CASE f.type = "node_started"
  BY <1>1, <1>2 DEF NodeAfter
<1>3. CASE f.type = "node_chunk"
  <2>1. NodeAfter(node, f) =
          [Entry(node) EXCEPT !.status = IF IsSettled(@) THEN @ ELSE "running"]
    BY <1>3 DEF NodeAfter
  <2>. QED BY <1>1, <2>1 DEF ShownNode
<1>4. CASE f.type = "node_done"
  <2>1. NodeAfter(node, f) = [Entry(node) EXCEPT !.status = f.status]
    BY <1>4 DEF NodeAfter
  <2>2. f.status \in Outcomes \cup {"skipped"}
    BY <1>4 DEF WireFrame
  <2>. QED BY <1>1, <2>1, <2>2 DEF ShownNode, Outcomes
<1>5. CASE f.type = "approval_awaiting"
  <2>1. NodeAfter(node, f) = [Entry(node) EXCEPT !.status = "awaiting", !.pause = f.pause]
    BY <1>5 DEF NodeAfter
  <2>2. f.pause \in 0 .. MaxTurns
    BY <1>5 DEF WireFrame
  <2>. QED BY <1>1, <2>1, <2>2 DEF ShownNode
<1>6. CASE f.type = "approval_resolved"
  <2>1. NodeAfter(node, f) \in {node, [node EXCEPT !.status = "running", !.pause = 0]}
    BY <1>6 DEF NodeAfter
  <2>2. [node EXCEPT !.status = "running", !.pause = 0] \in ShownNode
    BY <1>1 DEF ShownNode
  <2>. QED BY <2>1, <2>2
<1>7. f.type \in {"node_started", "node_chunk", "node_done", "approval_awaiting",
                  "approval_resolved"}
  BY DEF WireFrame
<1>. QED BY <1>2, <1>3, <1>4, <1>5, <1>6, <1>7

LEMMA ViewAfterIsAView ==
    ASSUME NEW v \in ViewType, NEW f \in WireFrame
    PROVE  ApplyFrameTo(v, f) \in ViewType
<1>1. CASE f.type = "run_done"
  <2>1. f.status \in RunStatus
    BY <1>1 DEF WireFrame
  <2>2. ASSUME NEW e \in ShownNode
        PROVE  [e EXCEPT !.status = "cancelled"] \in ShownNode
    BY DEF ShownNode
  <2>. DEFINE ns == [n \in Steps |->
                        IF /\ f.status = "cancelled" /\ v.nodes[n] # Absent
                           /\ ~IsSettled(v.nodes[n].status)
                        THEN [v.nodes[n] EXCEPT !.status = "cancelled"] ELSE v.nodes[n]]
  <2>3. ns \in [Steps -> ShownNode]
    BY <2>2 DEF ViewType
  <2>4. ApplyFrameTo(v, f) = [v EXCEPT !.run = f.status, !.nodes = ns]
    BY <1>1 DEF ApplyFrameTo
  <2>. HIDE DEF ns
  <2>. QED BY <2>1, <2>3, <2>4 DEF ViewType
<1>2. CASE f.type # "run_done"
  <2>1. f.node \in Steps
    BY <1>2 DEF WireFrame
  <2>2. NodeAfter(v.nodes[f.node], f) \in ShownNode
    BY <1>2, <2>1, NodeAfterIsANode DEF ViewType
  <2>. DEFINE ns == [v.nodes EXCEPT ![f.node] = NodeAfter(@, f)]
  <2>3. ns \in [Steps -> ShownNode]
    BY <2>1, <2>2 DEF ViewType
  <2>4. ApplyFrameTo(v, f) = [v EXCEPT !.nodes = ns]
    BY <1>2 DEF ApplyFrameTo, ViewType
  <2>. HIDE DEF ns
  <2>. QED BY <2>3, <2>4 DEF ViewType
<1>. QED BY <1>1, <1>2

LEMMA AppliedStep ==
    ASSUME FollowInv, FrameIsApplied
    PROVE  FollowInv'
<1>. DEFINE f == Head(wire.frames)
<1>1. /\ UNCHANGED <<launch, work, nodeRows>>
      /\ wire.at = "open" /\ wire.frames # <<>>
      /\ view' = ApplyFrameTo(view, f)
      /\ wire' = [wire EXCEPT !.frames = Tail(@), !.stopped = @ \/ f.type = "run_done"]
      /\ \E again \in MayHydrate(f) : fetch' = IF again THEN Hydrate ELSE fetch
  BY DEF FrameIsApplied, serverRun
<1>2. /\ wire \in WireType /\ WireOK(wire, launch) /\ view \in ViewType /\ fetch \in FetchType
  BY DEF FollowInv, WireInv, ClientShapes
<1>3. /\ Len(wire.frames) \in Nat /\ Len(wire.frames) > 0 /\ f = wire.frames[1]
      /\ f \in WireFrame /\ Tail(wire.frames) \in Seq(WireFrame)
      /\ Len(Tail(wire.frames)) = Len(wire.frames) - 1
      /\ \A i \in 1 .. Len(wire.frames) - 1 : Tail(wire.frames)[i] = wire.frames[i + 1]
  <2>1. wire.frames \in Seq(WireFrame)
    BY <1>2 DEF WireType
  <2>. QED BY <1>1, <2>1
<1>4. /\ wire' \in WireType /\ wire'.frames = Tail(wire.frames) /\ wire'.at = "open"
      /\ wire'.subscribed = wire.subscribed
      /\ wire'.stopped = (wire.stopped \/ f.type = "run_done")
  <2>. HIDE DEF f
  <2>. QED BY <1>1, <1>2, <1>3 DEF WireType
<1>. HIDE DEF f
<1>5. Undisturbed(launch) => ~wire.stopped
  BY <1>1, <1>2 DEF WireOK
<1>6. Undisturbed(launch) /\ f.type = "run_done" =>
        Len(wire.frames) = 1 /\ launch.over /\ ~wire.subscribed
  <2>1. 1 \in 1 .. Len(wire.frames) /\ f = wire.frames[1]
    BY <1>3
  <2>. QED BY <1>2, <2>1 DEF WireOK
<1>7. WireOK(wire', launch)
  <2>1. Undisturbed(launch) => \A i \in 1 .. Len(wire'.frames) :
          wire'.frames[i].type = "run_done" =>
            i = Len(wire'.frames) /\ launch.over /\ ~wire'.subscribed
    <3>1. ASSUME NEW i \in 1 .. Len(wire'.frames)
          PROVE  /\ i + 1 \in 1 .. Len(wire.frames) /\ wire'.frames[i] = wire.frames[i + 1]
                 /\ i + 1 = Len(wire.frames) => i = Len(wire'.frames)
      BY <1>3, <1>4
    <3>. QED BY <1>2, <1>4, <3>1 DEF WireOK
  <2>2. Undisturbed(launch) /\ wire'.stopped => wire'.frames = <<>>
    <3>1. wire.frames \in Seq(WireFrame) /\ wire'.frames \in Seq(WireFrame)
      BY <1>2, <1>3, <1>4 DEF WireType
    <3>2. Len(wire'.frames) = 0 => wire'.frames = <<>>
      BY <3>1
    <3>3. wire'.stopped => wire.stopped \/ f.type = "run_done"
      BY <1>4
    <3>4. Len(wire.frames) = 1 => Len(wire'.frames) = 0
      BY <1>3, <1>4
    <3>. QED BY <1>5, <1>6, <3>2, <3>3, <3>4
  <2>. QED BY <1>2, <1>4, <1>5, <1>6, <2>1, <2>2 DEF WireOK
<1>8. view' \in ViewType
  BY <1>1, <1>2, <1>3, ViewAfterIsAView
<1>9. fetch' \in FetchType /\ (f.type = "run_done" => fetch'.kind = "sent")
  <2>1. Hydrate \in FetchType /\ Hydrate.kind = "sent"
    BY DEF Hydrate, FetchType
  <2>2. f.type = "run_done" => MayHydrate(f) = {TRUE}
    BY DEF MayHydrate
  <2>3. fetch' \in {Hydrate, fetch}
    BY <1>1
  <2>4. f.type = "run_done" => fetch' = Hydrate
    <3>1. PICK again \in MayHydrate(f) : fetch' = IF again THEN Hydrate ELSE fetch
      BY <1>1
    <3>2. ASSUME f.type = "run_done"
          PROVE  again = TRUE
      BY <2>2, <3>1, <3>2
    <3>3. again = TRUE => (IF again THEN Hydrate ELSE fetch) = Hydrate
      OBVIOUS
    <3>. QED BY <3>1, <3>2, <3>3
  <2>. QED BY <1>2, <2>1, <2>3, <2>4
<1>10. EndInv'
  BY <1>1, <1>4, <1>5, <1>9 DEF EndInv
<1>. QED BY <1>1, <1>4, <1>7, <1>8, <1>9, <1>10
     DEF FollowInv, ServerShapes, ClientShapes, ServerInv, WireInv

-----------------------------------------------------------------------------
(* Following a run: the steps of the socket.                               *)

\* A step of the socket that tells the view nothing.
LEMMA SocketStep ==
    ASSUME FollowInv, UNCHANGED <<launch, work, nodeRows, view>>,
           fetch' = fetch \/ (fetch' = Hydrate /\ (Undisturbed(launch) => ~wire.stopped)),
           wire' \in WireType, WireOK(wire', launch), wire'.stopped = wire.stopped
    PROVE  FollowInv'
<1>1. Hydrate \in FetchType
  BY DEF Hydrate, FetchType
<1>2. EndInv'
  BY DEF FollowInv, EndInv, Shows
<1>. QED BY <1>1, <1>2 DEF FollowInv, ServerShapes, ClientShapes, ServerInv, WireInv

LEMMA AcceptedStep ==
    ASSUME FollowInv, WsIsAccepted
    PROVE  FollowInv'
<1>1. /\ wire \in WireType /\ WireOK(wire, launch) /\ wire.at = "connecting"
      /\ launch \in LaunchType /\ work \in [Steps -> WorkType]
      /\ UNCHANGED <<launch, work, nodeRows, fetch, view>>
  BY DEF FollowInv, WireInv, ServerShapes, WsIsAccepted, serverRun
<1>2. Undisturbed(launch) => ~wire.stopped
  BY <1>1 DEF WireOK
<1>3. CASE launch.status \in {"running", "paused"}
  <2>. DEFINE f == [n \in Paused |-> [type |-> "approval_awaiting", node |-> n,
                                      pause |-> work[n].pause]]
              S == {[type |-> "approval_awaiting", node |-> n, pause |-> work[n].pause] : n \in Paused}
  <2>1. Paused \subseteq Steps /\ f \in [Paused -> WireFrame]
    BY <1>1 DEF Paused, WireFrame, WorkType
  <2>2. S = {f[n] : n \in Paused} /\ S \subseteq WireFrame
        /\ \A e \in S : e.type = "approval_awaiting"
    BY <2>1
  <2>. HIDE DEF f
  <2>3. SetToSeq(S) \in Seq(S)
    <3>. HIDE DEF S
    <3>1. IsFiniteSet(S)
      BY <2>1, <2>2, FewFrames
    <3>. QED BY <3>1, AllInSequence
  <2>4. wire' = [wire EXCEPT !.at = "accepted", !.subscribed = TRUE, !.frames = SetToSeq(S)]
    BY <1>3 DEF WsIsAccepted
  <2>. HIDE DEF S
  <2>5. /\ SetToSeq(S) \in Seq(WireFrame)
        /\ \A i \in 1 .. Len(SetToSeq(S)) : SetToSeq(S)[i].type # "run_done"
    <3>1. ASSUME NEW s \in Seq(S)
          PROVE  s \in Seq(WireFrame) /\ \A i \in 1 .. Len(s) : s[i] \in S
      BY <2>2
    <3>2. \A i \in 1 .. Len(SetToSeq(S)) : SetToSeq(S)[i] \in S
      BY <2>3, <3>1
    <3>3. \A i \in 1 .. Len(SetToSeq(S)) : SetToSeq(S)[i].type = "approval_awaiting"
      BY <2>2, <3>2
    <3>. QED BY <2>3, <3>1, <3>3
  <2>6. /\ wire' \in WireType /\ wire'.at = "accepted" /\ wire'.subscribed
        /\ wire'.frames = SetToSeq(S) /\ wire'.stopped = wire.stopped
    BY <1>1, <2>4, <2>5 DEF WireType
  <2>7. Undisturbed(launch) => ~launch.over
    BY <1>3 DEF FollowInv, ServerInv, Undisturbed, IsSettled
  <2>8. WireOK(wire', launch)
    BY <1>2, <2>5, <2>6, <2>7 DEF WireOK
  <2>. QED BY <1>1, <2>6, <2>8, SocketStep
<1>4. CASE launch.status \notin {"running", "paused"}
  <2>. DEFINE f == [type |-> "run_done", status |-> launch.status]
  <2>1. f \in WireFrame
    BY <1>1 DEF WireFrame, LaunchType
  <2>2. wire' = [wire EXCEPT !.at = "accepted", !.ended = TRUE, !.frames = <<f>>]
    BY <1>4 DEF WsIsAccepted
  <2>. HIDE DEF f
  <2>3. <<f>> \in Seq(WireFrame) /\ Len(<<f>>) = 1
    BY <2>1
  <2>4. /\ wire' \in WireType /\ wire'.at = "accepted" /\ wire'.frames = <<f>>
        /\ wire'.subscribed = wire.subscribed /\ wire'.stopped = wire.stopped
    BY <1>1, <2>2, <2>3 DEF WireType
  <2>5. ~wire.subscribed
    BY <1>1 DEF WireOK
  <2>6. Undisturbed(launch) => launch.over
    BY <1>1, <1>4 DEF FollowInv, ServerInv, Undisturbed, IsSettled, LaunchType, RunStatus
  <2>7. WireOK(wire', launch)
    BY <1>2, <2>3, <2>4, <2>5, <2>6 DEF WireOK
  <2>. QED BY <1>1, <2>4, <2>7, SocketStep
<1>. QED BY <1>3, <1>4

LEMMA SocketSteps ==
    ASSUME FollowInv, WsOpens \/ WsCloses \/ WsIsLost \/ WsReopens
    PROVE  FollowInv'
<1>1. wire \in WireType /\ WireOK(wire, launch) /\ UNCHANGED <<launch, work, nodeRows, view>>
  BY DEF FollowInv, WireInv, WsOpens, WsCloses, WsIsLost, WsReopens, serverRun
<1>2. CASE WsOpens
  <2>1. wire.at = "accepted" /\ wire' = [wire EXCEPT !.at = "open"] /\ fetch' = Hydrate
    BY <1>2 DEF WsOpens
  <2>2. /\ wire' \in WireType /\ wire'.at = "open" /\ wire'.frames = wire.frames
        /\ wire'.subscribed = wire.subscribed /\ wire'.stopped = wire.stopped
    BY <1>1, <2>1 DEF WireType
  <2>3. WireOK(wire', launch) /\ (Undisturbed(launch) => ~wire.stopped)
    BY <1>1, <2>1, <2>2 DEF WireOK
  <2>. QED BY <1>1, <2>1, <2>2, <2>3, SocketStep
<1>3. ASSUME UNCHANGED fetch, NEW d \in Nat,
             wire' = [AfterClose EXCEPT !.drops = d]
      PROVE  FollowInv'
  <2>1. <<>> \in Seq(WireFrame)
    OBVIOUS
  <2>2. /\ wire' \in WireType /\ wire'.frames = <<>> /\ ~wire'.subscribed
        /\ wire'.stopped = wire.stopped
        /\ wire'.at = IF wire.stopped THEN "closed" ELSE "reconnecting"
    BY <1>1, <1>3, <2>1 DEF AfterClose, WireType
  <2>3. WireOK(wire', launch)
    BY <1>1, <2>2, SocketIsGone
  <2>. QED BY <1>1, <1>3, <2>2, <2>3, SocketStep
<1>4. CASE WsCloses
  <2>1. wire' = AfterClose /\ UNCHANGED fetch
    BY <1>4 DEF WsCloses
  <2>2. wire.drops \in Nat /\ AfterClose = [AfterClose EXCEPT !.drops = wire.drops]
    BY <1>1 DEF AfterClose, WireType
  <2>. QED BY <1>3, <2>1, <2>2
<1>5. CASE WsIsLost
  <2>1. wire' = [AfterClose EXCEPT !.drops = wire.drops + 1] /\ UNCHANGED fetch
    BY <1>1, <1>5 DEF WsIsLost, AfterClose, WireType
  <2>2. wire.drops + 1 \in Nat
    BY <1>1 DEF WireType
  <2>. QED BY <1>3, <2>1, <2>2
<1>6. CASE WsReopens
  <2>1. wire.at = "reconnecting" /\ wire' = [wire EXCEPT !.at = "connecting"] /\ fetch' = fetch
    BY <1>6 DEF WsReopens
  <2>2. /\ wire' \in WireType /\ wire'.at = "connecting" /\ wire'.frames = wire.frames
        /\ wire'.subscribed = wire.subscribed /\ wire'.stopped = wire.stopped
    BY <1>1, <2>1 DEF WireType
  <2>3. WireOK(wire', launch)
    BY <1>1, <2>1, <2>2 DEF WireOK
  <2>. QED BY <1>1, <2>1, <2>2, <2>3, SocketStep
<1>. QED BY <1>2, <1>4, <1>5, <1>6

-----------------------------------------------------------------------------
(* Following a run: the theorems.                                          *)

LEMMA InitFollow == FollowInit => FollowInv
<1>. SUFFICES ASSUME FollowInit
              PROVE  FollowInv
  OBVIOUS
<1>1. 0 \in 0 .. MaxTurns /\ <<>> \in Seq(WireFrame) /\ Len(<<>>) = 0
  BY FollowAssumption
<1>2. ServerShapes
  BY <1>1 DEF FollowInit, ServerShapes, LaunchType, WorkType, RunStatus, RowStatus, NoRow
<1>3. ClientShapes
  BY <1>1 DEF FollowInit, ClientShapes, FetchType, ViewType, ShownNode, Absent
<1>4. ServerInv
  BY DEF FollowInit, ServerInv, NoRow, IsSettled
<1>5. WireInv
  BY <1>1 DEF FollowInit, WireInv, WireType, WireOK
<1>6. EndInv
  BY DEF FollowInit, EndInv
<1>. QED BY <1>2, <1>3, <1>4, <1>5, <1>6 DEF FollowInv

LEMMA FollowStep == FollowInv /\ [FollowNext]_followVars => FollowInv'
<1>. SUFFICES ASSUME FollowInv, [FollowNext]_followVars
              PROVE  FollowInv'
  OBVIOUS
<1>1. CASE UNCHANGED followVars
  BY <1>1 DEF followVars, FollowInv, ServerShapes, ClientShapes, ServerInv, WireInv, EndInv, Shows
<1>2. CASE FollowNext
  BY <1>2, NodeSteps, AbortSteps, ServerDiesStep, LaunchEndsStep, AnswerStep, FailsStep,
     ArrivalStep, AppliedStep, AcceptedStep, SocketSteps DEF FollowNext, ServerFollowed
<1>. QED BY <1>1, <1>2

LEMMA AlwaysFollow == FollowSpec => []FollowInv
<1>. QED BY InitFollow, FollowStep, PTL DEF FollowSpec

\* The launch, its rows, the socket and the view keep their types, and only an accepted
\* socket is subscribed or carries frames.
THEOREM FollowTypeCorrect == FollowSpec => []FollowTypeOK
<1>1. FollowInv => FollowTypeOK
  BY DEF FollowInv, ServerShapes, ClientShapes, WireInv, WireOK, LaunchType, WorkType, RunStatus,
         RowStatus, WireType, FetchType, ViewType, ShownNode, Outcomes, IsSettled, FollowTypeOK
<1>. QED BY <1>1, AlwaysFollow, PTL

\* However often the socket is lost and the GETs overtake the frames, a view that has heard
\* the end of its run and has its last answer shows what the rows say (useWorkflowRun,
\* mergeNode and chooseRunStatus).
THEOREM FinishedIsShown == FollowSpec => []FinishedRunIsShown
<1>1. FollowInv => FinishedRunIsShown
  BY DEF FollowInv, WireInv, WireOK, EndInv, Shows, Undisturbed, FinishedRunIsShown
<1>. QED BY <1>1, AlwaysFollow, PTL

-----------------------------------------------------------------------------
(* Following a run: an open pause is shown, or about to be.                *)

IsOpen(n) == work[n].phase = "awaiting"
IsShown(n) == view.nodes[n].status = "awaiting" /\ view.nodes[n].pause = work[n].pause
PauseFrame(n) == [type |-> "approval_awaiting", node |-> n, pause |-> work[n].pause]
About(f, n) == f.type # "run_done" /\ f.node = n

\* A pause that is open is shown with its token, or its frame is on the socket, or
\* the socket has yet to be accepted, which replays it.
ComesIntoView(n) ==
    \/ IsShown(n)
    \/ \E i \in 1 .. Len(wire.frames) : wire.frames[i] = PauseFrame(n)
    \/ wire.at \in {"connecting", "reconnecting"}

OpenPausesAreComing == \A n \in Steps : IsOpen(n) => ComesIntoView(n)

\* No frame, answer or loss takes a pause that is shown away before its time.
KeepsShown ==
    \A n \in Steps : IsOpen(n) /\ IsShown(n) /\ work'[n] = work[n] => IsShown(n)'

ShownPausesStay == [][KeepsShown]_followVars

\* A live launch sends to every socket it has accepted.
LaunchInv ==
    /\ launch.byNode => launch.aborted
    /\ launch.died => launch.over
    /\ Undisturbed(launch) /\ ~launch.over /\ wire.at \in {"accepted", "open"} => wire.subscribed

\* The token of a pause is new when it opens.
TokenInv ==
    /\ \A n \in Steps : work[n].pause <= launch.pauses /\ view.nodes[n].pause <= launch.pauses
    /\ \A i \in 1 .. Len(wire.frames) :
          wire.frames[i].type = "approval_awaiting" => wire.frames[i].pause <= launch.pauses
    /\ fetch.kind = "answer" => \A n \in Steps : fetch.nodes[n].pause = 0

\* Behind the frame of an open pause nothing else is said of its node.
LastWord(n) ==
    \A i, j \in 1 .. Len(wire.frames) :
        i < j /\ wire.frames[i] = PauseFrame(n) /\ About(wire.frames[j], n)
            => wire.frames[j] = PauseFrame(n)

\* Who has the token of an open pause shows it, and nothing under way says otherwise.
Told(n) == view.nodes[n].pause = work[n].pause
TellsNothingElse(n) ==
    /\ view.nodes[n].status = "awaiting"
    /\ \A j \in 1 .. Len(wire.frames) : About(wire.frames[j], n) => wire.frames[j] = PauseFrame(n)
    /\ fetch.kind = "answer" => fetch.nodes[n].status = "awaiting"

OpenOK(n) ==
    /\ ~launch.over /\ ~launch.aborted /\ launch.status = "paused"
    /\ nodeRows[n].status = "awaiting" /\ work[n].pause > 0
    /\ LastWord(n)
    /\ Told(n) => TellsNothingElse(n)
    /\ ComesIntoView(n)

PauseInv == LaunchInv /\ TokenInv /\ \A n \in Steps : IsOpen(n) => OpenOK(n)

\* While a pause is open, its launch is undisturbed and the socket carries no end.
LEMMA OpenFacts ==
    ASSUME FollowInv, PauseInv, NEW n \in Steps, IsOpen(n)
    PROVE  /\ Undisturbed(launch) /\ ~wire.stopped /\ wire.at # "closed"
           /\ \A i \in 1 .. Len(wire.frames) : wire.frames[i].type # "run_done"
<1>1. Undisturbed(launch) /\ ~launch.over
  BY DEF PauseInv, OpenOK, LaunchInv, Undisturbed
<1>. QED BY <1>1 DEF FollowInv, WireInv, WireOK

LEMMA PauseTypes ==
    ASSUME FollowInv
    PROVE  /\ launch \in LaunchType /\ work \in [Steps -> WorkType] /\ wire \in WireType
           /\ wire.frames \in Seq(WireFrame) /\ Len(wire.frames) \in Nat
           /\ \A i \in 1 .. Len(wire.frames) : wire.frames[i] \in WireFrame
           /\ view \in ViewType /\ fetch \in FetchType
           /\ nodeRows \in [Steps -> [status : RowStatus]]
           /\ launch.pauses \in Nat
           /\ \A n \in Steps : work[n].pause \in Nat /\ view.nodes[n].pause \in Nat
<1>1. wire.frames \in Seq(WireFrame)
  BY DEF FollowInv, WireInv, WireType
<1>2. MaxTurns \in Nat
  BY FollowAssumption
<1>3. launch.pauses \in Nat
  BY <1>2 DEF FollowInv, ServerShapes, LaunchType
<1>4. \A n \in Steps : work[n].pause \in Nat /\ view.nodes[n].pause \in Nat
  BY <1>2 DEF FollowInv, ServerShapes, ClientShapes, WorkType, ViewType, ShownNode
<1>. QED BY <1>1, <1>3, <1>4 DEF FollowInv, ServerShapes, ClientShapes, WireInv

\* A frame about n is sent, with what the launch writes of n: the other pauses are
\* where they were, and if n pauses, its frame is the last word about it.
LEMMA SentPauses ==
    ASSUME FollowInv, PauseInv, Alive, NEW n \in Steps,
           NEW f \in WireFrame, f.type # "run_done", f.node = n, Broadcast(f),
           NEW k \in WorkType, work' = [work EXCEPT ![n] = k],
           NEW r, nodeRows' = [nodeRows EXCEPT ![n] = r],
           UNCHANGED <<fetch, view>>, launch' \in LaunchType, launch'.over = launch.over,
           launch'.died = launch.died, launch'.byNode = launch.byNode,
           launch'.aborted = launch.aborted, launch'.pauses >= launch.pauses,
           k.pause <= launch'.pauses,
           f.type = "approval_awaiting" => f.pause <= launch'.pauses,
           \A m \in Steps \ {n} : IsOpen(m) => launch'.status = "paused",
           k.phase = "awaiting" =>
              /\ ~launch.aborted /\ launch'.status = "paused" /\ r.status = "awaiting"
              /\ f = [type |-> "approval_awaiting", node |-> n, pause |-> k.pause]
              /\ k.pause > launch.pauses
    PROVE  PauseInv' /\ KeepsShown
<1>. USE PauseTypes
<1>1. /\ wire'.at = wire.at /\ wire'.subscribed = wire.subscribed /\ wire'.stopped = wire.stopped
      /\ \/ ~wire.subscribed /\ wire'.frames = wire.frames
         \/ /\ wire.subscribed /\ wire'.frames \in Seq(WireFrame)
            /\ Len(wire'.frames) = Len(wire.frames) + 1
            /\ wire'.frames[Len(wire.frames) + 1] = f
            /\ \A i \in 1 .. Len(wire.frames) : wire'.frames[i] = wire.frames[i]
  <2>1. CASE ~wire.subscribed
    BY <2>1 DEF Broadcast
  <2>2. CASE wire.subscribed
    <3>1. /\ wire'.frames = Append(wire.frames, f) /\ wire'.at = wire.at
          /\ wire'.subscribed = wire.subscribed /\ wire'.stopped = wire.stopped
      BY <2>2 DEF Broadcast, WireType
    <3>. QED BY <2>2, <3>1, AppendedFrame
  <2>. QED BY <2>1, <2>2
<1>2. /\ work'[n] = k /\ nodeRows'[n] = r
      /\ \A m \in Steps \ {n} : work'[m] = work[m] /\ nodeRows'[m] = nodeRows[m]
  OBVIOUS
<1>3. /\ launch.pauses \in Nat /\ launch'.pauses \in Nat /\ k.pause \in Nat
      /\ Len(wire.frames) \in Nat
  BY FollowAssumption DEF LaunchType, WorkType
<1>4. LaunchInv'
  BY <1>1 DEF PauseInv, LaunchInv, Undisturbed
<1>5. \A i \in 1 .. Len(wire'.frames) : \/ i = Len(wire.frames) + 1 /\ wire'.frames[i] = f
                                        \/ /\ i \in 1 .. Len(wire.frames)
                                           /\ wire'.frames[i] = wire.frames[i]
  BY <1>1, <1>3
<1>6. TokenInv'
  <2>1. \A i \in 1 .. Len(wire'.frames) :
          wire'.frames[i].type = "approval_awaiting" => wire'.frames[i].pause <= launch'.pauses
    <3>. SUFFICES ASSUME NEW i \in 1 .. Len(wire'.frames),
                         wire'.frames[i].type = "approval_awaiting"
                  PROVE  wire'.frames[i].pause <= launch'.pauses
      OBVIOUS
    <3>1. CASE wire'.frames[i] = f
      BY <3>1
    <3>2. CASE i \in 1 .. Len(wire.frames) /\ wire'.frames[i] = wire.frames[i]
      <4>1. wire.frames[i].pause <= launch.pauses
        BY <3>2 DEF PauseInv, TokenInv
      <4>2. wire.frames[i].pause \in Nat
        BY <3>2, FollowAssumption DEF WireFrame
      <4>. QED BY <1>3, <3>2, <4>1, <4>2
    <3>. QED BY <1>5, <3>1, <3>2
  <2>2. \A m \in Steps : work'[m].pause <= launch'.pauses /\ view'.nodes[m].pause <= launch'.pauses
    <3>. SUFFICES ASSUME NEW m \in Steps
                  PROVE  work'[m].pause <= launch'.pauses /\ view'.nodes[m].pause <= launch'.pauses
      OBVIOUS
    <3>1. work[m].pause <= launch.pauses /\ view.nodes[m].pause <= launch.pauses
      BY DEF PauseInv, TokenInv
    <3>2. work'[m].pause <= launch'.pauses
      BY <1>2, <1>3, <3>1
    <3>. QED BY <1>3, <3>1, <3>2
  <2>. QED BY <2>1, <2>2 DEF PauseInv, TokenInv
<1>7. ASSUME NEW m \in Steps, m # n, IsOpen(m)'
      PROVE  OpenOK(m)'
  <2>1. IsOpen(m) /\ OpenOK(m) /\ PauseFrame(m)' = PauseFrame(m) /\ ~About(f, m)
    BY <1>2, <1>7 DEF PauseInv, IsOpen, PauseFrame, About
  <2>2. LastWord(m)'
    BY <1>3, <1>5, <2>1 DEF OpenOK, LastWord, About, PauseFrame
  <2>3. Told(m)' => TellsNothingElse(m)'
    BY <1>2, <1>5, <1>7, <2>1 DEF OpenOK, Told, TellsNothingElse, About
  <2>4. ComesIntoView(m)'
    <3>1. CASE IsShown(m)
      BY <1>2, <1>7, <3>1 DEF ComesIntoView, IsShown
    <3>2. ASSUME NEW i \in 1 .. Len(wire.frames), wire.frames[i] = PauseFrame(m)
          PROVE  ComesIntoView(m)'
      <4>1. i \in 1 .. Len(wire'.frames) /\ wire'.frames[i] = PauseFrame(m)'
        BY <1>1, <1>3, <2>1, <3>2
      <4>. QED BY <4>1 DEF ComesIntoView
    <3>. QED BY <1>1, <2>1, <3>1, <3>2 DEF OpenOK, ComesIntoView
  <2>. QED BY <1>2, <1>7, <2>1, <2>2, <2>3, <2>4 DEF OpenOK
<1>8. ASSUME IsOpen(n)'
      PROVE  OpenOK(n)'
  <2>1. /\ ~launch.aborted /\ launch'.status = "paused" /\ r.status = "awaiting"
        /\ f = PauseFrame(n)' /\ k.pause > launch.pauses
    BY <1>2, <1>8 DEF IsOpen, PauseFrame
  <2>2. \A i \in 1 .. Len(wire.frames) : wire.frames[i] # PauseFrame(n)'
    <3>. SUFFICES ASSUME NEW i \in 1 .. Len(wire.frames), wire.frames[i] = PauseFrame(n)'
                  PROVE  FALSE
      OBVIOUS
    <3>1. wire.frames[i].type = "approval_awaiting" /\ wire.frames[i].pause = k.pause
      BY <1>2 DEF PauseFrame
    <3>. QED BY <1>3, <2>1, <3>1 DEF PauseInv, TokenInv
  <2>3. LastWord(n)'
    BY <1>3, <1>5, <2>2 DEF LastWord
  <2>4. ~Told(n)'
    <3>1. view.nodes[n].pause <= launch.pauses /\ view.nodes[n].pause \in Nat
      BY DEF PauseInv, TokenInv
    <3>. QED BY <1>2, <1>3, <2>1, <3>1 DEF Told
  <2>5. ComesIntoView(n)'
    <3>1. CASE wire.subscribed
      <4>1. Len(wire.frames) + 1 \in 1 .. Len(wire'.frames)
        BY <1>1, <1>3, <3>1
      <4>. QED BY <1>1, <2>1, <3>1, <4>1 DEF ComesIntoView
    <3>2. CASE ~wire.subscribed
      <4>1. Undisturbed(launch) /\ ~launch.over
        BY <2>1 DEF PauseInv, LaunchInv, Undisturbed, Alive
      <4>2. wire.at \in {"connecting", "reconnecting"}
        BY <3>2, <4>1 DEF PauseInv, LaunchInv, FollowInv, WireInv, WireOK, WireType
      <4>. QED BY <1>1, <4>2 DEF ComesIntoView
    <3>. QED BY <3>1, <3>2
  <2>. QED BY <1>2, <1>3, <2>1, <2>3, <2>4, <2>5 DEF OpenOK, Alive
<1>9. KeepsShown
  BY DEF KeepsShown, IsShown
<1>. QED BY <1>4, <1>6, <1>7, <1>8, <1>9 DEF PauseInv

LEMMA NodePauseSteps ==
    ASSUME FollowInv, PauseInv, NEW n \in Steps,
           \/ NodeStarts(n) \/ NodeSays(n) \/ NodePauses(n) \/ NodeIsAnswered(n)
           \/ \E o \in Outcomes \cup {"skipped"} : NodeIsDone(n, o),
           launch' \in LaunchType, work' \in [Steps -> WorkType]
    PROVE  PauseInv' /\ KeepsShown
<1>1. /\ launch \in LaunchType /\ work \in [Steps -> WorkType] /\ work[n] \in WorkType
      /\ nodeRows \in [Steps -> [status : RowStatus]] /\ launch.pauses \in Nat
      /\ work[n].pause <= launch.pauses /\ work[n].pause \in Nat
      /\ launch.pauses <= launch.pauses /\ launch.pauses + 1 > launch.pauses
  BY PauseTypes DEF PauseInv, TokenInv
<1>2. \A m \in Steps : IsOpen(m) => launch.status = "paused"
  BY DEF PauseInv, OpenOK
<1>3. CASE NodeStarts(n)
  <2>. DEFINE k == [work[n] EXCEPT !.phase = "running", !.starts = @ + 1]
              f == [type |-> "node_started", node |-> n]
  <2>1. /\ Alive /\ UNCHANGED <<launch, fetch, view>> /\ Broadcast(f)
        /\ work' = [work EXCEPT ![n] = k] /\ nodeRows' = [nodeRows EXCEPT ![n] = NoRow]
    BY <1>1, <1>3 DEF NodeStarts
  <2>2. k \in WorkType /\ k.phase = "running" /\ k.pause = work[n].pause
    <3>1. k = work'[n]
      BY <1>1, <2>1
    <3>. QED BY <1>1, <3>1 DEF WorkType
  <2>3. f \in WireFrame /\ f.type = "node_started" /\ f.node = n
    BY DEF WireFrame
  <2>. HIDE DEF k, f
  <2>. QED BY <1>1, <1>2, <2>1, <2>2, <2>3, SentPauses
<1>4. CASE NodeSays(n)
  <2>. DEFINE k == [work[n] EXCEPT !.said = @ + 1]
              f == [type |-> "node_chunk", node |-> n]
  <2>1. /\ Alive /\ UNCHANGED <<launch, nodeRows, fetch, view>> /\ Broadcast(f)
        /\ work' = [work EXCEPT ![n] = k] /\ work[n].phase = "running"
    BY <1>1, <1>4 DEF NodeSays
  <2>2. k \in WorkType /\ k.phase = "running" /\ k.pause = work[n].pause
    <3>1. k = work'[n]
      BY <1>1, <2>1
    <3>. QED BY <1>1, <2>1, <3>1 DEF WorkType
  <2>3. f \in WireFrame /\ f.type = "node_chunk" /\ f.node = n
    BY DEF WireFrame
  <2>4. PICK r : nodeRows' = [nodeRows EXCEPT ![n] = r]
    BY <1>1, <2>1
  <2>5. /\ Alive /\ UNCHANGED <<launch, fetch, view>> /\ Broadcast(f)
        /\ work' = [work EXCEPT ![n] = k]
    BY <2>1
  <2>. HIDE DEF k, f
  <2>. QED BY <1>1, <1>2, <2>2, <2>3, <2>4, <2>5, SentPauses
<1>5. CASE NodePauses(n)
  <2>. DEFINE p == launch.pauses + 1
              k == [work[n] EXCEPT !.phase = "awaiting", !.pause = p]
              f == [type |-> "approval_awaiting", node |-> n, pause |-> p]
              r == [status |-> "awaiting"]
  <2>1. /\ Alive /\ ~launch.aborted /\ UNCHANGED <<fetch, view>> /\ Broadcast(f)
        /\ launch' = [launch EXCEPT !.status = "paused", !.pauses = p]
        /\ work' = [work EXCEPT ![n] = k] /\ nodeRows' = [nodeRows EXCEPT ![n] = r]
    BY <1>1, <1>5 DEF NodePauses
  <2>2. k \in WorkType /\ k.phase = "awaiting" /\ k.pause = p
    <3>1. k = work'[n]
      BY <1>1, <2>1
    <3>. QED BY <1>1, <3>1 DEF WorkType
  <2>3. p \in Nat /\ p > launch.pauses /\ p >= launch.pauses /\ p <= p /\ p \in 0 .. MaxTurns
    <3>1. p \in 0 .. MaxTurns
      BY <2>2 DEF WorkType
    <3>. QED BY <1>1, <3>1
  <2>. HIDE DEF p
  <2>4. f \in WireFrame /\ f.type = "approval_awaiting" /\ f.node = n /\ f.pause = p
        /\ f = [type |-> "approval_awaiting", node |-> n, pause |-> k.pause]
    BY <2>2, <2>3 DEF WireFrame
  <2>5. /\ launch'.over = launch.over /\ launch'.died = launch.died
        /\ launch'.byNode = launch.byNode /\ launch'.aborted = launch.aborted
        /\ launch'.status = "paused" /\ launch'.pauses = p
    BY <1>1, <2>1 DEF LaunchType
  <2>6. /\ Alive /\ ~launch.aborted /\ UNCHANGED <<fetch, view>> /\ Broadcast(f)
        /\ work' = [work EXCEPT ![n] = k] /\ nodeRows' = [nodeRows EXCEPT ![n] = r]
        /\ r.status = "awaiting"
    BY <2>1
  <2>7. /\ launch'.pauses >= launch.pauses /\ k.pause <= launch'.pauses
        /\ f.pause <= launch'.pauses /\ k.pause > launch.pauses
    BY <2>2, <2>3, <2>4, <2>5
  <2>8. launch' \in LaunchType
    OBVIOUS
  <2>. HIDE DEF k, f, r
  <2>. QED BY <2>2, <2>4, <2>5, <2>6, <2>7, <2>8, SentPauses
<1>6. CASE NodeIsAnswered(n)
  <2>. DEFINE k == [work[n] EXCEPT !.phase = "running"]
              f == [type |-> "approval_resolved", node |-> n]
  <2>1. /\ Alive /\ UNCHANGED <<fetch, view>> /\ Broadcast(f)
        /\ launch' = [launch EXCEPT !.status = IF Paused = {n} THEN "running" ELSE @]
        /\ work' = [work EXCEPT ![n] = k] /\ nodeRows' = [nodeRows EXCEPT ![n] = NoRow]
    BY <1>1, <1>6 DEF NodeIsAnswered
  <2>2. k \in WorkType /\ k.phase = "running" /\ k.pause = work[n].pause
    BY <1>1 DEF WorkType
  <2>3. f \in WireFrame /\ f.type = "approval_resolved" /\ f.node = n
    BY DEF WireFrame
  <2>4. /\ launch'.over = launch.over /\ launch'.died = launch.died
        /\ launch'.byNode = launch.byNode /\ launch'.aborted = launch.aborted
        /\ launch'.pauses = launch.pauses
        /\ Paused # {n} => launch'.status = launch.status
    BY <1>1, <2>1 DEF LaunchType
  <2>5. \A m \in Steps \ {n} : IsOpen(m) => launch'.status = "paused"
    BY <1>2, <2>4 DEF Paused, IsOpen
  <2>. HIDE DEF k, f
  <2>. QED BY <1>1, <2>1, <2>2, <2>3, <2>4, <2>5, SentPauses
<1>7. ASSUME NEW o \in Outcomes \cup {"skipped"}, NodeIsDone(n, o)
      PROVE  PauseInv' /\ KeepsShown
  <2>. DEFINE k == [work[n] EXCEPT !.phase = "over"]
              f == [type |-> "node_done", node |-> n, status |-> o]
              r == [status |-> o]
  <2>1. /\ Alive /\ UNCHANGED <<launch, fetch, view>> /\ Broadcast(f)
        /\ work' = [work EXCEPT ![n] = k] /\ nodeRows' = [nodeRows EXCEPT ![n] = r]
    BY <1>1, <1>7 DEF NodeIsDone
  <2>2. k \in WorkType /\ k.phase = "over" /\ k.pause = work[n].pause
    BY <1>1 DEF WorkType
  <2>3. f \in WireFrame /\ f.type = "node_done" /\ f.node = n
    BY DEF WireFrame
  <2>. HIDE DEF k, f, r
  <2>. QED BY <1>1, <1>2, <2>1, <2>2, <2>3, SentPauses
<1>. QED BY <1>3, <1>4, <1>5, <1>6, <1>7
\* A step after which no pause is open.
LEMMA NobodyPauses ==
    ASSUME FollowInv, PauseInv, LaunchInv', UNCHANGED <<fetch, view>>,
           launch'.pauses = launch.pauses,
           \A n \in Steps : ~IsOpen(n)' /\ work'[n].pause = work[n].pause,
           \A i \in 1 .. Len(wire'.frames) :
               \/ wire'.frames[i].type # "approval_awaiting"
               \/ i \in 1 .. Len(wire.frames) /\ wire'.frames[i] = wire.frames[i]
    PROVE  PauseInv' /\ KeepsShown
<1>1. TokenInv'
  BY DEF PauseInv, TokenInv
<1>2. KeepsShown
  BY DEF KeepsShown, IsOpen, IsShown
<1>. QED BY <1>1, <1>2 DEF PauseInv

LEMMA AbortPauseSteps ==
    ASSUME FollowInv, PauseInv,
           \/ RunIsCancelled \/ NodeCancelsRun \/ ServerDies
           \/ \E s \in Outcomes \cup {"cancelled"} : LaunchEnds(s)
    PROVE  PauseInv' /\ KeepsShown
<1>1. /\ launch \in LaunchType /\ work \in [Steps -> WorkType] /\ wire \in WireType
      /\ wire.frames \in Seq(WireFrame) /\ LaunchInv
  BY PauseTypes DEF PauseInv
<1>2. CASE RunIsCancelled \/ NodeCancelsRun
  <2>1. work' = Rejected /\ UNCHANGED <<wire, fetch, view>>
    BY <1>2 DEF RunIsCancelled, NodeCancelsRun
  <2>2. \A n \in Steps : ~IsOpen(n)' /\ work'[n].pause = work[n].pause
    BY <1>1, <2>1 DEF Rejected, IsOpen, WorkType
  <2>3. launch'.pauses = launch.pauses /\ LaunchInv'
    <3>1. /\ launch'.pauses = launch.pauses /\ launch'.aborted /\ launch'.died = launch.died
          /\ launch'.over = launch.over
          /\ Undisturbed(launch)' => Undisturbed(launch)
      BY <1>1, <1>2 DEF RunIsCancelled, NodeCancelsRun, LaunchType, Undisturbed
    <3>. QED BY <1>1, <2>1, <3>1 DEF LaunchInv
  <2>. QED BY <1>1, <2>1, <2>2, <2>3, NobodyPauses
<1>3. CASE ServerDies
  <2>1. /\ work' = [n \in Steps |-> [work[n] EXCEPT !.phase = "over"]]
        /\ launch' = [launch EXCEPT !.status = IF @ \in {"running", "paused"} THEN "failed" ELSE @,
                                    !.over = TRUE, !.died = TRUE]
        /\ wire' = [wire EXCEPT !.at = IF @ = "closed" THEN @ ELSE "reconnecting",
                                !.subscribed = FALSE, !.ended = FALSE, !.frames = <<>>]
        /\ UNCHANGED <<fetch, view>>
    BY <1>3 DEF ServerDies
  <2>2. \A n \in Steps : ~IsOpen(n)' /\ work'[n].pause = work[n].pause
    BY <1>1, <2>1 DEF IsOpen, WorkType
  <2>3. launch'.pauses = launch.pauses /\ launch'.over /\ launch'.byNode = launch.byNode
        /\ launch'.aborted = launch.aborted
    BY <1>1, <2>1 DEF LaunchType
  <2>4. Len(wire'.frames) = 0
    BY <1>1, <2>1 DEF WireType
  <2>5. LaunchInv' /\ UNCHANGED <<fetch, view>> /\ 1 .. Len(wire'.frames) = {}
    BY <1>1, <2>1, <2>3, <2>4 DEF LaunchInv
  <2>. QED BY <2>2, <2>3, <2>5, NobodyPauses
<1>4. ASSUME NEW s \in Outcomes \cup {"cancelled"}, LaunchEnds(s)
      PROVE  PauseInv' /\ KeepsShown
  <2>. DEFINE f == [type |-> "run_done", status |-> s]
  <2>1. /\ \/ \A n \in Steps : work[n].phase = "over"
           \/ \A n \in Steps : work[n].phase = "waiting"
        /\ work' = work /\ launch' = [launch EXCEPT !.status = s, !.over = TRUE]
        /\ wire' = Closing(f) /\ UNCHANGED <<fetch, view>>
    BY <1>4, Zenon DEF LaunchEnds
  <2>2. \A n \in Steps : ~IsOpen(n)' /\ work'[n].pause = work[n].pause
    BY <2>1 DEF IsOpen
  <2>3. launch'.pauses = launch.pauses /\ launch'.over /\ launch'.byNode = launch.byNode
        /\ launch'.aborted = launch.aborted
    BY <1>1, <2>1 DEF LaunchType
  <2>4. f \in WireFrame /\ f.type = "run_done"
    BY DEF WireFrame, RunStatus, Outcomes
  <2>. HIDE DEF f
  <2>5. wire'.frames \in {wire.frames, Append(wire.frames, f)}
    BY <1>1, <2>1 DEF Closing, WireType
  <2>6. \A i \in 1 .. Len(wire'.frames) :
            \/ wire'.frames[i].type # "approval_awaiting"
            \/ i \in 1 .. Len(wire.frames) /\ wire'.frames[i] = wire.frames[i]
    <3>1. CASE wire'.frames = wire.frames
      BY <3>1
    <3>2. CASE wire'.frames = Append(wire.frames, f)
      <4>1. /\ Len(wire.frames) \in Nat /\ Len(wire'.frames) = Len(wire.frames) + 1
            /\ wire'.frames[Len(wire.frames) + 1] = f
            /\ \A i \in 1 .. Len(wire.frames) : wire'.frames[i] = wire.frames[i]
        BY <1>1, <2>4, <3>2, AppendedFrame
      <4>. QED BY <2>4, <4>1
    <3>. QED BY <2>5, <3>1, <3>2
  <2>. QED BY <1>1, <2>1, <2>2, <2>3, <2>6, NobodyPauses DEF LaunchInv
<1>. QED BY <1>2, <1>3, <1>4
\* A step of the hook alone: who has the token keeps it and shows it.
LEMMA HookKeepsPauses ==
    ASSUME FollowInv, PauseInv, UNCHANGED <<launch, work, nodeRows, wire>>,
           \A n \in Steps : view'.nodes[n].pause <= launch.pauses,
           fetch'.kind = "answer" =>
               \A n \in Steps : /\ fetch'.nodes[n].pause = 0
                                /\ IsOpen(n) => fetch'.nodes[n].status = "awaiting",
           \A n \in Steps : IsOpen(n) =>
               /\ Told(n)' <=> Told(n)
               /\ Told(n) => view'.nodes[n].status = "awaiting"
    PROVE  PauseInv' /\ KeepsShown
<1>1. LaunchInv' /\ TokenInv'
  BY DEF PauseInv, LaunchInv, TokenInv
<1>2. ASSUME NEW n \in Steps, IsOpen(n)'
      PROVE  OpenOK(n)'
  <2>1. IsOpen(n) /\ OpenOK(n) /\ PauseFrame(n)' = PauseFrame(n)
    BY <1>2 DEF IsOpen, PauseInv, PauseFrame
  <2>2. LastWord(n)'
    BY <2>1 DEF OpenOK, LastWord, About
  <2>3. Told(n)' => TellsNothingElse(n)'
    BY <2>1 DEF OpenOK, TellsNothingElse, About
  <2>4. ComesIntoView(n)'
    <3>1. IsShown(n) => IsShown(n)'
      BY <2>1 DEF IsShown, Told
    <3>. QED BY <2>1, <3>1 DEF OpenOK, ComesIntoView
  <2>. QED BY <2>1, <2>2, <2>3, <2>4 DEF OpenOK
<1>3. KeepsShown
  BY DEF KeepsShown, IsShown, Told
<1>. QED BY <1>1, <1>2, <1>3 DEF PauseInv

\* The answer of a GET has no token, and says awaiting of a node whose pause is open.
LEMMA AnswerPauses ==
    ASSUME FollowInv, PauseInv, FetchIsAnswered
    PROVE  PauseInv' /\ KeepsShown
<1>1. /\ UNCHANGED <<launch, work, nodeRows, wire, view>>
      /\ fetch' = [kind |-> "answer", run |-> launch.status,
                   nodes |-> [n \in Steps |-> SnapshotOf(n)]]
  BY DEF FetchIsAnswered, serverRun
<1>2. ASSUME NEW n \in Steps
      PROVE  SnapshotOf(n).pause = 0 /\ (IsOpen(n) => SnapshotOf(n).status = "awaiting")
  <2>1. IsOpen(n) => work[n].phase = "awaiting" /\ nodeRows[n].status = "awaiting"
    BY DEF IsOpen, PauseInv, OpenOK
  <2>. QED BY <2>1 DEF SnapshotOf, EmptyNode, Absent
<1>. HIDE DEF SnapshotOf
<1>3. \A n \in Steps : fetch'.nodes[n].pause = 0 /\ (IsOpen(n) => fetch'.nodes[n].status = "awaiting")
  BY <1>1, <1>2
<1>4. \A n \in Steps : view'.nodes[n].pause <= launch.pauses
  BY <1>1 DEF PauseInv, TokenInv
<1>5. ASSUME NEW n \in Steps, IsOpen(n)
      PROVE  (Told(n)' <=> Told(n)) /\ (Told(n) => view'.nodes[n].status = "awaiting")
  BY <1>1, <1>5 DEF PauseInv, OpenOK, Told, TellsNothingElse
<1>. QED BY <1>1, <1>3, <1>4, <1>5, HookKeepsPauses

LEMMA FailPauses ==
    ASSUME FollowInv, PauseInv, FetchFails
    PROVE  PauseInv' /\ KeepsShown
<1>1. /\ UNCHANGED <<launch, work, nodeRows, wire>> /\ fetch'.kind = "none"
      /\ view' = [view EXCEPT !.loaded = "error"]
  BY DEF FetchFails, serverRun, NoFetch
<1>2. view'.nodes = view.nodes
  BY <1>1, PauseTypes DEF ViewType
<1>3. \A n \in Steps : view'.nodes[n].pause <= launch.pauses
  BY <1>2 DEF PauseInv, TokenInv
<1>4. ASSUME NEW n \in Steps, IsOpen(n)
      PROVE  (Told(n)' <=> Told(n)) /\ (Told(n) => view'.nodes[n].status = "awaiting")
  BY <1>1, <1>2, <1>4 DEF PauseInv, OpenOK, Told, TellsNothingElse
<1>. QED BY <1>1, <1>3, <1>4, HookKeepsPauses

\* The merge keeps the token of a node that both sides say is awaiting, and makes none.
LEMMA MergedPause ==
    ASSUME NEW snap \in ShownNode, NEW live \in ShownNode
    PROVE  /\ MergeNode(Entry(snap), live).pause \in {0, live.pause}
           /\ snap.status = "awaiting" /\ live.status = "awaiting" =>
                 MergeNode(Entry(snap), live) = [status |-> "awaiting", pause |-> live.pause]
<1>. DEFINE status == WinningStatus(Entry(snap), live)
<1>1. MergeNode(Entry(snap), live) =
        [status |-> status, pause |-> IF status = "awaiting" THEN live.pause ELSE 0]
  BY DEF MergeNode
<1>2. snap.status = "awaiting" /\ live.status = "awaiting" => status = "awaiting"
  BY DEF WinningStatus, PersistedWins, IsSettled, Entry, Absent
<1>. HIDE DEF status
<1>. QED BY <1>1, <1>2

LEMMA ArrivalPauses ==
    ASSUME FollowInv, PauseInv, FetchArrives
    PROVE  PauseInv' /\ KeepsShown
<1>. DEFINE m(n) == IF view.nodes[n] = Absent THEN fetch.nodes[n]
                    ELSE MergeNode(Entry(fetch.nodes[n]), view.nodes[n])
<1>1. /\ UNCHANGED <<launch, work, nodeRows, wire>> /\ fetch'.kind = "none"
      /\ fetch.kind = "answer" /\ view'.nodes = [n \in Steps |-> m(n)]
  BY DEF FetchArrives, serverRun, NoFetch
<1>2. /\ fetch.nodes \in [Steps -> ShownNode] /\ view.nodes \in [Steps -> ShownNode]
      /\ launch.pauses \in Nat
  BY <1>1, PauseTypes DEF FetchType, ViewType
<1>3. ASSUME NEW n \in Steps
      PROVE  /\ m(n).pause \in {0, view.nodes[n].pause}
             /\ fetch.nodes[n].status = "awaiting" /\ view.nodes[n].status = "awaiting" =>
                   m(n) = [status |-> "awaiting", pause |-> view.nodes[n].pause]
  <2>1. CASE view.nodes[n] = Absent
    <3>1. fetch.nodes[n].pause = 0 /\ view.nodes[n].status = "absent"
      BY <1>1, <2>1 DEF PauseInv, TokenInv, Absent
    <3>. QED BY <2>1, <3>1
  <2>2. CASE view.nodes[n] # Absent
    BY <1>2, <2>2, MergedPause
  <2>. QED BY <2>1, <2>2
<1>. HIDE DEF m
<1>4. \A n \in Steps : view'.nodes[n] = m(n)
  BY <1>1
<1>5. \A n \in Steps : view'.nodes[n].pause <= launch.pauses
  BY <1>2, <1>3, <1>4 DEF PauseInv, TokenInv
<1>6. ASSUME NEW n \in Steps, IsOpen(n)
      PROVE  (Told(n)' <=> Told(n)) /\ (Told(n) => view'.nodes[n].status = "awaiting")
  <2>1. /\ work'[n].pause = work[n].pause /\ work[n].pause # 0
        /\ Told(n) => TellsNothingElse(n)
    BY <1>1, <1>6, PauseTypes DEF PauseInv, OpenOK
  <2>2. CASE Told(n)
    <3>1. m(n) = [status |-> "awaiting", pause |-> view.nodes[n].pause]
      BY <1>1, <1>3, <2>1, <2>2 DEF TellsNothingElse
    <3>. QED BY <1>4, <2>1, <2>2, <3>1 DEF Told
  <2>3. CASE ~Told(n)
    BY <1>3, <1>4, <2>1, <2>3 DEF Told
  <2>. QED BY <2>2, <2>3
<1>. QED BY <1>1, <1>5, <1>6, HookKeepsPauses
-----------------------------------------------------------------------------
(* Following a run: a frame arrives.                                       *)

\* What a frame makes of the token.
LEMMA PauseAfter ==
    ASSUME NEW node \in ShownNode, NEW f \in WireFrame, f.type # "run_done"
    PROVE  /\ f.type = "approval_awaiting" =>
                 NodeAfter(node, f) = [status |-> "awaiting", pause |-> f.pause]
           /\ f.type # "approval_awaiting" => NodeAfter(node, f).pause \in {0, node.pause}
<1>1. /\ Entry(node) \in ShownNode /\ Entry(node).pause = node.pause
      /\ EmptyNode \in ShownNode /\ EmptyNode.pause = 0
  BY FollowAssumption DEF Entry, EmptyNode, Absent, ShownNode
<1>. HIDE DEF Entry, EmptyNode, Absent
<1>2. CASE f.type = "node_started"
  <2>1. PICK e \in {Entry(node), EmptyNode} :
          NodeAfter(node, f) = [e EXCEPT !.status = "running"]
    BY <1>2 DEF NodeAfter
  <2>. QED BY <1>1, <1>2, <2>1 DEF ShownNode
<1>3. CASE f.type = "node_chunk"
  <2>1. NodeAfter(node, f) =
          [Entry(node) EXCEPT !.status = IF IsSettled(@) THEN @ ELSE "running"]
    BY <1>3 DEF NodeAfter
  <2>. QED BY <1>1, <1>3, <2>1 DEF ShownNode
<1>4. CASE f.type = "node_done"
  <2>1. NodeAfter(node, f) = [Entry(node) EXCEPT !.status = f.status]
    BY <1>4 DEF NodeAfter
  <2>. QED BY <1>1, <1>4, <2>1 DEF ShownNode
<1>5. CASE f.type = "approval_awaiting"
  <2>1. NodeAfter(node, f) = [Entry(node) EXCEPT !.status = "awaiting", !.pause = f.pause]
    BY <1>5 DEF NodeAfter
  <2>. QED BY <1>1, <1>5, <2>1 DEF ShownNode
<1>6. CASE f.type = "approval_resolved"
  <2>1. NodeAfter(node, f) \in {node, [node EXCEPT !.status = "running", !.pause = 0]}
    BY <1>6 DEF NodeAfter
  <2>. QED BY <1>6, <2>1 DEF ShownNode
<1>7. f.type \in {"node_started", "node_chunk", "node_done", "approval_awaiting",
                  "approval_resolved"}
  BY DEF WireFrame
<1>. QED BY <1>2, <1>3, <1>4, <1>5, <1>6, <1>7

LEMMA NodesAfter ==
    ASSUME NEW v \in ViewType, NEW f \in WireFrame, NEW n \in Steps
    PROVE  /\ f.type = "run_done" => ApplyFrameTo(v, f).nodes[n].pause = v.nodes[n].pause
           /\ About(f, n) => ApplyFrameTo(v, f).nodes[n] = NodeAfter(v.nodes[n], f)
           /\ f.type # "run_done" /\ ~About(f, n) => ApplyFrameTo(v, f).nodes[n] = v.nodes[n]
<1>1. CASE f.type = "run_done"
  <2>. DEFINE ns == [k \in Steps |->
                        IF /\ f.status = "cancelled" /\ v.nodes[k] # Absent
                           /\ ~IsSettled(v.nodes[k].status)
                        THEN [v.nodes[k] EXCEPT !.status = "cancelled"] ELSE v.nodes[k]]
  <2>1. ns[n].pause = v.nodes[n].pause
    BY DEF ViewType, ShownNode
  <2>2. ApplyFrameTo(v, f) = [v EXCEPT !.run = f.status, !.nodes = ns]
    BY <1>1 DEF ApplyFrameTo
  <2>. HIDE DEF ns
  <2>3. ApplyFrameTo(v, f).nodes = ns
    BY <2>2 DEF ViewType
  <2>. QED BY <1>1, <2>1, <2>3 DEF About
<1>2. CASE f.type # "run_done"
  <2>. DEFINE ns == [v.nodes EXCEPT ![f.node] = NodeAfter(@, f)]
  <2>1. ApplyFrameTo(v, f) = [v EXCEPT !.nodes = ns]
    BY <1>2 DEF ApplyFrameTo, ViewType
  <2>2. /\ n = f.node => ns[n] = NodeAfter(v.nodes[n], f)
        /\ n # f.node => ns[n] = v.nodes[n]
    BY DEF ViewType
  <2>. HIDE DEF ns
  <2>3. ApplyFrameTo(v, f).nodes = ns
    BY <2>1 DEF ViewType
  <2>. QED BY <1>2, <2>2, <2>3 DEF About
<1>. QED BY <1>1, <1>2

LEMMA AppliedPauses ==
    ASSUME FollowInv, PauseInv, FrameIsApplied
    PROVE  PauseInv' /\ KeepsShown
<1>. DEFINE f == Head(wire.frames)
<1>1. /\ UNCHANGED <<launch, work, nodeRows>>
      /\ wire.at = "open" /\ wire.frames # <<>>
      /\ view' = ApplyFrameTo(view, f)
      /\ wire' = [wire EXCEPT !.frames = Tail(@), !.stopped = @ \/ f.type = "run_done"]
      /\ \E again \in MayHydrate(f) : fetch' = IF again THEN Hydrate ELSE fetch
  BY DEF FrameIsApplied, serverRun
<1>2. /\ wire \in WireType /\ view \in ViewType /\ wire.frames \in Seq(WireFrame)
      /\ launch.pauses \in Nat
      /\ \A n \in Steps : view.nodes[n] \in ShownNode
      /\ \A n \in Steps : view.nodes[n].pause \in Nat /\ work[n].pause \in Nat
  BY PauseTypes DEF ViewType
<1>3. /\ Len(wire.frames) \in Nat /\ Len(wire.frames) > 0 /\ f = wire.frames[1]
      /\ f \in WireFrame
      /\ Len(Tail(wire.frames)) = Len(wire.frames) - 1
      /\ \A i \in 1 .. Len(wire.frames) - 1 : Tail(wire.frames)[i] = wire.frames[i + 1]
  BY <1>1, <1>2
<1>4. /\ wire'.frames = Tail(wire.frames) /\ wire'.at = "open"
      /\ wire'.subscribed = wire.subscribed
  <2>. HIDE DEF f
  <2>. QED BY <1>1, <1>2, <1>3 DEF WireType
<1>. HIDE DEF f
<1>5. ASSUME NEW i \in 1 .. Len(wire'.frames)
      PROVE  i + 1 \in 1 .. Len(wire.frames) /\ wire'.frames[i] = wire.frames[i + 1]
  BY <1>3, <1>4
<1>6. fetch' \in {fetch, Hydrate} /\ Hydrate.kind = "sent"
  BY <1>1 DEF Hydrate
<1>7. 1 \in 1 .. Len(wire.frames)
  BY <1>3
<1>8. ASSUME NEW n \in Steps
      PROVE  view'.nodes[n].pause <= launch.pauses
  <2>1. view.nodes[n].pause <= launch.pauses /\ 0 <= launch.pauses
    BY <1>2 DEF PauseInv, TokenInv
  <2>2. f.type = "approval_awaiting" => f.pause <= launch.pauses
    BY <1>3, <1>7 DEF PauseInv, TokenInv
  <2>3. CASE About(f, n)
    <3>1. view'.nodes[n] = NodeAfter(view.nodes[n], f) /\ f.type # "run_done"
      BY <1>1, <1>2, <1>3, <2>3, NodesAfter DEF About
    <3>2. \/ f.type = "approval_awaiting" /\ view'.nodes[n].pause = f.pause
          \/ view'.nodes[n].pause \in {0, view.nodes[n].pause}
      BY <1>2, <1>3, <3>1, PauseAfter
    <3>. QED BY <2>1, <2>2, <3>2
  <2>4. CASE ~About(f, n)
    <3>1. view'.nodes[n].pause = view.nodes[n].pause
      BY <1>1, <1>2, <1>3, <2>4, NodesAfter DEF About
    <3>. QED BY <2>1, <3>1
  <2>. QED BY <2>3, <2>4
<1>9. LaunchInv' /\ TokenInv'
  <2>1. \A i \in 1 .. Len(wire'.frames) :
          wire'.frames[i].type = "approval_awaiting" => wire'.frames[i].pause <= launch'.pauses
    BY <1>1, <1>5 DEF PauseInv, TokenInv
  <2>2. \A n \in Steps : work'[n].pause <= launch'.pauses
    BY <1>1 DEF PauseInv, TokenInv
  <2>3. fetch'.kind = "answer" => \A n \in Steps : fetch'.nodes[n].pause = 0
    BY <1>6 DEF PauseInv, TokenInv
  <2>4. LaunchInv'
    BY <1>1, <1>4 DEF PauseInv, LaunchInv
  <2>. QED BY <1>1, <1>8, <2>1, <2>2, <2>3, <2>4 DEF TokenInv
<1>10. ASSUME NEW n \in Steps, IsOpen(n)
       PROVE  /\ f.type # "run_done" /\ work'[n] = work[n] /\ PauseFrame(n)' = PauseFrame(n)
              /\ f = PauseFrame(n) =>
                    view'.nodes[n] = [status |-> "awaiting", pause |-> work[n].pause]
              /\ f # PauseFrame(n) /\ About(f, n) => ~Told(n) /\ ~Told(n)'
              /\ ~About(f, n) => view'.nodes[n] = view.nodes[n]
  <2>1. f.type # "run_done" /\ work'[n] = work[n] /\ PauseFrame(n)' = PauseFrame(n)
    BY <1>1, <1>3, <1>7, <1>10, OpenFacts DEF PauseFrame
  <2>2. CASE f = PauseFrame(n)
    <3>1. About(f, n) /\ f.type = "approval_awaiting" /\ f.pause = work[n].pause
      BY <2>2 DEF PauseFrame, About
    <3>. QED BY <1>1, <1>2, <1>3, <2>1, <2>2, <3>1, NodesAfter, PauseAfter
  <2>3. CASE f # PauseFrame(n) /\ About(f, n)
    <3>1. ~Told(n)
      BY <1>3, <1>7, <1>10, <2>3 DEF PauseInv, OpenOK, TellsNothingElse
    <3>2. view'.nodes[n] = NodeAfter(view.nodes[n], f)
      BY <1>1, <1>2, <1>3, <2>3, NodesAfter
    <3>3. work[n].pause # 0
      BY <1>2, <1>10 DEF PauseInv, OpenOK
    <3>4. CASE f.type = "approval_awaiting"
      <4>1. f = [type |-> "approval_awaiting", node |-> n, pause |-> f.pause]
        BY <1>3, <2>3, <3>4 DEF WireFrame, About
      <4>2. f.pause # work[n].pause
        BY <2>3, <4>1 DEF PauseFrame
      <4>3. view'.nodes[n].pause = f.pause
        BY <1>2, <1>3, <2>1, <3>2, <3>4, PauseAfter
      <4>. QED BY <2>1, <2>3, <3>1, <4>2, <4>3 DEF Told
    <3>5. CASE f.type # "approval_awaiting"
      <4>1. view'.nodes[n].pause \in {0, view.nodes[n].pause}
        BY <1>2, <1>3, <2>1, <3>2, <3>5, PauseAfter
      <4>. QED BY <2>1, <2>3, <3>1, <3>3, <4>1 DEF Told
    <3>. QED BY <3>4, <3>5
  <2>4. CASE ~About(f, n)
    <3>1. f # PauseFrame(n)
      BY <2>4 DEF PauseFrame, About
    <3>. QED BY <1>1, <1>2, <1>3, <2>1, <2>4, <3>1, NodesAfter
  <2>. QED BY <2>2, <2>3, <2>4
<1>11. ASSUME NEW n \in Steps, IsOpen(n), Told(n)
       PROVE  f = PauseFrame(n) \/ ~About(f, n)
  BY <1>10, <1>11
<1>12. ASSUME NEW n \in Steps, IsOpen(n), IsShown(n)
       PROVE  IsShown(n)'
  <2>1. Told(n) /\ work'[n] = work[n]
    BY <1>10, <1>12 DEF IsShown, Told
  <2>2. CASE f = PauseFrame(n)
    <3>1. view'.nodes[n] = [status |-> "awaiting", pause |-> work[n].pause]
      BY <1>10, <1>12, <2>2
    <3>. QED BY <2>1, <3>1 DEF IsShown
  <2>3. CASE ~About(f, n)
    <3>1. view'.nodes[n] = view.nodes[n]
      BY <1>10, <1>12, <2>3
    <3>. QED BY <1>12, <2>1, <3>1 DEF IsShown
  <2>. QED BY <1>11, <1>12, <2>1, <2>2, <2>3
<1>13. ASSUME NEW n \in Steps, IsOpen(n)'
       PROVE  OpenOK(n)'
  <2>1. IsOpen(n) /\ OpenOK(n)
    BY <1>1, <1>13 DEF IsOpen, PauseInv
  <2>2. PauseFrame(n)' = PauseFrame(n) /\ work'[n] = work[n]
    BY <1>10, <2>1
  <2>3. LastWord(n)'
    <3>. SUFFICES ASSUME NEW i \in 1 .. Len(wire'.frames), NEW j \in 1 .. Len(wire'.frames),
                         i < j, wire'.frames[i] = PauseFrame(n), About(wire'.frames[j], n)
                  PROVE  wire'.frames[j] = PauseFrame(n)
      BY <2>2 DEF LastWord, About
    <3>1. i + 1 < j + 1
      BY <1>3, <1>4
    <3>. QED BY <1>5, <2>1, <3>1 DEF OpenOK, LastWord
  <2>4. ASSUME Told(n)'
        PROVE  TellsNothingElse(n)'
    <3>1. CASE f = PauseFrame(n)
      <4>1. view'.nodes[n].status = "awaiting"
        <5>1. view'.nodes[n] = [status |-> "awaiting", pause |-> work[n].pause]
          BY <1>10, <2>1, <3>1
        <5>. QED BY <5>1
      <4>2. ASSUME NEW j \in 1 .. Len(wire'.frames), About(wire'.frames[j], n)
            PROVE  wire'.frames[j] = PauseFrame(n)
        <5>1. 1 < j + 1
          BY <1>3, <1>4
        <5>. QED BY <1>3, <1>5, <1>7, <2>1, <3>1, <4>2, <5>1 DEF OpenOK, LastWord
      <4>3. fetch'.kind # "answer"
        <5>1. MayHydrate(f) = {TRUE}
          BY <3>1 DEF MayHydrate, PauseFrame
        <5>2. PICK again \in MayHydrate(f) : fetch' = IF again THEN Hydrate ELSE fetch
          BY <1>1
        <5>3. again = TRUE
          BY <5>1, <5>2
        <5>. QED BY <1>6, <5>2, <5>3
      <4>. QED BY <2>2, <4>1, <4>2, <4>3 DEF TellsNothingElse, About
    <3>2. CASE ~About(f, n)
      <4>1. Told(n) /\ view'.nodes[n] = view.nodes[n]
        BY <1>10, <2>1, <2>2, <2>4, <3>2 DEF Told
      <4>2. TellsNothingElse(n)
        BY <2>1, <4>1 DEF OpenOK
      <4>3. \A j \in 1 .. Len(wire'.frames) :
              About(wire'.frames[j], n) => wire'.frames[j] = PauseFrame(n)
        BY <1>5, <4>2 DEF TellsNothingElse
      <4>4. fetch'.kind = "answer" => fetch'.nodes[n].status = "awaiting"
        BY <1>6, <4>2 DEF TellsNothingElse
      <4>. QED BY <2>2, <4>1, <4>2, <4>3, <4>4 DEF TellsNothingElse, About
    <3>. QED BY <1>10, <2>1, <2>4, <3>1, <3>2
  <2>5. ComesIntoView(n)'
    <3>1. CASE IsShown(n)
      BY <1>12, <2>1, <3>1 DEF ComesIntoView
    <3>2. ASSUME NEW i \in 1 .. Len(wire.frames), wire.frames[i] = PauseFrame(n)
          PROVE  ComesIntoView(n)'
      <4>1. CASE i = 1
        <5>1. view'.nodes[n] = [status |-> "awaiting", pause |-> work[n].pause]
          BY <1>3, <1>10, <2>1, <3>2, <4>1
        <5>. QED BY <2>2, <5>1 DEF ComesIntoView, IsShown
      <4>2. CASE i # 1
        <5>1. i - 1 \in 1 .. Len(wire'.frames) /\ (i - 1) + 1 = i
          BY <1>3, <1>4, <4>2
        <5>2. wire'.frames[i - 1] = PauseFrame(n)'
          BY <1>5, <2>2, <3>2, <5>1
        <5>. QED BY <5>1, <5>2 DEF ComesIntoView
      <4>. QED BY <4>1, <4>2
    <3>. QED BY <1>1, <2>1, <3>1, <3>2 DEF OpenOK, ComesIntoView
  <2>. QED BY <1>1, <2>1, <2>2, <2>3, <2>4, <2>5 DEF OpenOK
<1>14. KeepsShown
  BY <1>12 DEF KeepsShown
<1>. QED BY <1>9, <1>13, <1>14 DEF PauseInv
-----------------------------------------------------------------------------
(* Following a run: the socket comes and goes.                             *)

LEMMA SocketKeepsPauses ==
    ASSUME FollowInv, PauseInv, UNCHANGED <<launch, work, nodeRows, view>>,
           fetch' = fetch \/ fetch'.kind = "sent", LaunchInv',
           \/ /\ wire'.frames = wire.frames
              /\ wire.at \in {"connecting", "reconnecting"} =>
                    wire'.at \in {"connecting", "reconnecting"}
           \/ /\ Len(wire'.frames) = 0
              /\ wire.stopped \/ wire'.at = "reconnecting"
    PROVE  PauseInv' /\ KeepsShown
<1>1. TokenInv'
  BY DEF PauseInv, TokenInv
<1>2. ASSUME NEW n \in Steps, IsOpen(n)'
      PROVE  OpenOK(n)'
  <2>1. /\ IsOpen(n) /\ OpenOK(n) /\ PauseFrame(n)' = PauseFrame(n)
        /\ IsShown(n)' <=> IsShown(n)
    BY <1>2 DEF IsOpen, PauseInv, PauseFrame, IsShown
  <2>2. LastWord(n)'
    BY <2>1 DEF OpenOK, LastWord, About
  <2>3. Told(n)' => TellsNothingElse(n)'
    BY <2>1 DEF OpenOK, Told, TellsNothingElse, About
  <2>4. ComesIntoView(n)'
    <3>1. ~wire.stopped
      BY <2>1, OpenFacts
    <3>. QED BY <2>1, <3>1 DEF OpenOK, ComesIntoView
  <2>. QED BY <2>1, <2>2, <2>3, <2>4 DEF OpenOK
<1>3. KeepsShown
  BY DEF KeepsShown, IsShown
<1>. QED BY <1>1, <1>2, <1>3 DEF PauseInv

LEMMA SocketPauses ==
    ASSUME FollowInv, PauseInv, WsOpens \/ WsCloses \/ WsIsLost \/ WsReopens
    PROVE  PauseInv' /\ KeepsShown
<1>1. /\ wire \in WireType /\ WireOK(wire, launch) /\ LaunchInv
      /\ UNCHANGED <<launch, work, nodeRows, view>>
  BY DEF FollowInv, WireInv, PauseInv, WsOpens, WsCloses, WsIsLost, WsReopens, serverRun
<1>2. CASE WsOpens
  <2>1. wire.at = "accepted" /\ wire' = [wire EXCEPT !.at = "open"] /\ fetch'.kind = "sent"
    BY <1>2 DEF WsOpens, Hydrate
  <2>2. /\ wire'.frames = wire.frames /\ wire'.subscribed = wire.subscribed
        /\ wire.at \notin {"connecting", "reconnecting"}
    BY <1>1, <2>1 DEF WireType
  <2>3. LaunchInv'
    BY <1>1, <2>1, <2>2 DEF LaunchInv, Undisturbed
  <2>. QED BY <1>1, <2>1, <2>2, <2>3, SocketKeepsPauses
<1>3. CASE WsCloses \/ WsIsLost
  <2>1. /\ fetch' = fetch
        /\ \E d \in {wire.drops, wire.drops + 1} : wire' = [AfterClose EXCEPT !.drops = d]
    <3>1. AfterClose = [AfterClose EXCEPT !.drops = wire.drops]
      BY <1>1 DEF AfterClose, WireType
    <3>2. AfterClose.drops = wire.drops
      BY <1>1 DEF AfterClose, WireType
    <3>. HIDE DEF AfterClose
    <3>. QED BY <1>3, <3>1, <3>2 DEF WsCloses, WsIsLost
  <2>2. /\ Len(wire'.frames) = 0
        /\ wire'.at = IF wire.stopped THEN "closed" ELSE "reconnecting"
    BY <1>1, <2>1 DEF AfterClose, WireType
  <2>3. LaunchInv'
    BY <1>1, <2>2 DEF LaunchInv, Undisturbed
  <2>. QED BY <1>1, <2>1, <2>2, <2>3, SocketKeepsPauses
<1>4. CASE WsReopens
  <2>1. wire' = [wire EXCEPT !.at = "connecting"] /\ fetch' = fetch
    BY <1>4 DEF WsReopens
  <2>2. wire'.frames = wire.frames /\ wire'.at = "connecting"
    BY <1>1, <2>1 DEF WireType
  <2>3. LaunchInv'
    BY <1>1, <2>2 DEF LaunchInv, Undisturbed
  <2>. QED BY <1>1, <2>1, <2>2, <2>3, SocketKeepsPauses
<1>. QED BY <1>2, <1>3, <1>4

\* An accepted socket replays the open pauses, and nothing but them.
LEMMA ReplayPauses ==
    ASSUME FollowInv, PauseInv, WsIsAccepted, launch.status \in {"running", "paused"}
    PROVE  PauseInv' /\ KeepsShown
<1>. DEFINE S == {PauseFrame(n) : n \in Paused}
<1>1. /\ wire \in WireType /\ work \in [Steps -> WorkType]
      /\ UNCHANGED <<launch, work, nodeRows, fetch, view>> /\ LaunchInv /\ TokenInv
      /\ wire' = [wire EXCEPT !.at = "accepted", !.subscribed = TRUE, !.frames = SetToSeq(S)]
  BY PauseTypes DEF PauseInv, WsIsAccepted, serverRun, PauseFrame
<1>2. /\ Paused \subseteq Steps /\ [n \in Paused |-> PauseFrame(n)] \in [Paused -> WireFrame]
      /\ \A n \in Steps : IsOpen(n) <=> n \in Paused
  BY <1>1 DEF Paused, PauseFrame, WireFrame, WorkType, IsOpen
<1>3. /\ SetToSeq(S) \in Seq(S)
      /\ \A e \in S : \E i \in 1 .. Len(SetToSeq(S)) : SetToSeq(S)[i] = e
  <2>. DEFINE g == [n \in Paused |-> PauseFrame(n)]
  <2>1. S = {g[n] : n \in Paused} /\ g \in [Paused -> WireFrame] /\ Paused \subseteq Steps
    BY <1>2
  <2>. HIDE DEF g, S
  <2>2. IsFiniteSet(S)
    BY <2>1, FewFrames
  <2>. QED BY <2>2, AllInSequence
<1>4. \A s \in Seq(S) : \A i \in 1 .. Len(s) : s[i] \in S
  OBVIOUS
<1>. HIDE DEF S
<1>5. /\ wire'.at = "accepted" /\ wire'.subscribed /\ wire'.frames = SetToSeq(S)
  BY <1>1 DEF WireType
<1>6. \A i \in 1 .. Len(wire'.frames) : \E n \in Paused : wire'.frames[i] = PauseFrame(n)
  <2>1. \A i \in 1 .. Len(wire'.frames) : wire'.frames[i] \in S
    BY <1>3, <1>4, <1>5
  <2>. QED BY <2>1 DEF S
<1>7. LaunchInv'
  BY <1>1, <1>5 DEF LaunchInv, Undisturbed
<1>8. TokenInv'
  <2>1. \A i \in 1 .. Len(wire'.frames) : wire'.frames[i].pause <= launch.pauses
    <3>. TAKE i \in 1 .. Len(wire'.frames)
    <3>1. PICK n \in Paused : wire'.frames[i] = PauseFrame(n)
      BY <1>6
    <3>2. wire'.frames[i].pause = work[n].pause
      BY <3>1 DEF PauseFrame
    <3>. QED BY <1>1, <1>2, <3>2 DEF TokenInv
  <2>. QED BY <1>1, <2>1 DEF TokenInv
<1>9. ASSUME NEW n \in Steps, IsOpen(n)'
      PROVE  OpenOK(n)'
  <2>1. IsOpen(n) /\ OpenOK(n) /\ PauseFrame(n)' = PauseFrame(n) /\ n \in Paused
    BY <1>1, <1>2, <1>9 DEF IsOpen, PauseInv, PauseFrame
  <2>2. \A i \in 1 .. Len(wire'.frames) :
          About(wire'.frames[i], n) => wire'.frames[i] = PauseFrame(n)
    <3>. TAKE i \in 1 .. Len(wire'.frames)
    <3>1. PICK m \in Paused : wire'.frames[i] = PauseFrame(m)
      BY <1>6
    <3>2. About(wire'.frames[i], n) => m = n
      BY <3>1 DEF About, PauseFrame
    <3>. QED BY <3>1, <3>2
  <2>3. LastWord(n)'
    BY <2>1, <2>2 DEF LastWord, About
  <2>4. Told(n)' => TellsNothingElse(n)'
    BY <1>1, <2>1, <2>2 DEF OpenOK, Told, TellsNothingElse, About
  <2>5. ComesIntoView(n)'
    <3>1. PauseFrame(n) \in S
      BY <2>1 DEF S
    <3>. QED BY <1>3, <1>5, <2>1, <3>1 DEF ComesIntoView
  <2>. QED BY <1>1, <2>1, <2>3, <2>4, <2>5 DEF OpenOK
<1>10. KeepsShown
  BY <1>1 DEF KeepsShown, IsShown
<1>. QED BY <1>7, <1>8, <1>9, <1>10 DEF PauseInv

LEMMA AcceptedPauses ==
    ASSUME FollowInv, PauseInv, WsIsAccepted
    PROVE  PauseInv' /\ KeepsShown
<1>1. CASE launch.status \in {"running", "paused"}
  BY <1>1, ReplayPauses
<1>2. CASE launch.status \notin {"running", "paused"}
  <2>1. /\ wire \in WireType /\ LaunchInv /\ launch \in LaunchType
        /\ UNCHANGED <<launch, work, nodeRows, fetch, view>>
        /\ wire' = [wire EXCEPT !.at = "accepted", !.ended = TRUE,
                        !.frames = <<[type |-> "run_done", status |-> launch.status]>>]
    BY <1>2, PauseTypes DEF PauseInv, WsIsAccepted, serverRun
  <2>2. \A n \in Steps : ~IsOpen(n)' /\ work'[n].pause = work[n].pause
    BY <1>2, <2>1 DEF PauseInv, OpenOK, IsOpen
  <2>3. \A i \in 1 .. Len(wire'.frames) : wire'.frames[i].type # "approval_awaiting"
    <3>1. wire'.frames = <<[type |-> "run_done", status |-> launch.status]>>
      BY <2>1 DEF WireType
    <3>. QED BY <3>1
  <2>4. Undisturbed(launch) => launch.over
    BY <1>2, <2>1 DEF FollowInv, ServerInv, Undisturbed, IsSettled, LaunchType, RunStatus
  <2>5. LaunchInv'
    BY <2>1, <2>4 DEF LaunchInv, Undisturbed
  <2>. QED BY <2>1, <2>2, <2>3, <2>5, NobodyPauses
<1>. QED BY <1>1, <1>2

-----------------------------------------------------------------------------
(* Following a run: the theorems about its pauses.                         *)

LEMMA InitPauses == FollowInit => PauseInv
<1>. SUFFICES ASSUME FollowInit
              PROVE  PauseInv
  OBVIOUS
<1>1. \A n \in Steps : ~IsOpen(n)
  BY DEF FollowInit, IsOpen
<1>2. LaunchInv
  BY DEF FollowInit, LaunchInv
<1>3. TokenInv
  BY DEF FollowInit, TokenInv, Absent
<1>. QED BY <1>1, <1>2, <1>3 DEF PauseInv

LEMMA PauseStep ==
    FollowInv /\ FollowInv' /\ PauseInv /\ [FollowNext]_followVars
        => PauseInv' /\ [KeepsShown]_followVars
<1>. SUFFICES ASSUME FollowInv, FollowInv', PauseInv, [FollowNext]_followVars
              PROVE  PauseInv' /\ [KeepsShown]_followVars
  OBVIOUS
<1>1. launch' \in LaunchType /\ work' \in [Steps -> WorkType]
  BY DEF FollowInv, ServerShapes
<1>2. CASE UNCHANGED followVars
  BY <1>2 DEF followVars, PauseInv, LaunchInv, TokenInv, IsOpen, OpenOK, LastWord, PauseFrame,
              About, Told, TellsNothingElse, ComesIntoView, IsShown, Undisturbed
<1>3. CASE FollowNext
  BY <1>1, <1>3, NodePauseSteps, AbortPauseSteps, AnswerPauses, FailPauses, ArrivalPauses,
     AppliedPauses, AcceptedPauses, SocketPauses DEF FollowNext, ServerFollowed
<1>. QED BY <1>2, <1>3

LEMMA AlwaysPauses == FollowSpec => [](FollowInv /\ PauseInv)
<1>. QED BY InitFollow, InitPauses, FollowStep, PauseStep, PTL DEF FollowSpec

\* A pause that is open is shown with its token, or a frame that tells of it is on the
\* socket, or the socket is about to be accepted and then replays it (the open handler of
\* workflows-handler.ts): whatever is lost and whichever GET overtakes what, the view has
\* not missed it.
THEOREM OpenPausesArrive == FollowSpec => []OpenPausesAreComing
<1>1. PauseInv => OpenPausesAreComing
  BY DEF PauseInv, OpenOK, OpenPausesAreComing
<1>. QED BY <1>1, AlwaysPauses, PTL

\* A pause that is shown stays shown until it is over: no late answer of a GET, no frame
\* that was under way and no loss of the socket takes it, or its token, from the view
\* (mergeNode and applyFrame).
THEOREM ShownPausesAreKept == FollowSpec => ShownPausesStay
<1>1. FollowInv /\ FollowInv' /\ PauseInv /\ [FollowNext]_followVars => [KeepsShown]_followVars
  BY PauseStep
<1>. QED BY <1>1, AlwaysPauses, PTL DEF FollowSpec, ShownPausesStay
=============================================================================
