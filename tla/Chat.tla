-------------------------------- MODULE Chat --------------------------------
(***************************************************************************)
(* A chat: the view that sends prompts and follows the frames              *)
(* (apps/web/src/views/Chat.tsx) over its reconnecting socket              *)
(* (apps/web/src/ws.ts), and the turns the server runs for it              *)
(* (apps/server/src/chat-handler.ts, conversation-store.ts).               *)
(*                                                                         *)
(* Every doSend is numbered.  A conversation bears the number of the send  *)
(* that created it.  Chunk frames only change what is displayed; here they *)
(* are counted where they are sent.                                        *)
(***************************************************************************)
EXTENDS Integers, Sequences

CONSTANTS
    MaxPrompts,     \* bound on the prompts the user enters
    MaxSockets,     \* bound on the sockets: the last one is not lost
    MaxContent      \* bound on the content chunks of a turn

ASSUME ChatAssumption ==
    MaxPrompts \in Nat /\ MaxSockets \in Nat \ {0} /\ MaxContent \in Nat

\* A prompt is sent once more when its conversation is gone: this bounds the sends.
Sends == 1 .. 2 * MaxPrompts
Sockets == 1 .. MaxSockets

VARIABLES
    tab,        \* the refs of the view and the state of its socket
    issued,     \* calls of doSend so far
    prompts,    \* prompts entered so far
    up, down,   \* what is under way on each socket: requests, frames
    gone,       \* sockets the server has seen closed (`abort`)
    turns,      \* each request at the server
    kept, lost  \* conversations that exist, and those deleted by somebody else

chatVars == <<tab, issued, prompts, up, down, gone, turns, kept, lost>>
serverSide == <<gone, kept, lost>>

NoAnswer == [content |-> 0, truncated |-> FALSE]

ChatTypeOK ==
    /\ tab.ws \in {"none", "opening", "open"}
    /\ tab.sock \in 0 .. MaxSockets
    /\ tab.conv \in {0} \cup Sends /\ tab.active \in {0} \cup Sends
    /\ tab.creating \subseteq Sends
    /\ {tab.streaming, tab.queued, tab.error} \subseteq BOOLEAN
    /\ issued \in {0} \cup Sends /\ prompts \in 0 .. MaxPrompts
    /\ \A t \in Sends : turns[t].at \in {"none", "gating", "streaming", "over"}
    /\ kept \cup lost \subseteq Sends /\ kept \cap lost = {}

ChatInit ==
    /\ tab = [ws |-> "none", sock |-> 0, preOpen |-> <<>>, conv |-> 0, active |-> 0,
              creating |-> {}, streaming |-> FALSE, queued |-> FALSE, error |-> FALSE]
    /\ issued = 0 /\ prompts = 0
    /\ up = [s \in Sockets |-> <<>>]
    /\ down = [s \in Sockets |-> <<>>]
    /\ gone = {}
    /\ turns = [t \in Sends |-> [at |-> "none", conv |-> 0, sock |-> 0, sent |-> 0,
                                 told |-> "nothing", answer |-> NoAnswer]]
    /\ kept = {} /\ lost = {}

-----------------------------------------------------------------------------
(* Sending.  doSend is cut at its only await, the POST of a conversation.  *)

\* The second half: the optimistic pair is shown and the frame is sent, or kept until
\* a socket opens.
SendRequest(tb, t, c) ==
    /\ tab' = [tb EXCEPT !.active = t,
                         !.ws = IF tb.ws = "none" THEN "opening" ELSE tb.ws,
                         !.preOpen = IF tb.ws = "open" THEN @ ELSE Append(@, t)]
    /\ up' = IF tb.ws = "open" THEN [up EXCEPT ![tb.sock] = Append(@, t)] ELSE up
    /\ turns' = [turns EXCEPT ![t].conv = c]

DoSend(tb) ==
    LET t == issued + 1
        begun == [tb EXCEPT !.streaming = TRUE, !.error = FALSE]
    IN  /\ issued' = t
        /\ IF tb.conv # 0 THEN SendRequest(begun, t, tb.conv)
           ELSE /\ tab' = [begun EXCEPT !.creating = @ \cup {t}]
                /\ UNCHANGED <<up, turns>>

\* Enter: during a turn the prompt waits in the only place of the queue.
EnterPrompt ==
    /\ prompts < MaxPrompts
    /\ prompts' = prompts + 1
    /\ \/ tab.streaming /\ tab' = [tab EXCEPT !.queued = TRUE]
          /\ UNCHANGED <<issued, up, turns>>
       \/ ~tab.streaming /\ DoSend(tab)
    /\ UNCHANGED <<down, serverSide>>

CancelQueued ==
    /\ tab.queued
    /\ tab' = [tab EXCEPT !.queued = FALSE]
    /\ UNCHANGED <<issued, prompts, up, down, turns, serverSide>>

Created(t) ==
    /\ t \in tab.creating
    /\ \/ /\ kept' = kept \cup {t}
          /\ SendRequest([tab EXCEPT !.creating = @ \ {t}, !.conv = t], t, t)
       \/ /\ tab' = [tab EXCEPT !.creating = @ \ {t}, !.streaming = FALSE, !.error = TRUE]
          /\ UNCHANGED <<up, turns, kept>>
    /\ UNCHANGED <<issued, prompts, down, gone, lost>>

-----------------------------------------------------------------------------
(* The socket of the view.                                                 *)

ChatOpens ==
    /\ tab.ws = "opening"
    /\ tab' = [tab EXCEPT !.ws = "open", !.sock = @ + 1, !.preOpen = <<>>]
    /\ up' = [up EXCEPT ![tab.sock + 1] = tab.preOpen]
    /\ UNCHANGED <<issued, prompts, down, turns, serverSide>>

\* A bug to catch: the turn is not given up.
ChatCloses_KeepWaiting ==
    /\ tab.ws = "open" /\ tab.sock < MaxSockets
    /\ tab' = [tab EXCEPT !.ws = "opening"]
    /\ down' = [down EXCEPT ![tab.sock] = <<>>]
    /\ UNCHANGED <<issued, prompts, up, turns, serverSide>>

\* The connection is lost with what is under way to the view.  Nothing is sent again.
ChatCloses ==
    /\ tab.ws = "open" /\ tab.sock < MaxSockets
    /\ tab' = [tab EXCEPT !.ws = "opening", !.active = 0,
                          !.streaming = @ /\ tab.active = 0,
                          !.error = @ \/ tab.active # 0]
    /\ down' = [down EXCEPT ![tab.sock] = <<>>]
    /\ UNCHANGED <<issued, prompts, up, turns, serverSide>>

\* abortActiveStream, then the view follows conversation c.
AbortActiveStream(c) ==
    /\ tab.ws = "open" => tab.sock < MaxSockets
    /\ tab' = [tab EXCEPT !.ws = "none", !.preOpen = <<>>, !.active = 0,
                          !.streaming = FALSE, !.queued = FALSE, !.conv = c,
                          !.error = @ /\ c = tab.conv]
    /\ down' = [s \in Sockets |-> IF s = tab.sock THEN <<>> ELSE down[s]]
    /\ UNCHANGED <<issued, prompts, up, turns, serverSide>>

Stop == tab.streaming /\ AbortActiveStream(tab.conv)
SwitchChat == \E c \in kept \cup {0} : c # tab.conv /\ AbortActiveStream(c)

-----------------------------------------------------------------------------
(* handleFrame                                                             *)

Ended(tb) == [tb EXCEPT !.active = 0, !.streaming = FALSE]

OnError(f) ==
    /\ f.event \in {"error", "unknown"}
    /\ \/ \* The conversation is gone: once more, with a new one.  The id compared
          \* with lastRetriedUserIdRef is new in every send, so it never equals it.
          /\ f.event = "unknown" /\ tab.active # 0
          /\ DoSend([Ended(tab) EXCEPT !.conv = 0])
       \/ /\ f.event = "unknown" => tab.active = 0
          /\ tab' = [Ended(tab) EXCEPT !.error = TRUE,
                                       !.conv = IF f.event = "unknown" THEN 0 ELSE @]
          /\ UNCHANGED <<issued, up, turns>>

\* Also the `done` that follows an `error`.
OnDone(f) ==
    /\ f.event = "done"
    /\ IF tab.queued THEN DoSend([Ended(tab) EXCEPT !.queued = FALSE])
       ELSE tab' = Ended(tab) /\ UNCHANGED <<issued, up, turns>>

HandleFrame ==
    /\ tab.ws = "open" /\ down[tab.sock] # <<>>
    /\ LET f == Head(down[tab.sock])
       IN  \/ /\ f.event # "unknown" /\ f.conv # tab.conv
              /\ UNCHANGED <<tab, issued, up, turns>>
           \/ /\ f.event = "unknown" \/ f.conv = tab.conv
              /\ OnError(f) \/ OnDone(f)
    /\ down' = [down EXCEPT ![tab.sock] = Tail(@)]
    /\ UNCHANGED <<prompts, serverSide>>

-----------------------------------------------------------------------------
(* handleChatRequest                                                       *)

InFlight(s) == \E t \in Sends : turns[t].sock = s /\ turns[t].at \in {"gating", "streaming"}

\* Frames to a socket nobody listens to are lost.
SentTo(t, s, events) ==
    IF tab.ws = "open" /\ tab.sock = s
    THEN [down EXCEPT ![s] = @ \o [i \in DOMAIN events |-> [event |-> events[i],
                                                            conv |-> turns[t].conv]]]
    ELSE down

Refuses(t, s, event) ==
    /\ turns' = [turns EXCEPT ![t].at = "over", ![t].sock = 0, ![t].told = "error"]
    /\ down' = SentTo(t, s, <<event, "done">>)

\* Up to the first await.  A provider or a sandbox that is not there refuses the turn.
OnRequest(s) ==
    /\ up[s] # <<>> /\ s \notin gone
    /\ up' = [up EXCEPT ![s] = Tail(@)]
    /\ LET t == Head(up[s])
       IN  \/ InFlight(s) /\ Refuses(t, s, "error")
           \/ ~InFlight(s) /\ turns[t].conv \notin kept /\ Refuses(t, s, "unknown")
           \/ ~InFlight(s) /\ turns[t].conv \in kept /\ Refuses(t, s, "error")
           \/ /\ ~InFlight(s) /\ turns[t].conv \in kept
              /\ turns' = [turns EXCEPT ![t].at = "gating", ![t].sock = s]
              /\ UNCHANGED down
    /\ UNCHANGED <<tab, issued, prompts, serverSide>>

\* The recall, the tool gate and the budget gate.
Gated(t) ==
    /\ turns[t].at = "gating"
    /\ \/ turns' = [turns EXCEPT ![t].at = "streaming"] /\ UNCHANGED down
       \/ IF turns[t].sock \in gone
          THEN turns' = [turns EXCEPT ![t].at = "over", ![t].sock = 0] /\ UNCHANGED down
          ELSE Refuses(t, turns[t].sock, "error")
    /\ UNCHANGED <<tab, issued, prompts, up, serverSide>>

\* A bug to catch: an aborted turn returns before it is persisted.
TurnFinally_ReturnsWhenAborted(t, failed) ==
    LET s == turns[t].sock
        ends == IF s \in gone THEN <<>>
                ELSE IF failed THEN <<"error", "done">> ELSE <<"done">>
    IN  /\ turns' = [turns EXCEPT ![t].at = "over", ![t].sock = 0,
                                  ![t].told = IF ends = <<>> THEN @ ELSE Head(ends),
                                  ![t].answer = IF s \in gone THEN @
                                                ELSE [content |-> turns[t].sent,
                                                      truncated |-> failed]]
        /\ down' = SentTo(t, s, ends)

\* The finally block.  Nothing is appended to a conversation that has been deleted.
TurnFinally(t, failed) ==
    LET s == turns[t].sock
        aborted == s \in gone
        ends == IF aborted THEN <<>> ELSE IF failed THEN <<"error", "done">> ELSE <<"done">>
    IN  /\ turns' = [turns EXCEPT ![t].at = "over", ![t].sock = 0,
                                  ![t].told = IF ends = <<>> THEN @ ELSE Head(ends),
                                  ![t].answer = IF turns[t].conv \notin kept THEN @
                                                ELSE [content |-> turns[t].sent,
                                                      truncated |-> aborted \/ failed]]
        /\ down' = SentTo(t, s, ends)

\* A chunk after the abort ends the turn.
Chunk(t) ==
    /\ turns[t].at = "streaming"
    /\ \/ /\ turns[t].sock \notin gone /\ turns[t].sent < MaxContent
          /\ turns' = [turns EXCEPT ![t].sent = @ + 1]
          /\ UNCHANGED down
       \/ turns[t].sock \in gone /\ TurnFinally(t, FALSE)
    /\ UNCHANGED <<tab, issued, prompts, up, serverSide>>

ChatStreamEnds(t) ==
    /\ turns[t].at = "streaming"
    /\ \E failed \in BOOLEAN : TurnFinally(t, failed)
    /\ UNCHANGED <<tab, issued, prompts, up, serverSide>>

\* close(ws): the socket's turn is aborted.  The close of an idle one changes nothing.
HangUp(s) ==
    /\ s <= tab.sock /\ s \notin gone /\ ~(tab.ws = "open" /\ tab.sock = s)
    /\ up[s] # <<>> \/ InFlight(s)
    /\ gone' = gone \cup {s}
    /\ up' = [up EXCEPT ![s] = <<>>]
    /\ UNCHANGED <<tab, issued, prompts, down, turns, kept, lost>>

\* Another client deletes a conversation, once; its messages go with it.
Delete(c) ==
    /\ c \in kept /\ lost = {}
    /\ kept' = kept \ {c} /\ lost' = lost \cup {c}
    /\ turns' = [t \in Sends |->
                    IF turns[t].conv # c THEN turns[t] ELSE [turns[t] EXCEPT !.answer = NoAnswer]]
    /\ UNCHANGED <<tab, issued, prompts, up, down, gone>>

\* What the server does for a request, but for the time the provider takes.
ChatServerSteps == (\E s \in Sockets : OnRequest(s)) \/ \E t \in Sends : Gated(t)

ChatNext ==
    \/ EnterPrompt \/ CancelQueued \/ Stop \/ SwitchChat
    \/ ChatOpens \/ ChatCloses \/ HandleFrame
    \/ \E t \in Sends : Created(t) \/ Gated(t) \/ Chunk(t) \/ ChatStreamEnds(t) \/ Delete(t)
    \/ \E s \in Sockets : OnRequest(s) \/ HangUp(s)

ChatSpec == ChatInit /\ [][ChatNext]_chatVars

-----------------------------------------------------------------------------
(* Properties.                                                             *)

\* What a turn had streamed is in the conversation when it is over, however it ended
\* and whoever was still listening, and it is marked as truncated unless the client
\* was told that the turn is done.
StreamedIsStored ==
    \A t \in Sends :
        turns[t].at = "over" /\ turns[t].sent > 0 /\ turns[t].conv \in kept
            => /\ turns[t].answer.content = turns[t].sent
               /\ turns[t].answer.truncated <=> turns[t].told # "done"

\* The composer does not wait for a turn for ever: the frames that end it come, or
\* the loss of the socket does, also for a prompt that waited for the socket to
\* open, was refused, or was sent again with a new conversation.
ComposerComesBack == tab.streaming ~> ~tab.streaming

\* The step that ends a wait is always there to be taken: a conversation being created,
\* the request with the view, the socket or the server, or the frames that answer it.
Answers(f) == f.event = "unknown" \/ f.conv = tab.conv
UnderWay(t) ==
    \/ tab.ws = "opening" /\ \E i \in 1 .. Len(tab.preOpen) : tab.preOpen[i] = t
    \/ /\ tab.ws = "open"
       /\ \/ \E i \in 1 .. Len(up[tab.sock]) : up[tab.sock][i] = t
          \/ turns[t].at \in {"gating", "streaming"} /\ turns[t].sock = tab.sock
          \/ \E i \in 1 .. Len(down[tab.sock]) : Answers(down[tab.sock][i])

StreamingIsAwaited ==
    tab.streaming => \/ tab.creating # {}
                     \/ tab.active \in Sends /\ UnderWay(tab.active)

\* "Clean `done` flushes the queue. Provider errors leave it parked": a prompt that
\* waits is not sent when the turn before it ends in an error.
ErrorsLeaveTheQueueParked ==
    [][tab.error /\ tab.queued /\ ~tab'.queued => issued' = issued]_chatVars
=============================================================================
