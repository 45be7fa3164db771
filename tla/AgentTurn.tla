----------------------------- MODULE AgentTurn -----------------------------
(***************************************************************************)
(* One turn a rib runs on a provider, and the stream the rib reads:        *)
(* runTurn, cutoffAfterAbort and the relay of                              *)
(* apps/server/src/rib-agent-turn.ts.                                      *)
(*                                                                         *)
(* The provider is external: it yields chunks, ends, throws, or says       *)
(* nothing more.  An abort by the caller, the turn's timer and the grace   *)
(* period after an abort come whenever the turn awaits something.  A turn  *)
(* that is refused at once (an empty prompt, an abort that was there       *)
(* before it, no provider) ends without any of this.                       *)
(***************************************************************************)
EXTENDS Naturals, Sequences

CONSTANTS
    MaxChunks,      \* bound on the text and tool chunks of a turn
    RelayCap        \* RELAY_CHUNK_CAP

ASSUME TurnAssumption == MaxChunks \in Nat /\ RelayCap \in Nat

VARIABLES
    turnStage,      \* which await the turn is in
    turnAborted,    \* the controller's signal
    timedOut,
    cutoff,         \* the drain cutoff: off, armed or passed
    chunk,          \* the chunk held over the pause that follows an abort
    text,           \* text chunks taken into the answer
    chunks,         \* text and tool chunks yielded so far
    usage,          \* whether usage was reported
    failed,         \* an error chunk was seen
    result,         \* what the promise resolves to
    ledger,         \* usage events recorded for the turn
    relay,          \* tool chunks on their way to the stream, and `closed`
    reader          \* the generator toStream()

turnVars == <<turnStage, turnAborted, timedOut, cutoff, chunk, text, chunks, usage, failed,
              result, ledger, relay, reader>>
signalVars == <<turnAborted, timedOut, cutoff>>
answerVars == <<chunk, text, chunks, usage, failed>>
endVars == <<result, ledger>>
streamVars == <<relay, reader>>

ChunkKinds == {"text", "tool", "usage", "error", "none"}

TurnTypeOK ==
    /\ turnStage \in {"model", "tools", "asking", "pausing", "gate", "settled"}
    /\ {turnAborted, timedOut, usage, failed, relay.closed} \subseteq BOOLEAN
    /\ cutoff \in {"off", "armed", "passed"}
    /\ chunk \in ChunkKinds
    /\ {text, chunks} \subseteq 0 .. MaxChunks
    /\ result.status \in {"none", "ok", "error", "aborted", "timeout"}
    /\ ledger \in 0 .. 1
    /\ relay.queue \in Seq(1 .. MaxChunks) /\ Len(relay.queue) <= RelayCap
    /\ reader \in {"looking", "parked", "done"}

TurnInit ==
    /\ turnStage = "model"
    /\ turnAborted = FALSE /\ timedOut = FALSE /\ cutoff = "off"
    /\ chunk = "none" /\ text = 0 /\ chunks = 0 /\ usage = FALSE /\ failed = FALSE
    /\ result = [status |-> "none", text |-> 0]
    /\ ledger = 0
    /\ relay = [queue |-> <<>>, closed |-> FALSE]
    /\ reader = "looking"

-----------------------------------------------------------------------------
(* The signal                                                              *)

Streaming == turnStage \in {"asking", "pausing"}
Listening == turnStage \in {"model", "tools", "asking", "pausing"}

\* controller.abort() arms the cutoff once there is one.
FireAbort ==
    /\ turnAborted' = TRUE
    /\ cutoff' = IF Streaming THEN "armed" ELSE cutoff

CallerAborts ==
    /\ Listening /\ ~turnAborted
    /\ FireAbort
    /\ UNCHANGED <<turnStage, timedOut, answerVars, endVars, streamVars>>

TimerFires ==
    /\ Listening /\ ~turnAborted
    /\ FireAbort
    /\ timedOut' = TRUE
    /\ UNCHANGED <<turnStage, answerVars, endVars, streamVars>>

GracePasses ==
    /\ Streaming
    /\ cutoff = "armed"
    /\ cutoff' = "passed"
    /\ UNCHANGED <<turnStage, turnAborted, timedOut, answerVars, endVars, streamVars>>

-----------------------------------------------------------------------------
(* settle() and the returns                                                *)

\* A result, and a row in the ledger if the turn spent anything.
Settle(status, n) ==
    /\ turnStage' = "settled"
    /\ result' = [status |-> status, text |-> n]
    /\ ledger' = IF usage THEN ledger + 1 ELSE ledger
    /\ UNCHANGED <<signalVars, answerVars, streamVars>>

AbortStatus == IF timedOut THEN "timeout" ELSE "aborted"

\* requestedModel() has come back, early if the signal fired.
ModelIsKnown ==
    /\ turnStage = "model"
    /\ IF turnAborted
       THEN /\ turnStage' = "settled"
            /\ result' = [status |-> AbortStatus, text |-> 0]
       ELSE turnStage' = "tools" /\ UNCHANGED result
    /\ UNCHANGED <<signalVars, answerVars, ledger, streamVars>>

\* A bug to catch: the cutoff only hears of an abort that comes later.
ToolsAreKnown_Unarmed ==
    /\ turnStage = "tools"
    /\ turnStage' = "asking"
    /\ UNCHANGED <<signalVars, answerVars, endVars, streamVars>>

\* toolOptions() has come back, the policies it asks with it.
ToolsAreKnown ==
    /\ turnStage = "tools"
    /\ turnStage' = "asking"
    /\ cutoff' = IF turnAborted THEN "armed" ELSE "off"
    /\ UNCHANGED <<turnAborted, timedOut, answerVars, endVars, streamVars>>

\* After the loop, whatever broke it.
AfterStream ==
    IF turnAborted THEN Settle(AbortStatus, text)
    ELSE IF failed THEN Settle("error", text)
    ELSE turnStage' = "gate" /\ UNCHANGED <<signalVars, answerVars, endVars, streamVars>>

CutoffEndsTurn ==
    /\ turnStage = "asking"
    /\ cutoff = "passed"
    /\ AfterStream

StreamEnds ==
    /\ turnStage = "asking"
    /\ cutoff # "passed"
    /\ AfterStream

\* Errors that look like an abort or a timeout are reported as such.
ProviderThrows ==
    /\ turnStage = "asking"
    /\ cutoff # "passed"
    /\ IF turnAborted THEN Settle(AbortStatus, text)
       ELSE \E s \in {"error", "timeout", "aborted"} : Settle(s, text)

\* The response gate: allows or replaces the text, denies it, or throws.
GateAnswers ==
    /\ turnStage = "gate"
    /\ Settle("ok", text) \/ Settle("error", 0)

-----------------------------------------------------------------------------
(* The chunks                                                              *)

Pushed(n) ==
    LET q == Append(relay.queue, n) IN
    [relay EXCEPT !.queue = IF Len(q) > RelayCap THEN Tail(q) ELSE q]

Woken == IF reader = "parked" THEN "looking" ELSE reader

\* Usage is read even after an abort, the rest is not.
Take(kind) ==
    /\ usage' = (usage \/ kind = "usage")
    /\ text' = IF kind = "text" /\ ~turnAborted THEN text + 1 ELSE text
    /\ failed' = (failed \/ (kind = "error" /\ ~turnAborted))
    /\ IF kind = "tool" /\ ~turnAborted
       THEN relay' = Pushed(chunks') /\ reader' = Woken
       ELSE UNCHANGED streamVars
    /\ UNCHANGED <<signalVars, endVars>>

ProviderYields(kind) ==
    /\ turnStage = "asking"
    /\ cutoff # "passed"
    /\ kind \in {"text", "tool"} => chunks < MaxChunks
    /\ chunks' = IF kind \in {"text", "tool"} THEN chunks + 1 ELSE chunks
    /\ IF turnAborted
       THEN /\ turnStage' = "pausing" /\ chunk' = kind
            /\ UNCHANGED <<text, usage, failed, signalVars, endVars, streamVars>>
       ELSE Take(kind) /\ UNCHANGED <<turnStage, chunk>>

\* After an abort a macrotask passes before a chunk is looked at.
PauseEnds ==
    /\ turnStage = "pausing"
    /\ IF cutoff = "passed"
       THEN AfterStream
       ELSE /\ turnStage' = "asking" /\ chunk' = "none"
            /\ UNCHANGED chunks
            /\ Take(chunk)

-----------------------------------------------------------------------------
(* The stream of the rib                                                   *)

CloseRelay ==
    /\ turnStage = "settled" /\ ~relay.closed
    /\ relay' = [relay EXCEPT !.closed = TRUE]
    /\ reader' = Woken
    /\ UNCHANGED <<turnStage, signalVars, answerVars, endVars>>

\* A tool chunk, the end (text, error, done), or the wait for a notify.
ReaderLooks ==
    /\ reader = "looking"
    /\ IF relay.queue # <<>>
       THEN relay' = [relay EXCEPT !.queue = Tail(@)] /\ UNCHANGED reader
       ELSE reader' = (IF relay.closed THEN "done" ELSE "parked") /\ UNCHANGED relay
    /\ UNCHANGED <<turnStage, signalVars, answerVars, endVars>>

\* What the turn itself does; the provider's steps are not its own.
TurnSteps == ModelIsKnown \/ ToolsAreKnown \/ CutoffEndsTurn \/ PauseEnds \/ GateAnswers \/ CloseRelay

TurnNext ==
    \/ CallerAborts \/ TimerFires \/ GracePasses
    \/ TurnSteps \/ ReaderLooks
    \/ StreamEnds \/ ProviderThrows
    \/ \E k \in ChunkKinds \ {"none"} : ProviderYields(k)

TurnSpec == TurnInit /\ [][TurnNext]_turnVars

-----------------------------------------------------------------------------
(* Properties.                                                             *)

\* An aborted or timed-out turn settles and its stream ends, though the provider
\* may never say another word, or never stop talking.
AbortedTurnEnds == turnAborted ~> reader = "done"

\* The first of the caller's abort and the timer decides what an aborted turn is
\* called, its text stays what it was, and its spend is recorded once, also when
\* it was reported after the abort.
KeepsTheVerdict ==
    /\ turnAborted => timedOut' = timedOut /\ text' = text
    /\ turnAborted /\ result' # result =>
         result'.status = AbortStatus /\ result'.text \in {0, text}
    /\ turnStage # "settled" /\ turnStage' = "settled" =>
         ledger' = IF usage THEN 1 ELSE 0

FirstAbortDecides == [][KeepsTheVerdict]_turnVars

\* An abort that comes before there is a cutoff arms it all the same.
CutoffHearsTheAbort == Streaming /\ turnAborted => cutoff \in {"armed", "passed"}
=============================================================================
