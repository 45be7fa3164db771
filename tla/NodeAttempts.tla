---------------------------- MODULE NodeAttempts ----------------------------
(***************************************************************************)
(* runHandlerWithRetry (packages/workflows/src/executor.ts): one node, its *)
(* handler called again after retryable failures with a backoff between    *)
(* the attempts, and a cancel that may come at any time.                   *)
(*                                                                         *)
(* An error is of the kind its text shows: transient (a transport marker), *)
(* permanent, or an abort.  checkNodeOutput() turns a malformed success    *)
(* into a failure before anything else looks at it, with its usage.        *)
(***************************************************************************)
EXTENDS Naturals, Sequences, SequencesExt

CONSTANTS
    MaxRetries,     \* retry.max_attempts
    MaxUsage        \* bound on the tokens of one attempt; 0: none reported

ASSUME AttemptsAssumption == MaxRetries \in Nat /\ MaxUsage \in Nat

VARIABLES
    attemptStage,   \* calling, backoff, returned or threw
    attempt,        \* attempts before this one
    failure,        \* the last failure: result or error
    spent,          \* usage summed so far, 0 for undefined
    usages,         \* what each attempt reported
    cancelled,
    answer,         \* what the caller gets
    onError         \* retry.on_error

attemptVars ==
    <<attemptStage, attempt, failure, spent, usages, cancelled, answer, onError>>

Kinds == {"transient", "permanent", "abort"}
Nothing == [status |-> "none", usage |-> 0]

AttemptTypeOK ==
    /\ attemptStage \in {"calling", "backoff", "returned", "threw"}
    /\ attempt \in 0 .. MaxRetries
    /\ failure \in {"none", "result", "error"}
    /\ usages \in Seq(0 .. MaxUsage)
    /\ spent \in 0 .. (MaxUsage * (MaxRetries + 1))
    /\ answer.status \in {"none", "succeeded", "failed"}

AttemptInit ==
    /\ attemptStage = "calling"
    /\ attempt = 0
    /\ failure = "none"
    /\ spent = 0
    /\ usages = <<>>
    /\ cancelled = FALSE
    /\ answer = Nothing
    /\ onError \in {"transient", "all"}

-----------------------------------------------------------------------------
CancelAttempts ==
    /\ ~cancelled
    /\ cancelled' = TRUE
    /\ UNCHANGED <<attemptStage, attempt, failure, spent, usages, answer, onError>>

ShouldRetry(kind) ==
    /\ attempt < MaxRetries
    /\ ~cancelled /\ kind # "abort"
    /\ onError = "all" \/ kind = "transient"

\* withSpent(): the usage of all attempts.
Return(status) ==
    /\ attemptStage' = "returned"
    /\ answer' = [status |-> status, usage |-> spent']

BackOff(f) ==
    /\ attemptStage' = "backoff"
    /\ failure' = f
    /\ UNCHANGED answer

\* The usage of an attempt that reports some is added before its fate is decided.
Reports(u) ==
    /\ usages' = Append(usages, u)
    /\ spent' = spent + u

HandlerSucceeds(u) ==
    /\ attemptStage = "calling"
    /\ Reports(u)
    /\ Return("succeeded")
    /\ UNCHANGED <<attempt, failure, cancelled, onError>>

HandlerFails(kind, u) ==
    /\ attemptStage = "calling"
    /\ Reports(u)
    /\ IF ShouldRetry(kind)
       THEN BackOff("result")
       ELSE Return("failed") /\ UNCHANGED failure
    /\ UNCHANGED <<attempt, cancelled, onError>>

\* A bug to catch: the error is passed on, and with it what was spent before.
Rethrow_Always ==
    /\ attemptStage' = "threw"
    /\ UNCHANGED answer

\* The error is passed on unless an earlier attempt spent tokens.
Rethrow ==
    IF spent = 0
    THEN attemptStage' = "threw" /\ UNCHANGED answer
    ELSE attemptStage' = "returned" /\ answer' = [status |-> "failed", usage |-> spent]

HandlerThrows(kind) ==
    /\ attemptStage = "calling"
    /\ usages' = Append(usages, 0)
    /\ IF ShouldRetry(kind) THEN BackOff("error") ELSE Rethrow /\ UNCHANGED failure
    /\ UNCHANGED <<attempt, spent, cancelled, onError>>

\* A bug to catch: the cancel is not looked for after the wait.
BackoffEnds_Unchecked ==
    /\ attemptStage = "backoff"
    /\ attemptStage' = "calling" /\ attempt' = attempt + 1
    /\ UNCHANGED <<failure, spent, usages, cancelled, answer, onError>>

\* The delay has passed, or the cancel has cut it short.
BackoffEnds ==
    /\ attemptStage = "backoff"
    /\ IF ~cancelled
       THEN attemptStage' = "calling" /\ attempt' = attempt + 1 /\ UNCHANGED answer
       ELSE /\ UNCHANGED attempt
            /\ IF failure = "result"
               THEN attemptStage' = "returned" /\ answer' = [status |-> "failed", usage |-> spent]
               ELSE Rethrow
    /\ UNCHANGED <<failure, spent, usages, cancelled, onError>>

HandlerEnds ==
    \/ \E u \in 0 .. MaxUsage : HandlerSucceeds(u) \/ \E k \in Kinds : HandlerFails(k, u)
    \/ \E k \in Kinds : HandlerThrows(k)

AttemptNext == CancelAttempts \/ HandlerEnds \/ BackoffEnds

AttemptSpec == AttemptInit /\ [][AttemptNext]_attemptVars

-----------------------------------------------------------------------------
(* Properties.                                                             *)

\* Once the run is cancelled the handler is not called again, whether the cancel
\* came during an attempt or during the wait for the next one.
NoAttemptAfterCancel ==
    [][cancelled /\ attemptStage # "calling" => attemptStage' # "calling"]_attemptVars

\* However the attempts end, the node's result carries the tokens of all of
\* them, and an error is passed on only if there are none.
Total == FoldLeft(LAMBDA x, y : x + y, 0, usages)

UsageIsComplete ==
    /\ attemptStage = "returned" => answer.usage = Total
    /\ attemptStage = "threw" => Total = 0
    /\ Len(usages) <= MaxRetries + 1
=============================================================================
