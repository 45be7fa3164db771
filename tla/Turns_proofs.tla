---------------------------- MODULE Turns_proofs ----------------------------
(***************************************************************************)
(* What a model is asked for and what comes back: the attempts of a node,  *)
(* for any number of retries (NodeAttempts); a turn of a rib, for any      *)
(* number of chunks and any cap of the relay, and how it winds down once   *)
(* it was aborted (AgentTurn); and a chat, for any number of prompts,      *)
(* sockets and chunks (Chat).                                              *)
(***************************************************************************)
EXTENDS NodeAttempts, AgentTurn, Chat, TLAPS, FiniteSetTheorems, FunctionTheorems

-----------------------------------------------------------------------------
(* Induction over the natural numbers, for a set of them.  Were n the      *)
(* number that is missing, the successor function would map the members    *)
(* of the set up to n into the same members without 0, one to one.         *)

LEMMA NatIsInductive ==
    ASSUME NEW T, 0 \in T, \A n \in Nat : n \in T => n + 1 \in T
    PROVE  Nat \subseteq T
<1>. SUFFICES ASSUME NEW n \in Nat, n \notin T
              PROVE  FALSE
  OBVIOUS
<1>. DEFINE A == {i \in 0 .. n : i \in T}
            B == A \ {0}
            succ == [i \in A |-> i + 1]
<1>1. IsFiniteSet(A) /\ Cardinality(A) \in Nat
  <2>1. IsFiniteSet(0 .. n) /\ A \in SUBSET (0 .. n)
    BY FS_Interval
  <2>2. IsFiniteSet(A)
    BY <2>1, FS_Subset
  <2>. QED BY <2>2, FS_CardinalityType
<1>2. IsFiniteSet(B) /\ Cardinality(B) = Cardinality(A) - 1
  <2>1. 0 \in A
    OBVIOUS
  <2>. QED BY <1>1, <2>1, FS_RemoveElement
<1>3. succ \in Injection(A, B)
  <2>1. succ \in [A -> B]
    OBVIOUS
  <2>2. \A a, b \in A : succ[a] = succ[b] => a = b
    OBVIOUS
  <2>. QED BY <2>1, <2>2, Fun_IsInj
<1>4. Cardinality(A) <= Cardinality(B)
  <2>. HIDE DEF A, B, succ
  <2>. QED BY <1>2, <1>3, FS_Injection
<1>. QED BY <1>1, <1>2, <1>4

-----------------------------------------------------------------------------
(* Sums, as FoldLeft computes them: over the subsets of the indices, the   *)
(* largest index of a subset last.                                         *)

IsSum(f, s, n) ==
    f = [t \in SUBSET (1 .. n) |-> IF t = {} THEN 0 ELSE f[t \ {Max(t)}] + s[Max(t)]]

AgreeUpTo(s, r, n) == \A i \in 1 .. n : s[i] \in Nat /\ r[i] = s[i]

LEMMA MaxOfIndices ==
    ASSUME NEW n \in Nat, NEW t \in SUBSET (1 .. n), t # {}
    PROVE  Max(t) \in t /\ \A i \in t : i <= Max(t)
<1>. DEFINE HasMax(S) == \E x \in S : \A y \in S : x >= y
            T == {m \in Nat : \A S \in SUBSET (1 .. m) : S # {} => HasMax(S)}
<1>1. 0 \in T
  <2>1. (1 .. 0) = {} /\ \A S \in SUBSET {} : S = {}
    OBVIOUS
  <2>. QED BY <2>1
<1>2. ASSUME NEW m \in Nat, m \in T
      PROVE  m + 1 \in T
  <2>. SUFFICES ASSUME NEW S \in SUBSET (1 .. m + 1), S # {}
                PROVE  HasMax(S)
    OBVIOUS
  <2>1. CASE m + 1 \in S
    BY <2>1
  <2>2. CASE m + 1 \notin S
    <3>1. S \in SUBSET (1 .. m)
      BY <2>2
    <3>. QED BY <1>2, <3>1
  <2>. QED BY <2>1, <2>2
<1>3. HasMax(t)
  <2>1. Nat \subseteq T
    <3>. HIDE DEF T
    <3>. QED BY <1>1, <1>2, NatIsInductive
  <2>. QED BY <2>1
<1>4. Max(t) \in t /\ \A y \in t : Max(t) >= y
  BY <1>3 DEF Max
<1>. QED BY <1>4

LEMMA SumExists ==
    ASSUME NEW s, NEW n \in Nat
    PROVE  \E f : IsSum(f, s, n)
<1>. DEFINE T == {m \in Nat : \E f : IsSum(f, s, m)}
<1>1. 0 \in T
  <2>1. IsSum([t \in SUBSET (1 .. 0) |-> 0], s, 0)
    BY DEF IsSum
  <2>. QED BY <2>1
<1>2. ASSUME NEW m \in Nat, m \in T
      PROVE  m + 1 \in T
  <2>1. PICK f : IsSum(f, s, m)
    BY <1>2
  <2>. DEFINE g == [t \in SUBSET (1 .. m + 1) |->
                        IF m + 1 \in t THEN f[t \ {m + 1}] + s[m + 1] ELSE f[t]]
  <2>2. ASSUME NEW t \in SUBSET (1 .. m + 1)
        PROVE  g[t] = IF t = {} THEN 0 ELSE g[t \ {Max(t)}] + s[Max(t)]
    <3>1. CASE m + 1 \in t
      <4>1. Max(t) = m + 1
        <5>1. /\ m + 1 \in Nat /\ t # {}
              /\ \A i \in 1 .. m + 1 : i <= m + 1
          BY <3>1
        <5>2. Max(t) \in t /\ m + 1 <= Max(t)
          BY <3>1, <5>1, MaxOfIndices
        <5>3. Max(t) \in 1 .. m + 1
          BY <5>2
        <5>. QED BY <5>1, <5>2, <5>3
      <4>2. t \ {m + 1} \in SUBSET (1 .. m + 1) /\ m + 1 \notin t \ {m + 1}
        OBVIOUS
      <4>3. g[t] = f[t \ {m + 1}] + s[m + 1] /\ t # {}
        BY <3>1
      <4>4. g[t \ {m + 1}] = f[t \ {m + 1}]
        BY <4>2
      <4>. HIDE DEF g
      <4>. QED BY <4>1, <4>3, <4>4
    <3>2. CASE m + 1 \notin t
      <4>1. t \in SUBSET (1 .. m) /\ g[t] = f[t]
        BY <3>2
      <4>2. t \ {Max(t)} \in SUBSET (1 .. m + 1) /\ m + 1 \notin t \ {Max(t)}
        BY <3>2
      <4>3. g[t \ {Max(t)}] = f[t \ {Max(t)}]
        BY <4>2
      <4>4. f[t] = IF t = {} THEN 0 ELSE f[t \ {Max(t)}] + s[Max(t)]
        BY <2>1, <4>1 DEF IsSum
      <4>. QED BY <4>1, <4>3, <4>4
    <3>. QED BY <3>1, <3>2
  <2>3. IsSum(g, s, m + 1)
    <3>1. g = [t \in SUBSET (1 .. m + 1) |-> g[t]]
      OBVIOUS
    <3>. HIDE DEF g
    <3>. QED BY <2>2, <3>1 DEF IsSum
  <2>. QED BY <2>3
<1>3. Nat \subseteq T
  <2>. HIDE DEF T
  <2>. QED BY <1>1, <1>2, NatIsInductive
<1>. QED BY <1>3

LEMMA SumStep ==
    ASSUME NEW s, NEW n \in Nat, NEW m \in Nat, n < m, NEW f, IsSum(f, s, m)
    PROVE  f[1 .. n + 1] = f[1 .. n] + s[n + 1]
<1>1. (1 .. n + 1) \in SUBSET (1 .. m) /\ (1 .. n + 1) # {} /\ n + 1 \in Nat
  OBVIOUS
<1>2. Max(1 .. n + 1) = n + 1
  <2>1. (1 .. n + 1) \in SUBSET (1 .. n + 1)
    OBVIOUS
  <2>2. Max(1 .. n + 1) \in 1 .. n + 1 /\ \A i \in 1 .. n + 1 : i <= Max(1 .. n + 1)
    BY <1>1, <2>1, MaxOfIndices
  <2>. QED BY <2>2
<1>3. (1 .. n + 1) \ {n + 1} = 1 .. n
  OBVIOUS
<1>4. f[1 .. n + 1] = f[(1 .. n + 1) \ {Max(1 .. n + 1)}] + s[Max(1 .. n + 1)]
  BY <1>1 DEF IsSum
<1>. QED BY <1>2, <1>3, <1>4

\* What has been summed does not depend on what follows.
LEMMA SumOfPrefix ==
    ASSUME NEW s, NEW r, NEW n \in Nat, NEW m \in Nat, n <= m,
           AgreeUpTo(s, r, n),
           NEW f, NEW g, IsSum(f, s, n), IsSum(g, r, m)
    PROVE  f[1 .. n] \in Nat /\ g[1 .. n] = f[1 .. n]
<1>. DEFINE T == {k \in Nat : k <= n => f[1 .. k] \in Nat /\ g[1 .. k] = f[1 .. k]}
<1>1. 0 \in T
  <2>1. (1 .. 0) = {} /\ {} \in SUBSET (1 .. n) /\ {} \in SUBSET (1 .. m)
    OBVIOUS
  <2>. QED BY <2>1 DEF IsSum
<1>2. ASSUME NEW k \in Nat, k \in T
      PROVE  k + 1 \in T
  <2>. SUFFICES ASSUME k + 1 <= n
                PROVE  f[1 .. k + 1] \in Nat /\ g[1 .. k + 1] = f[1 .. k + 1]
    OBVIOUS
  <2>1. f[1 .. k + 1] = f[1 .. k] + s[k + 1]
    <3>1. k < n
      OBVIOUS
    <3>. QED BY <3>1, SumStep
  <2>2. g[1 .. k + 1] = g[1 .. k] + r[k + 1]
    <3>1. k < m
      OBVIOUS
    <3>. QED BY <3>1, SumStep
  <2>3. s[k + 1] \in Nat /\ r[k + 1] = s[k + 1]
    BY DEF AgreeUpTo
  <2>. QED BY <1>2, <2>1, <2>2, <2>3
<1>3. Nat \subseteq T
  <2>. HIDE DEF T
  <2>. QED BY <1>1, <1>2, NatIsInductive
<1>. QED BY <1>3

LEMMA SumGrows ==
    ASSUME NEW s, NEW r, NEW n \in Nat, NEW u \in Nat,
           AgreeUpTo(s, r, n), r[n + 1] = u,
           NEW f, NEW g, IsSum(f, s, n), IsSum(g, r, n + 1)
    PROVE  f[1 .. n] \in Nat /\ g[1 .. n + 1] = f[1 .. n] + u
<1>1. n + 1 \in Nat /\ n <= n + 1 /\ n < n + 1
  OBVIOUS
<1>2. f[1 .. n] \in Nat /\ g[1 .. n] = f[1 .. n]
  BY <1>1, SumOfPrefix
<1>3. g[1 .. n + 1] = g[1 .. n] + r[n + 1]
  BY <1>1, SumStep
<1>. QED BY <1>2, <1>3

TotalOf(s) == FoldLeft(LAMBDA x, y : x + y, 0, s)

LEMMA TotalIsSum ==
    ASSUME NEW s \in Seq(Nat)
    PROVE  \E f : IsSum(f, s, Len(s)) /\ TotalOf(s) = f[1 .. Len(s)]
<1>. DEFINE f == CHOOSE f : IsSum(f, s, Len(s))
<1>1. Len(s) \in Nat /\ DOMAIN s = 1 .. Len(s)
  OBVIOUS
<1>2. IsSum(f, s, Len(s))
  BY <1>1, SumExists
<1>3. TotalOf(s) = f[1 .. Len(s)]
  BY <1>1 DEF TotalOf, FoldLeft, MapThenFoldSet, IsSum
<1>. QED BY <1>2, <1>3

LEMMA TotalOfNothing == TotalOf(<<>>) = 0
<1>1. <<>> \in Seq(Nat) /\ Len(<<>>) = 0 /\ (1 .. 0) = {} /\ {} \in SUBSET (1 .. 0)
  OBVIOUS
<1>2. PICK f : IsSum(f, <<>>, 0) /\ TotalOf(<<>>) = f[1 .. 0]
  BY <1>1, TotalIsSum
<1>. QED BY <1>1, <1>2 DEF IsSum

LEMMA TotalOfAppend ==
    ASSUME NEW s \in Seq(Nat), NEW u \in Nat
    PROVE  /\ TotalOf(s) \in Nat
           /\ TotalOf(Append(s, u)) = TotalOf(s) + u
<1>1. /\ Append(s, u) \in Seq(Nat) /\ Len(Append(s, u)) = Len(s) + 1
      /\ Append(s, u)[Len(s) + 1] = u
      /\ Len(s) \in Nat /\ AgreeUpTo(s, Append(s, u), Len(s))
  BY DEF AgreeUpTo
<1>2. PICK f : IsSum(f, s, Len(s)) /\ TotalOf(s) = f[1 .. Len(s)]
  BY TotalIsSum
<1>3. PICK g : IsSum(g, Append(s, u), Len(s) + 1) /\ TotalOf(Append(s, u)) = g[1 .. Len(s) + 1]
  BY <1>1, TotalIsSum
<1>4. f[1 .. Len(s)] \in Nat /\ g[1 .. Len(s) + 1] = f[1 .. Len(s)] + u
  <2>1. \A r : \A n \in Nat :
            AgreeUpTo(s, r, n) /\ r[n + 1] = u /\ IsSum(f, s, n) /\ IsSum(g, r, n + 1)
            => f[1 .. n] \in Nat /\ g[1 .. n + 1] = f[1 .. n] + u
    BY SumGrows
  <2>. QED BY <1>1, <1>2, <1>3, <2>1, Zenon
<1>. QED BY <1>2, <1>3, <1>4

-----------------------------------------------------------------------------
(* The attempts of a node                                                  *)

AttemptShapes ==
    /\ attemptStage \in {"calling", "backoff", "returned", "threw"}
    /\ attempt \in 0 .. MaxRetries
    /\ failure \in {"none", "result", "error"}
    /\ usages \in Seq(0 .. MaxUsage)
    /\ answer \in [status : {"none", "succeeded", "failed"}, usage : Nat]

\* What the next attempt starts from: the sum so far is that of all the attempts made,
\* one of which is not yet made while the handler is called.
SpentInv ==
    /\ spent = TotalOf(usages) /\ spent \in Nat
    /\ Len(usages) = IF attemptStage = "calling" THEN attempt ELSE attempt + 1
    /\ spent <= MaxUsage * Len(usages)
    /\ attemptStage = "backoff" => attempt < MaxRetries
    /\ attemptStage = "returned" => answer.usage = spent
    /\ attemptStage = "threw" => spent = 0

AttemptInv == AttemptShapes /\ SpentInv

LEMMA TimesMonotone ==
    ASSUME NEW a \in Nat, NEW b \in Nat, NEW c \in Nat, b <= c
    PROVE  a * b <= a * c
<1>1. PICK d \in Nat : c = b + d
  <2>1. c - b \in Nat /\ c = b + (c - b)
    OBVIOUS
  <2>. QED BY <2>1
<1>2. a * c = a * b + a * d /\ a * d \in Nat /\ a * b \in Nat
  BY <1>1
<1>. QED BY <1>2

LEMMA InitAttempt == AttemptInit => AttemptInv
<1>. SUFFICES ASSUME AttemptInit
              PROVE  AttemptInv
  OBVIOUS
<1>1. usages \in Seq(0 .. MaxUsage) /\ Len(usages) = 0
  BY DEF AttemptInit
<1>2. spent = TotalOf(usages) /\ spent = 0
  BY TotalOfNothing DEF AttemptInit
<1>3. spent <= MaxUsage * Len(usages)
  BY <1>1, <1>2, AttemptsAssumption
<1>. QED BY <1>1, <1>2, <1>3, AttemptsAssumption
        DEF AttemptInit, AttemptInv, AttemptShapes, SpentInv, Nothing

\* An attempt ends: its usage is counted, and the node either waits for the next one
\* or is given an answer.
LEMMA ReportedAttempt ==
    ASSUME AttemptInv, attemptStage = "calling", NEW u \in 0 .. MaxUsage,
           usages' = Append(usages, u), spent' = spent + u
    PROVE  /\ usages' \in Seq(0 .. MaxUsage) /\ Len(usages') = attempt + 1
           /\ spent' = TotalOf(usages') /\ spent' \in Nat
           /\ spent' <= MaxUsage * Len(usages')
<1>1. usages \in Seq(0 .. MaxUsage) /\ Len(usages) = attempt /\ attempt \in Nat
  BY DEF AttemptInv, AttemptShapes, SpentInv
<1>2. usages \in Seq(Nat) /\ u \in Nat /\ MaxUsage \in Nat
  BY <1>1, AttemptsAssumption
<1>3. spent' = TotalOf(usages') /\ spent' \in Nat
  <2>1. spent = TotalOf(usages) /\ spent \in Nat
    BY DEF AttemptInv, SpentInv
  <2>2. TotalOf(Append(usages, u)) = TotalOf(usages) + u
    BY <1>2, TotalOfAppend
  <2>. QED BY <1>2, <2>1, <2>2
<1>4. Len(usages') = attempt + 1 /\ usages' \in Seq(0 .. MaxUsage)
  BY <1>1
<1>5. spent' <= MaxUsage * Len(usages')
  <2>1. spent <= MaxUsage * attempt /\ spent \in Nat
    BY <1>1 DEF AttemptInv, SpentInv
  <2>2. MaxUsage * (attempt + 1) = MaxUsage * attempt + MaxUsage /\ MaxUsage * attempt \in Nat
    BY <1>1, <1>2
  <2>. QED BY <1>2, <1>4, <2>1, <2>2
<1>. QED BY <1>3, <1>4, <1>5

LEMMA EndsAttempt ==
    ASSUME AttemptInv, HandlerEnds
    PROVE  AttemptInv'
<1>1. CASE \E u \in 0 .. MaxUsage : HandlerSucceeds(u) \/ \E k \in Kinds : HandlerFails(k, u)
  <2>1. PICK u \in 0 .. MaxUsage : HandlerSucceeds(u) \/ \E k \in Kinds : HandlerFails(k, u)
    BY <1>1
  <2>2. /\ attemptStage = "calling" /\ usages' = Append(usages, u) /\ spent' = spent + u
        /\ attempt' = attempt
    BY <2>1 DEF HandlerSucceeds, HandlerFails, Reports
  <2>3. /\ usages' \in Seq(0 .. MaxUsage) /\ Len(usages') = attempt + 1
        /\ spent' = TotalOf(usages') /\ spent' \in Nat
        /\ spent' <= MaxUsage * Len(usages')
    BY <2>2, ReportedAttempt
  <2>4. \/ /\ attemptStage' = "returned" /\ failure' = failure
           /\ \E s \in {"succeeded", "failed"} : answer' = [status |-> s, usage |-> spent']
        \/ /\ attemptStage' = "backoff" /\ attempt < MaxRetries
           /\ failure' = "result" /\ answer' = answer
    BY <2>1 DEF HandlerSucceeds, HandlerFails, Return, BackOff, ShouldRetry
  <2>. QED BY <2>2, <2>3, <2>4 DEF AttemptInv, AttemptShapes, SpentInv
<1>2. CASE \E k \in Kinds : HandlerThrows(k)
  <2>1. PICK k \in Kinds : HandlerThrows(k)
    BY <1>2
  <2>2. /\ attemptStage = "calling" /\ usages' = Append(usages, 0) /\ spent' = spent
        /\ attempt' = attempt /\ spent \in Nat /\ 0 \in 0 .. MaxUsage
    BY <2>1, AttemptsAssumption DEF HandlerThrows, AttemptInv, SpentInv
  <2>3. /\ usages' \in Seq(0 .. MaxUsage) /\ Len(usages') = attempt + 1
        /\ spent' = TotalOf(usages') /\ spent' \in Nat
        /\ spent' <= MaxUsage * Len(usages')
    BY <2>2, ReportedAttempt
  <2>4. \/ /\ attemptStage' = "backoff" /\ attempt < MaxRetries
           /\ failure' = "error" /\ answer' = answer
        \/ attemptStage' = "threw" /\ spent = 0 /\ UNCHANGED <<answer, failure>>
        \/ /\ attemptStage' = "returned" /\ answer' = [status |-> "failed", usage |-> spent]
           /\ failure' = failure
    BY <2>1 DEF HandlerThrows, Rethrow, BackOff, ShouldRetry
  <2>. QED BY <2>2, <2>3, <2>4 DEF AttemptInv, AttemptShapes, SpentInv
<1>. QED BY <1>1, <1>2 DEF HandlerEnds

LEMMA WaitsAttempt ==
    ASSUME AttemptInv, CancelAttempts \/ BackoffEnds
    PROVE  AttemptInv'
<1>1. CASE CancelAttempts
  BY <1>1 DEF CancelAttempts, AttemptInv, AttemptShapes, SpentInv
<1>2. CASE BackoffEnds
  <2>1. /\ UNCHANGED <<spent, usages, failure>> /\ attempt \in Nat
        /\ attemptStage = "backoff" /\ attempt < MaxRetries
    BY <1>2 DEF BackoffEnds, AttemptInv, AttemptShapes, SpentInv
  <2>2. \/ attemptStage' = "calling" /\ attempt' = attempt + 1 /\ answer' = answer
        \/ /\ attempt' = attempt
           /\ \/ /\ attemptStage' = "returned"
                 /\ answer' = [status |-> "failed", usage |-> spent]
              \/ attemptStage' = "threw" /\ spent = 0 /\ answer' = answer
    BY <1>2 DEF BackoffEnds, Rethrow
  <2>3. AttemptShapes'
    <3>1. AttemptShapes /\ spent \in Nat
      BY DEF AttemptInv, SpentInv
    <3>2. attempt' \in 0 .. MaxRetries
      BY <2>1, <2>2, <3>1, AttemptsAssumption DEF AttemptShapes
    <3>. QED BY <2>1, <2>2, <3>1, <3>2 DEF AttemptShapes
  <2>4. Len(usages) = attempt + 1 /\ Len(usages') = attempt + 1
    BY <2>1 DEF AttemptInv, SpentInv
  <2>5. /\ spent' = TotalOf(usages') /\ spent' \in Nat
        /\ spent' <= MaxUsage * Len(usages')
    BY <2>1 DEF AttemptInv, SpentInv
  <2>6. /\ Len(usages') = IF attemptStage' = "calling" THEN attempt' ELSE attempt' + 1
        /\ attemptStage' = "backoff" => attempt' < MaxRetries
        /\ attemptStage' = "returned" => answer'.usage = spent'
        /\ attemptStage' = "threw" => spent' = 0
    BY <2>1, <2>2, <2>4
  <2>. QED BY <2>3, <2>5, <2>6 DEF AttemptInv, SpentInv
<1>. QED BY <1>1, <1>2

LEMMA AlwaysAttempt == AttemptSpec => []AttemptInv
<1>1. AttemptInit => AttemptInv
  BY InitAttempt
<1>2. AttemptInv /\ [AttemptNext]_attemptVars => AttemptInv'
  <2>1. ASSUME AttemptInv, UNCHANGED attemptVars
        PROVE  AttemptInv'
    BY <2>1 DEF attemptVars, AttemptInv, AttemptShapes, SpentInv
  <2>2. ASSUME AttemptInv, AttemptNext
        PROVE  AttemptInv'
    BY <2>2, EndsAttempt, WaitsAttempt DEF AttemptNext
  <2>. QED BY <2>1, <2>2
<1>. QED BY <1>1, <1>2, PTL DEF AttemptSpec

\* The tokens a node has spent never exceed what its attempts may cost.
THEOREM AttemptTypeCorrect == AttemptSpec => []AttemptTypeOK
<1>1. AttemptInv => AttemptTypeOK
  <2>. SUFFICES ASSUME AttemptInv
                PROVE  AttemptTypeOK
    OBVIOUS
  <2>1. /\ spent \in Nat /\ spent <= MaxUsage * Len(usages) /\ Len(usages) \in Nat
        /\ Len(usages) <= MaxRetries + 1
    BY AttemptsAssumption DEF AttemptInv, AttemptShapes, SpentInv
  <2>2. MaxUsage * Len(usages) <= MaxUsage * (MaxRetries + 1)
    BY <2>1, TimesMonotone, AttemptsAssumption
  <2>3. MaxUsage * Len(usages) \in Nat /\ MaxUsage * (MaxRetries + 1) \in Nat
    BY <2>1, AttemptsAssumption
  <2>. DEFINE most == MaxUsage * (MaxRetries + 1)
              now == MaxUsage * Len(usages)
  <2>4. spent <= now /\ now <= most /\ now \in Nat /\ most \in Nat /\ spent \in Nat
    BY <2>1, <2>2, <2>3
  <2>. HIDE DEF most, now
  <2>5. spent \in 0 .. most
    BY <2>4
  <2>6. spent \in 0 .. (MaxUsage * (MaxRetries + 1))
    BY <2>5 DEF most
  <2>. QED BY <2>6 DEF AttemptInv, AttemptShapes, AttemptTypeOK
<1>. QED BY <1>1, AlwaysAttempt, PTL

\* Whichever attempt succeeds, fails, throws or is cut short by a cancel, the answer
\* carries the usage of all of them, and an error that is passed on hides none.
THEOREM UsageIsCounted == AttemptSpec => []UsageIsComplete
<1>1. AttemptInv => UsageIsComplete
  <2>1. Total = TotalOf(usages)
    BY DEF Total, TotalOf, FoldLeft, MapThenFoldSet
  <2>. QED BY <2>1, AttemptsAssumption DEF AttemptInv, AttemptShapes, SpentInv, UsageIsComplete
<1>. QED BY <1>1, AlwaysAttempt, PTL

\* A cancel is final for the handler: neither the attempt it meets nor the wait it
\* cuts short is followed by another call.
THEOREM CancelEndsAttempts == AttemptSpec => NoAttemptAfterCancel
<1>1. [AttemptNext]_attemptVars
        => [cancelled /\ attemptStage # "calling" => attemptStage' # "calling"]_attemptVars
  BY DEF AttemptNext, CancelAttempts, HandlerEnds, HandlerSucceeds, HandlerFails,
         HandlerThrows, BackoffEnds, attemptVars, Rethrow
<1>. QED BY <1>1, PTL DEF AttemptSpec, NoAttemptAfterCancel

-----------------------------------------------------------------------------
(* A turn of a rib                                                         *)

Stages == {"model", "tools", "asking", "pausing", "gate", "settled"}
Statuses == {"none", "ok", "error", "aborted", "timeout"}

TurnShapes ==
    /\ turnStage \in Stages
    /\ turnAborted \in BOOLEAN /\ timedOut \in BOOLEAN /\ usage \in BOOLEAN /\ failed \in BOOLEAN
    /\ cutoff \in {"off", "armed", "passed"}
    /\ chunk \in ChunkKinds
    /\ chunks \in 0 .. MaxChunks /\ text \in 0 .. chunks
    /\ result \in [status : Statuses, text : Nat]
    /\ ledger \in 0 .. 1
    /\ relay \in [queue : Seq(1 .. MaxChunks), closed : BOOLEAN]
    /\ Len(relay.queue) <= RelayCap
    /\ reader \in {"looking", "parked", "done"}

\* What an abort leaves to happen: the turn is past its last wait for it in the
\* gate, it pauses only after one, and nothing was spent before the provider ran.
StageInv ==
    /\ turnStage = "gate" => ~turnAborted
    /\ turnStage = "pausing" => turnAborted
    /\ turnStage # "settled" => ledger = 0
    /\ turnStage \in {"model", "tools"} => ~usage
    /\ CutoffHearsTheAbort

TurnInv == TurnShapes /\ StageInv

LEMMA InitTurn == TurnInit => TurnInv
<1> SUFFICES ASSUME TurnInit
             PROVE  TurnInv
  OBVIOUS
<1>1. relay = [queue |-> <<>>, closed |-> FALSE] /\ relay.queue = <<>> /\ Len(relay.queue) = 0
  BY DEF TurnInit
<1>2. relay \in [queue : Seq(1 .. MaxChunks), closed : BOOLEAN] /\ Len(relay.queue) <= RelayCap
  <2>1. <<>> \in Seq(1 .. MaxChunks)
    OBVIOUS
  <2> QED BY <1>1, <2>1, TurnAssumption
<1>3. result \in [status : Statuses, text : Nat]
  BY DEF TurnInit, Statuses
<1>4. TurnShapes
  <2>1. chunks \in 0 .. MaxChunks /\ text \in 0 .. chunks /\ ledger \in 0 .. 1
    BY TurnAssumption DEF TurnInit
  <2>2. /\ turnStage = "model" /\ turnAborted = FALSE /\ timedOut = FALSE /\ cutoff = "off"
        /\ chunk = "none" /\ usage = FALSE /\ failed = FALSE /\ reader = "looking"
    BY DEF TurnInit
  <2> QED BY <1>2, <1>3, <2>1, <2>2 DEF TurnShapes, Stages, ChunkKinds
<1>5. StageInv
  BY DEF TurnInit, StageInv, CutoffHearsTheAbort, Streaming
<1> QED BY <1>4, <1>5 DEF TurnInv

-----------------------------------------------------------------------------
(* The ways a step leaves the stream of the rib.                           *)

LEMMA PushedRelay ==
    ASSUME TurnShapes, NEW n \in 1 .. MaxChunks
    PROVE  /\ Pushed(n) \in [queue : Seq(1 .. MaxChunks), closed : BOOLEAN]
           /\ Len(Pushed(n).queue) <= RelayCap
<1> DEFINE q == Append(relay.queue, n)
           rest == IF Len(q) > RelayCap THEN Tail(q) ELSE q
<1>1. /\ relay.queue \in Seq(1 .. MaxChunks) /\ Len(relay.queue) <= RelayCap
      /\ relay \in [queue : Seq(1 .. MaxChunks), closed : BOOLEAN]
  BY DEF TurnShapes
<1>2. q \in Seq(1 .. MaxChunks) /\ Len(q) = Len(relay.queue) + 1 /\ Len(relay.queue) \in Nat
  BY <1>1
<1>3. Tail(q) \in Seq(1 .. MaxChunks) /\ Len(Tail(q)) = Len(relay.queue)
  BY <1>1, <1>2
<1>4. Pushed(n) = [relay EXCEPT !.queue = rest]
  BY DEF Pushed
<1> HIDE DEF q
<1>5. rest \in Seq(1 .. MaxChunks) /\ Len(rest) <= RelayCap
  <2>1. CASE Len(q) > RelayCap
    BY <1>1, <1>3, <2>1
  <2>2. CASE ~(Len(q) > RelayCap)
    BY <1>2, <2>2, TurnAssumption
  <2> QED BY <2>1, <2>2
<1> HIDE DEF rest
<1> QED BY <1>1, <1>4, <1>5

\* A settled turn, and one that goes on to its gate.
LEMMA SettleTurn ==
    ASSUME TurnInv, NEW status \in Statuses, NEW n \in {0, text}, Settle(status, n),
           turnStage # "settled", chunks' = chunks
    PROVE  TurnInv'
BY DEF TurnInv, TurnShapes, StageInv, CutoffHearsTheAbort, Streaming, Settle, Stages, signalVars,
       answerVars, streamVars

LEMMA AfterTurn ==
    ASSUME TurnInv, AfterStream, turnStage \in {"asking", "pausing"}
    PROVE  TurnInv' /\ KeepsTheVerdict
<1>1. CASE turnAborted
  <2>1. Settle(AbortStatus, text) /\ chunks' = chunks
    BY <1>1 DEF AfterStream, Settle, answerVars
  <2>2. AbortStatus \in Statuses
    BY DEF AbortStatus, Statuses
  <2>3. TurnInv'
    BY <2>1, <2>2, SettleTurn
  <2>4. KeepsTheVerdict
    BY <1>1, <2>1 DEF Settle, KeepsTheVerdict, TurnInv, StageInv, signalVars, answerVars
  <2> QED BY <2>3, <2>4
<1>2. CASE ~turnAborted /\ failed
  <2>1. Settle("error", text) /\ chunks' = chunks
    BY <1>2 DEF AfterStream, Settle, answerVars
  <2>2. TurnInv'
    BY <2>1, SettleTurn DEF Statuses
  <2>3. KeepsTheVerdict
    BY <1>2, <2>1 DEF Settle, KeepsTheVerdict, TurnInv, StageInv
  <2> QED BY <2>2, <2>3
<1>3. CASE ~turnAborted /\ ~failed
  BY <1>3 DEF AfterStream, TurnInv, TurnShapes, StageInv, CutoffHearsTheAbort, Streaming, Stages,
              KeepsTheVerdict, signalVars, answerVars, endVars, streamVars
<1> QED BY <1>1, <1>2, <1>3

-----------------------------------------------------------------------------
(* Every step.                                                             *)

LEMMA SignalTurn ==
    ASSUME TurnInv, CallerAborts \/ TimerFires \/ GracePasses
    PROVE  TurnInv' /\ KeepsTheVerdict
<1>1. /\ turnAborted' \in BOOLEAN /\ timedOut' \in BOOLEAN
      /\ cutoff' \in {"off", "armed", "passed"}
      /\ UNCHANGED <<turnStage, answerVars, endVars, streamVars>>
  BY DEF CallerAborts, TimerFires, GracePasses, FireAbort, TurnInv, TurnShapes
<1>2. TurnShapes'
  BY <1>1 DEF TurnInv, TurnShapes, answerVars, endVars, streamVars
<1>3. StageInv'
  BY <1>1 DEF CallerAborts, TimerFires, GracePasses, FireAbort, Listening, Streaming, TurnInv,
              StageInv, CutoffHearsTheAbort, answerVars, endVars
<1>4. KeepsTheVerdict
  BY DEF CallerAborts, TimerFires, GracePasses, KeepsTheVerdict, answerVars, endVars
<1> QED BY <1>2, <1>3, <1>4 DEF TurnInv

LEMMA PreparesTurn ==
    ASSUME TurnInv, ModelIsKnown \/ ToolsAreKnown
    PROVE  TurnInv' /\ KeepsTheVerdict
<1>1. TurnInv'
  BY DEF ModelIsKnown, ToolsAreKnown, AbortStatus, Streaming, TurnInv, TurnShapes, Stages, Statuses,
         StageInv, CutoffHearsTheAbort, signalVars, answerVars, endVars, streamVars
<1>2. KeepsTheVerdict
  BY DEF ModelIsKnown, ToolsAreKnown, KeepsTheVerdict, AbortStatus, signalVars, answerVars,
         endVars, TurnInv, TurnShapes, StageInv
<1> QED BY <1>1, <1>2

LEMMA EndsTurn ==
    ASSUME TurnInv, CutoffEndsTurn \/ StreamEnds \/ ProviderThrows \/ GateAnswers
    PROVE  TurnInv' /\ KeepsTheVerdict
<1>1. CASE CutoffEndsTurn \/ StreamEnds
  BY <1>1, AfterTurn DEF CutoffEndsTurn, StreamEnds
<1>2. CASE ProviderThrows \/ GateAnswers
  <2>1. PICK status \in Statuses, n \in {0, text} :
            /\ Settle(status, n) /\ turnStage \in {"asking", "gate"}
            /\ turnAborted => status = AbortStatus
    BY <1>2 DEF ProviderThrows, GateAnswers, AbortStatus, Statuses, TurnInv, StageInv
  <2>2. TurnInv'
    BY <2>1, SettleTurn DEF Settle, answerVars
  <2>3. KeepsTheVerdict
    BY <2>1 DEF Settle, KeepsTheVerdict, TurnInv, StageInv, signalVars, answerVars
  <2> QED BY <2>2, <2>3
<1> QED BY <1>1, <1>2

\* A chunk is taken in: a text or tool chunk only while the turn is not aborted.
LEMMA TakesTurn ==
    ASSUME TurnInv, NEW kind \in ChunkKinds, Take(kind), turnStage' = "asking",
           turnStage \in {"asking", "pausing"}, chunk' \in ChunkKinds,
           chunks' \in 0 .. MaxChunks, chunks' >= chunks,
           ~turnAborted /\ kind \in {"text", "tool"} => chunks' > chunks
    PROVE  TurnInv' /\ KeepsTheVerdict
<1>1. text \in Nat /\ chunks \in Nat /\ chunks' \in Nat /\ text <= chunks
  BY TurnAssumption DEF TurnInv, TurnShapes
<1>2. text' \in 0 .. chunks'
  BY <1>1 DEF Take
<1>3. /\ relay' \in [queue : Seq(1 .. MaxChunks), closed : BOOLEAN]
      /\ Len(relay'.queue) <= RelayCap
      /\ reader' \in {"looking", "parked", "done"}
  <2>1. CASE kind = "tool" /\ ~turnAborted
    <3>1. chunks' \in 1 .. MaxChunks
      BY <1>1, <2>1
    <3> QED BY <2>1, <3>1, PushedRelay DEF Take, Woken, TurnInv, TurnShapes
  <2>2. CASE ~(kind = "tool" /\ ~turnAborted)
    BY <2>2 DEF Take, streamVars, TurnInv, TurnShapes
  <2> QED BY <2>1, <2>2
<1>4. TurnInv'
  BY <1>2, <1>3 DEF Take, TurnInv, TurnShapes, StageInv, CutoffHearsTheAbort, Streaming, Stages,
                    signalVars, endVars
<1>5. KeepsTheVerdict
  BY DEF Take, KeepsTheVerdict, signalVars, endVars, TurnInv, TurnShapes
<1> QED BY <1>4, <1>5

LEMMA ChunksTurn ==
    ASSUME TurnInv, PauseEnds \/ \E k \in ChunkKinds \ {"none"} : ProviderYields(k)
    PROVE  TurnInv' /\ KeepsTheVerdict
<1>1. chunks \in Nat /\ chunks <= MaxChunks /\ MaxChunks \in Nat /\ text \in Nat /\ text <= chunks
  BY TurnAssumption DEF TurnInv, TurnShapes
<1>2. CASE PauseEnds
  <2>1. CASE cutoff = "passed"
    BY <1>2, <2>1, AfterTurn DEF PauseEnds
  <2>2. CASE cutoff # "passed"
    <3>1. turnAborted /\ chunk \in ChunkKinds /\ "none" \in ChunkKinds
      BY <1>2 DEF PauseEnds, TurnInv, TurnShapes, StageInv, ChunkKinds
    <3> QED BY <1>1, <1>2, <2>2, <3>1, TakesTurn DEF PauseEnds
  <2> QED BY <2>1, <2>2
<1>3. ASSUME NEW k \in ChunkKinds \ {"none"}, ProviderYields(k)
      PROVE  TurnInv' /\ KeepsTheVerdict
  <2>1. /\ chunks' \in 0 .. MaxChunks /\ chunks' >= chunks
        /\ k \in {"text", "tool"} => chunks' > chunks
    BY <1>1, <1>3 DEF ProviderYields
  <2>2. CASE turnAborted
    <3>1. TurnInv'
      BY <1>1, <1>3, <2>1, <2>2
         DEF ProviderYields, TurnInv, TurnShapes, StageInv, CutoffHearsTheAbort, Streaming, Stages,
             signalVars, endVars, streamVars
    <3>2. KeepsTheVerdict
      BY <1>3, <2>2 DEF ProviderYields, KeepsTheVerdict, signalVars, endVars
    <3> QED BY <3>1, <3>2
  <2>3. CASE ~turnAborted
    <3>1. Take(k) /\ turnStage' = turnStage /\ chunk' = chunk /\ turnStage = "asking"
      BY <1>3, <2>3 DEF ProviderYields
    <3>2. chunk \in ChunkKinds
      BY DEF TurnInv, TurnShapes
    <3> QED BY <2>1, <2>3, <3>1, <3>2, TakesTurn
  <2> QED BY <2>2, <2>3
<1> QED BY <1>2, <1>3

LEMMA StreamTurn ==
    ASSUME TurnInv, CloseRelay \/ ReaderLooks
    PROVE  TurnInv' /\ KeepsTheVerdict
<1>1. /\ relay \in [queue : Seq(1 .. MaxChunks), closed : BOOLEAN]
      /\ relay.queue \in Seq(1 .. MaxChunks) /\ Len(relay.queue) <= RelayCap
  BY DEF TurnInv, TurnShapes
<1>2. /\ relay' \in [queue : Seq(1 .. MaxChunks), closed : BOOLEAN]
      /\ Len(relay'.queue) <= RelayCap
      /\ reader' \in {"looking", "parked", "done"}
  <2>1. CASE CloseRelay
    BY <1>1, <2>1 DEF CloseRelay, Woken, TurnInv, TurnShapes
  <2>2. CASE ReaderLooks
    <3>1. relay.queue # <<>> => /\ Tail(relay.queue) \in Seq(1 .. MaxChunks)
                                /\ Len(Tail(relay.queue)) = Len(relay.queue) - 1
                                /\ Len(relay.queue) \in Nat
      BY <1>1
    <3>2. CASE relay.queue # <<>>
      <4>1. relay' = [relay EXCEPT !.queue = Tail(relay.queue)] /\ reader' = reader
        BY <2>2, <3>2 DEF ReaderLooks
      <4>2. /\ relay' \in [queue : Seq(1 .. MaxChunks), closed : BOOLEAN]
            /\ relay'.queue = Tail(relay.queue)
        BY <1>1, <3>1, <3>2, <4>1
      <4> QED BY <1>1, <3>1, <3>2, <4>1, <4>2, TurnAssumption DEF TurnInv, TurnShapes
    <3>3. CASE relay.queue = <<>>
      BY <1>1, <2>2, <3>3 DEF ReaderLooks
    <3> QED BY <3>2, <3>3
  <2> QED BY <2>1, <2>2
<1>3. UNCHANGED <<turnStage, signalVars, answerVars, endVars>>
  BY DEF CloseRelay, ReaderLooks
<1> QED BY <1>2, <1>3 DEF TurnInv, TurnShapes, StageInv, CutoffHearsTheAbort, Streaming, Stages,
                          KeepsTheVerdict, signalVars, answerVars, endVars

LEMMA StepTurn == TurnInv /\ [TurnNext]_turnVars => TurnInv' /\ [KeepsTheVerdict]_turnVars
<1> SUFFICES ASSUME TurnInv, [TurnNext]_turnVars
             PROVE  TurnInv' /\ [KeepsTheVerdict]_turnVars
  OBVIOUS
<1>1. CASE UNCHANGED turnVars
  BY <1>1 DEF turnVars, TurnInv, TurnShapes, StageInv, CutoffHearsTheAbort, Streaming
<1>2. CASE TurnNext
  BY <1>2, SignalTurn, PreparesTurn, EndsTurn, ChunksTurn, StreamTurn DEF TurnNext, TurnSteps
<1> QED BY <1>1, <1>2

LEMMA AlwaysTurn == TurnSpec => []TurnInv
<1>1. TurnInit => TurnInv
  BY InitTurn
<1>2. TurnInv /\ [TurnNext]_turnVars => TurnInv'
  BY StepTurn
<1> QED BY <1>1, <1>2, PTL DEF TurnSpec

\* The relay never holds more than its cap, and what a turn spent is recorded at
\* most once.
THEOREM TurnTypeCorrect == TurnSpec => []TurnTypeOK
<1>1. TurnInv => TurnTypeOK
  BY TurnAssumption DEF TurnInv, TurnShapes, TurnTypeOK, Stages, Statuses
<1> QED BY <1>1, AlwaysTurn, PTL

\* However long the preparation of a turn takes, an abort during it arms the
\* cutoff that drains the provider.
THEOREM EarlyAbortsAreHeard == TurnSpec => []CutoffHearsTheAbort
<1>1. TurnInv => CutoffHearsTheAbort
  BY DEF TurnInv, StageInv
<1> QED BY <1>1, AlwaysTurn, PTL

\* A late chunk, answer or timer changes neither the verdict of an aborted turn
\* nor its text, and the spend that was reported is recorded.
THEOREM VerdictsAreKept == TurnSpec => FirstAbortDecides
<1>1. TurnInv /\ [TurnNext]_turnVars => [KeepsTheVerdict]_turnVars
  BY StepTurn
<1> QED BY <1>1, AlwaysTurn, PTL DEF TurnSpec, FirstAbortDecides

-----------------------------------------------------------------------------
(* How an aborted turn ends.                                               *)

\* toStream() sleeps only while there is nothing to give, and is told when
\* there is; it ends only behind the last chunk.
NoWakeupLost ==
    /\ relay.closed => turnStage = "settled"
    /\ reader = "parked" => relay.queue = <<>> /\ ~relay.closed
    /\ reader = "done" => relay.queue = <<>> /\ relay.closed

\* The cutoff belongs to an abort, and passes behind the provider's back only.
AbortUnderWay ==
    /\ cutoff # "off" => turnAborted
    /\ cutoff = "passed" => turnStage \in {"asking", "pausing", "settled"}

\* What is left of a turn whose grace is over: to settle, to close the relay,
\* the chunks in the relay, a look of the reader.
StreamToGo ==
    <<IF turnStage = "settled" THEN 0 ELSE 1,
      IF relay.closed THEN 0 ELSE 1,
      Len(relay.queue),
      IF reader = "looking" THEN 1 ELSE 0>>

Sooner(a, b) == \E j \in 1..4 : a[j] < b[j] /\ \A i \in 1..(j - 1) : a[i] = b[i]

WindsDown ==
    [][cutoff = "passed" => /\ cutoff' = "passed"
                            /\ UNCHANGED answerVars
                            /\ Sooner(StreamToGo', StreamToGo)]_turnVars

WakeInv == NoWakeupLost /\ AbortUnderWay

LEMMA InitWake == TurnInit => WakeInv
<1> SUFFICES ASSUME TurnInit PROVE WakeInv
  OBVIOUS
<1>1. /\ relay.closed = FALSE /\ reader = "looking" /\ cutoff = "off"
  BY DEF TurnInit
<1> QED BY <1>1 DEF WakeInv, NoWakeupLost, AbortUnderWay

\* A push or the closing of the relay.
LEMMA PushedWake ==
    ASSUME TurnInv, NoWakeupLost, turnStage # "settled", NEW n,
           relay' = Pushed(n), reader' = Woken
    PROVE  NoWakeupLost'
<1>1. /\ relay \in [queue : Seq(1 .. MaxChunks), closed : BOOLEAN]
      /\ reader \in {"looking", "parked", "done"}
  BY DEF TurnInv, TurnShapes
<1>2. ~relay.closed /\ reader # "done"
  BY DEF NoWakeupLost
<1>3. relay'.closed = relay.closed
  BY <1>1 DEF Pushed
<1>4. reader' = "looking"
  BY <1>1, <1>2 DEF Woken
<1> QED BY <1>2, <1>3, <1>4 DEF NoWakeupLost

LEMMA ReaderWake ==
    ASSUME TurnInv, WakeInv, CloseRelay \/ ReaderLooks
    PROVE  WakeInv' /\ Sooner(StreamToGo', StreamToGo)
<1>1. /\ relay \in [queue : Seq(1 .. MaxChunks), closed : BOOLEAN]
      /\ reader \in {"looking", "parked", "done"}
      /\ Len(relay.queue) \in Nat
  BY DEF TurnInv, TurnShapes
<1>2. turnStage' = turnStage /\ cutoff' = cutoff /\ turnAborted' = turnAborted
  BY DEF CloseRelay, ReaderLooks, signalVars
<1>3. AbortUnderWay'
  BY <1>2 DEF WakeInv, AbortUnderWay
<1>4. CASE CloseRelay
  <2>1. /\ relay'.queue = relay.queue /\ relay'.closed = TRUE /\ ~relay.closed
        /\ turnStage = "settled" /\ reader' = "looking"
    BY <1>1, <1>4 DEF CloseRelay, Woken, WakeInv, NoWakeupLost
  <2>2. NoWakeupLost'
    BY <1>2, <2>1 DEF NoWakeupLost
  <2>3. Sooner(StreamToGo', StreamToGo)
    BY <1>2, <2>1 DEF Sooner, StreamToGo
  <2> QED BY <1>3, <2>2, <2>3 DEF WakeInv
<1>5. CASE ReaderLooks /\ relay.queue # <<>>
  <2>1. /\ relay'.queue = Tail(relay.queue) /\ relay'.closed = relay.closed
        /\ reader = "looking" /\ reader' = reader
    BY <1>1, <1>5 DEF ReaderLooks
  <2>2. Len(Tail(relay.queue)) \in Nat /\ Len(Tail(relay.queue)) < Len(relay.queue)
    BY <1>1, <1>5
  <2>3. NoWakeupLost'
    BY <1>2, <2>1 DEF WakeInv, NoWakeupLost
  <2>4. Sooner(StreamToGo', StreamToGo)
    BY <1>2, <2>1, <2>2 DEF Sooner, StreamToGo
  <2> QED BY <1>3, <2>3, <2>4 DEF WakeInv
<1>6. CASE ReaderLooks /\ relay.queue = <<>>
  <2>1. /\ relay' = relay /\ reader = "looking"
        /\ reader' = IF relay.closed THEN "done" ELSE "parked"
    BY <1>6 DEF ReaderLooks
  <2>2. NoWakeupLost'
    BY <1>2, <1>6, <2>1 DEF WakeInv, NoWakeupLost
  <2>3. Sooner(StreamToGo', StreamToGo)
    BY <1>2, <2>1 DEF Sooner, StreamToGo
  <2> QED BY <1>3, <2>2, <2>3 DEF WakeInv
<1> QED BY <1>4, <1>5, <1>6

\* A turn in its stream: it goes on, unless its grace is over, or it ends.
LEMMA AskingWake ==
    ASSUME TurnInv, WakeInv,
           CutoffEndsTurn \/ StreamEnds \/ ProviderThrows \/ GateAnswers \/ PauseEnds
             \/ \E k \in ChunkKinds \ {"none"} : ProviderYields(k)
    PROVE  /\ WakeInv'
           /\ cutoff = "passed" => UNCHANGED answerVars /\ Sooner(StreamToGo', StreamToGo)
<1>1. turnStage \in {"asking", "pausing", "gate"} /\ UNCHANGED signalVars
  BY DEF CutoffEndsTurn, StreamEnds, ProviderThrows, GateAnswers, PauseEnds, ProviderYields,
         AfterStream, Settle, Take
<1>2. CASE cutoff = "passed"
  <2>1. turnAborted /\ (CutoffEndsTurn \/ PauseEnds)
    BY <1>2 DEF CutoffEndsTurn, StreamEnds, ProviderThrows, GateAnswers, PauseEnds,
                ProviderYields, WakeInv, AbortUnderWay, TurnInv, StageInv
  <2>2. Settle(AbortStatus, text)
    BY <1>2, <2>1 DEF CutoffEndsTurn, PauseEnds, AfterStream
  <2>3. turnStage' = "settled" /\ UNCHANGED answerVars /\ UNCHANGED streamVars
    BY <2>2 DEF Settle
  <2>4. WakeInv'
    BY <1>1, <2>1, <2>3 DEF WakeInv, NoWakeupLost, AbortUnderWay, signalVars, streamVars
  <2>5. Sooner(StreamToGo', StreamToGo)
    BY <1>1, <2>3 DEF Sooner, StreamToGo
  <2> QED BY <2>3, <2>4, <2>5
<1>3. CASE cutoff # "passed"
  <2>1. AbortUnderWay'
    BY <1>1, <1>3 DEF WakeInv, AbortUnderWay, signalVars
  <2>2. UNCHANGED streamVars \/ \E n : relay' = Pushed(n) /\ reader' = Woken
    <3>1. CASE CutoffEndsTurn \/ StreamEnds \/ ProviderThrows \/ GateAnswers
      BY <3>1 DEF CutoffEndsTurn, StreamEnds, ProviderThrows, GateAnswers, AfterStream, Settle
    <3>2. CASE PauseEnds
      BY <1>3, <3>2 DEF PauseEnds, Take
    <3>3. ASSUME NEW k \in ChunkKinds \ {"none"}, ProviderYields(k)
          PROVE  UNCHANGED streamVars \/ \E n : relay' = Pushed(n) /\ reader' = Woken
      BY <3>3 DEF ProviderYields, Take
    <3> QED BY <3>1, <3>2, <3>3
  <2>3. NoWakeupLost'
    <3>1. CASE UNCHANGED streamVars
      BY <1>1, <3>1 DEF WakeInv, NoWakeupLost, streamVars
    <3>2. ASSUME NEW n, relay' = Pushed(n), reader' = Woken PROVE NoWakeupLost'
      BY <1>1, <3>2, PushedWake DEF WakeInv
    <3> QED BY <2>2, <3>1, <3>2
  <2> QED BY <1>3, <2>1, <2>3 DEF WakeInv
<1> QED BY <1>2, <1>3

LEMMA SignalWake ==
    ASSUME TurnInv, WakeInv,
           CallerAborts \/ TimerFires \/ GracePasses \/ ModelIsKnown \/ ToolsAreKnown
    PROVE  WakeInv' /\ cutoff # "passed"
<1>1. UNCHANGED streamVars /\ turnStage # "settled"
  BY DEF CallerAborts, TimerFires, GracePasses, ModelIsKnown, ToolsAreKnown, Listening, Streaming
<1>2. NoWakeupLost'
  BY <1>1 DEF WakeInv, NoWakeupLost, streamVars
<1>3. AbortUnderWay' /\ cutoff # "passed"
  BY DEF CallerAborts, TimerFires, GracePasses, ModelIsKnown, ToolsAreKnown, FireAbort,
         Listening, Streaming, WakeInv, AbortUnderWay, signalVars
<1> QED BY <1>2, <1>3 DEF WakeInv

LEMMA StepWake ==
    ASSUME TurnInv, WakeInv, TurnNext
    PROVE  /\ WakeInv'
           /\ cutoff = "passed" => /\ cutoff' = "passed"
                                   /\ UNCHANGED answerVars
                                   /\ Sooner(StreamToGo', StreamToGo)
<1>1. CASE CloseRelay \/ ReaderLooks
  BY <1>1, ReaderWake DEF CloseRelay, ReaderLooks, signalVars
<1>2. CASE \/ CutoffEndsTurn \/ StreamEnds \/ ProviderThrows \/ GateAnswers \/ PauseEnds
           \/ \E k \in ChunkKinds \ {"none"} : ProviderYields(k)
  <2>1. cutoff' = cutoff
    BY <1>2 DEF CutoffEndsTurn, StreamEnds, ProviderThrows, GateAnswers, PauseEnds,
                ProviderYields, AfterStream, Settle, Take, signalVars
  <2> QED BY <1>2, <2>1, AskingWake
<1>3. CASE CallerAborts \/ TimerFires \/ GracePasses \/ ModelIsKnown \/ ToolsAreKnown
  BY <1>3, SignalWake
<1> QED BY <1>1, <1>2, <1>3 DEF TurnNext, TurnSteps

LEMMA AlwaysWake == TurnSpec => []WakeInv
<1>1. TurnInv /\ WakeInv /\ [TurnNext]_turnVars => WakeInv'
  <2>1. WakeInv /\ UNCHANGED turnVars => WakeInv'
    BY DEF turnVars, WakeInv, NoWakeupLost, AbortUnderWay
  <2> QED BY <2>1, StepWake
<1> QED BY <1>1, InitWake, AlwaysTurn, PTL DEF TurnSpec

\* The reader of a turn's stream never sleeps through a chunk or through the end
\* of the turn, in whatever order the turn pushes and closes and the reader
\* looks; and it ends with nothing unread.
THEOREM ReadersAreWoken == TurnSpec => []NoWakeupLost
  BY AlwaysWake, PTL DEF WakeInv

\* Once the grace of an abort is over, nothing a provider does counts any more:
\* every step that is left settles the turn, closes the relay or empties it, so
\* only so many are left, and the answer is what it was.
THEOREM GraceWindsDown == TurnSpec => WindsDown
<1>1. TurnInv /\ WakeInv /\ [TurnNext]_turnVars
        => [cutoff = "passed" => /\ cutoff' = "passed"
                                 /\ UNCHANGED answerVars
                                 /\ Sooner(StreamToGo', StreamToGo)]_turnVars
  BY StepWake
<1> QED BY <1>1, AlwaysTurn, AlwaysWake, PTL DEF TurnSpec, WindsDown

-----------------------------------------------------------------------------
(* A chat: the requests on their way.  They stand in lanes, the one that   *)
(* waits for a socket to open (0) and one for each socket.                 *)

LaneIds == 0 .. MaxSockets
Lanes(waiting, onWay) == [s \in LaneIds |-> IF s = 0 THEN waiting ELSE onWay[s]]

\* The lanes hold members of W, each at most once.
Orderly(L, D, W) ==
    /\ L \in [D -> Seq(Nat)]
    /\ \A s \in D : \A i \in 1 .. Len(L[s]) : L[s][i] \in W
    /\ \A s, r \in D : \A i \in 1 .. Len(L[s]), j \in 1 .. Len(L[r]) :
          L[s][i] = L[r][j] => s = r /\ i = j

LEMMA OrderlyAppend ==
    ASSUME NEW L, NEW D, NEW W, Orderly(L, D, W), NEW s \in D, NEW t \in Nat, t \notin W
    PROVE  Orderly([L EXCEPT ![s] = Append(@, t)], D, W \cup {t})
<1>. DEFINE M == [L EXCEPT ![s] = Append(@, t)]
<1>1. L \in [D -> Seq(Nat)]
  BY DEF Orderly
<1>2. /\ M \in [D -> Seq(Nat)] /\ \A r \in D : r # s => M[r] = L[r]
      /\ Len(M[s]) = Len(L[s]) + 1 /\ Len(L[s]) \in Nat /\ M[s][Len(L[s]) + 1] = t
      /\ \A i \in 1 .. Len(L[s]) : M[s][i] = L[s][i]
  BY <1>1
<1>. HIDE DEF M
<1>3. ASSUME NEW r \in D, NEW i \in 1 .. Len(M[r])
      PROVE  \/ r = s /\ i = Len(L[s]) + 1 /\ M[r][i] = t
             \/ i \in 1 .. Len(L[r]) /\ M[r][i] = L[r][i] /\ L[r][i] \in W
  BY <1>2 DEF Orderly
<1>4. ASSUME NEW r \in D, NEW q \in D, NEW i \in 1 .. Len(M[r]), NEW j \in 1 .. Len(M[q]),
             M[r][i] = M[q][j]
      PROVE  r = q /\ i = j
  <2>1. \/ r = s /\ i = Len(L[s]) + 1 /\ M[r][i] = t
        \/ i \in 1 .. Len(L[r]) /\ M[r][i] = L[r][i] /\ L[r][i] \in W
    BY <1>3
  <2>2. \/ q = s /\ j = Len(L[s]) + 1 /\ M[q][j] = t
        \/ j \in 1 .. Len(L[q]) /\ M[q][j] = L[q][j] /\ L[q][j] \in W
    BY <1>3
  <2>. QED BY <1>4, <2>1, <2>2 DEF Orderly
<1>5. \A r \in D : \A i \in 1 .. Len(M[r]) : M[r][i] \in W \cup {t}
  BY <1>3
<1>6. Orderly(M, D, W \cup {t})
  BY <1>2, <1>4, <1>5 DEF Orderly
<1>. QED BY <1>6 DEF M

LEMMA OrderlyTail ==
    ASSUME NEW L, NEW D, NEW W, Orderly(L, D, W), NEW s \in D, L[s] # <<>>
    PROVE  /\ Head(L[s]) \in W /\ Head(L[s]) \in Nat
           /\ Orderly([L EXCEPT ![s] = Tail(@)], D, W \ {Head(L[s])})
<1>. DEFINE M == [L EXCEPT ![s] = Tail(@)]
<1>1. L \in [D -> Seq(Nat)]
  BY DEF Orderly
<1>2. /\ M \in [D -> Seq(Nat)] /\ \A r \in D : r # s => M[r] = L[r]
      /\ Len(L[s]) \in Nat /\ Len(L[s]) > 0 /\ Len(M[s]) = Len(L[s]) - 1
      /\ \A i \in 1 .. Len(M[s]) : M[s][i] = L[s][i + 1]
      /\ Head(L[s]) = L[s][1] /\ Head(L[s]) \in Nat
  BY <1>1
<1>3. Head(L[s]) \in W
  BY <1>2 DEF Orderly
<1>. HIDE DEF M
<1>4. ASSUME NEW r \in D, NEW i \in 1 .. Len(M[r])
      PROVE  \/ r = s /\ i + 1 \in 1 .. Len(L[s]) /\ M[r][i] = L[s][i + 1]
             \/ r # s /\ i \in 1 .. Len(L[r]) /\ M[r][i] = L[r][i]
  BY <1>2
<1>5. ASSUME NEW r \in D, NEW i \in 1 .. Len(M[r])
      PROVE  M[r][i] \in W \ {Head(L[s])}
  <2>1. 1 \in 1 .. Len(L[s])
    BY <1>2
  <2>2. CASE r = s /\ i + 1 \in 1 .. Len(L[s]) /\ M[r][i] = L[s][i + 1]
    <3>1. i + 1 # 1
      OBVIOUS
    <3>2. L[s][i + 1] # L[s][1] /\ L[s][i + 1] \in W
      BY <2>1, <2>2, <3>1 DEF Orderly
    <3>. QED BY <1>2, <2>2, <3>2
  <2>3. CASE r # s /\ i \in 1 .. Len(L[r]) /\ M[r][i] = L[r][i]
    <3>1. L[r][i] # L[s][1] /\ L[r][i] \in W
      BY <2>1, <2>3 DEF Orderly
    <3>. QED BY <1>2, <2>3, <3>1
  <2>. QED BY <1>4, <2>2, <2>3
<1>6. ASSUME NEW r \in D, NEW q \in D, NEW i \in 1 .. Len(M[r]), NEW j \in 1 .. Len(M[q]),
             M[r][i] = M[q][j]
      PROVE  r = q /\ i = j
  <2>1. \/ r = s /\ i + 1 \in 1 .. Len(L[s]) /\ M[r][i] = L[s][i + 1]
        \/ r # s /\ i \in 1 .. Len(L[r]) /\ M[r][i] = L[r][i]
    BY <1>4
  <2>2. \/ q = s /\ j + 1 \in 1 .. Len(L[s]) /\ M[q][j] = L[s][j + 1]
        \/ q # s /\ j \in 1 .. Len(L[q]) /\ M[q][j] = L[q][j]
    BY <1>4
  <2>. QED BY <1>6, <2>1, <2>2 DEF Orderly
<1>7. Orderly(M, D, W \ {Head(L[s])})
  BY <1>2, <1>5, <1>6 DEF Orderly
<1>. QED BY <1>2, <1>3, <1>7 DEF M

LEMMA OrderlyLess ==
    ASSUME NEW L, NEW D, NEW W, NEW V, Orderly(L, D, W), W \subseteq V,
           NEW M \in [D -> Seq(Nat)], \A s \in D : M[s] = L[s] \/ M[s] = <<>>
    PROVE  Orderly(M, D, V)
<1>1. \A s \in D : \A i \in 1 .. Len(M[s]) : i \in 1 .. Len(L[s]) /\ M[s][i] = L[s][i]
  OBVIOUS
<1>. QED BY <1>1 DEF Orderly

LEMMA OrderlyMove ==
    ASSUME NEW L, NEW D, NEW W, Orderly(L, D, W), NEW s \in D, NEW r \in D, s # r,
           NEW M \in [D -> Seq(Nat)],
           \A q \in D : M[q] = IF q = s THEN L[r] ELSE IF q = r THEN <<>> ELSE L[q]
    PROVE  Orderly(M, D, W)
<1>1. ASSUME NEW q \in D, NEW i \in 1 .. Len(M[q])
      PROVE  \/ q = s /\ i \in 1 .. Len(L[r]) /\ M[q][i] = L[r][i]
             \/ q # s /\ q # r /\ i \in 1 .. Len(L[q]) /\ M[q][i] = L[q][i]
  <2>1. M[q] = IF q = s THEN L[r] ELSE IF q = r THEN <<>> ELSE L[q]
    OBVIOUS
  <2>2. q = r => M[q] = <<>>
    BY <2>1
  <2>3. q # r
    BY <2>2
  <2>. QED BY <2>1, <2>3
<1>2. \A q \in D : \A i \in 1 .. Len(M[q]) : M[q][i] \in W
  BY <1>1 DEF Orderly
<1>3. ASSUME NEW q \in D, NEW p \in D, NEW i \in 1 .. Len(M[q]), NEW j \in 1 .. Len(M[p]),
             M[q][i] = M[p][j]
      PROVE  q = p /\ i = j
  <2>1. \/ q = s /\ i \in 1 .. Len(L[r]) /\ M[q][i] = L[r][i]
        \/ q # s /\ q # r /\ i \in 1 .. Len(L[q]) /\ M[q][i] = L[q][i]
    BY <1>1
  <2>2. \/ p = s /\ j \in 1 .. Len(L[r]) /\ M[p][j] = L[r][j]
        \/ p # s /\ p # r /\ j \in 1 .. Len(L[p]) /\ M[p][j] = L[p][j]
    BY <1>1
  <2>3. PICK a \in D : a = IF q = s THEN r ELSE q
    OBVIOUS
  <2>4. PICK b \in D : b = IF p = s THEN r ELSE p
    OBVIOUS
  <2>5. i \in 1 .. Len(L[a]) /\ j \in 1 .. Len(L[b]) /\ L[a][i] = L[b][j]
    BY <1>3, <2>1, <2>2, <2>3, <2>4
  <2>6. a = b /\ i = j
    BY <2>5 DEF Orderly
  <2>. QED BY <2>1, <2>2, <2>3, <2>4, <2>6
<1>. QED BY <1>2, <1>3 DEF Orderly

-----------------------------------------------------------------------------
(* A chat: the invariant.                                                  *)

TabType ==
    [ws : {"none", "opening", "open"}, sock : 0 .. MaxSockets, preOpen : Seq(Nat),
     conv : Nat, active : Nat, creating : SUBSET Nat,
     streaming : BOOLEAN, queued : BOOLEAN, error : BOOLEAN]

TurnType ==
    [at : {"none", "gating", "streaming", "over"}, conv : Nat, sock : 0 .. MaxSockets,
     sent : Nat, told : {"nothing", "error", "done"},
     answer : [content : Nat, truncated : BOOLEAN]]

Waiting(creating, i, tns) ==
    {t \in 1 .. i : t \notin creating
                    /\ (t \in Sends => tns[t].at = "none" /\ tns[t].conv # 0)}

ChatShapes ==
    /\ tab \in TabType
    /\ tab.ws = "open" => tab.sock > 0
    /\ tab.ws # "open" => tab.sock < MaxSockets
    /\ issued \in Nat
    /\ up \in [Sockets -> Seq(Nat)]
    /\ turns \in [Sends -> TurnType]
    /\ kept \subseteq Sends /\ lost \subseteq Sends /\ kept \cap lost = {}

\* A request is on its way at most once, before the server has seen it, with a
\* conversation; and nothing bears a number that is still to be given out.
RequestsInv ==
    /\ \A t \in tab.creating \cup kept \cup lost : t \in 1 .. issued
    /\ tab.creating \cap (kept \cup lost) = {}
    /\ \A t \in Sends : t > issued \/ t \in tab.creating => turns[t].at = "none"
    /\ Orderly(Lanes(tab.preOpen, up), LaneIds, Waiting(tab.creating, issued, turns))

\* A turn that has not begun to stream has sent and told nothing, and one that is over
\* has stored its answer, if its conversation exists.
TurnOK(r, existing) ==
    /\ r.at \in {"none", "gating"} => r.sent = 0
    /\ r.at # "over" => r.told = "nothing"
    /\ r.at = "over" /\ r.sent > 0 /\ r.conv \in existing
        => /\ r.answer.content = r.sent
           /\ r.answer.truncated <=> r.told # "done"

TurnsInv ==
    /\ tab.conv \in {0} \cup kept \cup lost
    /\ \A t \in Sends : turns[t].conv \in {0} \cup kept \cup lost
    /\ \A t \in Sends : TurnOK(turns[t], kept)

ChatInvariant == ChatShapes /\ RequestsInv /\ TurnsInv

LEMMA InitChat == ChatInit => ChatInvariant
<1>. SUFFICES ASSUME ChatInit
              PROVE  ChatInvariant
  OBVIOUS
<1>1. 0 \in 0 .. MaxSockets /\ MaxSockets > 0 /\ MaxSockets \in Nat
  BY ChatAssumption
<1>2. ChatShapes
  BY <1>1 DEF ChatInit, ChatShapes, TabType, TurnType, NoAnswer
<1>3. Orderly(Lanes(tab.preOpen, up), LaneIds, Waiting(tab.creating, issued, turns))
  <2>1. \A s \in LaneIds : s = 0 \/ s \in Sockets
    BY <1>1 DEF LaneIds, Sockets
  <2>2. Lanes(tab.preOpen, up) = [s \in LaneIds |-> <<>>]
    BY <2>1 DEF ChatInit, Lanes
  <2>3. <<>> \in Seq(Nat) /\ Len(<<>>) = 0
    OBVIOUS
  <2>. QED BY <2>2, <2>3 DEF Orderly
<1>4. RequestsInv
  BY <1>3 DEF ChatInit, RequestsInv
<1>5. TurnsInv
  BY DEF ChatInit, TurnsInv, TurnOK
<1>. QED BY <1>2, <1>4, <1>5 DEF ChatInvariant

-----------------------------------------------------------------------------
(* What the view does.                                                     *)

\* Steps of the view that send nothing: a request may be dropped or its conversation
\* not come to be.
LEMMA TabStep ==
    ASSUME ChatInvariant, tab' \in TabType, tab'.creating \subseteq tab.creating,
           tab'.ws = "open" => tab'.sock > 0,
           tab'.ws # "open" => tab'.sock < MaxSockets,
           tab'.conv \in {0} \cup kept \cup lost,
           tab'.preOpen = tab.preOpen \/ tab'.preOpen = <<>>,
           UNCHANGED <<issued, up, turns, kept, lost>>
    PROVE  ChatInvariant'
<1>1. ChatShapes'
  BY DEF ChatInvariant, ChatShapes
<1>2. Waiting(tab.creating, issued, turns) \subseteq Waiting(tab.creating, issued, turns)'
  BY DEF Waiting
<1>3. Orderly(Lanes(tab.preOpen, up), LaneIds, Waiting(tab.creating, issued, turns))'
  <2>1. /\ Lanes(tab.preOpen, up)' \in [LaneIds -> Seq(Nat)]
        /\ \A s \in LaneIds : \/ Lanes(tab.preOpen, up)'[s] = Lanes(tab.preOpen, up)[s]
                              \/ Lanes(tab.preOpen, up)'[s] = <<>>
    BY <1>1 DEF Lanes, LaneIds, Sockets, ChatShapes, TabType
  <2>. QED BY <1>2, <2>1, OrderlyLess DEF ChatInvariant, RequestsInv
<1>4. RequestsInv'
  BY <1>3 DEF ChatInvariant, RequestsInv
<1>5. TurnsInv'
  BY DEF ChatInvariant, TurnsInv
<1>. QED BY <1>1, <1>4, <1>5 DEF ChatInvariant

\* The second half of doSend: request t of conversation c, which may have just been
\* created, goes to the socket or waits for it.
LEMMA SendStep ==
    ASSUME ChatInvariant, NEW tb \in TabType, NEW t \in Nat, NEW c \in Nat, c # 0,
           tb.ws = tab.ws, tb.sock = tab.sock, tb.preOpen = tab.preOpen,
           tb.creating \subseteq tab.creating, t \notin tb.creating,
           SendRequest(tb, t, c), UNCHANGED lost,
           issued' \in Nat, issued <= issued', t \in 1 .. issued',
           t > issued \/ t \in tab.creating,
           kept' = kept \/ (kept' = kept \cup {t} /\ t \in Sends /\ t \in tab.creating),
           c \in {0} \cup kept' \cup lost, tb.conv \in {0} \cup kept' \cup lost
    PROVE  ChatInvariant'
<1>. DEFINE W == Waiting(tab.creating, issued, turns)
<1>1. /\ tab \in TabType /\ issued \in Nat /\ up \in [Sockets -> Seq(Nat)]
      /\ turns \in [Sends -> TurnType]
      /\ tab.ws = "open" => tab.sock \in Sockets
  BY DEF ChatInvariant, ChatShapes, TabType, Sockets
<1>2. /\ tab' \in TabType
      /\ tab'.ws = IF tab.ws = "none" THEN "opening" ELSE tab.ws
      /\ tab'.sock = tab.sock /\ tab'.creating = tb.creating /\ tab'.conv = tb.conv
      /\ tab'.preOpen = IF tab.ws = "open" THEN tab.preOpen ELSE Append(tab.preOpen, t)
  <2>1. tb.preOpen \in Seq(Nat) /\ Append(tb.preOpen, t) \in Seq(Nat)
    BY DEF TabType
  <2>2. tab' = [tb EXCEPT !.active = t,
                          !.ws = IF tb.ws = "none" THEN "opening" ELSE tb.ws,
                          !.preOpen = IF tb.ws = "open" THEN tb.preOpen
                                      ELSE Append(tb.preOpen, t)]
    BY DEF SendRequest
  <2>. QED BY <2>1, <2>2 DEF TabType
<1>3. turns' \in [Sends -> TurnType] /\ \A u \in Sends :
        /\ turns'[u].conv = IF u = t THEN c ELSE turns[u].conv
        /\ turns'[u].at = turns[u].at /\ turns'[u].sent = turns[u].sent
        /\ turns'[u].told = turns[u].told /\ turns'[u].answer = turns[u].answer
  BY <1>1 DEF SendRequest, TurnType
<1>4. up' = IF tab.ws = "open" THEN [up EXCEPT ![tab.sock] = Append(@, t)] ELSE up
  BY DEF SendRequest
<1>5. ChatShapes'
  <2>1. up' \in [Sockets -> Seq(Nat)]
    BY <1>1, <1>4
  <2>2. kept' \subseteq Sends /\ lost' \subseteq Sends /\ kept' \cap lost' = {}
    BY DEF ChatInvariant, ChatShapes, RequestsInv
  <2>3. /\ tab'.ws = "open" => tab'.sock > 0
        /\ tab'.ws # "open" => tab'.sock < MaxSockets
    BY <1>2 DEF ChatInvariant, ChatShapes
  <2>. QED BY <1>2, <1>3, <2>1, <2>2, <2>3 DEF ChatShapes
<1>6. t \in Sends => turns[t].at = "none"
  BY DEF ChatInvariant, RequestsInv
<1>7. t \notin W /\ W \cup {t} \subseteq Waiting(tab.creating, issued, turns)'
  <2>1. t \notin W
    BY <1>1 DEF Waiting
  <2>2. ASSUME NEW u \in W \cup {t}
        PROVE  u \in Waiting(tab.creating, issued, turns)'
    <3>1. u \in 1 .. issued' /\ u \notin tab'.creating
      BY <1>1, <1>2 DEF Waiting
    <3>2. u \in Sends => turns'[u].at = "none" /\ turns'[u].conv # 0
      BY <1>3, <1>6 DEF Waiting
    <3>. QED BY <3>1, <3>2 DEF Waiting
  <2>. QED BY <2>1, <2>2
<1>8. Orderly(Lanes(tab.preOpen, up), LaneIds, Waiting(tab.creating, issued, turns))'
  <2>. DEFINE L == Lanes(tab.preOpen, up)
              s == IF tab.ws = "open" THEN tab.sock ELSE 0
  <2>1. s \in LaneIds /\ \A r \in LaneIds : r = 0 \/ r \in Sockets
    BY <1>1, ChatAssumption DEF LaneIds, Sockets
  <2>2. L \in [LaneIds -> Seq(Nat)]
    BY DEF ChatInvariant, RequestsInv, Orderly
  <2>3. L' = [L EXCEPT ![s] = Append(@, t)]
    <3>1. CASE tab.ws = "open"
      <4>1. tab'.preOpen = tab.preOpen /\ up' = [up EXCEPT ![tab.sock] = Append(@, t)]
        BY <1>2, <1>4, <3>1
      <4>2. tab.sock \in Sockets /\ 0 \notin Sockets
        BY <1>1, <3>1 DEF Sockets
      <4>. QED BY <1>1, <2>1, <3>1, <4>1, <4>2 DEF Lanes
    <3>2. CASE tab.ws # "open"
      <4>1. tab'.preOpen = Append(tab.preOpen, t) /\ up' = up
        BY <1>2, <1>4, <3>2
      <4>. QED BY <2>1, <3>2, <4>1 DEF Lanes
    <3>. QED BY <3>1, <3>2
  <2>4. Orderly(L, LaneIds, W)
    BY DEF ChatInvariant, RequestsInv
  <2>. HIDE DEF L, s, W
  <2>5. Orderly(L', LaneIds, W \cup {t})
    BY <1>7, <2>1, <2>3, <2>4, OrderlyAppend
  <2>6. L' \in [LaneIds -> Seq(Nat)]
    BY <2>5 DEF Orderly
  <2>7. Orderly(L', LaneIds, Waiting(tab.creating, issued, turns)')
    BY <1>7, <2>5, <2>6, OrderlyLess
  <2>. QED BY <2>7 DEF L
<1>9. RequestsInv'
  <2>1. \A u \in tab'.creating \cup kept' \cup lost' : u \in 1 .. issued'
    BY <1>1, <1>2 DEF ChatInvariant, RequestsInv
  <2>2. tab'.creating \cap (kept' \cup lost') = {}
    BY <1>2 DEF ChatInvariant, RequestsInv
  <2>3. \A u \in Sends : u > issued' \/ u \in tab'.creating => turns'[u].at = "none"
    <3>1. \A u \in Sends : u > issued \/ u \in tab.creating => turns[u].at = "none"
      BY DEF ChatInvariant, RequestsInv
    <3>2. ASSUME NEW u \in Sends, u > issued' \/ u \in tab'.creating
          PROVE  u > issued \/ u \in tab.creating
      BY <1>1, <1>2, <3>2 DEF Sends
    <3>. QED BY <1>3, <3>1, <3>2
  <2>. QED BY <1>8, <2>1, <2>2, <2>3 DEF RequestsInv
<1>10. TurnsInv'
  <2>1. tab'.conv \in {0} \cup kept' \cup lost'
    BY <1>2
  <2>2. \A u \in Sends : turns'[u].conv \in {0} \cup kept' \cup lost'
    BY <1>3 DEF ChatInvariant, TurnsInv
  <2>3. ASSUME NEW u \in Sends
        PROVE  TurnOK(turns'[u], kept')
    <3>1. CASE u = t
      BY <1>3, <1>6, <3>1 DEF ChatInvariant, TurnsInv, TurnOK
    <3>2. CASE u # t
      <4>1. turns[u].conv \in {0} \cup kept \cup lost /\ TurnOK(turns[u], kept)
        BY DEF ChatInvariant, TurnsInv
      <4>2. turns[u].conv \in kept' => turns[u].conv \in kept
        BY <4>1 DEF ChatInvariant, RequestsInv
      <4>. QED BY <1>3, <3>2, <4>1, <4>2 DEF TurnOK
    <3>. QED BY <3>1, <3>2
  <2>. QED BY <2>1, <2>2, <2>3 DEF TurnsInv
<1>. QED BY <1>5, <1>9, <1>10 DEF ChatInvariant

LEMMA DoSendStep ==
    ASSUME ChatInvariant, NEW tb \in TabType,
           tb.ws = tab.ws, tb.sock = tab.sock, tb.preOpen = tab.preOpen,
           tb.creating = tab.creating, tb.conv \in {0} \cup kept \cup lost,
           DoSend(tb), UNCHANGED <<kept, lost>>
    PROVE  ChatInvariant'
<1>. DEFINE t == issued + 1
            begun == [tb EXCEPT !.streaming = TRUE, !.error = FALSE]
<1>1. /\ issued \in Nat /\ t \in Nat /\ issued' = t /\ t \notin tab.creating
      /\ begun \in TabType /\ begun.ws = tb.ws /\ begun.sock = tb.sock
      /\ begun.preOpen = tb.preOpen /\ begun.creating = tb.creating /\ begun.conv = tb.conv
  <2>1. issued \in Nat /\ issued' = t /\ \A u \in tab.creating : u \in 1 .. issued
    BY DEF ChatInvariant, ChatShapes, RequestsInv, DoSend
  <2>2. t \in Nat /\ t \notin tab.creating
    BY <2>1
  <2>. QED BY <2>1, <2>2 DEF TabType
<1>2. CASE tb.conv # 0
  <2>1. SendRequest(begun, t, tb.conv)
    BY <1>2 DEF DoSend
  <2>2. tb.conv \in Nat /\ tb.conv # 0
    BY <1>2 DEF TabType
  <2>3. /\ t > issued /\ issued <= t /\ t \in 1 .. t
        /\ kept' = kept /\ lost' = lost
        /\ tb.conv \in {0} \cup kept' \cup lost
    BY <1>1
  <2>4. /\ begun.ws = tab.ws /\ begun.sock = tab.sock /\ begun.preOpen = tab.preOpen
        /\ begun.creating \subseteq tab.creating /\ t \notin begun.creating
        /\ begun.conv \in {0} \cup kept' \cup lost
    BY <1>1, <2>3
  <2>5. issued' \in Nat /\ issued <= issued' /\ t \in 1 .. issued'
    BY <1>1, <2>3
  <2>. HIDE DEF begun, t
  <2>. QED BY <1>1, <2>1, <2>2, <2>3, <2>4, <2>5, SendStep
<1>3. CASE tb.conv = 0
  <2>1. /\ tab' = [begun EXCEPT !.creating = @ \cup {t}] /\ UNCHANGED <<up, turns>>
    BY <1>3 DEF DoSend
  <2>2. /\ tab' \in TabType /\ tab'.ws = tab.ws /\ tab'.sock = tab.sock
        /\ tab'.preOpen = tab.preOpen /\ tab'.creating = tab.creating \cup {t}
        /\ tab'.conv = tb.conv
    BY <1>1, <2>1 DEF TabType
  <2>3. ChatShapes'
    BY <1>1, <2>1, <2>2 DEF ChatInvariant, ChatShapes
  <2>4. Waiting(tab.creating, issued, turns) \subseteq Waiting(tab.creating, issued, turns)'
    BY <1>1, <2>1, <2>2 DEF Waiting
  <2>5. Lanes(tab.preOpen, up)' = Lanes(tab.preOpen, up)
    BY <2>1, <2>2 DEF Lanes
  <2>6. Orderly(Lanes(tab.preOpen, up), LaneIds, Waiting(tab.creating, issued, turns))'
    BY <2>4, <2>5 DEF ChatInvariant, RequestsInv, Orderly
  <2>7. RequestsInv'
    BY <1>1, <2>1, <2>2, <2>6 DEF ChatInvariant, ChatShapes, RequestsInv, Sends
  <2>8. TurnsInv'
    BY <2>1, <2>2 DEF ChatInvariant, TurnsInv
  <2>. QED BY <2>3, <2>7, <2>8 DEF ChatInvariant
<1>. QED BY <1>2, <1>3

\* A prompt, a conversation that has been created or not, and what the view does about
\* its socket.
LEMMA ViewSteps ==
    ASSUME ChatInvariant,
           \/ EnterPrompt \/ CancelQueued \/ Stop \/ SwitchChat \/ ChatOpens \/ ChatCloses
           \/ \E t \in Sends : Created(t)
    PROVE  ChatInvariant'
<1>1. /\ tab \in TabType /\ tab.conv \in {0} \cup kept \cup lost
      /\ tab.ws = "open" => tab.sock > 0
      /\ tab.ws # "open" => tab.sock < MaxSockets
      /\ MaxSockets \in Nat /\ 0 \in 0 .. MaxSockets
  BY ChatAssumption DEF ChatInvariant, ChatShapes, TurnsInv
<1>2. CASE EnterPrompt
  <2>1. CASE tab.streaming
    <3>1. /\ tab' = [tab EXCEPT !.queued = TRUE]
          /\ UNCHANGED <<issued, up, turns, kept, lost>>
      BY <1>2, <2>1 DEF EnterPrompt, serverSide
    <3>. QED BY <1>1, <3>1, TabStep DEF TabType
  <2>2. CASE ~tab.streaming
    <3>1. DoSend(tab) /\ UNCHANGED <<kept, lost>>
      BY <1>2, <2>2 DEF EnterPrompt, serverSide
    <3>. QED BY <1>1, <3>1, DoSendStep
  <2>. QED BY <2>1, <2>2
<1>3. CASE CancelQueued
  <2>1. /\ tab' = [tab EXCEPT !.queued = FALSE]
        /\ UNCHANGED <<issued, up, turns, kept, lost>>
    BY <1>3 DEF CancelQueued, serverSide
  <2>. QED BY <1>1, <2>1, TabStep DEF TabType
<1>4. ASSUME NEW c \in {0} \cup kept \cup lost, AbortActiveStream(c)
      PROVE  ChatInvariant'
  <2>1. c \in Nat
    BY DEF ChatInvariant, ChatShapes, Sends
  <2>2. /\ tab' = [tab EXCEPT !.ws = "none", !.preOpen = <<>>, !.active = 0,
                              !.streaming = FALSE, !.queued = FALSE, !.conv = c,
                              !.error = @ /\ c = tab.conv]
        /\ tab.sock < MaxSockets
        /\ UNCHANGED <<issued, up, turns, kept, lost>>
    BY <1>1, <1>4 DEF AbortActiveStream, serverSide
  <2>3. /\ tab' \in TabType /\ tab'.ws = "none" /\ tab'.creating = tab.creating
        /\ tab'.sock = tab.sock /\ tab'.conv = c /\ tab'.preOpen = <<>>
    <3>1. <<>> \in Seq(Nat) /\ (tab.error /\ c = tab.conv) \in BOOLEAN
      OBVIOUS
    <3>. QED BY <1>1, <2>1, <2>2, <3>1 DEF TabType
  <2>. QED BY <2>2, <2>3, TabStep
<1>5. CASE Stop \/ SwitchChat
  BY <1>1, <1>4, <1>5 DEF Stop, SwitchChat
<1>6. CASE ChatCloses
  <2>1. /\ tab' = [tab EXCEPT !.ws = "opening", !.active = 0,
                              !.streaming = @ /\ tab.active = 0,
                              !.error = @ \/ tab.active # 0]
        /\ tab.sock < MaxSockets
        /\ UNCHANGED <<issued, up, turns, kept, lost>>
    BY <1>6 DEF ChatCloses, serverSide
  <2>2. /\ tab' \in TabType /\ tab'.ws = "opening" /\ tab'.creating = tab.creating
        /\ tab'.sock = tab.sock /\ tab'.conv = tab.conv /\ tab'.preOpen = tab.preOpen
    BY <1>1, <2>1 DEF TabType
  <2>. QED BY <1>1, <2>1, <2>2, TabStep
<1>7. CASE ChatOpens
  <2>1. /\ tab' = [tab EXCEPT !.ws = "open", !.sock = @ + 1, !.preOpen = <<>>]
        /\ up' = [up EXCEPT ![tab.sock + 1] = tab.preOpen]
        /\ tab.ws = "opening" /\ UNCHANGED <<issued, turns, kept, lost>>
    BY <1>7 DEF ChatOpens, serverSide
  <2>2. tab.sock + 1 \in Sockets /\ tab.sock + 1 \in LaneIds /\ tab.sock + 1 # 0 /\ 0 \in LaneIds
    BY <1>1, <2>1 DEF TabType, Sockets, LaneIds
  <2>3. /\ tab' \in TabType /\ tab'.ws = "open" /\ tab'.sock = tab.sock + 1
        /\ tab'.preOpen = <<>> /\ tab'.conv = tab.conv /\ tab'.creating = tab.creating
        /\ tab'.sock > 0 /\ tab.preOpen \in Seq(Nat)
    <3>1. <<>> \in Seq(Nat) /\ tab.sock + 1 \in 0 .. MaxSockets /\ tab.sock + 1 > 0
      BY <1>1, <2>1, <2>2 DEF TabType, LaneIds
    <3>. QED BY <1>1, <2>1, <3>1 DEF TabType
  <2>4. ChatShapes'
    BY <2>1, <2>2, <2>3 DEF ChatInvariant, ChatShapes
  <2>5. Orderly(Lanes(tab.preOpen, up), LaneIds, Waiting(tab.creating, issued, turns))'
    <3>1. /\ Lanes(tab.preOpen, up)' \in [LaneIds -> Seq(Nat)]
          /\ \A q \in LaneIds : Lanes(tab.preOpen, up)'[q] =
                IF q = tab.sock + 1 THEN Lanes(tab.preOpen, up)[0]
                ELSE IF q = 0 THEN <<>> ELSE Lanes(tab.preOpen, up)[q]
      <4>1. \A q \in LaneIds : q = 0 \/ q \in Sockets
        BY <1>1 DEF LaneIds, Sockets
      <4>2. up \in [Sockets -> Seq(Nat)] /\ up' \in [Sockets -> Seq(Nat)]
        BY <2>4 DEF ChatInvariant, ChatShapes
      <4>. QED BY <2>1, <2>2, <2>3, <4>1, <4>2 DEF Lanes
    <3>2. Orderly(Lanes(tab.preOpen, up)', LaneIds, Waiting(tab.creating, issued, turns))
      BY <2>2, <3>1, OrderlyMove DEF ChatInvariant, RequestsInv
    <3>3. Waiting(tab.creating, issued, turns)' = Waiting(tab.creating, issued, turns)
      BY <2>1, <2>3 DEF Waiting
    <3>. QED BY <3>2, <3>3
  <2>6. RequestsInv'
    BY <2>1, <2>3, <2>5 DEF ChatInvariant, RequestsInv
  <2>7. TurnsInv'
    BY <2>1, <2>3 DEF ChatInvariant, TurnsInv
  <2>. QED BY <2>4, <2>6, <2>7 DEF ChatInvariant
<1>8. ASSUME NEW t \in Sends, Created(t)
      PROVE  ChatInvariant'
  <2>1. /\ t \in tab.creating /\ t \in Nat /\ t # 0 /\ t \in 1 .. issued /\ issued \in Nat
        /\ UNCHANGED <<issued, lost>>
    <3>1. t \in tab.creating /\ UNCHANGED <<issued, prompts, down, gone, lost>>
      BY <1>8, Zenon DEF Created
    <3>. QED BY <3>1 DEF ChatInvariant, ChatShapes, RequestsInv, Sends
  <2>. DEFINE tb == [tab EXCEPT !.creating = @ \ {t}, !.conv = t]
  <2>2. CASE kept' = kept \cup {t} /\ SendRequest(tb, t, t)
    <3>1. /\ tb \in TabType /\ tb.ws = tab.ws /\ tb.sock = tab.sock /\ tb.preOpen = tab.preOpen
          /\ tb.creating \subseteq tab.creating /\ t \notin tb.creating /\ tb.conv = t
      BY <1>1, <2>1 DEF TabType
    <3>2. t \in {0} \cup kept' \cup lost /\ tb.conv \in {0} \cup kept' \cup lost
      BY <2>2, <3>1
    <3>3. issued' \in Nat /\ issued <= issued' /\ t \in 1 .. issued'
      BY <2>1
    <3>. HIDE DEF tb
    <3>. QED BY <2>1, <2>2, <3>1, <3>2, <3>3, SendStep
  <2>3. CASE /\ tab' = [tab EXCEPT !.creating = @ \ {t}, !.streaming = FALSE, !.error = TRUE]
             /\ UNCHANGED <<up, turns, kept>>
    <3>1. /\ tab' \in TabType /\ tab'.ws = tab.ws /\ tab'.sock = tab.sock
          /\ tab'.preOpen = tab.preOpen /\ tab'.creating \subseteq tab.creating
          /\ tab'.conv = tab.conv
      BY <1>1, <2>3 DEF TabType
    <3>. QED BY <1>1, <2>1, <2>3, <3>1, TabStep
  <2>4. \/ kept' = kept \cup {t} /\ SendRequest(tb, t, t)
        \/ /\ tab' = [tab EXCEPT !.creating = @ \ {t}, !.streaming = FALSE, !.error = TRUE]
           /\ UNCHANGED <<up, turns, kept>>
    BY <1>8, Zenon DEF Created
  <2>. QED BY <2>2, <2>3, <2>4
<1>. QED BY <1>2, <1>3, <1>5, <1>6, <1>7, <1>8

\* A frame is handled: it may end the turn of the view, and a turn may begin anew.
LEMMA FrameStep ==
    ASSUME ChatInvariant, HandleFrame
    PROVE  ChatInvariant'
<1>1. /\ tab \in TabType /\ tab.conv \in {0} \cup kept \cup lost
      /\ tab.ws = "open" => tab.sock > 0
      /\ tab.ws # "open" => tab.sock < MaxSockets
  BY DEF ChatInvariant, ChatShapes, TurnsInv
<1>2. UNCHANGED <<kept, lost>>
  BY DEF HandleFrame, serverSide
<1>3. ASSUME UNCHANGED <<issued, up, turns>>, tab' \in TabType,
             tab'.ws = tab.ws, tab'.sock = tab.sock, tab'.preOpen = tab.preOpen,
             tab'.creating = tab.creating, tab'.conv \in {0, tab.conv}
      PROVE  ChatInvariant'
  BY <1>1, <1>2, <1>3, TabStep
<1>4. ASSUME NEW f, OnError(f) \/ OnDone(f)
      PROVE  ChatInvariant'
  <2>. DEFINE over == [tab EXCEPT !.active = 0, !.streaming = FALSE]
  <2>1. /\ Ended(tab) = over /\ over \in TabType
        /\ [over EXCEPT !.conv = 0] \in TabType /\ [over EXCEPT !.queued = FALSE] \in TabType
    BY <1>1 DEF Ended, TabType
  <2>2. \/ DoSend([over EXCEPT !.conv = 0])
        \/ DoSend([over EXCEPT !.queued = FALSE])
        \/ /\ tab' = over \/ tab' = [over EXCEPT !.error = TRUE]
                          \/ tab' = [over EXCEPT !.error = TRUE, !.conv = 0]
           /\ UNCHANGED <<issued, up, turns>>
    <3>1. Ended(tab).conv = tab.conv
      BY <1>1, <2>1 DEF TabType
    <3>2. ASSUME OnError(f)
          PROVE  \/ DoSend([over EXCEPT !.conv = 0])
                 \/ /\ \/ tab' = [over EXCEPT !.error = TRUE, !.conv = 0]
                       \/ tab' = [over EXCEPT !.error = TRUE, !.conv = over.conv]
                    /\ UNCHANGED <<issued, up, turns>>
      BY <2>1, <3>2 DEF OnError
    <3>3. ASSUME OnDone(f)
          PROVE  \/ DoSend([over EXCEPT !.queued = FALSE])
                 \/ tab' = over /\ UNCHANGED <<issued, up, turns>>
      BY <2>1, <3>3 DEF OnDone
    <3>4. [over EXCEPT !.error = TRUE, !.conv = over.conv] = [over EXCEPT !.error = TRUE]
      BY <2>1 DEF TabType
    <3>. QED BY <1>4, <3>2, <3>3, <3>4
  <2>3. CASE DoSend([over EXCEPT !.conv = 0])
    BY <1>1, <1>2, <2>1, <2>3, DoSendStep DEF TabType
  <2>4. CASE DoSend([over EXCEPT !.queued = FALSE])
    BY <1>1, <1>2, <2>1, <2>4, DoSendStep DEF TabType
  <2>5. CASE /\ tab' = over \/ tab' = [over EXCEPT !.error = TRUE]
                            \/ tab' = [over EXCEPT !.error = TRUE, !.conv = 0]
             /\ UNCHANGED <<issued, up, turns>>
    <3>1. /\ tab' \in TabType /\ tab'.ws = tab.ws /\ tab'.sock = tab.sock
          /\ tab'.preOpen = tab.preOpen /\ tab'.creating = tab.creating
          /\ tab'.conv \in {0, tab.conv}
      <4>1. /\ over.ws = tab.ws /\ over.sock = tab.sock /\ over.preOpen = tab.preOpen
            /\ over.creating = tab.creating /\ over.conv = tab.conv
        BY <1>1 DEF TabType
      <4>2. CASE tab' = over
        BY <2>1, <4>1, <4>2
      <4>. HIDE DEF over
      <4>3. CASE tab' = [over EXCEPT !.error = TRUE]
        BY <2>1, <4>1, <4>3 DEF TabType
      <4>4. CASE tab' = [over EXCEPT !.error = TRUE, !.conv = 0]
        BY <2>1, <4>1, <4>4 DEF TabType
      <4>. QED BY <2>5, <4>2, <4>3, <4>4
    <3>. QED BY <1>3, <2>5, <3>1
  <2>. QED BY <2>2, <2>3, <2>4, <2>5
<1>5. CASE UNCHANGED <<tab, issued, up, turns>>
  BY <1>1, <1>3, <1>5
<1>. QED BY <1>4, <1>5 DEF HandleFrame

-----------------------------------------------------------------------------
(* What the server does.                                                   *)

\* Steps of the server that neither create nor delete a conversation.
LEMMA ServerStep ==
    ASSUME ChatInvariant, UNCHANGED <<tab, issued, kept, lost>>,
           up' \in [Sockets -> Seq(Nat)], turns' \in [Sends -> TurnType],
           \A u \in Sends : /\ turns'[u].conv = turns[u].conv
                            /\ u > issued \/ u \in tab.creating => turns'[u].at = "none"
                            /\ TurnOK(turns'[u], kept),
           Orderly(Lanes(tab.preOpen, up'), LaneIds, Waiting(tab.creating, issued, turns'))
    PROVE  ChatInvariant'
<1>1. ChatShapes'
  BY DEF ChatInvariant, ChatShapes
<1>2. Orderly(Lanes(tab.preOpen, up), LaneIds, Waiting(tab.creating, issued, turns))'
  OBVIOUS
<1>3. RequestsInv'
  BY <1>2 DEF ChatInvariant, RequestsInv
<1>4. TurnsInv'
  BY DEF ChatInvariant, TurnsInv
<1>. QED BY <1>1, <1>3, <1>4 DEF ChatInvariant

\* A turn that has begun goes on or ends.
LEMMA RunningStep ==
    ASSUME ChatInvariant, UNCHANGED <<tab, issued, up, kept, lost>>,
           NEW t \in Sends, turns[t].at # "none", NEW r \in TurnType, r.at # "none",
           r.conv = turns[t].conv, TurnOK(r, kept), turns' = [turns EXCEPT ![t] = r]
    PROVE  ChatInvariant'
<1>1. turns \in [Sends -> TurnType] /\ up' \in [Sockets -> Seq(Nat)]
  BY DEF ChatInvariant, ChatShapes
<1>2. /\ turns' \in [Sends -> TurnType]
      /\ \A u \in Sends : turns'[u] = IF u = t THEN r ELSE turns[u]
  BY <1>1
<1>3. \A u \in Sends : /\ turns'[u].conv = turns[u].conv
                       /\ u > issued \/ u \in tab.creating => turns'[u].at = "none"
                       /\ TurnOK(turns'[u], kept)
  BY <1>2 DEF ChatInvariant, RequestsInv, TurnsInv
<1>4. Waiting(tab.creating, issued, turns') = Waiting(tab.creating, issued, turns)
  BY <1>2 DEF Waiting
<1>5. Orderly(Lanes(tab.preOpen, up'), LaneIds, Waiting(tab.creating, issued, turns'))
  <2>1. up' = up
    OBVIOUS
  <2>. QED BY <1>4, <2>1 DEF ChatInvariant, RequestsInv
<1>. QED BY <1>1, <1>2, <1>3, <1>5, ServerStep

\* The request at the head of a socket begins a turn or is refused.
LEMMA RequestStep ==
    ASSUME ChatInvariant, NEW s \in Sockets, OnRequest(s)
    PROVE  ChatInvariant'
<1>. DEFINE L == Lanes(tab.preOpen, up)
            W == Waiting(tab.creating, issued, turns)
            t == Head(up[s])
<1>1. /\ up[s] # <<>> /\ up' = [up EXCEPT ![s] = Tail(@)]
      /\ UNCHANGED <<tab, issued, kept, lost>>
      /\ \/ turns' = [turns EXCEPT ![t].at = "over", ![t].sock = 0, ![t].told = "error"]
         \/ turns' = [turns EXCEPT ![t].at = "gating", ![t].sock = s]
  BY DEF OnRequest, Refuses, serverSide
<1>2. /\ up \in [Sockets -> Seq(Nat)] /\ turns \in [Sends -> TurnType] /\ issued \in Nat
      /\ s \in LaneIds /\ s # 0 /\ s \in 0 .. MaxSockets /\ 0 \in 0 .. MaxSockets
      /\ \A q \in LaneIds : q = 0 \/ q \in Sockets
  BY ChatAssumption DEF ChatInvariant, ChatShapes, Sockets, LaneIds
<1>3. L[s] = up[s] /\ Orderly(L, LaneIds, W)
  BY <1>2 DEF Lanes, ChatInvariant, RequestsInv
<1>4. t \in W /\ t \in Nat /\ Orderly([L EXCEPT ![s] = Tail(@)], LaneIds, W \ {t})
  <2>. HIDE DEF L, W
  <2>. QED BY <1>1, <1>2, <1>3, OrderlyTail
<1>5. up' \in [Sockets -> Seq(Nat)]
  BY <1>1, <1>2
<1>6. Lanes(tab.preOpen, up') = [L EXCEPT ![s] = Tail(@)]
  BY <1>1, <1>2 DEF Lanes
<1>7. turns' \in [Sends -> TurnType] /\ \A u \in Sends :
        /\ turns'[u].conv = turns[u].conv /\ turns'[u].sent = turns[u].sent
        /\ u # t => turns'[u] = turns[u]
        /\ u = t => turns'[u].at \in {"over", "gating"}
                    /\ turns'[u].told = IF turns'[u].at = "over" THEN "error" ELSE turns[u].told
  <2>. HIDE DEF t
  <2>1. CASE t \notin Sends
    <3>1. \A u \in Sends : turns'[u] = turns[u] /\ u # t
      BY <1>1, <1>2, <2>1
    <3>2. turns' = turns
      BY <1>1, <1>2, <2>1
    <3>. QED BY <1>2, <3>1, <3>2
  <2>2. CASE t \in Sends
    <3>1. PICK r \in TurnType :
            /\ turns' = [turns EXCEPT ![t] = r]
            /\ r.conv = turns[t].conv /\ r.sent = turns[t].sent /\ r.at \in {"over", "gating"}
            /\ r.told = IF r.at = "over" THEN "error" ELSE turns[t].told
      <4>1. turns[t] \in TurnType /\ turns \in [Sends -> TurnType]
        BY <1>2, <2>2
      <4>2. CASE turns' = [turns EXCEPT ![t].at = "over", ![t].sock = 0, ![t].told = "error"]
        <5>1. [turns[t] EXCEPT !.at = "over", !.sock = 0, !.told = "error"] \in TurnType
          BY <1>2, <4>1 DEF TurnType
        <5>. QED BY <2>2, <4>1, <4>2, <5>1 DEF TurnType
      <4>3. CASE turns' = [turns EXCEPT ![t].at = "gating", ![t].sock = s]
        <5>1. [turns[t] EXCEPT !.at = "gating", !.sock = s] \in TurnType
          BY <1>2, <4>1 DEF TurnType
        <5>. QED BY <2>2, <4>1, <4>3, <5>1 DEF TurnType
      <4>. QED BY <1>1, <4>2, <4>3
    <3>2. /\ turns' \in [Sends -> TurnType]
          /\ \A u \in Sends : turns'[u] = IF u = t THEN r ELSE turns[u]
      BY <1>2, <3>1
    <3>. QED BY <3>1, <3>2
  <2>. QED BY <2>1, <2>2
<1>8. ASSUME NEW u \in Sends
      PROVE  /\ u > issued \/ u \in tab.creating => turns'[u].at = "none"
             /\ TurnOK(turns'[u], kept)
  <2>1. CASE u = t
    <3>1. u \notin tab.creating /\ ~(u > issued) /\ turns[u].at = "none"
      BY <1>2, <1>4, <2>1 DEF Waiting
    <3>2. turns[u].sent = 0 /\ turns[u].told = "nothing"
      BY <3>1 DEF ChatInvariant, TurnsInv, TurnOK
    <3>. QED BY <1>7, <2>1, <3>1, <3>2 DEF TurnOK
  <2>2. CASE u # t
    BY <1>7, <2>2 DEF ChatInvariant, RequestsInv, TurnsInv
  <2>. QED BY <2>1, <2>2
<1>9. Orderly(Lanes(tab.preOpen, up'), LaneIds, Waiting(tab.creating, issued, turns'))
  <2>1. W \ {t} \subseteq Waiting(tab.creating, issued, turns')
    BY <1>7 DEF Waiting
  <2>2. Lanes(tab.preOpen, up') \in [LaneIds -> Seq(Nat)]
    BY <1>4, <1>6 DEF Orderly
  <2>. HIDE DEF L, W, t
  <2>. QED BY <1>4, <1>6, <2>1, <2>2, OrderlyLess
<1>. QED BY <1>1, <1>5, <1>7, <1>8, <1>9, ServerStep

\* The finally block of a turn that has streamed.
LEMMA FinallyStep ==
    ASSUME ChatInvariant, UNCHANGED <<tab, issued, up, kept, lost>>,
           NEW t \in Sends, turns[t].at = "streaming", NEW fails \in BOOLEAN,
           TurnFinally(t, fails)
    PROVE  ChatInvariant'
<1>. DEFINE aborted == turns[t].sock \in gone
            told == IF aborted THEN turns[t].told ELSE IF fails THEN "error" ELSE "done"
            stored == IF turns[t].conv \notin kept THEN turns[t].answer
                      ELSE [content |-> turns[t].sent, truncated |-> aborted \/ fails]
            r == [turns[t] EXCEPT !.at = "over", !.sock = 0, !.told = told, !.answer = stored]
<1>1. /\ turns \in [Sends -> TurnType] /\ turns[t] \in TurnType /\ turns[t].told = "nothing"
      /\ 0 \in 0 .. MaxSockets
  BY ChatAssumption DEF ChatInvariant, ChatShapes, TurnsInv, TurnOK
<1>2. told \in {"nothing", "error", "done"} /\ stored \in [content : Nat, truncated : BOOLEAN]
  BY <1>1 DEF TurnType
<1>3. turns' = [turns EXCEPT ![t] = r]
  <2>. DEFINE ends == IF aborted THEN <<>> ELSE IF fails THEN <<"error", "done">> ELSE <<"done">>
  <2>1. told = IF ends = <<>> THEN turns[t].told ELSE Head(ends)
    BY <1>1
  <2>2. turns' = [turns EXCEPT ![t].at = "over", ![t].sock = 0,
                               ![t].told = IF ends = <<>> THEN @ ELSE Head(ends),
                               ![t].answer = IF turns[t].conv \notin kept THEN @
                                             ELSE [content |-> turns[t].sent,
                                                   truncated |-> aborted \/ fails]]
    BY DEF TurnFinally
  <2>. HIDE DEF ends
  <2>. QED BY <1>1, <2>1, <2>2 DEF TurnType
<1>4. /\ r \in TurnType /\ r.at = "over" /\ r.conv = turns[t].conv /\ r.told = told
      /\ r.answer = stored /\ r.sent = turns[t].sent
  <2>. HIDE DEF told, stored
  <2>. QED BY <1>1, <1>2 DEF TurnType
<1>5. TurnOK(r, kept)
  <2>1. turns[t].conv \in kept
        => stored.content = turns[t].sent /\ stored.truncated = (aborted \/ fails)
    OBVIOUS
  <2>2. aborted \/ fails <=> told # "done"
    BY <1>1
  <2>. HIDE DEF r, told, stored, aborted
  <2>. QED BY <1>1, <1>4, <2>1, <2>2 DEF TurnOK
<1>. HIDE DEF r
<1>. QED BY <1>3, <1>4, <1>5, RunningStep

\* A turn passes the gates, streams a chunk or ends.
LEMMA ChatTurnStep ==
    ASSUME ChatInvariant, NEW t \in Sends, Gated(t) \/ Chunk(t) \/ ChatStreamEnds(t)
    PROVE  ChatInvariant'
<1>1. /\ turns \in [Sends -> TurnType] /\ turns[t] \in TurnType /\ TurnOK(turns[t], kept)
      /\ 0 \in 0 .. MaxSockets /\ UNCHANGED <<tab, issued, up, kept, lost>>
  <2>1. UNCHANGED <<tab, issued, prompts, up, serverSide>>
    BY Zenon DEF Gated, Chunk, ChatStreamEnds
  <2>. QED BY <2>1, ChatAssumption DEF ChatInvariant, ChatShapes, TurnsInv, serverSide
<1>2. CASE Gated(t)
  <2>1. /\ turns[t].at = "gating"
        /\ \/ turns' = [turns EXCEPT ![t].at = "streaming"]
           \/ turns' = [turns EXCEPT ![t].at = "over", ![t].sock = 0]
           \/ turns' = [turns EXCEPT ![t].at = "over", ![t].sock = 0, ![t].told = "error"]
    BY <1>2 DEF Gated, Refuses
  <2>2. turns[t].sent = 0 /\ turns[t].told = "nothing"
    BY <1>1, <2>1 DEF TurnOK
  <2>3. PICK r \in TurnType :
          /\ turns' = [turns EXCEPT ![t] = r] /\ r.conv = turns[t].conv /\ r.sent = 0
          /\ r.at = "over" \/ (r.at = "streaming" /\ r.told = "nothing")
    <3>1. CASE turns' = [turns EXCEPT ![t].at = "streaming"]
      <4>1. [turns[t] EXCEPT !.at = "streaming"] \in TurnType
        BY <1>1 DEF TurnType
      <4>. QED BY <1>1, <2>2, <3>1, <4>1 DEF TurnType
    <3>2. CASE turns' = [turns EXCEPT ![t].at = "over", ![t].sock = 0]
      <4>1. [turns[t] EXCEPT !.at = "over", !.sock = 0] \in TurnType
        BY <1>1 DEF TurnType
      <4>. QED BY <1>1, <2>2, <3>2, <4>1 DEF TurnType
    <3>3. CASE turns' = [turns EXCEPT ![t].at = "over", ![t].sock = 0, ![t].told = "error"]
      <4>1. [turns[t] EXCEPT !.at = "over", !.sock = 0, !.told = "error"] \in TurnType
        BY <1>1 DEF TurnType
      <4>. QED BY <1>1, <2>2, <3>3, <4>1 DEF TurnType
    <3>. QED BY <2>1, <3>1, <3>2, <3>3
  <2>4. TurnOK(r, kept)
    BY <2>3 DEF TurnOK
  <2>. QED BY <1>1, <2>1, <2>3, <2>4, RunningStep
<1>3. ASSUME turns[t].at = "streaming", turns' = [turns EXCEPT ![t].sent = @ + 1]
      PROVE  ChatInvariant'
  <2>. DEFINE r == [turns[t] EXCEPT !.sent = @ + 1]
  <2>1. /\ r \in TurnType /\ r.at = "streaming" /\ r.conv = turns[t].conv
        /\ r.told = turns[t].told
    BY <1>1, <1>3 DEF TurnType
  <2>2. turns' = [turns EXCEPT ![t] = r]
    BY <1>1, <1>3 DEF TurnType
  <2>. HIDE DEF r
  <2>3. TurnOK(r, kept)
    BY <1>1, <1>3, <2>1 DEF TurnOK
  <2>. QED BY <1>1, <1>3, <2>1, <2>2, <2>3, RunningStep
<1>4. CASE Chunk(t)
  <2>1. /\ turns[t].at = "streaming"
        /\ turns' = [turns EXCEPT ![t].sent = @ + 1] \/ TurnFinally(t, FALSE)
    BY <1>4, Zenon DEF Chunk
  <2>. QED BY <1>1, <1>3, <2>1, FinallyStep
<1>5. CASE ChatStreamEnds(t)
  <2>1. turns[t].at = "streaming" /\ \E fails \in BOOLEAN : TurnFinally(t, fails)
    BY <1>5, Zenon DEF ChatStreamEnds
  <2>. QED BY <1>1, <2>1, FinallyStep
<1>. QED BY <1>2, <1>4, <1>5

\* A socket is closed, and a conversation deleted by somebody else.
LEMMA OutsideStep ==
    ASSUME ChatInvariant,
           (\E s \in Sockets : HangUp(s)) \/ \E c \in Sends : Delete(c)
    PROVE  ChatInvariant'
<1>1. /\ turns \in [Sends -> TurnType] /\ up \in [Sockets -> Seq(Nat)]
      /\ \A q \in LaneIds : q = 0 \/ q \in Sockets
      /\ \A u \in Sends : TurnOK(turns[u], kept)
  BY ChatAssumption DEF ChatInvariant, ChatShapes, TurnsInv, LaneIds, Sockets
<1>2. ASSUME NEW s \in Sockets, HangUp(s)
      PROVE  ChatInvariant'
  <2>1. up' = [up EXCEPT ![s] = <<>>] /\ UNCHANGED <<tab, issued, turns, kept, lost>>
    BY <1>2 DEF HangUp
  <2>2. up' \in [Sockets -> Seq(Nat)] /\ \A q \in Sockets : up'[q] = up[q] \/ up'[q] = <<>>
    BY <1>1, <2>1
  <2>3. \A u \in Sends : /\ turns'[u].conv = turns[u].conv
                         /\ u > issued \/ u \in tab.creating => turns'[u].at = "none"
                         /\ TurnOK(turns'[u], kept)
    BY <1>1, <2>1 DEF ChatInvariant, RequestsInv
  <2>4. Orderly(Lanes(tab.preOpen, up'), LaneIds, Waiting(tab.creating, issued, turns'))
    <3>1. tab.preOpen \in Seq(Nat)
      BY DEF ChatInvariant, ChatShapes, TabType
    <3>2. /\ Lanes(tab.preOpen, up') \in [LaneIds -> Seq(Nat)]
          /\ \A q \in LaneIds : \/ Lanes(tab.preOpen, up')[q] = Lanes(tab.preOpen, up)[q]
                                \/ Lanes(tab.preOpen, up')[q] = <<>>
      BY <1>1, <2>2, <3>1 DEF Lanes
    <3>3. Orderly(Lanes(tab.preOpen, up), LaneIds, Waiting(tab.creating, issued, turns'))
      BY <2>1 DEF ChatInvariant, RequestsInv
    <3>. QED BY <3>2, <3>3, OrderlyLess
  <2>5. turns' \in [Sends -> TurnType]
    BY <1>1, <2>1
  <2>. QED BY <2>1, <2>2, <2>3, <2>4, <2>5, ServerStep
<1>3. ASSUME NEW c \in Sends, Delete(c)
      PROVE  ChatInvariant'
  <2>1. /\ c \in kept /\ kept' = kept \ {c} /\ lost' = lost \cup {c}
        /\ UNCHANGED <<tab, issued, up>>
        /\ turns' = [t \in Sends |-> IF turns[t].conv # c THEN turns[t]
                                     ELSE [turns[t] EXCEPT !.answer = NoAnswer]]
    BY <1>3 DEF Delete
  <2>2. NoAnswer \in [content : Nat, truncated : BOOLEAN]
    BY DEF NoAnswer
  <2>3. turns' \in [Sends -> TurnType] /\ \A u \in Sends :
          /\ turns'[u].at = turns[u].at /\ turns'[u].conv = turns[u].conv
          /\ turns'[u].sent = turns[u].sent /\ turns'[u].told = turns[u].told
          /\ turns[u].conv # c => turns'[u] = turns[u]
    <3>. HIDE DEF NoAnswer
    <3>1. ASSUME NEW r \in TurnType
          PROVE  LET x == [r EXCEPT !.answer = NoAnswer]
                 IN  /\ x \in TurnType /\ x.at = r.at /\ x.conv = r.conv
                     /\ x.sent = r.sent /\ x.told = r.told
      BY <2>2 DEF TurnType
    <3>2. ASSUME NEW u \in Sends
          PROVE  /\ turns'[u] \in TurnType
                 /\ turns'[u].at = turns[u].at /\ turns'[u].conv = turns[u].conv
                 /\ turns'[u].sent = turns[u].sent /\ turns'[u].told = turns[u].told
                 /\ turns[u].conv # c => turns'[u] = turns[u]
      <4>1. turns[u] \in TurnType
        BY <1>1
      <4>2. turns'[u] = IF turns[u].conv # c THEN turns[u]
                        ELSE [turns[u] EXCEPT !.answer = NoAnswer]
        BY <2>1
      <4>. QED BY <3>1, <4>1, <4>2
    <3>3. turns' \in [Sends -> TurnType]
      BY <2>1, <3>2
    <3>. QED BY <3>2, <3>3
  <2>4. /\ kept' \subseteq Sends /\ lost' \subseteq Sends /\ kept' \cap lost' = {}
        /\ kept' \cup lost' = kept \cup lost
    BY <2>1 DEF ChatInvariant, ChatShapes
  <2>5. ChatShapes'
    BY <2>1, <2>3, <2>4 DEF ChatInvariant, ChatShapes
  <2>6. Waiting(tab.creating, issued, turns)' = Waiting(tab.creating, issued, turns)
    BY <2>1, <2>3 DEF Waiting
  <2>7. Orderly(Lanes(tab.preOpen, up), LaneIds, Waiting(tab.creating, issued, turns))'
    BY <2>1, <2>6 DEF ChatInvariant, RequestsInv
  <2>8. RequestsInv'
    BY <2>1, <2>3, <2>4, <2>7 DEF ChatInvariant, RequestsInv
  <2>9. \A u \in Sends : TurnOK(turns'[u], kept')
    BY <1>1, <2>1, <2>3 DEF TurnOK
  <2>10. TurnsInv'
    BY <2>1, <2>3, <2>4, <2>9 DEF ChatInvariant, TurnsInv
  <2>. QED BY <2>5, <2>8, <2>10 DEF ChatInvariant
<1>. QED BY <1>2, <1>3

-----------------------------------------------------------------------------
(* A chat: the theorem.                                                    *)

LEMMA ChatSteps == ChatInvariant /\ [ChatNext]_chatVars => ChatInvariant'
<1>. SUFFICES ASSUME ChatInvariant, [ChatNext]_chatVars
              PROVE  ChatInvariant'
  OBVIOUS
<1>1. CASE UNCHANGED chatVars
  BY <1>1 DEF chatVars, ChatInvariant, ChatShapes, RequestsInv, TurnsInv
<1>2. CASE ChatNext
  <2>1. \/ \/ EnterPrompt \/ CancelQueued \/ Stop \/ SwitchChat \/ ChatOpens \/ ChatCloses
           \/ \E t \in Sends : Created(t)
        \/ HandleFrame
        \/ \E t \in Sends : Gated(t) \/ Chunk(t) \/ ChatStreamEnds(t)
        \/ \E s \in Sockets : OnRequest(s)
        \/ (\E s \in Sockets : HangUp(s)) \/ \E c \in Sends : Delete(c)
    BY <1>2, Zenon DEF ChatNext
  <2>. QED BY <2>1, ViewSteps, FrameStep, ChatTurnStep, RequestStep, OutsideStep
<1>. QED BY <1>1, <1>2

LEMMA AlwaysChat == ChatSpec => []ChatInvariant
<1>. QED BY InitChat, ChatSteps, PTL DEF ChatSpec

\* What a turn had streamed is in the conversation when it is over, marked as truncated
\* unless the client was told that the turn is done: also when the socket is lost, the
\* turn fails or the request is sent again, for any number of each (the finally block
\* of handleChatRequest).
THEOREM StreamedAnswersAreStored == ChatSpec => []StreamedIsStored
<1>1. ChatInvariant => StreamedIsStored
  BY DEF ChatInvariant, TurnsInv, TurnOK, StreamedIsStored
<1>. QED BY <1>1, AlwaysChat, PTL

-----------------------------------------------------------------------------
(* A chat: how many requests there are.  A prompt is sent once, and once   *)
(* more if its conversation turns out to be gone: somebody else deletes    *)
(* one conversation at most.  Each of the two is counted while it can      *)
(* still come.                                                             *)

FrameType == [event : {"error", "unknown", "done"}, conv : Nat]

\* What is on its way to the view.
Coming == IF tab.ws = "open" THEN down[tab.sock] ELSE <<>>
Unknowns(d) == {i \in 1 .. Len(d) : d[i].event = "unknown"}

\* Requests the server has not seen whose conversation is gone, or may go.
AtRisk(tns, deleted, i) ==
    {t \in Sends : t <= i /\ tns[t].at = "none" /\ (deleted = {} \/ tns[t].conv \in deleted)}

Held(queued) == IF queued THEN 2 ELSE 0

DownInv ==
    /\ down \in [Sockets -> Seq(FrameType)]
    /\ \A s \in Sockets : down[s] = <<>> \/ (tab.ws = "open" /\ tab.sock = s)

CountInv ==
    /\ prompts \in 0 .. MaxPrompts
    /\ issued + Cardinality(AtRisk(turns, lost, issued)) + Cardinality(Unknowns(Coming))
          + Held(tab.queued) <= 2 * prompts
    /\ Unknowns(Coming) # {} => lost # {}
    /\ \A t \in Sends : t > issued => turns[t].conv = 0

BooksInv == DownInv /\ CountInv

LEMMA RiskIsFinite ==
    ASSUME NEW tns, NEW deleted, NEW i
    PROVE  /\ IsFiniteSet(AtRisk(tns, deleted, i))
           /\ Cardinality(AtRisk(tns, deleted, i)) \in Nat
<1>1. IsFiniteSet(Sends)
  BY FS_Interval, ChatAssumption DEF Sends
<1>2. AtRisk(tns, deleted, i) \in SUBSET Sends
  BY DEF AtRisk
<1>. QED BY <1>1, <1>2, FS_Subset, FS_CardinalityType

LEMMA FewerOf ==
    ASSUME NEW S, IsFiniteSet(S), NEW T, T \subseteq S
    PROVE  /\ IsFiniteSet(T) /\ Cardinality(T) \in Nat /\ Cardinality(S) \in Nat
           /\ Cardinality(T) <= Cardinality(S)
BY FS_Subset, FS_CardinalityType

LEMMA OneMoreThan ==
    ASSUME NEW S, IsFiniteSet(S), NEW x, NEW T, T \subseteq S \cup {x}
    PROVE  /\ IsFiniteSet(T) /\ Cardinality(T) \in Nat /\ Cardinality(S) \in Nat
           /\ Cardinality(T) <= Cardinality(S) + 1
<1>1. /\ IsFiniteSet(S \cup {x}) /\ Cardinality(S) \in Nat
      /\ \/ Cardinality(S \cup {x}) = Cardinality(S) + 1
         \/ Cardinality(S \cup {x}) = Cardinality(S)
  BY FS_AddElement, FS_CardinalityType
<1>2. /\ IsFiniteSet(T) /\ Cardinality(T) \in Nat
      /\ Cardinality(T) <= Cardinality(S \cup {x})
  BY <1>1, FewerOf
<1>. QED BY <1>1, <1>2

LEMMA OneLessThan ==
    ASSUME NEW S, IsFiniteSet(S), NEW x \in S, NEW T, T \subseteq S \ {x}
    PROVE  /\ IsFiniteSet(T) /\ Cardinality(T) \in Nat /\ Cardinality(S) \in Nat
           /\ Cardinality(T) <= Cardinality(S) - 1
<1>1. /\ IsFiniteSet(S \ {x}) /\ Cardinality(S) \in Nat
      /\ Cardinality(S \ {x}) = Cardinality(S) - 1
  BY FS_RemoveElement, FS_CardinalityType
<1>2. /\ IsFiniteSet(T) /\ Cardinality(T) \in Nat
      /\ Cardinality(T) <= Cardinality(S \ {x})
  BY <1>1, FewerOf
<1>. QED BY <1>1, <1>2

\* The frames that say that a conversation is unknown, when one is read and when some
\* are appended.
LEMMA UnknownsAreFinite ==
    ASSUME NEW d \in Seq(FrameType)
    PROVE  IsFiniteSet(Unknowns(d)) /\ Cardinality(Unknowns(d)) \in Nat
<1>1. IsFiniteSet(1 .. Len(d)) /\ Unknowns(d) \subseteq 1 .. Len(d)
  BY FS_Interval DEF Unknowns
<1>. QED BY <1>1, FewerOf

LEMMA UnknownsOfTail ==
    ASSUME NEW d \in Seq(FrameType), d # <<>>
    PROVE  /\ Tail(d) \in Seq(FrameType) /\ Head(d) \in FrameType
           /\ Cardinality(Unknowns(Tail(d)))
                  <= Cardinality(Unknowns(d)) - (IF Head(d).event = "unknown" THEN 1 ELSE 0)
           /\ Unknowns(Tail(d)) # {} \/ Head(d).event = "unknown" => Unknowns(d) # {}
<1>. DEFINE A == Unknowns(Tail(d))
            B == Unknowns(d) \ {1}
            f == [i \in A |-> i + 1]
<1>1. /\ Len(d) \in Nat /\ Len(d) > 0 /\ Tail(d) \in Seq(FrameType) /\ Head(d) \in FrameType
      /\ Len(Tail(d)) = Len(d) - 1 /\ Head(d) = d[1]
      /\ \A i \in 1 .. Len(Tail(d)) : Tail(d)[i] = d[i + 1]
  OBVIOUS
<1>2. \A i \in A : i \in Nat /\ i + 1 \in B
  BY <1>1 DEF Unknowns
<1>3. f \in [A -> B] /\ \A i, j \in A : f[i] = f[j] => i = j
  <2>. HIDE DEF A, B
  <2>. QED BY <1>2
<1>4. f \in Injection(A, B)
  <2>. HIDE DEF A, B, f
  <2>. QED BY <1>3, Fun_IsInj
<1>5. /\ IsFiniteSet(A) /\ Cardinality(A) \in Nat
      /\ IsFiniteSet(Unknowns(d)) /\ Cardinality(Unknowns(d)) \in Nat
  BY <1>1, UnknownsAreFinite
<1>6. /\ IsFiniteSet(B) /\ Cardinality(B) \in Nat
      /\ Cardinality(B) <= Cardinality(Unknowns(d)) - (IF Head(d).event = "unknown" THEN 1 ELSE 0)
  <2>1. CASE Head(d).event = "unknown"
    <3>1. 1 \in Unknowns(d)
      BY <1>1, <2>1 DEF Unknowns
    <3>. QED BY <1>5, <2>1, <3>1, OneLessThan
  <2>2. CASE Head(d).event # "unknown"
    BY <1>5, <2>2, FewerOf
  <2>. QED BY <2>1, <2>2
<1>7. Cardinality(A) <= Cardinality(B)
  <2>. HIDE DEF A, B, f
  <2>. QED BY <1>4, <1>6, FS_Injection
<1>8. A # {} \/ Head(d).event = "unknown" => Unknowns(d) # {}
  <2>1. Head(d).event = "unknown" => 1 \in Unknowns(d)
    BY <1>1 DEF Unknowns
  <2>2. B \subseteq Unknowns(d)
    OBVIOUS
  <2>. HIDE DEF A, B, f
  <2>. QED BY <1>2, <2>1, <2>2
<1>. QED BY <1>1, <1>5, <1>6, <1>7, <1>8

LEMMA UnknownsOfMore ==
    ASSUME NEW d \in Seq(FrameType), NEW e \in Seq(FrameType),
           \A i \in 1 .. Len(e) : e[i].event = "unknown" => i = 1
    PROVE  /\ d \o e \in Seq(FrameType)
           /\ Unknowns(d \o e) \subseteq Unknowns(d) \cup {Len(d) + 1}
           /\ (e = <<>> \/ e[1].event # "unknown") => Unknowns(d \o e) = Unknowns(d)
<1>1. /\ d \o e \in Seq(FrameType) /\ Len(d \o e) = Len(d) + Len(e)
      /\ Len(d) \in Nat /\ Len(e) \in Nat
      /\ \A i \in 1 .. Len(d) : (d \o e)[i] = d[i]
      /\ \A i \in Len(d) + 1 .. Len(d) + Len(e) : (d \o e)[i] = e[i - Len(d)]
  OBVIOUS
<1>2. ASSUME NEW i \in Unknowns(d \o e)
      PROVE  i \in Unknowns(d) \/ (i = Len(d) + 1 /\ e # <<>> /\ e[1].event = "unknown")
  <2>1. i \in 1 .. Len(d) + Len(e) /\ (d \o e)[i].event = "unknown"
    BY <1>1 DEF Unknowns
  <2>2. CASE i \in 1 .. Len(d)
    BY <1>1, <2>1, <2>2 DEF Unknowns
  <2>3. CASE i \notin 1 .. Len(d)
    <3>1. i \in Len(d) + 1 .. Len(d) + Len(e) /\ i - Len(d) \in 1 .. Len(e)
      BY <1>1, <2>1, <2>3
    <3>2. e[i - Len(d)].event = "unknown"
      BY <1>1, <2>1, <3>1
    <3>3. i - Len(d) = 1
      BY <3>1, <3>2
    <3>. QED BY <1>1, <2>1, <3>1, <3>2, <3>3
  <2>. QED BY <2>2, <2>3
<1>3. Unknowns(d) \subseteq Unknowns(d \o e)
  <2>1. ASSUME NEW i \in Unknowns(d)
        PROVE  i \in Unknowns(d \o e)
    <3>1. i \in 1 .. Len(d) /\ d[i].event = "unknown"
      BY DEF Unknowns
    <3>2. i \in 1 .. Len(d \o e) /\ (d \o e)[i].event = "unknown"
      BY <1>1, <3>1
    <3>. QED BY <3>2 DEF Unknowns
  <2>. QED BY <2>1
<1>. QED BY <1>1, <1>2, <1>3

LEMMA ComingIsASequence ==
    ASSUME ChatInvariant, DownInv
    PROVE  /\ Coming \in Seq(FrameType)
           /\ tab.ws = "open" => tab.sock \in Sockets /\ Coming = down[tab.sock]
           /\ tab.ws # "open" => Coming = <<>> /\ \A s \in Sockets : down[s] = <<>>
<1>1. tab.ws = "open" => tab.sock \in Sockets
  BY DEF ChatInvariant, ChatShapes, TabType, Sockets
<1>. QED BY <1>1 DEF Coming, DownInv

\* Every number that was given out is one of Sends.
LEMMA IssuedAreSends ==
    ASSUME ChatInvariant, BooksInv
    PROVE  issued \in 0 .. 2 * MaxPrompts /\ 1 .. issued \subseteq Sends
<1>1. Cardinality(AtRisk(turns, lost, issued)) \in Nat
  BY RiskIsFinite
<1>2. Cardinality(Unknowns(Coming)) \in Nat
  BY ComingIsASequence, UnknownsAreFinite DEF BooksInv
<1>3. issued \in Nat /\ prompts \in 0 .. MaxPrompts /\ Held(tab.queued) \in Nat
  BY DEF ChatInvariant, ChatShapes, BooksInv, CountInv, Held
<1>4. issued <= 2 * prompts
  <2>. DEFINE r == Cardinality(AtRisk(turns, lost, issued))
              u == Cardinality(Unknowns(Coming))
              h == Held(tab.queued)
  <2>1. issued + r + u + h <= 2 * prompts
    BY DEF BooksInv, CountInv
  <2>. HIDE DEF r, u, h
  <2>2. r \in Nat /\ u \in Nat /\ h \in Nat
    BY <1>1, <1>2, <1>3 DEF r, u, h
  <2>. QED BY <1>3, <2>1, <2>2
<1>. QED BY <1>3, <1>4, ChatAssumption DEF Sends

\* What a step adds to the requests at risk and to the frames that may have one sent again
\* is made up for by the prompts and the queue.
Balances(r, u) ==
    /\ Cardinality(AtRisk(turns, lost, issued)')
           <= Cardinality(AtRisk(turns, lost, issued)) + r
    /\ Cardinality(Unknowns(Coming)') <= Cardinality(Unknowns(Coming)) + u
    /\ issued' + r + u + Held(tab'.queued) + 2 * prompts
           <= issued + Held(tab.queued) + 2 * prompts'

LEMMA CountStays ==
    ASSUME ChatInvariant, ChatInvariant', BooksInv, DownInv', prompts' \in Nat,
           NEW r \in Int, NEW u \in Int, Balances(r, u)
    PROVE  issued' + Cardinality(AtRisk(turns, lost, issued)') + Cardinality(Unknowns(Coming)')
               + Held(tab'.queued) <= 2 * prompts'
<1>. DEFINE a == Cardinality(AtRisk(turns, lost, issued))
            b == Cardinality(Unknowns(Coming))
            h == Held(tab.queued)
<1>1. /\ a \in Nat /\ a' \in Nat
  BY RiskIsFinite
<1>2. b \in Nat
  BY ComingIsASequence, UnknownsAreFinite DEF BooksInv
<1>3. b' \in Nat
  <2>1. Coming' \in Seq(FrameType)
    <3>1. tab'.ws = "open" => tab'.sock \in Sockets
      BY DEF ChatInvariant, ChatShapes, TabType, Sockets
    <3>2. down' \in [Sockets -> Seq(FrameType)]
      BY DEF DownInv
    <3>. QED BY <3>1, <3>2 DEF Coming
  <2>. QED BY <2>1, UnknownsAreFinite
<1>4. /\ issued \in Nat /\ issued' \in Nat /\ prompts \in Nat /\ prompts' \in Nat
      /\ h \in Nat /\ h' \in Nat
  BY DEF ChatInvariant, ChatShapes, BooksInv, CountInv, Held
<1>5. issued + a + b + h <= 2 * prompts
  BY DEF BooksInv, CountInv
<1>6. /\ a' <= a + r /\ b' <= b + u
      /\ issued' + r + u + h' + 2 * prompts <= issued + h + 2 * prompts'
  BY DEF Balances
<1>7. issued' + a' + b' + h' <= 2 * prompts'
  <2>. HIDE DEF a, b, h
  <2>1. PICK a1 \in Nat, b1 \in Nat, h1 \in Nat, i1 \in Nat, p1 \in Nat :
               a1 = a' /\ b1 = b' /\ h1 = h' /\ i1 = issued' /\ p1 = prompts'
    BY <1>1, <1>3, <1>4
  <2>2. a1 <= a + r /\ b1 <= b + u /\ i1 + r + u + h1 + 2 * prompts <= issued + h + 2 * p1
    BY <1>6, <2>1, Zenon
  <2>3. i1 + a1 + b1 + h1 <= 2 * p1
    BY <1>1, <1>2, <1>4, <1>5, <2>2
  <2>. QED BY <2>1, <2>3, Zenon
<1>. QED BY <1>7

LEMMA BalancedStep ==
    ASSUME ChatInvariant, ChatInvariant', BooksInv, DownInv', NEW r \in Int, NEW u \in Int,
           Cardinality(AtRisk(turns, lost, issued)')
               <= Cardinality(AtRisk(turns, lost, issued)) + r,
           Cardinality(Unknowns(Coming)') <= Cardinality(Unknowns(Coming)) + u,
           prompts' \in 0 .. MaxPrompts,
           issued' + r + u + Held(tab'.queued) + 2 * prompts
               <= issued + Held(tab.queued) + 2 * prompts',
           Unknowns(Coming)' # {} => lost' # {},
           \A t \in Sends : t > issued' => turns'[t].conv = 0
    PROVE  BooksInv'
<1>1. prompts' \in Nat
  BY ChatAssumption
<1>2. Balances(r, u)
  BY DEF Balances
<1>3. CountInv'
  BY <1>1, <1>2, CountStays DEF CountInv
<1>. QED BY <1>3 DEF BooksInv

\* A step that sends nothing.
LEMMA SilentStep ==
    ASSUME ChatInvariant, ChatInvariant', BooksInv, DownInv',
           issued' = issued, prompts' = prompts, tab'.queued => tab.queued,
           lost \subseteq lost', Coming' = Coming \/ Coming' = <<>>,
           AtRisk(turns, lost, issued)' \subseteq AtRisk(turns, lost, issued),
           \A t \in Sends : t > issued => turns'[t].conv = 0
    PROVE  BooksInv'
<1>1. /\ Cardinality(AtRisk(turns, lost, issued)') \in Nat
      /\ Cardinality(AtRisk(turns, lost, issued)) \in Nat
      /\ Cardinality(AtRisk(turns, lost, issued)')
             <= Cardinality(AtRisk(turns, lost, issued)) + 0
  <2>1. IsFiniteSet(AtRisk(turns, lost, issued))
    BY RiskIsFinite
  <2>. DEFINE S == AtRisk(turns, lost, issued)
  <2>2. S' \subseteq S /\ IsFiniteSet(S)
    BY <2>1
  <2>. HIDE DEF S
  <2>3. /\ Cardinality(S') \in Nat /\ Cardinality(S) \in Nat /\ Cardinality(S') <= Cardinality(S)
    BY <2>2, FewerOf
  <2>4. Cardinality(S') <= Cardinality(S) + 0
    BY <2>3
  <2>. QED BY <2>3, <2>4 DEF S
<1>2. /\ Cardinality(Unknowns(Coming)') <= Cardinality(Unknowns(Coming)) + 0
      /\ Unknowns(Coming)' # {} => lost' # {}
  <2>1. /\ IsFiniteSet(Unknowns(Coming)) /\ Unknowns(Coming)' \subseteq Unknowns(Coming)
    BY ComingIsASequence, UnknownsAreFinite DEF BooksInv, Unknowns
  <2>. DEFINE S == Unknowns(Coming)
  <2>2. S' \subseteq S /\ IsFiniteSet(S) /\ (S # {} => lost # {})
    BY <2>1 DEF BooksInv, CountInv
  <2>. HIDE DEF S
  <2>3. /\ Cardinality(S') \in Nat /\ Cardinality(S) \in Nat /\ Cardinality(S') <= Cardinality(S)
    BY <2>2, FewerOf
  <2>4. Cardinality(S') <= Cardinality(S) + 0 /\ (S' # {} => lost' # {})
    BY <2>2, <2>3
  <2>. QED BY <2>4 DEF S
<1>3. /\ prompts' \in 0 .. MaxPrompts /\ issued' = issued /\ issued \in Nat /\ prompts \in Nat
      /\ tab.queued \in BOOLEAN /\ tab'.queued \in BOOLEAN
  BY ChatAssumption DEF BooksInv, CountInv, ChatInvariant, ChatShapes, TabType
<1>4. /\ issued' + 0 + 0 + Held(tab'.queued) + 2 * prompts
             <= issued + Held(tab.queued) + 2 * prompts'
      /\ \A t \in Sends : t > issued' => turns'[t].conv = 0
  BY <1>3 DEF Held
<1>5. 0 \in Int
  OBVIOUS
<1>. QED BY <1>1, <1>2, <1>3, <1>4, <1>5, BalancedStep

\* A send is one more, and one that may find its conversation gone unless it makes one
\* after the only deletion.
LEMMA SentIsCounted ==
    ASSUME ChatInvariant, BooksInv, NEW tb \in TabType, tb.ws = tab.ws, tb.sock = tab.sock,
           DoSend(tb), lost' = lost
    PROVE  /\ issued' = issued + 1 /\ issued \in Nat
           /\ tab'.queued = tb.queued /\ tab'.sock = tab.sock
           /\ tab'.ws = "open" <=> tab.ws = "open"
           /\ Cardinality(AtRisk(turns, lost, issued)) \in Nat
           /\ Cardinality(AtRisk(turns, lost, issued)')
                  <= Cardinality(AtRisk(turns, lost, issued))
                     + (IF tb.conv = 0 /\ lost # {} THEN 0 ELSE 1)
           /\ \A t \in Sends : t > issued' => turns'[t].conv = 0
<1>. DEFINE t == issued + 1
            begun == [tb EXCEPT !.streaming = TRUE, !.error = FALSE]
<1>1. /\ issued \in Nat /\ issued' = t /\ turns \in [Sends -> TurnType]
      /\ begun.ws = tb.ws /\ begun.sock = tb.sock /\ begun.queued = tb.queued
      /\ begun \in TabType /\ t \in Nat
  <2>1. issued \in Nat /\ turns \in [Sends -> TurnType]
    BY DEF ChatInvariant, ChatShapes
  <2>2. issued' = t
    BY DEF DoSend
  <2>3. /\ begun.ws = tb.ws /\ begun.sock = tb.sock /\ begun.queued = tb.queued
        /\ begun \in TabType
    BY DEF TabType
  <2>. QED BY <2>1, <2>2, <2>3
<1>2. /\ tab'.queued = tb.queued /\ tab'.sock = tab.sock
      /\ tab'.ws = "open" <=> tab.ws = "open"
      /\ \A u \in Sends : /\ turns'[u].at = turns[u].at
                          /\ u # t \/ tb.conv = 0 => turns'[u].conv = turns[u].conv
  <2>1. CASE tb.conv # 0
    <3>1. SendRequest(begun, t, tb.conv)
      BY <2>1 DEF DoSend
    <3>2. /\ tab' = [begun EXCEPT !.active = t,
                                  !.ws = IF begun.ws = "none" THEN "opening" ELSE begun.ws,
                                  !.preOpen = IF begun.ws = "open" THEN begun.preOpen
                                              ELSE Append(begun.preOpen, t)]
          /\ turns' = [turns EXCEPT ![t].conv = tb.conv]
      BY <3>1 DEF SendRequest
    <3>. HIDE DEF begun, t
    <3>3. /\ tab'.queued = begun.queued /\ tab'.sock = begun.sock
          /\ tab'.ws = IF begun.ws = "none" THEN "opening" ELSE begun.ws
      BY <1>1, <3>2 DEF TabType
    <3>4. \A u \in Sends : /\ turns'[u].at = turns[u].at
                           /\ u # t => turns'[u].conv = turns[u].conv
      BY <1>1, <3>2 DEF TurnType
    <3>. QED BY <1>1, <2>1, <3>3, <3>4
  <2>2. CASE tb.conv = 0
    <3>1. /\ tab' = [begun EXCEPT !.creating = begun.creating \cup {t}] /\ UNCHANGED <<up, turns>>
      BY <2>2 DEF DoSend
    <3>. HIDE DEF begun, t
    <3>2. tab'.queued = begun.queued /\ tab'.sock = begun.sock /\ tab'.ws = begun.ws
      BY <1>1, <3>1 DEF TabType
    <3>. QED BY <1>1, <3>1, <3>2
  <2>. QED BY <2>1, <2>2
<1>3. \A u \in Sends : u > issued' => turns'[u].conv = 0
  <2>1. ASSUME NEW u \in Sends, u > issued'
        PROVE  turns'[u].conv = 0
    <3>1. u > issued /\ u # t
      BY <1>1, <2>1 DEF Sends
    <3>. QED BY <1>2, <3>1 DEF BooksInv, CountInv
  <2>. QED BY <2>1
<1>4. AtRisk(turns, lost, issued)' \subseteq AtRisk(turns, lost, issued) \cup {t}
  <2>1. ASSUME NEW u \in AtRisk(turns, lost, issued)', u # t
        PROVE  u \in AtRisk(turns, lost, issued)
    <3>1. /\ u \in Sends /\ u <= issued' /\ turns'[u].at = "none"
          /\ lost = {} \/ turns'[u].conv \in lost
      BY <2>1 DEF AtRisk
    <3>2. u <= issued
      BY <1>1, <2>1, <3>1 DEF Sends
    <3>. QED BY <1>2, <2>1, <3>1, <3>2 DEF AtRisk
  <2>. QED BY <2>1
<1>5. tb.conv = 0 /\ lost # {} => t \notin AtRisk(turns, lost, issued)'
  <2>1. ASSUME tb.conv = 0, lost # {}, t \in AtRisk(turns, lost, issued)'
        PROVE  FALSE
    <3>1. t \in Sends /\ turns'[t].conv \in lost
      BY <2>1 DEF AtRisk
    <3>2. t > issued
      BY <1>1
    <3>3. turns'[t].conv = 0
      BY <1>2, <2>1, <3>1, <3>2 DEF BooksInv, CountInv
    <3>. QED BY <3>1, <3>3 DEF ChatInvariant, ChatShapes, Sends
  <2>. QED BY <2>1
<1>6. /\ Cardinality(AtRisk(turns, lost, issued)) \in Nat
      /\ Cardinality(AtRisk(turns, lost, issued)')
             <= Cardinality(AtRisk(turns, lost, issued))
                + (IF tb.conv = 0 /\ lost # {} THEN 0 ELSE 1)
  <2>. DEFINE S == AtRisk(turns, lost, issued)
  <2>1. IsFiniteSet(S) /\ S' \subseteq S \cup {t} /\ (tb.conv = 0 /\ lost # {} => t \notin S')
    BY <1>4, <1>5, RiskIsFinite
  <2>. HIDE DEF S, t, begun
  <2>2. CASE tb.conv = 0 /\ lost # {}
    <3>1. S' \subseteq S
      BY <2>1, <2>2
    <3>2. /\ Cardinality(S') \in Nat /\ Cardinality(S) \in Nat
          /\ Cardinality(S') <= Cardinality(S)
      BY <2>1, <3>1, FewerOf
    <3>. QED BY <2>2, <3>2 DEF S
  <2>3. CASE ~(tb.conv = 0 /\ lost # {})
    <3>1. /\ Cardinality(S') \in Nat /\ Cardinality(S) \in Nat
          /\ Cardinality(S') <= Cardinality(S) + 1
      BY <2>1, OneMoreThan
    <3>. QED BY <2>3, <3>1 DEF S
  <2>. QED BY <2>2, <2>3
<1>. QED BY <1>1, <1>2, <1>3, <1>6

LEMMA SameFrames ==
    ASSUME DownInv, down' = down, tab'.sock = tab.sock, tab'.ws = "open" <=> tab.ws = "open"
    PROVE  DownInv' /\ Coming' = Coming
BY DEF DownInv, Coming

LEMMA NoFrames ==
    ASSUME down' = [s \in Sockets |-> <<>>], tab'.ws = "open" => tab'.sock \in Sockets
    PROVE  DownInv' /\ Coming' = <<>>
<1>1. <<>> \in Seq(FrameType)
  OBVIOUS
<1>. QED BY <1>1 DEF DownInv, Coming

LEMMA ViewKeepsBooks ==
    ASSUME ChatInvariant, ChatInvariant', BooksInv,
           \/ EnterPrompt \/ CancelQueued \/ Stop \/ SwitchChat \/ ChatOpens \/ ChatCloses
           \/ \E t \in Sends : Created(t)
    PROVE  BooksInv'
<1>1. /\ tab \in TabType /\ tab' \in TabType /\ issued \in Nat /\ prompts \in 0 .. MaxPrompts
      /\ turns \in [Sends -> TurnType] /\ MaxPrompts \in Nat
      /\ DownInv /\ down \in [Sockets -> Seq(FrameType)]
      /\ \A s \in Sockets : down[s] = <<>> \/ (tab.ws = "open" /\ tab.sock = s)
      /\ \A t \in Sends : t > issued => turns[t].conv = 0
  BY ChatAssumption DEF ChatInvariant, ChatShapes, BooksInv, CountInv, DownInv
<1>2. ASSUME UNCHANGED <<issued, prompts, turns, lost>>, tab'.queued => tab.queued,
             DownInv', Coming' = Coming \/ Coming' = <<>>
      PROVE  BooksInv'
  <2>1. AtRisk(turns, lost, issued)' \subseteq AtRisk(turns, lost, issued)
    BY <1>2 DEF AtRisk
  <2>2. /\ issued' = issued /\ prompts' = prompts /\ lost \subseteq lost'
        /\ \A t \in Sends : t > issued => turns'[t].conv = 0
    BY <1>1, <1>2
  <2>. QED BY <1>2, <2>1, <2>2, SilentStep
<1>3. CASE EnterPrompt
  <2>1. /\ prompts < MaxPrompts /\ prompts' = prompts + 1
        /\ down' = down /\ lost' = lost
        /\ \/ tab.streaming /\ tab' = [tab EXCEPT !.queued = TRUE]
              /\ UNCHANGED <<issued, up, turns>>
           \/ ~tab.streaming /\ DoSend(tab)
    BY <1>3 DEF EnterPrompt, serverSide
  <2>2. prompts' \in 0 .. MaxPrompts /\ prompts \in Nat
    BY <1>1, <2>1
  <2>. DEFINE a == Cardinality(AtRisk(turns, lost, issued))
              b == Cardinality(Unknowns(Coming))
  <2>3. a \in Nat /\ b \in Nat /\ (Unknowns(Coming) # {} => lost # {})
    BY RiskIsFinite, ComingIsASequence, UnknownsAreFinite DEF BooksInv, CountInv
  <2>4. CASE tab' = [tab EXCEPT !.queued = TRUE] /\ UNCHANGED <<issued, up, turns>>
    <3>1. tab'.sock = tab.sock /\ tab'.ws = tab.ws /\ tab'.queued
      BY <1>1, <2>4 DEF TabType
    <3>2. DownInv' /\ Coming' = Coming
      BY <1>1, <2>1, <3>1, SameFrames
    <3>3. a' = a /\ b' = b /\ (Unknowns(Coming)' # {} => lost' # {})
      BY <2>1, <2>3, <2>4, <3>2 DEF AtRisk, Unknowns
    <3>4. a' <= a + 0 /\ b' <= b + 0 /\ 0 \in Int
      <4>. HIDE DEF a, b
      <4>. QED BY <2>3, <3>3
    <3>5. issued' + 0 + 0 + Held(tab'.queued) + 2 * prompts
              <= issued + Held(tab.queued) + 2 * prompts'
      BY <1>1, <2>1, <2>2, <2>4, <3>1 DEF Held
    <3>6. \A t \in Sends : t > issued' => turns'[t].conv = 0
      BY <1>1, <2>4
    <3>. QED BY <2>2, <3>2, <3>3, <3>4, <3>5, <3>6, BalancedStep
  <2>5. CASE DoSend(tab)
    <3>1. /\ issued' = issued + 1 /\ tab'.queued = tab.queued
          /\ tab'.sock = tab.sock /\ (tab'.ws = "open" <=> tab.ws = "open")
          /\ a' <= a + (IF tab.conv = 0 /\ lost # {} THEN 0 ELSE 1)
          /\ \A t \in Sends : t > issued' => turns'[t].conv = 0
      BY <1>1, <2>1, <2>5, SentIsCounted
    <3>2. DownInv' /\ Coming' = Coming
      BY <1>1, <2>1, <3>1, SameFrames
    <3>3. b' = b /\ (Unknowns(Coming)' # {} => lost' # {}) /\ a' \in Nat
      BY <2>1, <2>3, <3>2, RiskIsFinite DEF Unknowns
    <3>4. a' <= a + 1 /\ b' <= b + 0 /\ 0 \in Int /\ 1 \in Int
      <4>. HIDE DEF a, b
      <4>. QED BY <2>3, <3>1, <3>3
    <3>5. issued' + 1 + 0 + Held(tab'.queued) + 2 * prompts
              <= issued + Held(tab.queued) + 2 * prompts'
      BY <1>1, <2>1, <2>2, <3>1 DEF Held
    <3>. QED BY <2>2, <3>1, <3>2, <3>3, <3>4, <3>5, BalancedStep
  <2>. QED BY <2>1, <2>4, <2>5
<1>4. CASE CancelQueued
  <2>1. /\ tab' = [tab EXCEPT !.queued = FALSE] /\ down' = down
        /\ UNCHANGED <<issued, prompts, turns, lost>>
    BY <1>4 DEF CancelQueued, serverSide
  <2>2. tab'.sock = tab.sock /\ tab'.ws = tab.ws /\ ~tab'.queued
    BY <1>1, <2>1 DEF TabType
  <2>3. DownInv' /\ Coming' = Coming
    BY <1>1, <2>1, <2>2, SameFrames
  <2>. QED BY <1>2, <2>1, <2>2, <2>3
<1>5. ASSUME NEW c, AbortActiveStream(c)
      PROVE  BooksInv'
  <2>1. /\ tab' = [tab EXCEPT !.ws = "none", !.preOpen = <<>>, !.active = 0,
                              !.streaming = FALSE, !.queued = FALSE, !.conv = c,
                              !.error = @ /\ c = tab.conv]
        /\ down' = [s \in Sockets |-> IF s = tab.sock THEN <<>> ELSE down[s]]
        /\ UNCHANGED <<issued, prompts, turns, lost>>
    BY <1>5 DEF AbortActiveStream, serverSide
  <2>2. tab'.ws = "none" /\ ~tab'.queued
    BY <1>1, <2>1 DEF TabType
  <2>3. down' = [s \in Sockets |-> <<>>]
    BY <1>1, <2>1
  <2>4. DownInv' /\ Coming' = <<>>
    BY <2>2, <2>3, NoFrames
  <2>. QED BY <1>2, <2>1, <2>2, <2>4
<1>6. CASE Stop \/ SwitchChat
  BY <1>5, <1>6 DEF Stop, SwitchChat
<1>7. CASE ChatOpens
  <2>1. /\ tab' = [tab EXCEPT !.ws = "open", !.sock = @ + 1, !.preOpen = <<>>]
        /\ tab.ws = "opening" /\ down' = down /\ UNCHANGED <<issued, prompts, turns, lost>>
    BY <1>7 DEF ChatOpens, serverSide
  <2>2. tab'.ws = "open" /\ tab'.queued = tab.queued /\ tab'.sock \in Sockets
    <3>1. tab'.ws = "open" /\ tab'.queued = tab.queued
      BY <1>1, <2>1 DEF TabType
    <3>2. tab'.sock > 0 /\ tab'.sock \in 0 .. MaxSockets
      BY <1>1, <3>1 DEF ChatInvariant, ChatShapes, TabType
    <3>. QED BY <3>1, <3>2, ChatAssumption DEF Sockets
  <2>3. down' = [s \in Sockets |-> <<>>]
    BY <1>1, <2>1
  <2>4. DownInv' /\ Coming' = <<>>
    BY <2>2, <2>3, NoFrames
  <2>. QED BY <1>2, <2>1, <2>2, <2>4
<1>8. CASE ChatCloses
  <2>1. /\ tab' = [tab EXCEPT !.ws = "opening", !.active = 0,
                              !.streaming = @ /\ tab.active = 0,
                              !.error = @ \/ tab.active # 0]
        /\ tab.ws = "open" /\ down' = [down EXCEPT ![tab.sock] = <<>>]
        /\ UNCHANGED <<issued, prompts, turns, lost>>
    BY <1>8 DEF ChatCloses, serverSide
  <2>2. tab'.ws = "opening" /\ tab'.queued = tab.queued
    BY <1>1, <2>1 DEF TabType
  <2>3. down' = [s \in Sockets |-> <<>>]
    BY <1>1, <2>1
  <2>4. DownInv' /\ Coming' = <<>>
    BY <2>2, <2>3, NoFrames
  <2>. QED BY <1>2, <2>1, <2>2, <2>4
<1>9. ASSUME NEW t \in Sends, Created(t)
      PROVE  BooksInv'
  <2>. DEFINE tb == [tab EXCEPT !.creating = @ \ {t}, !.conv = t]
  <2>1. /\ t \in tab.creating /\ UNCHANGED <<issued, prompts, down, gone, lost>>
        /\ \/ kept' = kept \cup {t} /\ SendRequest(tb, t, t)
           \/ /\ tab' = [tab EXCEPT !.creating = @ \ {t}, !.streaming = FALSE, !.error = TRUE]
              /\ UNCHANGED <<up, turns, kept>>
    BY <1>9, Zenon DEF Created
  <2>2. t \notin lost /\ t \in 1 .. issued
    BY <2>1 DEF ChatInvariant, RequestsInv
  <2>3. CASE SendRequest(tb, t, t)
    <3>1. /\ tb.ws = tab.ws /\ tb.sock = tab.sock /\ tb.queued = tab.queued /\ tb \in TabType
      <4>1. t \in Nat /\ tab.creating \ {t} \in SUBSET Nat
        BY <1>1 DEF TabType, Sends
      <4>. QED BY <1>1, <4>1 DEF TabType
    <3>2. /\ tab' = [tb EXCEPT !.active = t,
                               !.ws = IF tb.ws = "none" THEN "opening" ELSE tb.ws,
                               !.preOpen = IF tb.ws = "open" THEN tb.preOpen
                                           ELSE Append(tb.preOpen, t)]
          /\ turns' = [turns EXCEPT ![t].conv = t]
      BY <2>3 DEF SendRequest
    <3>. HIDE DEF tb
    <3>3. /\ tab'.queued = tab.queued /\ tab'.sock = tab.sock
          /\ tab'.ws = "open" <=> tab.ws = "open"
      BY <3>1, <3>2 DEF TabType
    <3>4. \A u \in Sends : /\ turns'[u].at = turns[u].at
                           /\ turns'[u].conv = IF u = t THEN t ELSE turns[u].conv
      BY <1>1, <3>2 DEF TurnType
    <3>5. DownInv' /\ Coming' = Coming
      BY <1>1, <2>1, <3>3, SameFrames
    <3>6. AtRisk(turns, lost, issued)' \subseteq AtRisk(turns, lost, issued)
      <4>1. ASSUME NEW u \in AtRisk(turns, lost, issued)'
            PROVE  u \in AtRisk(turns, lost, issued)
        <5>1. /\ u \in Sends /\ u <= issued /\ turns'[u].at = "none"
              /\ lost = {} \/ turns'[u].conv \in lost
          BY <2>1 DEF AtRisk
        <5>2. lost = {} \/ turns[u].conv \in lost
          BY <2>2, <3>4, <5>1
        <5>. QED BY <3>4, <5>1, <5>2 DEF AtRisk
      <4>. QED BY <4>1
    <3>7. \A u \in Sends : u > issued => turns'[u].conv = 0
      BY <1>1, <2>2, <3>4 DEF Sends
    <3>8. issued' = issued /\ prompts' = prompts /\ lost \subseteq lost'
      BY <2>1
    <3>. QED BY <3>3, <3>5, <3>6, <3>7, <3>8, SilentStep
  <2>4. CASE /\ tab' = [tab EXCEPT !.creating = @ \ {t}, !.streaming = FALSE, !.error = TRUE]
             /\ UNCHANGED <<up, turns, kept>>
    <3>1. tab'.sock = tab.sock /\ tab'.ws = tab.ws /\ tab'.queued = tab.queued
      BY <1>1, <2>4 DEF TabType
    <3>2. DownInv' /\ Coming' = Coming
      BY <1>1, <2>1, <3>1, SameFrames
    <3>. QED BY <1>2, <2>1, <2>4, <3>1, <3>2
  <2>. QED BY <2>1, <2>3, <2>4
<1>. QED BY <1>3, <1>4, <1>6, <1>7, <1>8, <1>9
\* A frame is read.  The queued prompt that it sends was counted when it was queued, and
\* the prompt that is sent once more was counted with the frame that asks for it.
LEMMA FrameKeepsBooks ==
    ASSUME ChatInvariant, ChatInvariant', BooksInv, HandleFrame
    PROVE  BooksInv'
<1>. DEFINE d == down[tab.sock]
            a == Cardinality(AtRisk(turns, lost, issued))
            b == Cardinality(Unknowns(Coming))
            over == [tab EXCEPT !.active = 0, !.streaming = FALSE]
<1>1. /\ tab \in TabType /\ issued \in Nat /\ prompts \in 0 .. MaxPrompts /\ prompts \in Nat
      /\ down \in [Sockets -> Seq(FrameType)]
      /\ \A s \in Sockets : down[s] = <<>> \/ (tab.ws = "open" /\ tab.sock = s)
      /\ \A t \in Sends : t > issued => turns[t].conv = 0
  BY ChatAssumption DEF ChatInvariant, ChatShapes, BooksInv, CountInv, DownInv
<1>2. /\ tab.ws = "open" /\ d # <<>> /\ down' = [down EXCEPT ![tab.sock] = Tail(@)]
      /\ prompts' = prompts /\ lost' = lost
  BY DEF HandleFrame, serverSide
<1>3. tab.sock \in Sockets /\ Coming = d /\ d \in Seq(FrameType)
  BY <1>2, ComingIsASequence DEF BooksInv
<1>4. /\ Tail(d) \in Seq(FrameType)
      /\ Cardinality(Unknowns(Tail(d)))
             <= Cardinality(Unknowns(d)) - (IF Head(d).event = "unknown" THEN 1 ELSE 0)
      /\ Unknowns(Tail(d)) # {} \/ Head(d).event = "unknown" => Unknowns(d) # {}
  BY <1>2, <1>3, UnknownsOfTail
<1>5. ASSUME tab'.ws = "open", tab'.sock = tab.sock
      PROVE  DownInv' /\ Coming' = Tail(d)
  <2>1. down' \in [Sockets -> Seq(FrameType)]
    BY <1>1, <1>2, <1>4
  <2>2. \A s \in Sockets : s # tab.sock => down'[s] = <<>>
    BY <1>1, <1>2
  <2>. QED BY <1>1, <1>2, <1>3, <1>5, <2>1, <2>2 DEF DownInv, Coming
<1>6. /\ a \in Nat /\ b \in Nat /\ (Unknowns(d) # {} => lost # {})
      /\ Cardinality(Unknowns(Tail(d))) \in Nat
  BY <1>3, <1>4, RiskIsFinite, UnknownsAreFinite DEF BooksInv, CountInv
\* The balance of a step that leaves Tail(d) to be read.
<1>7. ASSUME NEW r \in {0, 1}, a' <= a + r, tab'.ws = "open", tab'.sock = tab.sock,
             issued' \in Nat, \A t \in Sends : t > issued' => turns'[t].conv = 0,
             issued' + r - (IF Head(d).event = "unknown" THEN 1 ELSE 0) + Held(tab'.queued)
                 <= issued + Held(tab.queued)
      PROVE  BooksInv'
  <2>. DEFINE u == IF Head(d).event = "unknown" THEN 0 - 1 ELSE 0
  <2>1. DownInv' /\ Coming' = Tail(d)
    BY <1>5, <1>7
  <2>2. b' <= b + u
    <3>1. b' = Cardinality(Unknowns(Tail(d)))
      BY <2>1 DEF Unknowns
    <3>. QED BY <1>3, <1>4, <1>6, <3>1
  <2>3. Unknowns(Coming)' # {} => lost' # {}
    <3>1. Unknowns(Coming)' = Unknowns(Tail(d))
      BY <2>1 DEF Unknowns
    <3>. QED BY <1>2, <1>4, <1>6, <3>1
  <2>4. issued' + r + u + Held(tab'.queued) + 2 * prompts
            <= issued + Held(tab.queued) + 2 * prompts'
    <3>1. /\ Held(tab.queued) \in Nat /\ Held(tab'.queued) \in Nat /\ r \in Nat
      BY DEF Held
    <3>2. ASSUME NEW i \in Nat, NEW j \in Nat, NEW x \in Nat, NEW h \in Nat, NEW k \in Nat,
                 NEW p \in Nat, NEW v \in {0, 1}, j + x - v + k <= i + h
          PROVE  j + x + (0 - v) + k + 2 * p <= i + h + 2 * p
      BY <3>2
    <3>3. u = 0 - (IF Head(d).event = "unknown" THEN 1 ELSE 0)
      OBVIOUS
    <3>. QED BY <1>1, <1>2, <1>7, <3>1, <3>2, <3>3
  <2>5. prompts' \in 0 .. MaxPrompts /\ r \in Int /\ u \in Int
    BY <1>1, <1>2
  <2>. HIDE DEF u
  <2>. QED BY <1>7, <2>1, <2>2, <2>3, <2>4, <2>5, BalancedStep
<1>8. ASSUME UNCHANGED <<issued, turns>>, tab'.ws = "open", tab'.sock = tab.sock,
             tab'.queued = tab.queued
      PROVE  BooksInv'
  <2>1. a' <= a + 0
    <3>1. a' = a
      BY <1>2, <1>8 DEF AtRisk
    <3>. HIDE DEF a
    <3>. QED BY <1>6, <3>1
  <2>2. issued' + 0 - (IF Head(d).event = "unknown" THEN 1 ELSE 0) + Held(tab'.queued)
            <= issued + Held(tab.queued)
    BY <1>1, <1>8 DEF Held
  <2>3. issued' \in Nat /\ \A t \in Sends : t > issued' => turns'[t].conv = 0
    BY <1>1, <1>8
  <2>4. 0 \in {0, 1}
    OBVIOUS
  <2>. HIDE DEF a, d
  <2>. QED BY <1>7, <1>8, <2>1, <2>2, <2>3, <2>4
<1>9. /\ Ended(tab) = over /\ over \in TabType /\ over.ws = tab.ws /\ over.sock = tab.sock
      /\ over.queued = tab.queued /\ over.conv = tab.conv
  BY <1>1 DEF Ended, TabType
<1>10. ASSUME Head(d).event = "unknown", DoSend([over EXCEPT !.conv = 0])
       PROVE  BooksInv'
  <2>. DEFINE tb == [over EXCEPT !.conv = 0]
  <2>1. /\ tb \in TabType /\ tb.ws = tab.ws /\ tb.sock = tab.sock /\ tb.conv = 0
        /\ tb.queued = tab.queued
    <3>. HIDE DEF over
    <3>. QED BY <1>9 DEF TabType
  <2>2. lost # {} /\ DoSend(tb)
    BY <1>4, <1>6, <1>10
  <2>. HIDE DEF tb
  <2>3. /\ issued' = issued + 1 /\ tab'.queued = tb.queued /\ tab'.sock = tab.sock
        /\ tab'.ws = "open" <=> tab.ws = "open"
        /\ a' <= a + (IF tb.conv = 0 /\ lost # {} THEN 0 ELSE 1)
        /\ \A t \in Sends : t > issued' => turns'[t].conv = 0
    BY <1>2, <2>1, <2>2, SentIsCounted
  <2>4. a' <= a + 0
    BY <2>1, <2>2, <2>3
  <2>5. issued' + 0 - (IF Head(d).event = "unknown" THEN 1 ELSE 0) + Held(tab'.queued)
            <= issued + Held(tab.queued)
    BY <1>1, <1>10, <2>1, <2>3 DEF Held
  <2>6. issued' \in Nat /\ 0 \in {0, 1} /\ tab'.ws = "open"
    BY <1>1, <1>2, <2>3
  <2>. HIDE DEF a, d
  <2>. QED BY <1>7, <2>3, <2>4, <2>5, <2>6
<1>11. ASSUME tab.queued, Head(d).event = "done", DoSend([over EXCEPT !.queued = FALSE])
       PROVE  BooksInv'
  <2>. DEFINE tb == [over EXCEPT !.queued = FALSE]
  <2>1. /\ tb \in TabType /\ tb.ws = tab.ws /\ tb.sock = tab.sock /\ tb.queued = FALSE
    <3>. HIDE DEF over
    <3>. QED BY <1>9 DEF TabType
  <2>2. DoSend(tb)
    BY <1>11
  <2>. HIDE DEF tb
  <2>3. /\ issued' = issued + 1 /\ tab'.queued = tb.queued /\ tab'.sock = tab.sock
        /\ tab'.ws = "open" <=> tab.ws = "open"
        /\ a' <= a + (IF tb.conv = 0 /\ lost # {} THEN 0 ELSE 1) /\ a' \in Nat
        /\ \A t \in Sends : t > issued' => turns'[t].conv = 0
    BY <1>2, <2>1, <2>2, SentIsCounted, RiskIsFinite
  <2>4. a' <= a + 1
    <3>. HIDE DEF a
    <3>. QED BY <1>6, <2>3
  <2>5. issued' + 1 - (IF Head(d).event = "unknown" THEN 1 ELSE 0) + Held(tab'.queued)
            <= issued + Held(tab.queued)
    BY <1>1, <1>11, <2>1, <2>3 DEF Held
  <2>6. issued' \in Nat /\ 1 \in {0, 1} /\ tab'.ws = "open"
    BY <1>1, <1>2, <2>3
  <2>. HIDE DEF a, d
  <2>. QED BY <1>7, <2>3, <2>4, <2>5, <2>6
<1>12. ASSUME OnError(Head(d))
       PROVE  BooksInv'
  <2>1. \/ Head(d).event = "unknown" /\ DoSend([over EXCEPT !.conv = 0])
        \/ /\ \/ tab' = [over EXCEPT !.error = TRUE, !.conv = 0]
              \/ tab' = [over EXCEPT !.error = TRUE, !.conv = over.conv]
           /\ UNCHANGED <<issued, up, turns>>
    BY <1>9, <1>12 DEF OnError
  <2>2. ASSUME \/ tab' = [over EXCEPT !.error = TRUE, !.conv = 0]
               \/ tab' = [over EXCEPT !.error = TRUE, !.conv = over.conv]
        PROVE  tab'.ws = "open" /\ tab'.sock = tab.sock /\ tab'.queued = tab.queued
    <3>. HIDE DEF over
    <3>. QED BY <1>2, <1>9, <2>2 DEF TabType
  <2>. HIDE DEF over, d
  <2>. QED BY <1>8, <1>10, <2>1, <2>2
<1>13. ASSUME OnDone(Head(d))
       PROVE  BooksInv'
  <2>1. \/ tab.queued /\ Head(d).event = "done" /\ DoSend([over EXCEPT !.queued = FALSE])
        \/ tab' = over /\ UNCHANGED <<issued, up, turns>>
    BY <1>9, <1>13 DEF OnDone
  <2>. HIDE DEF over, d
  <2>. QED BY <1>2, <1>8, <1>9, <1>11, <2>1
<1>14. \/ UNCHANGED <<tab, issued, up, turns>>
       \/ OnError(Head(d)) \/ OnDone(Head(d))
  BY DEF HandleFrame
<1>. QED BY <1>2, <1>8, <1>12, <1>13, <1>14
\* Frames are appended to those on their way, if the view is still there.
LEMMA SentFrames ==
    ASSUME ChatInvariant, DownInv, NEW t \in Sends, NEW s,
           NEW events \in Seq({"error", "unknown", "done"}),
           \A i \in 1 .. Len(events) : events[i] = "unknown" => i = 1,
           down' = SentTo(t, s, events), tab' = tab
    PROVE  /\ DownInv'
           /\ Unknowns(Coming)' \subseteq Unknowns(Coming) \cup {Len(Coming) + 1}
           /\ (events = <<>> \/ events[1] # "unknown") => Unknowns(Coming)' = Unknowns(Coming)
<1>. DEFINE F == [i \in DOMAIN events |-> [event |-> events[i], conv |-> turns[t].conv]]
<1>1. turns[t].conv \in Nat
  BY DEF ChatInvariant, ChatShapes, TurnType
<1>2. /\ F \in Seq(FrameType) /\ Len(F) = Len(events)
      /\ \A i \in 1 .. Len(events) : F[i].event = events[i]
  <2>1. /\ Len(events) \in Nat /\ DOMAIN events = 1 .. Len(events)
        /\ \A i \in 1 .. Len(events) : events[i] \in {"error", "unknown", "done"}
    OBVIOUS
  <2>2. \A i \in 1 .. Len(events) :
          [event |-> events[i], conv |-> turns[t].conv] \in FrameType
    BY <1>1, <2>1 DEF FrameType
  <2>3. F \in [1 .. Len(events) -> FrameType]
    BY <2>1, <2>2
  <2>. QED BY <2>1, <2>3
<1>3. (events = <<>>) <=> (F = <<>>)
  BY <1>2
<1>. HIDE DEF F
<1>4. CASE tab.ws = "open" /\ tab.sock = s
  <2>1. down' = [down EXCEPT ![s] = @ \o F]
    BY <1>4 DEF SentTo, F
  <2>2. s \in Sockets /\ Coming = down[s] /\ down[s] \in Seq(FrameType)
    BY <1>4, ComingIsASequence
  <2>3. \A i \in 1 .. Len(F) : F[i].event = "unknown" => i = 1
    BY <1>2
  <2>4. /\ down[s] \o F \in Seq(FrameType)
        /\ Unknowns(down[s] \o F) \subseteq Unknowns(down[s]) \cup {Len(down[s]) + 1}
        /\ (F = <<>> \/ F[1].event # "unknown")
              => Unknowns(down[s] \o F) = Unknowns(down[s])
    BY <1>2, <2>2, <2>3, UnknownsOfMore
  <2>5. down \in [Sockets -> Seq(FrameType)]
    BY DEF DownInv
  <2>6. /\ down' \in [Sockets -> Seq(FrameType)] /\ down'[s] = down[s] \o F
        /\ \A q \in Sockets : q # s => down'[q] = down[q]
    BY <2>1, <2>2, <2>4, <2>5
  <2>7. DownInv' /\ Coming' = down[s] \o F
    BY <1>4, <2>2, <2>6 DEF DownInv, Coming
  <2>8. Unknowns(Coming)' = Unknowns(down[s] \o F)
    BY <2>7 DEF Unknowns
  <2>9. events # <<>> /\ events[1] # "unknown" => F[1].event # "unknown"
    BY <1>2
  <2>. QED BY <1>3, <2>2, <2>4, <2>7, <2>8, <2>9
<1>5. CASE ~(tab.ws = "open" /\ tab.sock = s)
  <2>1. down' = down
    BY <1>5 DEF SentTo
  <2>2. DownInv' /\ Coming' = Coming
    BY <2>1, SameFrames
  <2>. QED BY <2>2 DEF Unknowns
<1>. QED BY <1>4, <1>5

\* Steps of the server that delete nothing: a frame that has a prompt sent once more is
\* paid for by the request it answers.
LEMMA ServerBalance ==
    ASSUME ChatInvariant, ChatInvariant', BooksInv, DownInv',
           tab' = tab, issued' = issued, prompts' = prompts, lost' = lost,
           NEW t \in Sends, NEW k,
           \A u \in Sends : /\ turns'[u].conv = turns[u].conv
                            /\ turns'[u].at = "none" => turns[u].at = "none",
           \/ Unknowns(Coming)' = Unknowns(Coming)
           \/ /\ t \in AtRisk(turns, lost, issued) /\ turns'[t].at # "none" /\ lost # {}
              /\ Unknowns(Coming)' \subseteq Unknowns(Coming) \cup {k}
    PROVE  BooksInv'
<1>. DEFINE S == AtRisk(turns, lost, issued)
            U == Unknowns(Coming)
<1>1. IsFiniteSet(S) /\ IsFiniteSet(U) /\ (U # {} => lost # {})
  BY RiskIsFinite, ComingIsASequence, UnknownsAreFinite DEF BooksInv, CountInv
<1>2. /\ S' \subseteq S
      /\ turns'[t].at # "none" => t \notin S'
  BY DEF AtRisk
<1>3. /\ issued \in Nat /\ prompts \in 0 .. MaxPrompts /\ prompts \in Nat
      /\ \A u \in Sends : u > issued' => turns'[u].conv = 0
      /\ Held(tab'.queued) = Held(tab.queued) /\ Held(tab.queued) \in Nat
  BY ChatAssumption DEF ChatInvariant, ChatShapes, BooksInv, CountInv, Held
<1>4. CASE U' = U
  <2>. HIDE DEF S, U
  <2>1. /\ Cardinality(S') \in Nat /\ Cardinality(S) \in Nat
        /\ Cardinality(S') <= Cardinality(S)
    BY <1>1, <1>2, FewerOf
  <2>2. Cardinality(U) \in Nat
    BY <1>1, FewerOf
  <2>3. Cardinality(S') <= Cardinality(S) + 0
    BY <2>1
  <2>4. Cardinality(U') <= Cardinality(U) + 0
    BY <1>4, <2>2
  <2>5. issued' + 0 + 0 + Held(tab'.queued) + 2 * prompts
            <= issued + Held(tab.queued) + 2 * prompts'
    BY <1>3
  <2>6. 0 \in Int /\ prompts' \in 0 .. MaxPrompts /\ (U' # {} => lost' # {})
    BY <1>1, <1>3, <1>4
  <2>. QED BY <1>3, <2>3, <2>4, <2>5, <2>6, BalancedStep DEF S, U
<1>5. CASE t \in S /\ turns'[t].at # "none" /\ lost # {} /\ U' \subseteq U \cup {k}
  <2>. HIDE DEF S, U
  <2>1. S' \subseteq S \ {t} /\ t \in S
    BY <1>2, <1>5
  <2>2. /\ Cardinality(S') \in Nat /\ Cardinality(S) \in Nat
        /\ Cardinality(S') <= Cardinality(S) - 1
    BY <1>1, <2>1, OneLessThan
  <2>3. Cardinality(U') <= Cardinality(U) + 1
    BY <1>1, <1>5, OneMoreThan
  <2>4. Cardinality(S') <= Cardinality(S) + (0 - 1)
    BY <2>2
  <2>5. issued' + (0 - 1) + 1 + Held(tab'.queued) + 2 * prompts
            <= issued + Held(tab.queued) + 2 * prompts'
    BY <1>3
  <2>6. 0 - 1 \in Int /\ 1 \in Int /\ prompts' \in 0 .. MaxPrompts /\ (U' # {} => lost' # {})
    BY <1>3, <1>5
  <2>. QED BY <1>3, <2>3, <2>4, <2>5, <2>6, BalancedStep DEF S, U
<1>. QED BY <1>4, <1>5
\* The request is answered: it can no longer find its conversation gone.  Only the answer
\* that does has the prompt sent once more, and the request was at risk of it.
LEMMA RequestKeepsBooks ==
    ASSUME ChatInvariant, ChatInvariant', BooksInv, NEW s \in Sockets, OnRequest(s)
    PROVE  BooksInv'
<1>. DEFINE t == Head(up[s])
<1>1. /\ turns \in [Sends -> TurnType] /\ up \in [Sockets -> Seq(Nat)]
      /\ s \in LaneIds /\ s # 0 /\ DownInv /\ issued \in Nat
  BY ChatAssumption DEF ChatInvariant, ChatShapes, BooksInv, Sockets, LaneIds
<1>2. /\ up[s] # <<>> /\ tab' = tab /\ issued' = issued /\ prompts' = prompts /\ lost' = lost
  BY DEF OnRequest, serverSide
<1>3. t \in Waiting(tab.creating, issued, turns)
  <2>. DEFINE L == Lanes(tab.preOpen, up)
  <2>1. L[s] = up[s] /\ Orderly(L, LaneIds, Waiting(tab.creating, issued, turns))
    BY <1>1 DEF Lanes, ChatInvariant, RequestsInv
  <2>. HIDE DEF L
  <2>. QED BY <1>1, <1>2, <2>1, OrderlyTail
<1>4. t \in Sends /\ t <= issued /\ turns[t].at = "none" /\ turns[t].conv # 0
  <2>1. t \in 1 .. issued
    BY <1>3 DEF Waiting
  <2>2. 1 .. issued \subseteq Sends
    BY IssuedAreSends
  <2>3. t \in Sends /\ t <= issued
    BY <1>1, <2>1, <2>2
  <2>. QED BY <1>3, <2>3 DEF Waiting
<1>5. \/ \E e \in {"error", "unknown"} :
           Refuses(t, s, e) /\ (e = "unknown" => turns[t].conv \notin kept)
      \/ turns' = [turns EXCEPT ![t].at = "gating", ![t].sock = s] /\ down' = down
  BY DEF OnRequest
<1>. HIDE DEF t
<1>6. CASE turns' = [turns EXCEPT ![t].at = "gating", ![t].sock = s] /\ down' = down
  <2>1. \A u \in Sends : /\ turns'[u].conv = turns[u].conv
                         /\ turns'[u].at = "none" => turns[u].at = "none"
    BY <1>1, <1>4, <1>6 DEF TurnType
  <2>2. DownInv' /\ Unknowns(Coming)' = Unknowns(Coming)
    <3>1. DownInv' /\ Coming' = Coming
      BY <1>1, <1>2, <1>6, SameFrames
    <3>. QED BY <3>1 DEF Unknowns
  <2>. QED BY <1>2, <1>4, <2>1, <2>2, ServerBalance
<1>7. ASSUME NEW e \in {"error", "unknown"}, Refuses(t, s, e),
             e = "unknown" => turns[t].conv \notin kept
      PROVE  BooksInv'
  <2>1. /\ turns' = [turns EXCEPT ![t].at = "over", ![t].sock = 0, ![t].told = "error"]
        /\ down' = SentTo(t, s, <<e, "done">>)
    BY <1>7 DEF Refuses
  <2>2. /\ turns'[t].at # "none"
        /\ \A u \in Sends : /\ turns'[u].conv = turns[u].conv
                            /\ turns'[u].at = "none" => turns[u].at = "none"
    BY <1>1, <1>4, <2>1 DEF TurnType
  <2>. DEFINE events == <<e, "done">>
  <2>3. /\ events \in Seq({"error", "unknown", "done"}) /\ events[1] = e
        /\ \A i \in 1 .. Len(events) : events[i] = "unknown" => i = 1
    BY <1>7
  <2>4. down' = SentTo(t, s, events)
    BY <2>1
  <2>. HIDE DEF events
  <2>5. /\ DownInv'
        /\ Unknowns(Coming)' \subseteq Unknowns(Coming) \cup {Len(Coming) + 1}
        /\ events[1] # "unknown" => Unknowns(Coming)' = Unknowns(Coming)
    BY <1>1, <1>2, <1>4, <2>3, <2>4, SentFrames
  <2>6. e = "unknown" => t \in AtRisk(turns, lost, issued) /\ lost # {}
    <3>1. e = "unknown" => turns[t].conv \in lost
      BY <1>4, <1>7 DEF ChatInvariant, TurnsInv
    <3>. QED BY <1>4, <3>1 DEF AtRisk
  <2>. DEFINE k == Len(Coming) + 1
  <2>7. \/ Unknowns(Coming)' = Unknowns(Coming)
        \/ /\ t \in AtRisk(turns, lost, issued) /\ turns'[t].at # "none" /\ lost # {}
           /\ Unknowns(Coming)' \subseteq Unknowns(Coming) \cup {k}
    BY <2>2, <2>3, <2>5, <2>6
  <2>. HIDE DEF k
  <2>. QED BY <1>2, <1>4, <2>2, <2>5, <2>7, ServerBalance
<1>. QED BY <1>5, <1>6, <1>7

LEMMA TurnKeepsBooks ==
    ASSUME ChatInvariant, ChatInvariant', BooksInv,
           NEW t \in Sends, Gated(t) \/ Chunk(t) \/ ChatStreamEnds(t)
    PROVE  BooksInv'
<1>1. /\ turns \in [Sends -> TurnType] /\ turns[t] \in TurnType /\ DownInv
      /\ tab' = tab /\ issued' = issued /\ prompts' = prompts /\ lost' = lost
      /\ turns[t].at # "none"
  <2>1. UNCHANGED <<tab, issued, prompts, up, serverSide>> /\ turns[t].at # "none"
    BY Zenon DEF Gated, Chunk, ChatStreamEnds
  <2>. QED BY <2>1 DEF ChatInvariant, ChatShapes, BooksInv, serverSide
\* What it sends, if anything, does not have the prompt sent once more.
<1>2. ASSUME NEW s, NEW events \in {<<>>, <<"error", "done">>, <<"done">>},
             down' = SentTo(t, s, events)
      PROVE  DownInv' /\ Unknowns(Coming)' = Unknowns(Coming)
  <2>1. /\ events \in Seq({"error", "unknown", "done"})
        /\ \A i \in 1 .. Len(events) : events[i] # "unknown"
        /\ events = <<>> \/ events[1] # "unknown"
    <3>1. CASE events = <<>>
      BY <3>1
    <3>2. CASE events = <<"error", "done">>
      BY <3>2
    <3>3. CASE events = <<"done">>
      BY <3>3
    <3>. QED BY <3>1, <3>2, <3>3
  <2>. QED BY <1>1, <1>2, <2>1, SentFrames
<1>3. ASSUME down' = down
      PROVE  DownInv' /\ Unknowns(Coming)' = Unknowns(Coming)
  <2>1. DownInv' /\ Coming' = Coming
    BY <1>1, <1>3, SameFrames
  <2>. QED BY <2>1 DEF Unknowns
<1>4. ASSUME \A u \in Sends : /\ turns'[u].conv = turns[u].conv
                              /\ turns'[u].at = "none" => turns[u].at = "none",
             DownInv', Unknowns(Coming)' = Unknowns(Coming)
      PROVE  BooksInv'
  BY <1>1, <1>4, ServerBalance
<1>5. ASSUME NEW f \in BOOLEAN, TurnFinally(t, f)
      PROVE  BooksInv'
  <2>. DEFINE s == turns[t].sock
              ends == IF s \in gone THEN <<>>
                      ELSE IF f THEN <<"error", "done">> ELSE <<"done">>
  <2>1. down' = SentTo(t, s, ends) /\ ends \in {<<>>, <<"error", "done">>, <<"done">>}
    BY <1>5 DEF TurnFinally
  <2>2. \A u \in Sends : /\ turns'[u].conv = turns[u].conv
                         /\ turns'[u].at = "none" => turns[u].at = "none"
    <3>1. turns' = [turns EXCEPT ![t].at = "over", ![t].sock = 0,
                                 ![t].told = IF ends = <<>> THEN @ ELSE Head(ends),
                                 ![t].answer = IF turns[t].conv \notin kept THEN @
                                               ELSE [content |-> turns[t].sent,
                                                     truncated |-> s \in gone \/ f]]
      BY <1>5 DEF TurnFinally
    <3>. HIDE DEF s, ends
    <3>. QED BY <1>1, <3>1 DEF TurnType
  <2>. HIDE DEF s, ends
  <2>. QED BY <1>2, <1>4, <2>1, <2>2
<1>6. CASE Gated(t)
  <2>1. /\ \/ turns' = [turns EXCEPT ![t].at = "streaming"]
           \/ turns' = [turns EXCEPT ![t].at = "over", ![t].sock = 0]
           \/ turns' = [turns EXCEPT ![t].at = "over", ![t].sock = 0, ![t].told = "error"]
        /\ down' = down \/ down' = SentTo(t, turns[t].sock, <<"error", "done">>)
    BY <1>6 DEF Gated, Refuses
  <2>2. \A u \in Sends : /\ turns'[u].conv = turns[u].conv
                         /\ turns'[u].at = "none" => turns[u].at = "none"
    BY <1>1, <2>1 DEF TurnType
  <2>3. DownInv' /\ Unknowns(Coming)' = Unknowns(Coming)
    BY <1>2, <1>3, <2>1
  <2>. QED BY <1>4, <2>2, <2>3
<1>7. CASE Chunk(t)
  <2>1. \/ turns' = [turns EXCEPT ![t].sent = @ + 1] /\ down' = down
        \/ TurnFinally(t, FALSE)
    BY <1>7, Zenon DEF Chunk
  <2>2. ASSUME turns' = [turns EXCEPT ![t].sent = @ + 1]
        PROVE  \A u \in Sends : /\ turns'[u].conv = turns[u].conv
                                /\ turns'[u].at = "none" => turns[u].at = "none"
    BY <1>1, <2>2 DEF TurnType
  <2>. QED BY <1>3, <1>4, <1>5, <2>1, <2>2
<1>8. CASE ChatStreamEnds(t)
  <2>1. \E f \in BOOLEAN : TurnFinally(t, f)
    BY <1>8, Zenon DEF ChatStreamEnds
  <2>. QED BY <1>5, <2>1
<1>. QED BY <1>6, <1>7, <1>8

\* A deletion, the only one, puts no more requests at risk than were counted before it.
LEMMA OutsideKeepsBooks ==
    ASSUME ChatInvariant, ChatInvariant', BooksInv,
           (\E s \in Sockets : HangUp(s)) \/ \E c \in Sends : Delete(c)
    PROVE  BooksInv'
<1>1. /\ turns \in [Sends -> TurnType] /\ DownInv
      /\ \A t \in Sends : t > issued => turns[t].conv = 0
  BY DEF ChatInvariant, ChatShapes, BooksInv, CountInv
<1>2. /\ tab' = tab /\ down' = down /\ issued' = issued /\ prompts' = prompts
      /\ lost' = lost \/ lost = {}
      /\ \A u \in Sends : turns'[u].at = turns[u].at /\ turns'[u].conv = turns[u].conv
  <2>1. ASSUME NEW s \in Sockets, HangUp(s)
        PROVE  /\ tab' = tab /\ down' = down /\ issued' = issued /\ prompts' = prompts
               /\ lost' = lost /\ turns' = turns
    BY <2>1 DEF HangUp
  <2>2. ASSUME NEW c \in Sends, Delete(c)
        PROVE  /\ tab' = tab /\ down' = down /\ issued' = issued /\ prompts' = prompts
               /\ lost = {}
               /\ \A u \in Sends : /\ turns'[u].at = turns[u].at
                                   /\ turns'[u].conv = turns[u].conv
    <3>1. /\ tab' = tab /\ down' = down /\ issued' = issued /\ prompts' = prompts
          /\ lost = {}
          /\ turns' = [t \in Sends |-> IF turns[t].conv # c THEN turns[t]
                                       ELSE [turns[t] EXCEPT !.answer = NoAnswer]]
      BY <2>2 DEF Delete
    <3>. QED BY <1>1, <3>1 DEF TurnType
  <2>. QED BY <2>1, <2>2
<1>3. DownInv' /\ Coming' = Coming
  BY <1>1, <1>2, SameFrames
<1>4. AtRisk(turns, lost, issued)' \subseteq AtRisk(turns, lost, issued)
  BY <1>2 DEF AtRisk
<1>5. lost \subseteq lost' /\ tab'.queued = tab.queued
  BY <1>2
<1>. QED BY <1>1, <1>2, <1>3, <1>4, <1>5, SilentStep

LEMMA InitBooks == ChatInit => BooksInv
<1>. SUFFICES ASSUME ChatInit
              PROVE  BooksInv
  OBVIOUS
<1>1. DownInv
  <2>1. <<>> \in Seq(FrameType)
    OBVIOUS
  <2>. QED BY <2>1 DEF ChatInit, DownInv
<1>2. AtRisk(turns, lost, issued) = {} /\ Unknowns(Coming) = {}
  <2>1. tab.ws # "open" /\ Len(<<>>) = 0
    BY DEF ChatInit
  <2>. QED BY <2>1 DEF ChatInit, AtRisk, Unknowns, Coming, Sends
<1>3. Cardinality({}) = 0
  BY FS_EmptySet
<1>4. /\ prompts = 0 /\ issued = 0 /\ Held(tab.queued) = 0
      /\ \A t \in Sends : turns[t].conv = 0
  BY DEF ChatInit, Held
<1>5. CountInv
  BY <1>2, <1>3, <1>4, ChatAssumption DEF CountInv
<1>. QED BY <1>1, <1>5 DEF BooksInv

LEMMA BooksStep ==
    ChatInvariant /\ ChatInvariant' /\ BooksInv /\ [ChatNext]_chatVars => BooksInv'
<1>. SUFFICES ASSUME ChatInvariant, ChatInvariant', BooksInv, [ChatNext]_chatVars
              PROVE  BooksInv'
  OBVIOUS
<1>1. CASE UNCHANGED chatVars
  BY <1>1 DEF chatVars, BooksInv, DownInv, CountInv, Coming, Unknowns, AtRisk
<1>2. CASE ChatNext
  <2>1. \/ \/ EnterPrompt \/ CancelQueued \/ Stop \/ SwitchChat \/ ChatOpens \/ ChatCloses
           \/ \E t \in Sends : Created(t)
        \/ HandleFrame
        \/ \E t \in Sends : Gated(t) \/ Chunk(t) \/ ChatStreamEnds(t)
        \/ \E s \in Sockets : OnRequest(s)
        \/ (\E s \in Sockets : HangUp(s)) \/ \E c \in Sends : Delete(c)
    BY <1>2, Zenon DEF ChatNext
  <2>. QED BY <2>1, ViewKeepsBooks, FrameKeepsBooks, TurnKeepsBooks, RequestKeepsBooks,
              OutsideKeepsBooks
<1>. QED BY <1>1, <1>2

LEMMA AlwaysBooks == ChatSpec => []BooksInv
<1>. QED BY InitBooks, BooksStep, AlwaysChat, PTL DEF ChatSpec
-----------------------------------------------------------------------------
(* A chat: a composer that waits is answered.                              *)

GoneInv == gone \subseteq 1 .. tab.sock /\ (tab.ws = "open" => tab.sock \notin gone)

\* The turn the view follows is one of the conversation it shows, so the frames that
\* answer it are not ignored.
ActiveInv ==
    tab.active # 0 => tab.active \in Sends /\ turns[tab.active].conv = tab.conv

AwaitInv == GoneInv /\ ActiveInv /\ StreamingIsAwaited

LEMMA IssuedWillBeSends == ChatInvariant' /\ BooksInv' => (1 .. issued \subseteq Sends)'
<1>1. ChatInvariant /\ BooksInv => 1 .. issued \subseteq Sends
  BY IssuedAreSends
<1>. QED BY <1>1, PTL

LEMMA SendAwaits ==
    ASSUME ChatInvariant, NEW tb \in TabType, tb.ws = tab.ws, tb.sock = tab.sock,
           NEW t \in Sends, SendRequest(tb, t, tb.conv)
    PROVE  /\ ActiveInv' /\ StreamingIsAwaited'
           /\ tab'.sock = tab.sock /\ (tab'.ws = "open" <=> tab.ws = "open")
<1>1. /\ turns \in [Sends -> TurnType] /\ up \in [Sockets -> Seq(Nat)] /\ t \in Nat
      /\ tab.ws = "open" => tab.sock \in Sockets
  BY DEF ChatInvariant, ChatShapes, TabType, Sockets, Sends
<1>2. /\ tab' = [tb EXCEPT !.active = t,
                           !.ws = IF tb.ws = "none" THEN "opening" ELSE tb.ws,
                           !.preOpen = IF tb.ws = "open" THEN tb.preOpen
                                       ELSE Append(tb.preOpen, t)]
      /\ up' = IF tb.ws = "open" THEN [up EXCEPT ![tb.sock] = Append(@, t)] ELSE up
      /\ turns' = [turns EXCEPT ![t].conv = tb.conv]
  BY DEF SendRequest
<1>3. /\ tab'.active = t /\ tab'.sock = tab.sock /\ tab'.conv = tb.conv
      /\ tab'.ws = IF tab.ws = "none" THEN "opening" ELSE tab.ws
      /\ tab.ws # "open" => tab'.preOpen = Append(tb.preOpen, t)
  BY <1>2 DEF TabType
<1>4. ActiveInv'
  <2>1. turns'[t].conv = tb.conv
    BY <1>1, <1>2 DEF TurnType
  <2>. QED BY <1>3, <2>1 DEF ActiveInv
<1>5. UnderWay(tab.active)'
  <2>1. ASSUME NEW q \in Seq(Nat)
        PROVE  \E i \in 1 .. Len(Append(q, t)) : Append(q, t)[i] = t
    <3>1. Len(q) + 1 \in 1 .. Len(Append(q, t)) /\ Append(q, t)[Len(q) + 1] = t
      BY <1>1, <2>1
    <3>. QED BY <3>1
  <2>2. CASE tab.ws = "open"
    <3>1. up'[tab.sock] = Append(up[tab.sock], t) /\ up[tab.sock] \in Seq(Nat)
      BY <1>1, <1>2, <2>2
    <3>2. tab'.ws = "open" /\ tab'.sock = tab.sock /\ tab'.active = t
      BY <1>3, <2>2
    <3>3. \E i \in 1 .. Len(up'[tab'.sock]) : up'[tab'.sock][i] = tab'.active
      BY <2>1, <3>1, <3>2
    <3>. QED BY <3>2, <3>3 DEF UnderWay
  <2>3. CASE tab.ws # "open"
    <3>1. tb.preOpen \in Seq(Nat)
      BY DEF TabType
    <3>2. tab'.ws = "opening" /\ tab'.active = t /\ tab'.preOpen = Append(tb.preOpen, t)
      BY <1>3, <2>3 DEF TabType
    <3>3. \E i \in 1 .. Len(tab'.preOpen) : tab'.preOpen[i] = tab'.active
      BY <2>1, <3>1, <3>2
    <3>. QED BY <3>2, <3>3 DEF UnderWay
  <2>. QED BY <2>2, <2>3
<1>. QED BY <1>3, <1>4, <1>5 DEF StreamingIsAwaited

LEMMA DoSendAwaits ==
    ASSUME ChatInvariant, ChatInvariant', BooksInv', ActiveInv, NEW tb \in TabType,
           tb.ws = tab.ws, tb.sock = tab.sock, DoSend(tb),
           tb.active = 0 \/ (tb.active = tab.active /\ tb.conv = tab.conv)
    PROVE  /\ ActiveInv' /\ StreamingIsAwaited'
           /\ tab'.sock = tab.sock /\ (tab'.ws = "open" <=> tab.ws = "open")
<1>. DEFINE t == issued + 1
            begun == [tb EXCEPT !.streaming = TRUE, !.error = FALSE]
<1>1. /\ begun \in TabType /\ begun.ws = tb.ws /\ begun.sock = tb.sock /\ begun.conv = tb.conv
      /\ begun.active = tb.active /\ begun.creating = tb.creating
  BY DEF TabType
<1>2. t \in Sends
  <2>1. issued \in Nat /\ issued' = t
    BY DEF ChatInvariant, ChatShapes, DoSend
  <2>2. 1 .. issued' \subseteq Sends
    BY IssuedWillBeSends
  <2>. QED BY <2>1, <2>2
<1>3. CASE tb.conv # 0
  <2>1. SendRequest(begun, t, begun.conv)
    BY <1>1, <1>3 DEF DoSend
  <2>. HIDE DEF begun, t
  <2>. QED BY <1>1, <1>2, <2>1, SendAwaits
<1>4. CASE tb.conv = 0
  <2>1. tab' = [begun EXCEPT !.creating = begun.creating \cup {t}] /\ turns' = turns
    BY <1>4 DEF DoSend
  <2>. HIDE DEF begun, t
  <2>2. /\ t \in tab'.creating /\ tab'.active = tb.active /\ tab'.conv = tb.conv
        /\ tab'.ws = tab.ws /\ tab'.sock = tab.sock
    BY <1>1, <2>1 DEF TabType
  <2>3. ActiveInv'
    BY <2>1, <2>2 DEF ActiveInv
  <2>. QED BY <2>2, <2>3 DEF StreamingIsAwaited
<1>. QED BY <1>3, <1>4

\* A socket the server has seen closed is not opened again.
LEMMA GoneStep ==
    ASSUME GoneInv, tab'.sock \in Nat, tab.sock \in Nat, gone' = gone,
           \/ tab'.sock = tab.sock /\ (tab'.ws = "open" => tab.ws = "open")
           \/ tab'.sock = tab.sock + 1
    PROVE  GoneInv'
BY DEF GoneInv

LEMMA ViewAwaits ==
    ASSUME ChatInvariant, ChatInvariant', BooksInv', AwaitInv,
           \/ EnterPrompt \/ CancelQueued \/ Stop \/ SwitchChat \/ ChatOpens \/ ChatCloses
           \/ \E t \in Sends : Created(t)
    PROVE  AwaitInv'
<1>1. /\ tab \in TabType /\ tab' \in TabType /\ tab.sock \in Nat /\ tab'.sock \in Nat
      /\ up \in [Sockets -> Seq(Nat)] /\ (tab.ws # "open" => tab.sock < MaxSockets)
      /\ GoneInv /\ ActiveInv /\ StreamingIsAwaited
  BY DEF ChatInvariant, ChatShapes, TabType, AwaitInv
<1>2. ASSUME ActiveInv' /\ StreamingIsAwaited', gone' = gone,
             tab'.sock = tab.sock, tab'.ws = "open" => tab.ws = "open"
      PROVE  AwaitInv'
  BY <1>1, <1>2, GoneStep DEF AwaitInv
<1>3. CASE EnterPrompt
  <2>1. /\ gone' = gone /\ down' = down
        /\ \/ tab' = [tab EXCEPT !.queued = TRUE] /\ UNCHANGED <<up, turns>>
           \/ DoSend(tab)
    BY <1>3 DEF EnterPrompt, serverSide
  <2>2. CASE tab' = [tab EXCEPT !.queued = TRUE] /\ UNCHANGED <<up, turns>>
    <3>1. /\ tab'.ws = tab.ws /\ tab'.sock = tab.sock /\ tab'.preOpen = tab.preOpen
          /\ tab'.active = tab.active /\ tab'.conv = tab.conv
          /\ tab'.creating = tab.creating /\ tab'.streaming = tab.streaming
      BY <1>1, <2>2 DEF TabType
    <3>2. ActiveInv' /\ StreamingIsAwaited'
      BY <1>1, <2>1, <2>2, <3>1 DEF ActiveInv, StreamingIsAwaited, UnderWay, Answers
    <3>. QED BY <1>2, <2>1, <3>1, <3>2
  <2>3. CASE DoSend(tab)
    BY <1>1, <1>2, <2>1, <2>3, DoSendAwaits
  <2>. QED BY <2>1, <2>2, <2>3
<1>4. CASE CancelQueued
  <2>1. tab' = [tab EXCEPT !.queued = FALSE] /\ UNCHANGED <<up, down, turns, gone>>
    BY <1>4 DEF CancelQueued, serverSide
  <2>2. /\ tab'.ws = tab.ws /\ tab'.sock = tab.sock /\ tab'.preOpen = tab.preOpen
        /\ tab'.active = tab.active /\ tab'.conv = tab.conv
        /\ tab'.creating = tab.creating /\ tab'.streaming = tab.streaming
    BY <1>1, <2>1 DEF TabType
  <2>3. ActiveInv' /\ StreamingIsAwaited'
    BY <1>1, <2>1, <2>2 DEF ActiveInv, StreamingIsAwaited, UnderWay, Answers
  <2>. QED BY <1>2, <2>1, <2>2, <2>3
<1>5. ASSUME NEW c, AbortActiveStream(c)
      PROVE  AwaitInv'
  <2>1. /\ tab' = [tab EXCEPT !.ws = "none", !.preOpen = <<>>, !.active = 0,
                              !.streaming = FALSE, !.queued = FALSE, !.conv = c,
                              !.error = @ /\ c = tab.conv]
        /\ gone' = gone
    BY <1>5 DEF AbortActiveStream, serverSide
  <2>2. tab'.ws = "none" /\ tab'.sock = tab.sock /\ tab'.active = 0 /\ ~tab'.streaming
    BY <1>1, <2>1 DEF TabType
  <2>. QED BY <1>2, <2>1, <2>2 DEF ActiveInv, StreamingIsAwaited
<1>6. CASE Stop \/ SwitchChat
  BY <1>5, <1>6 DEF Stop, SwitchChat
<1>7. CASE ChatOpens
  <2>1. /\ tab' = [tab EXCEPT !.ws = "open", !.sock = @ + 1, !.preOpen = <<>>]
        /\ up' = [up EXCEPT ![tab.sock + 1] = tab.preOpen]
        /\ tab.ws = "opening" /\ UNCHANGED <<turns, gone>>
    BY <1>7 DEF ChatOpens, serverSide
  <2>2. /\ tab'.ws = "open" /\ tab'.sock = tab.sock + 1
        /\ tab'.active = tab.active /\ tab'.conv = tab.conv
        /\ tab'.creating = tab.creating /\ tab'.streaming = tab.streaming
    BY <1>1, <2>1 DEF TabType
  <2>3. up'[tab.sock + 1] = tab.preOpen
    <3>1. tab.sock + 1 \in Sockets
      BY <1>1, <2>1, ChatAssumption DEF Sockets
    <3>. QED BY <1>1, <2>1, <3>1
  <2>4. UnderWay(tab.active) => UnderWay(tab.active)'
    BY <2>1, <2>2, <2>3 DEF UnderWay
  <2>5. ActiveInv' /\ StreamingIsAwaited'
    BY <1>1, <2>1, <2>2, <2>4 DEF ActiveInv, StreamingIsAwaited
  <2>. QED BY <1>1, <2>1, <2>2, <2>5, GoneStep DEF AwaitInv
<1>8. CASE ChatCloses
  <2>1. /\ tab' = [tab EXCEPT !.ws = "opening", !.active = 0,
                              !.streaming = @ /\ tab.active = 0,
                              !.error = @ \/ tab.active # 0]
        /\ gone' = gone
    BY <1>8 DEF ChatCloses, serverSide
  <2>2. /\ tab'.ws = "opening" /\ tab'.sock = tab.sock /\ tab'.active = 0
        /\ tab'.creating = tab.creating
    BY <1>1, <2>1 DEF TabType
  <2>3. tab'.streaming => tab.streaming /\ tab.active = 0
    BY <1>1, <2>1 DEF TabType
  <2>4. 0 \notin Sends
    BY DEF Sends
  <2>. QED BY <1>1, <1>2, <2>1, <2>2, <2>3, <2>4 DEF ActiveInv, StreamingIsAwaited
<1>9. ASSUME NEW t \in Sends, Created(t)
      PROVE  AwaitInv'
  <2>. DEFINE tb == [tab EXCEPT !.creating = @ \ {t}, !.conv = t]
  <2>1. /\ gone' = gone
        /\ \/ SendRequest(tb, t, t)
           \/ /\ tab' = [tab EXCEPT !.creating = @ \ {t}, !.streaming = FALSE, !.error = TRUE]
              /\ turns' = turns
    BY <1>9, Zenon DEF Created
  <2>2. CASE SendRequest(tb, t, t)
    <3>1. tb.ws = tab.ws /\ tb.sock = tab.sock /\ tb.conv = t /\ tb \in TabType
      <4>1. t \in Nat /\ tab.creating \ {t} \in SUBSET Nat
        BY <1>1 DEF TabType, Sends
      <4>. QED BY <1>1, <4>1 DEF TabType
    <3>2. SendRequest(tb, t, tb.conv)
      BY <2>2, <3>1
    <3>. HIDE DEF tb
    <3>. QED BY <1>2, <2>1, <3>1, <3>2, SendAwaits
  <2>3. CASE /\ tab' = [tab EXCEPT !.creating = @ \ {t}, !.streaming = FALSE, !.error = TRUE]
             /\ turns' = turns
    <3>1. /\ tab'.ws = tab.ws /\ tab'.sock = tab.sock /\ ~tab'.streaming
          /\ tab'.active = tab.active /\ tab'.conv = tab.conv
      BY <1>1, <2>3 DEF TabType
    <3>. QED BY <1>1, <1>2, <2>1, <2>3, <3>1 DEF ActiveInv, StreamingIsAwaited
  <2>. QED BY <2>1, <2>2, <2>3
<1>. QED BY <1>3, <1>4, <1>6, <1>7, <1>8, <1>9
LEMMA FrameAwaits ==
    ASSUME ChatInvariant, ChatInvariant', BooksInv, BooksInv', AwaitInv, HandleFrame
    PROVE  AwaitInv'
<1>. DEFINE d == down[tab.sock]
            over == [tab EXCEPT !.active = 0, !.streaming = FALSE]
<1>1. /\ tab \in TabType /\ tab' \in TabType /\ tab.sock \in Nat /\ tab'.sock \in Nat
      /\ GoneInv /\ ActiveInv /\ StreamingIsAwaited /\ down \in [Sockets -> Seq(FrameType)]
  BY DEF ChatInvariant, ChatShapes, TabType, AwaitInv, BooksInv, DownInv
<1>2. /\ tab.ws = "open" /\ d # <<>> /\ down' = [down EXCEPT ![tab.sock] = Tail(@)]
      /\ gone' = gone
      /\ \/ /\ Head(d).event # "unknown" /\ Head(d).conv # tab.conv
            /\ UNCHANGED <<tab, issued, up, turns>>
         \/ OnError(Head(d)) \/ OnDone(Head(d))
  BY DEF HandleFrame, serverSide
<1>3. tab.sock \in Sockets /\ d \in Seq(FrameType)
  BY <1>2, ComingIsASequence DEF BooksInv
<1>4. ASSUME ActiveInv' /\ StreamingIsAwaited', tab'.sock = tab.sock,
             tab'.ws = "open" => tab.ws = "open"
      PROVE  AwaitInv'
  BY <1>1, <1>2, <1>4, GoneStep DEF AwaitInv
\* A frame of another conversation is not the one that is waited for.
<1>5. CASE /\ Head(d).event # "unknown" /\ Head(d).conv # tab.conv
           /\ UNCHANGED <<tab, issued, up, turns>>
  <2>1. down'[tab.sock] = Tail(d)
    BY <1>1, <1>2, <1>3
  <2>2. ASSUME NEW i \in 1 .. Len(d), Answers(d[i])
        PROVE  \E j \in 1 .. Len(Tail(d)) : Answers(Tail(d)[j])
    <3>1. d[i] # Head(d)
      BY <1>5, <2>2 DEF Answers
    <3>. HIDE DEF d
    <3>2. i # 1
      BY <1>3, <3>1
    <3>3. i - 1 \in 1 .. Len(Tail(d)) /\ Tail(d)[i - 1] = d[i]
      BY <1>2, <1>3, <3>2
    <3>. QED BY <2>2, <3>3
  <2>3. UnderWay(tab.active) => UnderWay(tab.active)'
    BY <1>5, <2>1, <2>2 DEF UnderWay, Answers
  <2>4. ActiveInv' /\ StreamingIsAwaited'
    BY <1>1, <1>5, <2>3 DEF ActiveInv, StreamingIsAwaited
  <2>. QED BY <1>4, <1>5, <2>4
<1>6. /\ Ended(tab) = over /\ over \in TabType /\ over.ws = tab.ws /\ over.sock = tab.sock
      /\ over.active = 0 /\ over.streaming = FALSE /\ over.conv = tab.conv
  BY <1>1 DEF Ended, TabType
<1>7. ASSUME NEW tb \in TabType, tb.ws = tab.ws, tb.sock = tab.sock, tb.active = 0,
             tb.streaming = FALSE, DoSend(tb) \/ tab' = tb
      PROVE  AwaitInv'
  <2>1. CASE DoSend(tb)
    <3>1. /\ ActiveInv' /\ StreamingIsAwaited'
          /\ tab'.sock = tab.sock /\ (tab'.ws = "open" <=> tab.ws = "open")
      BY <1>1, <1>7, <2>1, DoSendAwaits
    <3>. QED BY <1>4, <3>1
  <2>2. CASE tab' = tb
    BY <1>4, <1>7, <2>2 DEF ActiveInv, StreamingIsAwaited
  <2>. QED BY <1>7, <2>1, <2>2
<1>8. CASE OnError(Head(d))
  <2>1. \/ DoSend([over EXCEPT !.conv = 0])
        \/ tab' = [over EXCEPT !.error = TRUE, !.conv = 0]
        \/ tab' = [over EXCEPT !.error = TRUE, !.conv = over.conv]
    BY <1>6, <1>8 DEF OnError
  <2>. HIDE DEF over
  <2>2. ASSUME NEW tb, \/ tb = [over EXCEPT !.conv = 0]
                       \/ tb = [over EXCEPT !.error = TRUE, !.conv = 0]
                       \/ tb = [over EXCEPT !.error = TRUE, !.conv = over.conv]
        PROVE  /\ tb \in TabType /\ tb.ws = tab.ws /\ tb.sock = tab.sock /\ tb.active = 0
               /\ tb.streaming = FALSE
    BY <1>6, <2>2 DEF TabType
  <2>. QED BY <1>7, <2>1, <2>2
<1>9. CASE OnDone(Head(d))
  <2>1. DoSend([over EXCEPT !.queued = FALSE]) \/ tab' = over
    BY <1>6, <1>9 DEF OnDone
  <2>. HIDE DEF over
  <2>2. ASSUME NEW tb, tb = [over EXCEPT !.queued = FALSE]
        PROVE  /\ tb \in TabType /\ tb.ws = tab.ws /\ tb.sock = tab.sock /\ tb.active = 0
               /\ tb.streaming = FALSE
    BY <1>6, <2>2 DEF TabType
  <2>. QED BY <1>6, <1>7, <2>1, <2>2
<1>. QED BY <1>2, <1>5, <1>8, <1>9

\* Frames are only added to those on their way; those of the turn the view follows are
\* the ones it waits for.
AnsweredBy(d) == \E i \in 1 .. Len(d) : Answers(d[i])

LEMMA SentAnswers ==
    ASSUME ChatInvariant, DownInv, tab.ws = "open", tab' = tab, NEW t \in Sends, NEW s,
           NEW events \in Seq({"error", "unknown", "done"}), down' = SentTo(t, s, events)
    PROVE  /\ AnsweredBy(down[tab.sock]) => AnsweredBy(down[tab.sock])'
           /\ s = tab.sock /\ turns[t].conv = tab.conv /\ events # <<>>
                 => AnsweredBy(down[tab.sock])'
<1>. DEFINE F == [i \in DOMAIN events |-> [event |-> events[i], conv |-> turns[t].conv]]
<1>1. /\ Len(events) \in Nat /\ DOMAIN events = 1 .. Len(events)
      /\ tab.sock \in Sockets /\ down[tab.sock] \in Seq(FrameType)
      /\ down \in [Sockets -> Seq(FrameType)]
  BY ComingIsASequence DEF DownInv
<1>2. /\ F \in Seq(FrameType) /\ Len(F) = Len(events)
      /\ \A i \in 1 .. Len(F) : F[i].conv = turns[t].conv
  <2>1. turns[t].conv \in Nat
    BY DEF ChatInvariant, ChatShapes, TurnType
  <2>2. \A i \in 1 .. Len(events) :
          [event |-> events[i], conv |-> turns[t].conv] \in FrameType
    BY <1>1, <2>1 DEF FrameType
  <2>3. F \in [1 .. Len(events) -> FrameType]
    BY <1>1, <2>2
  <2>. QED BY <1>1, <2>3
<1>. HIDE DEF F
<1>3. CASE s = tab.sock
  <2>1. down'[tab.sock] = down[tab.sock] \o F
    BY <1>1, <1>3 DEF SentTo, F
  <2>2. /\ Len(down[tab.sock] \o F) = Len(down[tab.sock]) + Len(F)
        /\ Len(down[tab.sock]) \in Nat /\ Len(F) \in Nat
        /\ \A i \in 1 .. Len(down[tab.sock]) : (down[tab.sock] \o F)[i] = down[tab.sock][i]
        /\ Len(F) > 0 => (down[tab.sock] \o F)[Len(down[tab.sock]) + 1] = F[1]
    <3>1. ASSUME NEW q \in Seq(FrameType), NEW e \in Seq(FrameType)
          PROVE  /\ Len(q \o e) = Len(q) + Len(e) /\ Len(q) \in Nat /\ Len(e) \in Nat
                 /\ \A i \in 1 .. Len(q) : (q \o e)[i] = q[i]
                 /\ Len(e) > 0 => (q \o e)[Len(q) + 1] = e[1]
      BY <3>1
    <3>. QED BY <1>1, <1>2, <3>1
  <2>3. AnsweredBy(down[tab.sock]) => AnsweredBy(down[tab.sock] \o F)
    BY <2>2 DEF AnsweredBy
  <2>4. turns[t].conv = tab.conv /\ events # <<>> => AnsweredBy(down[tab.sock] \o F)
    <3>1. SUFFICES ASSUME turns[t].conv = tab.conv, events # <<>>
                   PROVE  AnsweredBy(down[tab.sock] \o F)
      OBVIOUS
    <3>2. Len(F) > 0 /\ Answers(F[1])
      BY <1>1, <1>2, <3>1 DEF Answers
    <3>3. Len(down[tab.sock]) + 1 \in 1 .. Len(down[tab.sock] \o F)
      BY <2>2, <3>2
    <3>. QED BY <2>2, <3>2, <3>3 DEF AnsweredBy
  <2>. QED BY <2>1, <2>3, <2>4 DEF AnsweredBy, Answers
<1>4. CASE s # tab.sock
  <2>1. down' = down
    BY <1>4 DEF SentTo
  <2>. QED BY <1>4, <2>1 DEF AnsweredBy, Answers
<1>. QED BY <1>3, <1>4

\* Steps of the server: what the view waits for has only to be looked for while its
\* socket is open.
LEMMA ServerAwaits ==
    ASSUME ChatInvariant, AwaitInv, GoneInv', tab' = tab,
           \A u \in Sends : turns'[u].conv = turns[u].conv,
           tab.ws = "open" /\ tab.active \in Sends /\ UnderWay(tab.active)
               => UnderWay(tab.active)'
    PROVE  AwaitInv'
<1>1. UnderWay(tab.active) /\ tab.ws # "open" => UnderWay(tab.active)'
  BY DEF UnderWay
<1>2. StreamingIsAwaited' /\ ActiveInv'
  BY <1>1 DEF AwaitInv, StreamingIsAwaited, ActiveInv
<1>. QED BY <1>2 DEF AwaitInv
\* The request that is read begins a turn on the socket it came by, or is answered there.
LEMMA RequestAwaits ==
    ASSUME ChatInvariant, BooksInv, AwaitInv, NEW s \in Sockets, OnRequest(s)
    PROVE  AwaitInv'
<1>. DEFINE t == Head(up[s])
            a == tab.active
<1>1. /\ turns \in [Sends -> TurnType] /\ up \in [Sockets -> Seq(Nat)]
      /\ s \in LaneIds /\ s # 0 /\ s \in Nat /\ DownInv /\ issued \in Nat
      /\ GoneInv /\ ActiveInv /\ (tab.ws = "open" => tab.sock \in Sockets)
  BY ChatAssumption DEF ChatInvariant, ChatShapes, TabType, BooksInv, AwaitInv, Sockets, LaneIds
<1>2. /\ up[s] # <<>> /\ up' = [up EXCEPT ![s] = Tail(@)] /\ tab' = tab /\ gone' = gone
  BY DEF OnRequest, serverSide
<1>3. t \in Sends /\ turns[t].at = "none"
  <2>. DEFINE L == Lanes(tab.preOpen, up)
  <2>1. L[s] = up[s] /\ Orderly(L, LaneIds, Waiting(tab.creating, issued, turns))
    BY <1>1 DEF Lanes, ChatInvariant, RequestsInv
  <2>2. t \in Waiting(tab.creating, issued, turns)
    <3>. HIDE DEF L
    <3>. QED BY <1>1, <1>2, <2>1, OrderlyTail
  <2>3. 1 .. issued \subseteq Sends
    BY IssuedAreSends
  <2>. QED BY <2>2, <2>3 DEF Waiting
<1>4. \/ \E e \in {"error", "unknown"} : Refuses(t, s, e)
      \/ turns' = [turns EXCEPT ![t].at = "gating", ![t].sock = s] /\ down' = down
  BY DEF OnRequest
<1>. HIDE DEF t
<1>5. PICK r \in TurnType : turns' = [turns EXCEPT ![t] = r] /\ r.conv = turns[t].conv
                            /\ ((r.at = "gating" /\ r.sock = s) \/ r.at = "over")
  <2>1. turns[t] \in TurnType /\ s \in 0 .. MaxSockets /\ 0 \in 0 .. MaxSockets
    BY <1>1, <1>3, ChatAssumption DEF Sockets
  <2>2. CASE turns' = [turns EXCEPT ![t].at = "gating", ![t].sock = s]
    <3>1. [turns[t] EXCEPT !.at = "gating", !.sock = s] \in TurnType
      BY <2>1 DEF TurnType
    <3>. QED BY <1>1, <1>3, <2>1, <2>2, <3>1 DEF TurnType
  <2>3. CASE turns' = [turns EXCEPT ![t].at = "over", ![t].sock = 0, ![t].told = "error"]
    <3>1. [turns[t] EXCEPT !.at = "over", !.sock = 0, !.told = "error"] \in TurnType
      BY <2>1 DEF TurnType
    <3>. QED BY <1>1, <1>3, <2>1, <2>3, <3>1 DEF TurnType
  <2>. QED BY <1>4, <2>2, <2>3 DEF Refuses
<1>6. \A u \in Sends : turns'[u].conv = turns[u].conv /\ (u # t => turns'[u] = turns[u])
  BY <1>1, <1>3, <1>5
<1>7. ASSUME tab.ws = "open"
      PROVE  /\ AnsweredBy(down[tab.sock]) => AnsweredBy(down[tab.sock])'
             /\ turns'[t].at = "over" /\ s = tab.sock /\ turns[t].conv = tab.conv
                   => AnsweredBy(down[tab.sock])'
  <2>1. ASSUME NEW e \in {"error", "unknown"}, Refuses(t, s, e)
        PROVE  /\ AnsweredBy(down[tab.sock]) => AnsweredBy(down[tab.sock])'
               /\ s = tab.sock /\ turns[t].conv = tab.conv => AnsweredBy(down[tab.sock])'
    <3>. DEFINE events == <<e, "done">>
    <3>1. down' = SentTo(t, s, events)
      BY <2>1 DEF Refuses
    <3>2. events \in Seq({"error", "unknown", "done"}) /\ events # <<>>
      BY <2>1
    <3>. HIDE DEF events
    <3>. QED BY <1>1, <1>2, <1>3, <1>7, <3>1, <3>2, SentAnswers
  <2>2. CASE turns' = [turns EXCEPT ![t].at = "gating", ![t].sock = s] /\ down' = down
    <3>1. turns'[t].at = "gating"
      BY <1>1, <1>3, <2>2 DEF TurnType
    <3>. QED BY <1>2, <2>2, <3>1 DEF AnsweredBy, Answers
  <2>. QED BY <1>4, <2>1, <2>2
<1>8. ASSUME tab.ws = "open", a \in Sends, UnderWay(a)
      PROVE  UnderWay(tab.active)'
  <2>1. turns[a].conv = tab.conv
    <3>1. a # 0
      BY <1>8 DEF Sends
    <3>. QED BY <1>1, <3>1 DEF ActiveInv
  <2>2. \/ \E i \in 1 .. Len(up[tab.sock]) : up[tab.sock][i] = a
        \/ turns[a].at \in {"gating", "streaming"} /\ turns[a].sock = tab.sock
        \/ AnsweredBy(down[tab.sock])
    BY <1>8 DEF UnderWay, AnsweredBy
  <2>3. SUFFICES \/ \E i \in 1 .. Len(up'[tab.sock]) : up'[tab.sock][i] = a
                 \/ turns'[a].at \in {"gating", "streaming"} /\ turns'[a].sock = tab.sock
                 \/ AnsweredBy(down[tab.sock])'
    BY <1>2, <1>8 DEF UnderWay, AnsweredBy
  <2>4. CASE AnsweredBy(down[tab.sock])
    BY <1>7, <1>8, <2>4
  <2>5. CASE turns[a].at \in {"gating", "streaming"} /\ turns[a].sock = tab.sock
    BY <1>3, <1>6, <1>8, <2>5
  <2>6. ASSUME NEW i \in 1 .. Len(up[tab.sock]), up[tab.sock][i] = a
        PROVE  \/ \E j \in 1 .. Len(up'[tab.sock]) : up'[tab.sock][j] = a
               \/ turns'[a].at \in {"gating", "streaming"} /\ turns'[a].sock = tab.sock
               \/ AnsweredBy(down[tab.sock])'
    <3>. DEFINE q == up[tab.sock]
    <3>1. q \in Seq(Nat) /\ tab.sock \in Sockets
      BY <1>1, <1>8
    <3>2. CASE s # tab.sock
      <4>1. up'[tab.sock] = q
        BY <1>1, <1>2, <3>1, <3>2
      <4>. QED BY <2>6, <4>1
    <3>3. CASE s = tab.sock /\ i # 1
      <4>1. up'[tab.sock] = Tail(q)
        BY <1>1, <1>2, <3>1, <3>3
      <4>2. i - 1 \in 1 .. Len(Tail(q)) /\ Tail(q)[i - 1] = q[i]
        <5>. HIDE DEF q
        <5>1. i \in 1 .. Len(q)
          BY <2>6 DEF q
        <5>. QED BY <3>1, <3>3, <5>1
      <4>. QED BY <2>6, <4>1, <4>2
    <3>4. CASE s = tab.sock /\ i = 1
      <4>1. a = t
        BY <2>6, <3>1, <3>4 DEF t
      <4>2. turns'[t] = r
        BY <1>1, <1>3, <1>5
      <4>. QED BY <1>5, <1>7, <1>8, <2>1, <3>4, <4>1, <4>2
    <3>. QED BY <3>2, <3>3, <3>4
  <2>. QED BY <2>2, <2>4, <2>5, <2>6
<1>9. GoneInv'
  BY <1>1, <1>2 DEF GoneInv
<1>. QED BY <1>2, <1>6, <1>8, <1>9, ServerAwaits

\* A turn ends only by answering, unless its socket is gone: and then the view does not
\* wait there.
LEMMA TurnAwaits ==
    ASSUME ChatInvariant, BooksInv, AwaitInv,
           NEW t \in Sends, Gated(t) \/ Chunk(t) \/ ChatStreamEnds(t)
    PROVE  AwaitInv'
<1>. DEFINE a == tab.active
            s == turns[t].sock
<1>1. /\ turns \in [Sends -> TurnType] /\ turns[t] \in TurnType /\ DownInv
      /\ GoneInv /\ ActiveInv /\ (tab.ws = "open" => tab.sock \notin gone)
  BY DEF ChatInvariant, ChatShapes, BooksInv, AwaitInv, GoneInv
<1>2. /\ tab' = tab /\ gone' = gone /\ up' = up
  <2>1. UNCHANGED <<tab, issued, prompts, up, serverSide>>
    BY Zenon DEF Gated, Chunk, ChatStreamEnds
  <2>. QED BY <2>1 DEF serverSide
\* The turn goes on, or it ends and says so unless its socket is gone.
<1>3. /\ \A u \in Sends : turns'[u].conv = turns[u].conv /\ (u # t => turns'[u] = turns[u])
      /\ \/ /\ turns'[t].at \in {"gating", "streaming"} /\ turns'[t].sock = turns[t].sock
            /\ down' = down
         \/ s \in gone /\ down' = down
         \/ \E events \in {<<>>, <<"error", "done">>, <<"done">>} :
               (s \notin gone => events # <<>>) /\ down' = SentTo(t, s, events)
  <2>1. ASSUME NEW f \in BOOLEAN, TurnFinally(t, f)
        PROVE  /\ \A u \in Sends : /\ turns'[u].conv = turns[u].conv
                                   /\ u # t => turns'[u] = turns[u]
               /\ \E events \in {<<>>, <<"error", "done">>, <<"done">>} :
                     (s \notin gone => events # <<>>) /\ down' = SentTo(t, s, events)
    <3>. DEFINE ends == IF s \in gone THEN <<>>
                        ELSE IF f THEN <<"error", "done">> ELSE <<"done">>
    <3>1. /\ down' = SentTo(t, s, ends) /\ (s \notin gone => ends # <<>>)
          /\ ends \in {<<>>, <<"error", "done">>, <<"done">>}
      BY <2>1 DEF TurnFinally
    <3>2. turns' = [turns EXCEPT ![t].at = "over", ![t].sock = 0,
                                 ![t].told = IF ends = <<>> THEN @ ELSE Head(ends),
                                 ![t].answer = IF turns[t].conv \notin kept THEN @
                                               ELSE [content |-> turns[t].sent,
                                                     truncated |-> s \in gone \/ f]]
      BY <2>1 DEF TurnFinally
    <3>. HIDE DEF s, ends
    <3>3. \A u \in Sends : turns'[u].conv = turns[u].conv /\ (u # t => turns'[u] = turns[u])
      BY <1>1, <3>2 DEF TurnType
    <3>. QED BY <3>1, <3>3
  <2>2. CASE Gated(t)
    <3>1. \/ turns' = [turns EXCEPT ![t].at = "streaming"] /\ down' = down
          \/ turns' = [turns EXCEPT ![t].at = "over", ![t].sock = 0]
             /\ s \in gone /\ down' = down
          \/ turns' = [turns EXCEPT ![t].at = "over", ![t].sock = 0, ![t].told = "error"]
             /\ down' = SentTo(t, s, <<"error", "done">>)
      BY <2>2 DEF Gated, Refuses
    <3>2. \A u \in Sends : turns'[u].conv = turns[u].conv /\ (u # t => turns'[u] = turns[u])
      BY <1>1, <3>1 DEF TurnType
    <3>3. turns' = [turns EXCEPT ![t].at = "streaming"]
          => turns'[t].at = "streaming" /\ turns'[t].sock = turns[t].sock
      BY <1>1 DEF TurnType
    <3>4. <<"error", "done">> # <<>>
      OBVIOUS
    <3>. HIDE DEF s
    <3>. QED BY <3>1, <3>2, <3>3, <3>4
  <2>3. CASE Chunk(t)
    <3>1. \/ turns' = [turns EXCEPT ![t].sent = @ + 1] /\ down' = down
             /\ turns[t].at = "streaming"
          \/ TurnFinally(t, FALSE)
      BY <2>3, Zenon DEF Chunk
    <3>2. CASE turns' = [turns EXCEPT ![t].sent = @ + 1] /\ down' = down
               /\ turns[t].at = "streaming"
      <4>1. /\ \A u \in Sends : /\ turns'[u].conv = turns[u].conv
                                /\ u # t => turns'[u] = turns[u]
            /\ turns'[t].at = "streaming" /\ turns'[t].sock = turns[t].sock
        BY <1>1, <3>2 DEF TurnType
      <4>. QED BY <3>2, <4>1
    <3>. HIDE DEF s
    <3>. QED BY <2>1, <3>1, <3>2
  <2>4. CASE ChatStreamEnds(t)
    <3>1. \E f \in BOOLEAN : TurnFinally(t, f)
      BY <2>4, Zenon DEF ChatStreamEnds
    <3>. HIDE DEF s
    <3>. QED BY <2>1, <3>1
  <2>. QED BY <2>2, <2>3, <2>4
<1>4. ASSUME tab.ws = "open"
      PROVE  /\ AnsweredBy(down[tab.sock]) => AnsweredBy(down[tab.sock])'
             /\ s = tab.sock /\ turns[t].conv = tab.conv
                   => \/ turns'[t].at \in {"gating", "streaming"} /\ turns'[t].sock = s
                      \/ AnsweredBy(down[tab.sock])'
  <2>1. ASSUME NEW events \in {<<>>, <<"error", "done">>, <<"done">>},
               s \notin gone => events # <<>>, down' = SentTo(t, s, events)
        PROVE  /\ AnsweredBy(down[tab.sock]) => AnsweredBy(down[tab.sock])'
               /\ s = tab.sock /\ turns[t].conv = tab.conv => AnsweredBy(down[tab.sock])'
    <3>1. events \in Seq({"error", "unknown", "done"})
      <4>1. /\ <<>> \in Seq({"error", "unknown", "done"})
            /\ <<"error", "done">> \in Seq({"error", "unknown", "done"})
            /\ <<"done">> \in Seq({"error", "unknown", "done"})
        OBVIOUS
      <4>. QED BY <4>1
    <3>2. s = tab.sock => events # <<>>
      BY <1>1, <1>4, <2>1
    <3>. HIDE DEF s
    <3>. QED BY <1>1, <1>2, <1>4, <2>1, <3>1, <3>2, SentAnswers
  <2>2. CASE down' = down
    <3>1. AnsweredBy(down[tab.sock]) => AnsweredBy(down[tab.sock])'
      BY <1>2, <2>2 DEF AnsweredBy, Answers
    <3>2. s = tab.sock => s \notin gone
      BY <1>1, <1>4
    <3>. HIDE DEF s
    <3>. QED BY <1>3, <2>1, <3>1, <3>2 DEF s
  <2>. HIDE DEF s
  <2>. QED BY <1>3, <2>1, <2>2
<1>5. ASSUME tab.ws = "open", a \in Sends, UnderWay(a)
      PROVE  UnderWay(tab.active)'
  <2>1. turns[a].conv = tab.conv
    <3>1. a # 0
      BY <1>5 DEF Sends
    <3>. QED BY <1>1, <3>1 DEF ActiveInv
  <2>2. \/ \E i \in 1 .. Len(up[tab.sock]) : up[tab.sock][i] = a
        \/ turns[a].at \in {"gating", "streaming"} /\ turns[a].sock = tab.sock
        \/ AnsweredBy(down[tab.sock])
    BY <1>5 DEF UnderWay, AnsweredBy
  <2>3. SUFFICES \/ \E i \in 1 .. Len(up[tab.sock]) : up[tab.sock][i] = a
                 \/ turns'[a].at \in {"gating", "streaming"} /\ turns'[a].sock = tab.sock
                 \/ AnsweredBy(down[tab.sock])'
    BY <1>2, <1>5 DEF UnderWay, AnsweredBy
  <2>4. turns[a].sock = tab.sock
        => \/ turns'[a].at \in {"gating", "streaming"} /\ turns'[a].sock = tab.sock
           \/ turns'[a] = turns[a] \/ AnsweredBy(down[tab.sock])'
    BY <1>3, <1>4, <1>5, <2>1
  <2>. QED BY <1>4, <1>5, <2>2, <2>4
<1>6. GoneInv'
  BY <1>1, <1>2 DEF GoneInv
<1>. QED BY <1>2, <1>3, <1>5, <1>6, ServerAwaits

LEMMA OutsideAwaits ==
    ASSUME ChatInvariant, AwaitInv,
           (\E s \in Sockets : HangUp(s)) \/ \E c \in Sends : Delete(c)
    PROVE  AwaitInv'
<1>1. turns \in [Sends -> TurnType] /\ up \in [Sockets -> Seq(Nat)] /\ GoneInv
      /\ tab.sock \in Nat /\ (tab.ws = "open" => tab.sock \in Sockets)
  BY DEF ChatInvariant, ChatShapes, TabType, AwaitInv, Sockets
<1>2. ASSUME NEW s \in Sockets, HangUp(s)
      PROVE  AwaitInv'
  <2>1. /\ s <= tab.sock /\ ~(tab.ws = "open" /\ tab.sock = s)
        /\ gone' = gone \cup {s} /\ up' = [up EXCEPT ![s] = <<>>]
        /\ tab' = tab /\ down' = down /\ turns' = turns
    BY <1>2 DEF HangUp
  <2>2. GoneInv'
    BY <1>1, <2>1 DEF GoneInv, Sockets
  <2>3. tab.ws = "open" => up'[tab.sock] = up[tab.sock]
    BY <1>1, <2>1
  <2>4. tab.ws = "open" /\ UnderWay(tab.active) => UnderWay(tab.active)'
    BY <2>1, <2>3 DEF UnderWay, Answers
  <2>. QED BY <2>1, <2>2, <2>4, ServerAwaits
<1>3. ASSUME NEW c \in Sends, Delete(c)
      PROVE  AwaitInv'
  <2>1. /\ tab' = tab /\ down' = down /\ up' = up /\ gone' = gone
        /\ turns' = [t \in Sends |-> IF turns[t].conv # c THEN turns[t]
                                     ELSE [turns[t] EXCEPT !.answer = NoAnswer]]
    BY <1>3 DEF Delete
  <2>2. \A u \in Sends : /\ turns'[u].at = turns[u].at /\ turns'[u].conv = turns[u].conv
                         /\ turns'[u].sock = turns[u].sock
    BY <1>1, <2>1 DEF TurnType
  <2>3. GoneInv'
    BY <1>1, <2>1 DEF GoneInv
  <2>4. tab.ws = "open" /\ tab.active \in Sends /\ UnderWay(tab.active)
           => UnderWay(tab.active)'
    BY <2>1, <2>2 DEF UnderWay, Answers
  <2>. QED BY <2>1, <2>2, <2>3, <2>4, ServerAwaits
<1>. QED BY <1>2, <1>3
-----------------------------------------------------------------------------
(* A chat: the theorems about its shapes and about who waits.              *)

LEMMA InitAwaits == ChatInit => AwaitInv
<1>. SUFFICES ASSUME ChatInit
              PROVE  AwaitInv
  OBVIOUS
<1>1. /\ tab.sock = 0 /\ tab.ws = "none" /\ tab.active = 0 /\ tab.streaming = FALSE
      /\ gone = {}
  BY DEF ChatInit
<1>. QED BY <1>1 DEF AwaitInv, GoneInv, ActiveInv, StreamingIsAwaited

LEMMA AwaitStep ==
    ChatInvariant /\ ChatInvariant' /\ BooksInv /\ BooksInv' /\ AwaitInv /\ [ChatNext]_chatVars
        => AwaitInv'
<1>. SUFFICES ASSUME ChatInvariant, ChatInvariant', BooksInv, BooksInv', AwaitInv,
                     [ChatNext]_chatVars
              PROVE  AwaitInv'
  OBVIOUS
<1>1. CASE UNCHANGED chatVars
  BY <1>1 DEF chatVars, AwaitInv, GoneInv, ActiveInv, StreamingIsAwaited, UnderWay, Answers
<1>2. CASE ChatNext
  <2>1. \/ \/ EnterPrompt \/ CancelQueued \/ Stop \/ SwitchChat \/ ChatOpens \/ ChatCloses
           \/ \E t \in Sends : Created(t)
        \/ HandleFrame
        \/ \E t \in Sends : Gated(t) \/ Chunk(t) \/ ChatStreamEnds(t)
        \/ \E s \in Sockets : OnRequest(s)
        \/ (\E s \in Sockets : HangUp(s)) \/ \E c \in Sends : Delete(c)
    BY <1>2, Zenon DEF ChatNext
  <2>. QED BY <2>1, ViewAwaits, FrameAwaits, TurnAwaits, RequestAwaits, OutsideAwaits
<1>. QED BY <1>1, <1>2

LEMMA AlwaysAwaited == ChatSpec => []AwaitInv
<1>. QED BY InitAwaits, AwaitStep, AlwaysChat, AlwaysBooks, PTL DEF ChatSpec

\* Every conversation, turn and request of the view bears one of the numbers there are:
\* while others delete at most one conversation, the view makes at most two requests per
\* prompt, however its socket, its queue and the deletion interleave (doSend and the retry
\* of handleFrame, Chat.tsx).
THEOREM ChatTypeCorrect == ChatSpec => []ChatTypeOK
<1>1. ChatInvariant /\ BooksInv /\ AwaitInv => ChatTypeOK
  <2>. SUFFICES ASSUME ChatInvariant, BooksInv, AwaitInv
                PROVE  ChatTypeOK
    OBVIOUS
  <2>1. /\ tab \in TabType /\ turns \in [Sends -> TurnType]
        /\ kept \cup lost \subseteq Sends /\ kept \cap lost = {}
        /\ tab.conv \in {0} \cup kept \cup lost
    BY DEF ChatInvariant, ChatShapes, TurnsInv
  <2>2. issued \in {0} \cup Sends /\ tab.creating \subseteq Sends
    <3>1. issued \in 0 .. 2 * MaxPrompts /\ 1 .. issued \subseteq Sends
      BY IssuedAreSends
    <3>2. tab.creating \subseteq 1 .. issued
      BY DEF ChatInvariant, RequestsInv
    <3>. QED BY <3>1, <3>2, ChatAssumption DEF Sends
  <2>3. tab.active \in {0} \cup Sends /\ prompts \in 0 .. MaxPrompts
    BY DEF AwaitInv, ActiveInv, BooksInv, CountInv
  <2>4. /\ tab.ws \in {"none", "opening", "open"} /\ tab.sock \in 0 .. MaxSockets
        /\ {tab.streaming, tab.queued, tab.error} \subseteq BOOLEAN
    BY <2>1 DEF TabType
  <2>5. \A t \in Sends : turns[t].at \in {"none", "gating", "streaming", "over"}
    BY <2>1 DEF TurnType
  <2>. QED BY <2>1, <2>2, <2>3, <2>4, <2>5 DEF ChatTypeOK
<1>. QED BY <1>1, AlwaysChat, AlwaysBooks, AlwaysAwaited, PTL

\* A composer that waits always has something to wait for: a conversation being created,
\* its request, its turn, or the frames that end it.  No order of lost sockets, refusals
\* and requests sent again leaves it waiting for nothing (handleFrame and the socket of
\* Chat.tsx, handleChatRequest).
THEOREM WaitingComposerIsAnswered == ChatSpec => []StreamingIsAwaited
<1>1. AwaitInv => StreamingIsAwaited
  BY DEF AwaitInv
<1>. QED BY <1>1, AlwaysAwaited, PTL
=============================================================================
