----------------------------- MODULE MCServices -----------------------------
(***************************************************************************)
(* Instances of the server's services that share no state: the slots, the  *)
(* panel of a snapshot key, the pump of a bound key, the prompts, the      *)
(* operations, the attempts of a node, an agent turn, the leases, the    *)
(* heartbeat and a chat.  A behaviour is one of one part, which its first  *)
(* state chooses; the others stay as they begin, and their fairness asks   *)
(* nothing of them.                                                        *)
(***************************************************************************)
EXTENDS RunSlots, SnapshotPanel, BoundKey, ApprovalRegistry, OpRegistry, NodeAttempts,
        AgentTurn, WorkspaceLeases, RefreshScheduler, Chat

CONSTANT Parts      \* the parts that the run is about

ASSUME PartsAssumption ==
    Parts \subseteq {"slots", "panel", "bound", "prompts", "ops", "attempts", "turn",
                     "leases", "refresh", "chat"}

OneAndTwos == {<<1, 2, 2>>}
AllOnes == {[i \in Schedules |-> 1]}

VARIABLE part

allVars == <<vars, panelVars, boundVars, approvalVars, opVars, attemptVars, turnVars,
             leaseVars, refreshVars, chatVars>>

ServicesTypeOK ==
    CASE part = "slots" -> TypeOK
      [] part = "panel" -> PanelTypeOK
      [] part = "bound" -> BoundTypeOK
      [] part = "prompts" -> ApprovalTypeOK
      [] part = "ops" -> OpTypeOK
      [] part = "attempts" -> AttemptTypeOK
      [] part = "turn" -> TurnTypeOK
      [] part = "leases" -> LeaseTypeOK
      [] part = "refresh" -> RefreshTypeOK
      [] part = "chat" -> ChatTypeOK

\* A part that stays as it begins has one beginning.  At work, the heartbeat begins
\* with a last collector that works: what becomes of its runs is nobody else's
\* business.
OneBeginning ==
    /\ part # "prompts" => turnOf = [a \in Asks |-> CHOOSE t \in Turns : TRUE]
    /\ part # "attempts" => onError = "all"
    /\ part # "leases" => pathOf = [l \in Leases |-> CHOOSE p \in Paths : TRUE]
    /\ part = "refresh" => \A i \in Schedules : i = Collectors => health[i] = "ok"
    /\ part # "refresh" => /\ cadence = CHOOSE c \in Cadences : TRUE
                           /\ health = [i \in Schedules |-> CHOOSE h \in Healths : TRUE]
                           /\ viewed = {}

ServicesInit ==
    /\ part \in Parts
    /\ Init /\ PanelInit /\ BoundInit /\ ApprovalInit /\ OpInit
    /\ AttemptInit /\ TurnInit /\ LeaseInit /\ RefreshInit /\ ChatInit
    /\ OneBeginning

RestAfterPanel ==
    <<boundVars, approvalVars, opVars, attemptVars, turnVars, leaseVars, refreshVars,
      chatVars>>
RestAfterOps == <<attemptVars, turnVars, leaseVars, refreshVars, chatVars>>

SlotsStep == part = "slots" /\ Next /\ UNCHANGED <<panelVars, RestAfterPanel>>
PanelStep == part = "panel" /\ PanelNext /\ UNCHANGED <<vars, RestAfterPanel>>
BoundStep ==
    /\ part = "bound" /\ BoundNext
    /\ UNCHANGED <<vars, panelVars, approvalVars, opVars, RestAfterOps>>
PromptsStep ==
    /\ part = "prompts" /\ ApprovalNext
    /\ UNCHANGED <<vars, panelVars, boundVars, opVars, RestAfterOps>>
OpsStep ==
    /\ part = "ops" /\ OpNext
    /\ UNCHANGED <<vars, panelVars, boundVars, approvalVars, RestAfterOps>>

FirstParts == <<vars, panelVars, boundVars, approvalVars, opVars>>

AttemptsStep ==
    /\ part = "attempts" /\ AttemptNext
    /\ UNCHANGED <<FirstParts, turnVars, leaseVars, refreshVars, chatVars>>
TurnStep ==
    /\ part = "turn" /\ TurnNext
    /\ UNCHANGED <<FirstParts, attemptVars, leaseVars, refreshVars, chatVars>>
LeasesStep ==
    /\ part = "leases" /\ LeaseNext
    /\ UNCHANGED <<FirstParts, attemptVars, turnVars, refreshVars, chatVars>>
RefreshStep ==
    /\ part = "refresh" /\ RefreshNext
    /\ UNCHANGED <<FirstParts, attemptVars, turnVars, leaseVars, chatVars>>
ChatStep ==
    /\ part = "chat" /\ ChatNext
    /\ UNCHANGED <<FirstParts, attemptVars, turnVars, leaseVars, refreshVars>>

ServicesNext ==
    /\ \/ SlotsStep \/ PanelStep \/ BoundStep \/ PromptsStep \/ OpsStep
       \/ AttemptsStep \/ TurnStep \/ LeasesStep \/ RefreshStep \/ ChatStep
    /\ UNCHANGED part

-----------------------------------------------------------------------------
(* Fairness: what each part may count on while it is the one at work.      *)

\* A resolved promise is continued, and an execution ends: its nodes end, an
\* approval pause is answered or cancelled.
SlotsFairness ==
    \A r \in Runs :
        WF_vars(part = "slots" /\ Continue(r)) /\ WF_vars(part = "slots" /\ Finish(r))

\* The network drops sockets and answers, but not all of them; a reconnect timer
\* fires.
PanelFairness ==
    /\ WF_panelVars(part = "panel" /\ Reopen)
    /\ SF_panelVars(part = "panel" /\ Accept)
    /\ SF_panelVars(part = "panel" /\ OnOpen)
    /\ SF_panelVars(part = "panel" /\ GetIsAnswered)
    /\ SF_panelVars(part = "panel" /\ GetArrives)
    /\ SF_panelVars(part = "panel" /\ GoneArrives)

\* Promises are continued, and the composer ends, for it only reads the holder.
BoundFairness ==
    /\ WF_boundVars(part = "bound" /\ PumpContinues)
    /\ WF_boundVars(part = "bound" /\ BoundCompletes)

\* Every ask has a timer.
ApprovalFairness ==
    /\ WF_approvalVars(part = "prompts" /\ PromptsComplete)
    /\ \A a \in Asks : WF_approvalVars(part = "prompts" /\ Timeout(a))

\* The gate, the policies and the catalog answer, and the rib reads its stream; of
\* the provider nothing is assumed.
TurnFairness ==
    /\ WF_turnVars(part = "turn" /\ TurnSteps)
    /\ WF_turnVars(part = "turn" /\ GracePasses)
    /\ WF_turnVars(part = "turn" /\ ReaderLooks)

\* A run that is started ends, unless it hangs.
RefreshFairness ==
    /\ WF_refreshVars(part = "refresh" /\ Tick)
    /\ \A i \in Schedules : WF_refreshVars(part = "refresh" /\ CollectorEnds(i))

\* The network delivers or loses the socket, a POST is answered or fails, and a
\* provider's stream ends: a chat turn has no time limit of its own.
ChatFairness ==
    /\ WF_chatVars(part = "chat" /\ ChatOpens)
    /\ WF_chatVars(part = "chat" /\ HandleFrame)
    /\ WF_chatVars(part = "chat" /\ ChatServerSteps)
    /\ WF_chatVars(part = "chat" /\ \E t \in Sends : Created(t))
    /\ WF_chatVars(part = "chat" /\ \E t \in Sends : ChatStreamEnds(t))

ServicesSpec ==
    /\ ServicesInit /\ [][ServicesNext]_<<part, allVars>>
    /\ SlotsFairness /\ PanelFairness /\ BoundFairness /\ ApprovalFairness
    /\ TurnFairness /\ RefreshFairness /\ ChatFairness

-----------------------------------------------------------------------------
(* The liveness properties of the parts, each of a behaviour of its part.  *)

SlotsAdmitEveryone == part = "slots" => EveryoneAdmitted
ReopeningEnds == part = "panel" => NoEndlessReopening
TurnsEndOnceAborted == part = "turn" => AbortedTurnEnds
RegionsStayFresh == part = "refresh" => FreshIfThereIsRoom
AllRegionsStayFresh == part = "refresh" => EveryRegionStaysFresh
ComposerIsFreed == part = "chat" => ComposerComesBack
=============================================================================
