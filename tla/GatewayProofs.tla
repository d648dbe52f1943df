--------------------------- MODULE GatewayProofs ----------------------------
(***************************************************************************)
(* Proofs about Gateway, for any servers, calls, reloads and files.  The   *)
(* composition implements both of its components, so their invariants are  *)
(* its own; on top of them stand the ways main may be at while the         *)
(* multiplexer is in a phase, and what a call has done by where it stands. *)
(***************************************************************************)
EXTENDS Gateway, MultiplexerProofs, AuditLogProofs

GatewayTypes ==
  /\ main \in {"starting", "loop", "reopening", "loading", "reloading", "draining",
               "stopping", "closing", "failing", "returning", "over", "killed"}
  /\ signal \in {"none", "HUP", "TERM"}
  /\ http \in {"off", "listening", "closed", "failed"}
  /\ drained \in BOOLEAN
  /\ call \in [Calls -> {"idle", "calling", "logging", "done"}]
  /\ backendOf \in [Calls -> Ptr \cup {Nil}]
  /\ effect \in [Calls -> BOOLEAN]

\* The phase of the multiplexer while main stands where it does: main is the
\* one goroutine that starts, reloads and stops it.
PhaseInv ==
  /\ main \in {"starting", "killed"} => phase = "starting"
  /\ main = "reloading" => phase \in {"preparing", "retiring"}
  /\ main \in {"closing", "returning", "over"} => phase = "stopped"

\* Once main is on its way out nobody accepts connections.
HttpInv ==
  main \in {"draining", "stopping", "closing", "failing", "returning", "over"}
    => http # "listening"

\* A call that had an effect has arrived, and one that is done has logged.
CallOK ==
  \A c \in Calls :
    /\ effect[c] => call[c] # "idle"
    /\ call[c] = "done" => stage[c] = "logged"

DrainInv ==
  drained =>
    /\ main \in {"stopping", "closing", "returning", "over"}
    /\ \A c \in Attached : ~InProgress(c)

GatewayInv == GatewayTypes /\ PhaseInv /\ HttpInv /\ CallOK /\ DrainInv

-----------------------------------------------------------------------------
\* Each step of the composition is, to the multiplexer and to the audit log,
\* one of their own or none.
LEMMA GatewayComponents ==
  ASSUME [Next]_vars
  PROVE  [MuxNext]_muxVars /\ [AuditNext]_auditVars
<1>1. CASE Main
  <2>1. ASSUME \/ Select \/ ReopenLog \/ LoadRejected
               \/ Drain \/ DrainExpires \/ CloseAudit \/ Return
        PROVE  UNCHANGED muxVars /\ [AuditNext]_auditVars
    BY <2>1 DEF Select, OnServerErr, OnHangup, OnTerminate, ReopenLog, LoadRejected, Drain,
                DrainExpires, CloseAudit, Return, AuditNext
  <2>2. ASSUME Listen \/ ReloadSteps \/ ReloadEnds \/ StopBackends \/ FailStop
        PROVE  MuxNext /\ UNCHANGED auditVars
    BY <2>2 DEF Listen, ReloadSteps, ReloadEnds, StopBackends, FailStop, MuxNext
  <2>3. ASSUME NEW cfg \in ConfigFiles, LoadAccepted(cfg)
        PROVE  MuxNext /\ UNCHANGED auditVars
    BY <2>3 DEF LoadAccepted, MuxNext
  <2> QED BY <1>1, <2>1, <2>2, <2>3 DEF Main, Load
<1>2. CASE ServerFails \/ \E s \in {"HUP", "TERM"} : Deliver(s)
  BY <1>2 DEF ServerFails, Deliver
<1>3. CASE Beside
  <2>1. ASSUME NEW c \in Calls, CallStep(c)
        PROVE  UNCHANGED muxVars /\ [AuditNext]_auditVars
    BY <2>1 DEF CallStep, Arrive, Perform, Answer, LogEvent, Respond, AuditNext, Calls
  <2>2. CASE BackendStep
    BY <2>2 DEF BackendStep, MuxNext
  <2>3. CASE RotateLog
    BY <2>3 DEF RotateLog, AuditNext
  <2> QED BY <1>3, <2>1, <2>2, <2>3 DEF Beside
<1>4. CASE UNCHANGED vars
  BY <1>4 DEF vars
<1> QED BY <1>1, <1>2, <1>3, <1>4 DEF Next

\* The running router is a multiplexer and an audit log, undisturbed by each
\* other and by all the rest.
THEOREM GatewayRefinement == Spec => MuxSpec /\ AuditSpec
<1>1. Init => MuxInit /\ AuditInit
  BY DEF Init
<1> QED BY <1>1, GatewayComponents, PTL DEF Spec, MuxSpec, AuditSpec

-----------------------------------------------------------------------------
LEMMA GatewayInvInit == Init => GatewayInv
<1> SUFFICES ASSUME Init PROVE GatewayInv
  OBVIOUS
<1>1. GatewayTypes
  BY DEF Init, GatewayTypes
<1>2. PhaseInv /\ HttpInv
  BY DEF Init, MuxInit, PhaseInv, HttpInv
<1>3. \A c \in Calls : ~effect[c] /\ call[c] = "idle"
  BY DEF Init
<1>4. CallOK
  BY <1>3 DEF CallOK
<1>5. ~drained
  BY DEF Init
<1>6. DrainInv
  BY <1>5 DEF DrainInv
<1> QED BY <1>1, <1>2, <1>4, <1>6 DEF GatewayInv

\* What a step of a call, and of all the rest, may change.
LEMMA CallFrame ==
  ASSUME NEW c \in Calls, CallStep(c)
  PROVE  UNCHANGED <<phase, main, signal, http, drained>>
  BY DEF CallStep, Arrive, Perform, Answer, LogEvent, Respond, muxVars, gatewayVars

LEMMA BesideFrame ==
  ASSUME BackendStep \/ RotateLog
  PROVE  UNCHANGED <<phase, stage, gatewayVars>>
<1>1. ASSUME NEW p \in Ptr, Starter(p) \/ PeerDies(p)
      PROVE  phase' = phase
  BY <1>1 DEF Starter, DialFail, Dial, InitializeFail, Initialize, ListTools, PeerDies
<1> QED BY <1>1 DEF BackendStep, RotateLog, Rotate, muxVars, auditVars

LEMMA MainFrame ==
  ASSUME Main \/ ServerFails \/ \E s \in {"HUP", "TERM"} : Deliver(s)
  PROVE  UNCHANGED <<stage, callVars>>
  BY DEF Main, Select, OnServerErr, OnHangup, OnTerminate, Listen, Load, LoadRejected,
         LoadAccepted, ReloadSteps, ReloadEnds, ReopenLog, Reopen, ReopenSucceeds, ReopenFails,
         Drain, DrainExpires, StopBackends, CloseAudit, CloseLog, FailStop, Return, ServerFails,
         Deliver, auditVars, gatewayVars, callVars

-----------------------------------------------------------------------------
LEMMA GatewayTypesStep ==
  ASSUME GatewayTypes, MuxTypeOK, [Next]_vars
  PROVE  GatewayTypes'
<1> USE DEF GatewayTypes
<1>1. CASE Main \/ ServerFails \/ \E s \in {"HUP", "TERM"} : Deliver(s)
  <2>1. UNCHANGED callVars
    BY <1>1, MainFrame
  <2>2. main' \in {"starting", "loop", "reopening", "loading", "reloading", "draining",
                   "stopping", "closing", "failing", "returning", "over", "killed"}
    BY <1>1 DEF Main, Select, OnServerErr, OnHangup, OnTerminate, Listen, Load, LoadRejected,
         LoadAccepted, ReloadSteps, ReloadEnds, ReopenLog, Drain, DrainExpires, StopBackends,
         CloseAudit, FailStop, Return, ServerFails, Deliver, gatewayVars, Goto
  <2>3. signal' \in {"none", "HUP", "TERM"} /\ http' \in {"off", "listening", "closed", "failed"}
    BY <1>1 DEF Main, Select, OnServerErr, OnHangup, OnTerminate, Listen, Load, LoadRejected,
         LoadAccepted, ReloadSteps, ReloadEnds, ReopenLog, Drain, DrainExpires, StopBackends,
         CloseAudit, FailStop, Return, ServerFails, Deliver, gatewayVars
  <2>4. drained' \in BOOLEAN
    BY <1>1 DEF Main, Select, OnServerErr, OnHangup, OnTerminate, Listen, Load, LoadRejected,
         LoadAccepted, ReloadSteps, ReloadEnds, ReopenLog, Drain, DrainExpires, StopBackends,
         CloseAudit, FailStop, Return, ServerFails, Deliver, gatewayVars
  <2> QED BY <2>1, <2>2, <2>3, <2>4 DEF callVars
<1>2. ASSUME NEW c \in Calls, CallStep(c)
      PROVE  GatewayTypes'
  <2>1. UNCHANGED <<main, signal, http, drained>>
    BY <1>2, CallFrame
  <2>2. call' \in [Calls -> {"idle", "calling", "logging", "done"}]
    BY <1>2 DEF CallStep, Arrive, Perform, Answer, LogEvent, Respond, gatewayVars, At
  <2>3. backendOf' \in [Calls -> Ptr \cup {Nil}]
    BY <1>2 DEF CallStep, Arrive, Perform, Answer, LogEvent, Respond, gatewayVars, MuxTypeOK
  <2>4. effect' \in [Calls -> BOOLEAN]
    BY <1>2 DEF CallStep, Arrive, Perform, Answer, LogEvent, Respond, gatewayVars
  <2> QED BY <2>1, <2>2, <2>3, <2>4
<1>3. CASE BackendStep \/ RotateLog \/ UNCHANGED vars
  BY <1>3, BesideFrame DEF vars, gatewayVars
<1> QED BY <1>1, <1>2, <1>3 DEF Next, Beside

\* Main takes the multiplexer from phase to phase, and nobody else does.
LEMMA PhaseStep ==
  ASSUME GatewayTypes, PhaseInv, [Next]_vars
  PROVE  PhaseInv'
<1> USE DEF PhaseInv, Goto
<1>1. CASE Listen \/ ReloadEnds \/ StopBackends \/ FailStop \/ ReloadSteps
  BY <1>1 DEF Listen, Serve, ReloadEnds, ReloadReturns, StopBackends, FailStop, Stop,
              ReloadSteps, Swap, Retire, gatewayVars
<1>2. ASSUME NEW cfg \in ConfigFiles, LoadAccepted(cfg)
      PROVE  PhaseInv'
  BY <1>2 DEF LoadAccepted, Reload
<1>3. CASE \/ Select \/ ReopenLog \/ LoadRejected \/ Drain \/ DrainExpires \/ CloseAudit \/ Return
           \/ ServerFails \/ \E s \in {"HUP", "TERM"} : Deliver(s)
  BY <1>3 DEF Select, OnServerErr, OnHangup, OnTerminate, ReopenLog, LoadRejected, Drain,
              DrainExpires, CloseAudit, Return, ServerFails, Deliver, muxVars
<1>4. ASSUME NEW c \in Calls, CallStep(c)
      PROVE  PhaseInv'
  BY <1>4, CallFrame
<1>5. CASE BackendStep \/ RotateLog \/ UNCHANGED vars
  BY <1>5, BesideFrame DEF vars, muxVars, gatewayVars
<1> QED BY <1>1, <1>2, <1>3, <1>4, <1>5 DEF Next, Main, Load, Beside

LEMMA HttpStep ==
  ASSUME HttpInv, [Next]_vars
  PROVE  HttpInv'
<1> USE DEF HttpInv, Goto
<1>1. CASE Main \/ ServerFails \/ \E s \in {"HUP", "TERM"} : Deliver(s)
  BY <1>1 DEF Main, Select, OnServerErr, OnHangup, OnTerminate, Listen, Load, LoadRejected,
       LoadAccepted, ReloadSteps, ReloadEnds, ReopenLog, Drain, DrainExpires, StopBackends,
       CloseAudit, FailStop, Return, ServerFails, Deliver, gatewayVars
<1>2. ASSUME NEW c \in Calls, CallStep(c)
      PROVE  HttpInv'
  BY <1>2, CallFrame
<1>3. CASE BackendStep \/ RotateLog \/ UNCHANGED vars
  BY <1>3, BesideFrame DEF vars, gatewayVars
<1> QED BY <1>1, <1>2, <1>3 DEF Next, Beside

-----------------------------------------------------------------------------
\* An event that is logged stays so.
LEMMA LoggedStays ==
  ASSUME AuditTypeOK, [AuditNext]_auditVars, NEW e \in Events, stage[e] = "logged"
  PROVE  stage'[e] = "logged"
  BY DEF AuditTypeOK, AuditNext, LogStep, LogFailsafe, LogBegin, LogWrite, Advance, Reopen,
         ReopenSucceeds, ReopenFails, CloseLog, Rotate, auditVars

\* What one step may do to a call: it arrives while there is a listener, and
\* it is done when its event is on record.
LEMMA CallMoves ==
  ASSUME GatewayTypes, AuditTypeOK, [Next]_vars, NEW c \in Calls
  PROVE  /\ call'[c] # call[c] =>
              \/ call[c] = "idle" /\ http = "listening" /\ call'[c] # "done"
              \/ InProgress(c) /\ call'[c] = "logging"
              \/ call[c] = "logging" /\ stage[c] = "logged" /\ call'[c] = "done"
         /\ effect'[c] => effect[c] \/ call'[c] = "calling"
<1> USE DEF GatewayTypes
<1>1. CASE UNCHANGED <<call, effect>>
  BY <1>1
<1>2. ASSUME NEW d \in Calls, CallStep(d)
      PROVE  /\ call'[c] # call[c] =>
                  \/ call[c] = "idle" /\ http = "listening" /\ call'[c] # "done"
                  \/ InProgress(c) /\ call'[c] = "logging"
                  \/ call[c] = "logging" /\ stage[c] = "logged" /\ call'[c] = "done"
             /\ effect'[c] => effect[c] \/ call'[c] = "calling"
  <2>1. ASSUME NEW n \in Names, Arrive(d, n)
        PROVE  /\ call'[c] # call[c] =>
                    call[c] = "idle" /\ http = "listening" /\ call'[c] # "done"
               /\ effect' = effect
    BY <2>1 DEF Arrive, At
  <2>2. CASE Perform(d)
    BY <2>2 DEF Perform
  <2>3. CASE Answer(d) \/ LogEvent(d) \/ Respond(d)
    BY <2>3 DEF Answer, LogEvent, Respond, At, InProgress, gatewayVars
  <2> QED BY <1>2, <2>1, <2>2, <2>3 DEF CallStep
<1> QED
  BY <1>1, <1>2, MainFrame, BesideFrame DEF Next, Beside, vars, callVars, gatewayVars

LEMMA CallOKStep ==
  ASSUME GatewayTypes, AuditTypeOK, CallOK, [Next]_vars
  PROVE  CallOK'
<1> SUFFICES ASSUME NEW c \in Calls
             PROVE  /\ effect'[c] => call'[c] # "idle"
                    /\ call'[c] = "done" => stage'[c] = "logged"
  BY DEF CallOK
<1>1. stage[c] = "logged" => stage'[c] = "logged"
  BY GatewayComponents, LoggedStays DEF Calls
<1>2. /\ call[c] # "idle" => call'[c] # "idle"
      /\ call'[c] = "calling" => call'[c] # "idle"
  BY CallMoves
<1>3. effect'[c] => call'[c] # "idle"
  <2>1. effect[c] => call[c] # "idle"
    BY DEF CallOK
  <2>2. effect'[c] => effect[c] \/ call'[c] = "calling"
    BY CallMoves
  <2> QED BY <1>2, <2>1, <2>2
<1>4. ASSUME call'[c] = "done" PROVE stage'[c] = "logged"
  <2>1. stage[c] = "logged"
    BY <1>4, CallMoves DEF CallOK
  <2> QED BY <1>1, <2>1
<1> QED BY <1>3, <1>4

\* Once the drain is complete no call that is waited for is in progress, and
\* none can arrive.
LEMMA DrainStep ==
  ASSUME GatewayTypes, GatewayTypes', AuditTypeOK, HttpInv, DrainInv, [Next]_vars
  PROVE  DrainInv'
<1> USE DEF DrainInv, GatewayTypes
<1>1. CASE Drain
  <2>1. \A c \in Attached : ~InProgress(c)'
    BY <1>1 DEF Drain, Busy, callVars, InProgress
  <2>2. main' = "stopping"
    BY <1>1 DEF Drain, Goto
  <2> QED BY <2>1, <2>2
<1>2. ASSUME drained' = drained, drained,
             main' \in {"stopping", "closing", "returning", "over"}
      PROVE  DrainInv'
  <2>1. ASSUME NEW c \in Attached PROVE ~InProgress(c)'
    <3>1. c \in Calls /\ ~InProgress(c) /\ http # "listening"
      BY <1>2, <2>1, GatewayAssumption DEF Calls, HttpInv
    <3> QED BY <3>1, CallMoves DEF InProgress
  <2> QED BY <1>2, <2>1
<1>3. CASE ~Drain
  <2>1. drained' = drained
    BY <1>3, CallFrame, BesideFrame
       DEF Next, Beside, Main, Select, OnServerErr, OnHangup, OnTerminate, Listen, Load,
           LoadRejected, LoadAccepted, ReloadSteps, ReloadEnds, ReopenLog, DrainExpires,
           StopBackends, CloseAudit, FailStop, Return, ServerFails, Deliver, gatewayVars, vars
  <2>2. drained => main' \in {"stopping", "closing", "returning", "over"}
    BY CallFrame, BesideFrame
       DEF Next, Beside, Main, Select, OnServerErr, OnHangup, OnTerminate, Listen, Load,
           LoadRejected, LoadAccepted, ReloadSteps, ReloadEnds, ReopenLog, Drain, DrainExpires,
           StopBackends, CloseAudit, FailStop, Return, ServerFails, Deliver, gatewayVars, vars,
           Goto
  <2> QED BY <1>2, <2>1, <2>2
<1> QED BY <1>1, <1>3

-----------------------------------------------------------------------------
LEMMA GatewayInvStep ==
  ASSUME GatewayInv, MuxTypeOK, AuditTypeOK, [Next]_vars
  PROVE  GatewayInv'
<1>1. GatewayTypes'
  BY GatewayTypesStep DEF GatewayInv
<1> QED BY <1>1, PhaseStep, HttpStep, CallOKStep, DrainStep DEF GatewayInv

\* Main, the multiplexer, the calls and the log keep in step, for any number
\* of each and through any number of reloads.
THEOREM GatewayInductive == Spec => [](GatewayInv /\ MuxInv /\ AuditInv)
<1>1. Init => GatewayInv /\ MuxInv /\ AuditInv
  BY GatewayInvInit, MuxInvInit, AuditInvInit DEF Init
<1>2. GatewayInv /\ MuxInv /\ AuditInv /\ [Next]_vars => (GatewayInv /\ MuxInv /\ AuditInv)'
  <2>1. MuxInv => MuxTypeOK
    BY DEF MuxInv
  <2>2. AuditInv => AuditTypeOK
    BY DEF AuditInv, LogInv
  <2> QED BY <2>1, <2>2, GatewayComponents, GatewayInvStep, MuxInvStep, AuditInvStep
<1> QED BY <1>1, <1>2, PTL DEF Spec

\* Types, of the router and of what it is composed of.
THEOREM GatewayTypeCorrect == Spec => []GatewayTypeOK
<1>1. GatewayInv /\ MuxInv /\ AuditInv => GatewayTypeOK
  BY DEF GatewayInv, GatewayTypes, GatewayTypeOK, MuxInv, AuditInv, LogInv
<1> QED BY <1>1, GatewayInductive, PTL

\* In the running router, with reloads, calls and a shutdown around it, the
\* log loses and duplicates no event.
THEOREM GatewayKeepsEvents == Spec => []EventsKept
<1>1. AuditInv => EventsKept
  BY DEF AuditInv, LogInv
<1> QED BY <1>1, GatewayInductive, PTL

\* What is written after a reload that reopened the log goes to the file at the
\* logger's own path.
THEOREM GatewayFollowsRotation == Spec => []RotationHonoured
<1>1. AuditInv => RotationHonoured
  BY DEF AuditInv, LogInv
<1> QED BY <1>1, GatewayInductive, PTL

\* Every way out of main has stopped the backends.
THEOREM TeardownComplete == Spec => []Teardown
<1>1. GatewayInv /\ MuxInv => Teardown
  BY DEF GatewayInv, PhaseInv, MuxInv, NoOrphanClient, Teardown
<1> QED BY <1>1, GatewayInductive, PTL

\* A shutdown that reports a clean stop has cut no waiting call short.
THEOREM DrainComplete == Spec => []CleanDrain
<1>1. GatewayInv /\ AuditInv => CleanDrain
  <2> SUFFICES ASSUME GatewayInv, AuditInv, drained, NEW c \in Attached
               PROVE  ~InProgress(c) /\ (effect[c] => Recorded(c))
    BY DEF CleanDrain
  <2>1. c \in Calls /\ ~InProgress(c)
    BY GatewayAssumption DEF Calls, GatewayInv, DrainInv
  <2>2. ASSUME effect[c] PROVE Recorded(c)
    <3>1. call[c] = "done"
      BY <2>1, <2>2 DEF GatewayInv, GatewayTypes, CallOK, InProgress
    <3>2. stage[c] = "logged"
      BY <2>1, <3>1 DEF GatewayInv, CallOK
    <3> QED BY <2>1, <3>2 DEF AuditInv, LogInv, EventsKept, Calls
  <2> QED BY <2>1, <2>2
<1> QED BY <1>1, GatewayInductive, PTL
=============================================================================
