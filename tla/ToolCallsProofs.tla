-------------------------- MODULE ToolCallsProofs ---------------------------
(***************************************************************************)
(* Proofs about ToolCalls, for any number of concurrent calls and any      *)
(* capacity.  They build on the invariants of the two components, which    *)
(* the composition keeps.                                                  *)
(***************************************************************************)
EXTENDS ToolCalls, MultiplexerProofs, HitlProofs

Labels == {"idle", "queued", "guard", "cleared", "calling", "done"}

Holding(c) == pc[c] \in {"guard", "cleared", "calling"}

EventSeqs == Seq({"TOOL_ERROR", "SECURITY_BLOCK", "STATE_CHANGE"})

CallTypes ==
  /\ pc \in [Calls -> Labels]
  /\ req \in [Calls -> Requests \cup {Nil}]
  /\ backendOf \in [Calls -> Ptr \cup {Nil}]
  /\ slots \in [Ptr -> Nat]
  /\ ticket \in [Calls -> Tokens \cup {Nil}]
  /\ performed \in [Calls -> BOOLEAN]
  /\ outcome \in [Calls -> Outcomes \cup {Nil}]
  /\ audit \in [Calls -> EventSeqs]

\* A call in progress, or one the remote server ran, has a request and a
\* backend that was allocated before it.
Located ==
  \A c \in Calls :
    /\ pc[c] # "idle" => req[c] \in Requests
    /\ performed[c] => pc[c] \in {"calling", "done"}
    /\ InProgress(c) \/ performed[c] =>
         /\ backendOf[c] \in Ptr
         /\ backendOf[c][2] <= gen
         /\ Cfg(c) # Nil

SlotOK(p) ==
  /\ IsFiniteSet(Holders(p))
  /\ slots[p] = Cardinality(Holders(p))
  /\ slots[p] > 0 => slots[p] <= Capacity(config[p])

SlotInv == \A p \in Ptr : SlotOK(p)

\* A call's ticket is an approval of its own tool, and its alone.
TicketInv ==
  \A c \in Calls : ticket[c] # Nil =>
    /\ ticket[c] \in ApprovedTokens
    /\ issued[ticket[c]].tool = req[c].tool
    /\ pc[c] \in {"cleared", "calling", "done"}
    /\ \A d \in Calls \ {c} : ticket[d] # ticket[c]

\* Past the guards, what they asked holds of the backend in hand.
PastGate(c) == pc[c] \in {"cleared", "calling"} \/ performed[c]

PastBranch(c) == pc[c] = "calling" \/ performed[c]

GuardInv ==
  \A c \in Calls :
    /\ PastGate(c) => Allowed(c) /\ (Gated(c) => ticket[c] # Nil)
    /\ PastBranch(c) => ~Forbidden(c)

CallInv == MuxInv /\ HitlInv /\ CallTypes /\ Located /\ SlotInv /\ TicketInv /\ GuardInv

-----------------------------------------------------------------------------
LEMMA ReqFacts ==
  ASSUME NEW r \in Requests
  PROVE  r.server \in Names /\ r.tool \in Tools /\ r.agent \in Agents
  BY CallAssumption

\* Each step of a call leaves the multiplexer alone, and does to the approval
\* manager what one of its own operations does, or nothing.
LEMMA CallComponents ==
  ASSUME CallTypes, Located, NEW c \in Calls, Step(c)
  PROVE  UNCHANGED muxVars /\ [HitlNext]_hitlVars
<1>1. ASSUME NEW t \in Tokens,
             StageAction(c, t) \/ RejectToken(c, t) \/ AcceptToken(c, t)
      PROVE  UNCHANGED muxVars /\ HitlNext
  <2>1. pc[c] = "guard"
    BY <1>1 DEF StageAction, RejectToken, AcceptToken, AtGate
  <2>2. req[c].tool \in Tools /\ req[c].agent \in Agents
    BY <2>1, ReqFacts DEF Located
  <2>3. /\ UNCHANGED muxVars
        /\ Stage(t, req[c].agent, req[c].tool) \/ ValidateAndConsume(t, req[c].agent, req[c].tool)
    BY <1>1 DEF StageAction, RejectToken, AcceptToken
  <2> QED BY <2>2, <2>3 DEF HitlNext
<1>2. ASSUME \/ \E r \in Requests : Unavailable(c, r) \/ Arrive(c, r)
             \/ Acquire(c) \/ QueueTimeout(c) \/ Cancel(c)
             \/ Deny(c) \/ BlockBranch(c) \/ Disconnected(c) \/ Dispatch(c)
             \/ Perform(c) \/ Succeed(c) \/ Fail(c)
      PROVE  UNCHANGED <<muxVars, hitlVars>>
  BY <1>2 DEF Unavailable, Arrive, Acquire, QueueTimeout, Cancel, Deny, BlockBranch,
              Disconnected, Dispatch, Perform, Succeed, Fail
<1> QED BY <1>1, <1>2 DEF Step, Guards, Gate

LEMMA ComponentSteps ==
  ASSUME CallTypes, Located, [Next]_vars
  PROVE  [MuxNext]_muxVars /\ [HitlNext]_hitlVars
<1>1. ASSUME NEW c \in Calls, Step(c)
      PROVE  [MuxNext]_muxVars /\ [HitlNext]_hitlVars
  BY <1>1, CallComponents
<1>2. CASE MuxStep
  BY <1>2 DEF MuxStep
<1>3. CASE ClockStep
  BY <1>3 DEF ClockStep, HitlNext
<1>4. CASE UNCHANGED vars
  BY <1>4 DEF vars
<1> QED BY <1>1, <1>2, <1>3, <1>4 DEF Next

\* The steps of the handler, by what they do to the slots.
Acquires(c) == Acquire(c)
Releases(c) ==
  \/ Deny(c)
  \/ \E t \in Tokens : StageAction(c, t) \/ RejectToken(c, t)
  \/ BlockBranch(c) \/ Disconnected(c) \/ Succeed(c) \/ Fail(c)
KeepsSlots(c) ==
  \/ \E r \in Requests : Unavailable(c, r) \/ Arrive(c, r)
  \/ QueueTimeout(c) \/ Cancel(c)
  \/ \E t \in Tokens : AcceptToken(c, t)
  \/ Dispatch(c) \/ Perform(c)

LEMMA StepKinds ==
  ASSUME NEW c \in Calls, Step(c)
  PROVE  Acquires(c) \/ Releases(c) \/ KeepsSlots(c)
  BY DEF Step, Guards, Gate, Acquires, Releases, KeepsSlots

LEMMA EventFacts ==
  /\ <<"SECURITY_BLOCK">> \in EventSeqs /\ <<"TOOL_ERROR">> \in EventSeqs
  /\ <<"STATE_CHANGE">> \in EventSeqs /\ << >> \in EventSeqs
  /\ \A s, e \in EventSeqs : s \o e \in EventSeqs
  BY DEF EventSeqs

LEMMA LogTyped ==
  ASSUME audit \in [Calls -> EventSeqs], NEW c \in Calls, NEW events \in EventSeqs,
         Log(c, events)
  PROVE  audit' \in [Calls -> EventSeqs]
<1> DEFINE logged == audit[c] \o events
<1>1. logged \in EventSeqs
  BY EventFacts
<1>2. audit' = [audit EXCEPT ![c] = logged]
  BY DEF Log
<1> HIDE DEF logged
<1> QED BY <1>1, <1>2

\* A return that releases the slot.
LEMMA ReleaseEffect ==
  ASSUME NEW c \in Calls, Releases(c)
  PROVE  /\ Holding(c)
         /\ pc' = [pc EXCEPT ![c] = "done"]
         /\ slots' = [slots EXCEPT ![backendOf[c]] = @ - 1]
         /\ UNCHANGED <<req, backendOf, ticket, performed>>
         /\ \E result \in Outcomes : outcome' = [outcome EXCEPT ![c] = result]
         /\ \E events \in EventSeqs : Log(c, events)
<1>1. Holding(c)
  BY DEF Releases, Deny, StageAction, RejectToken, AtGate, BlockBranch, Disconnected,
         Cleared, Succeed, Fail, Holding
<1>2. \E result \in Outcomes, events \in EventSeqs : ReturnAndRelease(c, result, events)
  <2>1. ASSUME Deny(c) \/ BlockBranch(c)
               \/ \E t \in Tokens : StageAction(c, t) \/ RejectToken(c, t)
        PROVE  \E result \in Outcomes : ReturnAndRelease(c, result, <<"SECURITY_BLOCK">>)
    BY <2>1 DEF Deny, BlockBranch, StageAction, RejectToken, Outcomes
  <2>2. ASSUME Disconnected(c) \/ Fail(c)
        PROVE  \E result \in Outcomes : ReturnAndRelease(c, result, <<"TOOL_ERROR">>)
    BY <2>2 DEF Disconnected, Fail, Outcomes
  <2>3. ASSUME Succeed(c)
        PROVE  \E events \in EventSeqs : ReturnAndRelease(c, "ok", events)
    BY EventFacts, <2>3 DEF Succeed
  <2>4. "ok" \in Outcomes
    BY DEF Outcomes
  <2> QED BY EventFacts, <2>1, <2>2, <2>3, <2>4 DEF Releases
<1> QED BY <1>1, <1>2 DEF ReturnAndRelease, Return, Release, Goto

\* The other steps: the slots stay, and the call holds one afterwards if and
\* only if it did before.
LEMMA KeepEffect ==
  ASSUME CallTypes, NEW c \in Calls, KeepsSlots(c)
  PROVE  /\ slots' = slots
         /\ \A d \in Calls \ {c} : UNCHANGED <<pc[d], req[d], backendOf[d], ticket[d], performed[d]>>
         /\ Holding(c)' = Holding(c)
         /\ Holding(c) => UNCHANGED backendOf
  BY DEF CallTypes, KeepsSlots, Unavailable, Arrive, QueueTimeout, Cancel, AcceptToken, AtGate,
         Dispatch, Cleared, Perform, Return, Goto, Holding

LEMMA TypesInit == Init => CallTypes
<1> SUFFICES ASSUME Init PROVE CallTypes
  OBVIOUS
<1>1. audit \in [Calls -> EventSeqs]
  BY EventFacts DEF Init
<1> QED BY <1>1 DEF Init, CallTypes, Labels

\* A release never finds the channel empty: the call itself holds a slot.
LEMMA HolderCounted ==
  ASSUME CallTypes, Located, SlotInv, NEW c \in Calls, Holding(c)
  PROVE  /\ backendOf[c] \in Ptr /\ c \in Holders(backendOf[c])
         /\ slots[backendOf[c]] \in Nat \ {0}
<1>1. backendOf[c] \in Ptr /\ c \in Holders(backendOf[c])
  BY DEF Located, InProgress, Holding, Holders
<1>2. /\ IsFiniteSet(Holders(backendOf[c]))
      /\ slots[backendOf[c]] = Cardinality(Holders(backendOf[c]))
  BY <1>1 DEF SlotInv, SlotOK
<1>3. Cardinality(Holders(backendOf[c])) # 0
  BY <1>1, <1>2, FS_EmptySet
<1> QED BY <1>1, <1>2, <1>3 DEF CallTypes

LEMMA TypesStep ==
  ASSUME MuxInv, CallTypes, Located, SlotInv, [Next]_vars
  PROVE  CallTypes'
<1> USE DEF CallTypes, Labels
<1>1. ASSUME NEW c \in Calls, Acquires(c) PROVE CallTypes'
  <2>1. backendOf[c] \in Ptr
    BY <1>1 DEF Acquires, Acquire, Located, InProgress
  <2> QED BY <1>1, <2>1 DEF Acquires, Acquire, Goto
<1>2. ASSUME NEW c \in Calls, Releases(c) PROVE CallTypes'
  <2>1. slots' \in [Ptr -> Nat]
    BY <1>2, ReleaseEffect, HolderCounted
  <2>2. outcome' \in [Calls -> Outcomes \cup {Nil}] /\ pc' \in [Calls -> Labels]
    BY <1>2, ReleaseEffect
  <2>3. audit' \in [Calls -> EventSeqs]
    BY <1>2, ReleaseEffect, LogTyped
  <2> QED BY <1>2, <2>1, <2>2, <2>3, ReleaseEffect
<1>3. ASSUME NEW c \in Calls, KeepsSlots(c) PROVE CallTypes'
  <2>1. audit' = audit \/ \E e \in EventSeqs : Log(c, e)
    BY <1>3, EventFacts
       DEF KeepsSlots, Unavailable, Arrive, QueueTimeout, Cancel, AcceptToken,
           Dispatch, Perform, Return
  <2>2. audit' \in [Calls -> EventSeqs]
    BY <2>1, LogTyped
  <2>3. pc' \in [Calls -> Labels]
    <3>1. pc' = pc \/ \E l \in Labels : pc' = [pc EXCEPT ![c] = l]
      BY <1>3 DEF KeepsSlots, Unavailable, Arrive, QueueTimeout, Cancel, AcceptToken,
                  Dispatch, Perform, Return, Goto
    <3> QED BY <3>1
  <2>6. req' \in [Calls -> Requests \cup {Nil}]
    <3>1. req' = req \/ \E r \in Requests : req' = [req EXCEPT ![c] = r]
      BY <1>3 DEF KeepsSlots, Unavailable, Arrive, QueueTimeout, Cancel, AcceptToken,
                  Dispatch, Perform
    <3> QED BY <3>1
  <2>8. performed' \in [Calls -> BOOLEAN] /\ slots' \in [Ptr -> Nat]
    <3>1. /\ slots' = slots
          /\ performed' = performed \/ performed' = [performed EXCEPT ![c] = TRUE]
      BY <1>3 DEF KeepsSlots, Unavailable, Arrive, QueueTimeout, Cancel, AcceptToken,
                  Dispatch, Perform
    <3> QED BY <3>1
  <2>7. ticket' \in [Calls -> Tokens \cup {Nil}]
    BY <1>3 DEF KeepsSlots, Unavailable, Arrive, QueueTimeout, Cancel, AcceptToken,
                Dispatch, Perform
  <2>4. outcome' \in [Calls -> Outcomes \cup {Nil}]
    BY <1>3 DEF KeepsSlots, Unavailable, Arrive, QueueTimeout, Cancel, AcceptToken,
                Dispatch, Perform, Return, Outcomes
  <2>5. backendOf' \in [Calls -> Ptr \cup {Nil}]
    <3>1. ASSUME NEW r \in Requests, Arrive(c, r) PROVE backends[r.server] \in Ptr
      BY <3>1, ReqFacts DEF Arrive, MuxInv, MuxTypeOK
    <3>2. backendOf' = backendOf \/ \E p \in Ptr : backendOf' = [backendOf EXCEPT ![c] = p]
      BY <1>3, <3>1 DEF KeepsSlots, Unavailable, Arrive, QueueTimeout, Cancel, AcceptToken,
                  Dispatch, Perform
    <3> QED BY <3>2
  <2> QED BY <2>2, <2>3, <2>4, <2>5, <2>6, <2>7, <2>8
<1>4. CASE MuxStep \/ ClockStep \/ UNCHANGED vars
  BY <1>4 DEF MuxStep, ClockStep, callVars, vars
<1> QED BY <1>1, <1>2, <1>3, <1>4, StepKinds DEF Next

\* What a call has in hand stays what it was, through reloads too.
LEMMA CfgStable ==
  ASSUME MuxInv, CallTypes, Located, [Next]_vars
  PROVE  \A p \in Ptr : p[2] <= gen => p[2] <= gen' /\ config'[p] = config[p]
<1>1. [MuxNext]_muxVars /\ MuxTypeOK'
  BY ComponentSteps, MuxTypeStep DEF MuxInv
<1>2. gen \in Nat /\ gen' \in Nat /\ gen' >= gen
  BY <1>1, ConfigStable, PtrFacts DEF MuxInv, MuxTypeOK
<1> QED BY <1>1, <1>2, ConfigStable, PtrFacts

LEMMA LocatedStep ==
  ASSUME MuxInv, CallTypes, Located, SlotInv, [Next]_vars
  PROVE  Located'
<1> USE DEF CallTypes
<1> SUFFICES ASSUME NEW d \in Calls
             PROVE  /\ pc'[d] # "idle" => req'[d] \in Requests
                    /\ performed'[d] => pc'[d] \in {"calling", "done"}
                    /\ InProgress(d)' \/ performed'[d] =>
                         /\ backendOf'[d] \in Ptr
                         /\ backendOf'[d][2] <= gen'
                         /\ config'[backendOf'[d]] # Nil
  BY DEF Located, Cfg
<1>1. \A p \in Ptr : p[2] <= gen => p[2] <= gen' /\ config'[p] = config[p]
  BY CfgStable
<1>2. CASE UNCHANGED <<pc[d], req[d], backendOf[d], performed[d]>>
  BY <1>1, <1>2 DEF Located, InProgress, Cfg
<1>3. ASSUME Acquires(d) \/ Releases(d)
      PROVE  /\ UNCHANGED <<req, backendOf, performed>>
             /\ InProgress(d) /\ pc'[d] \in {"guard", "done"}
             /\ performed[d] => pc'[d] = "done"
  BY <1>3, ReleaseEffect DEF Acquires, Acquire, Goto, Holding, InProgress, Located
<1>4. ASSUME KeepsSlots(d)
      PROVE  \/ /\ UNCHANGED backendOf /\ req'[d] \in Requests
                /\ performed'[d] => pc'[d] \in {"calling", "done"}
                /\ InProgress(d)' \/ performed'[d] => InProgress(d)
             \/ /\ req'[d] \in Requests /\ ~performed'[d]
                /\ \E n \in Names : backends[n] # Nil /\ backendOf'[d] = backends[n]
  BY <1>4, ReqFacts DEF KeepsSlots, Unavailable, Arrive, QueueTimeout, Cancel, AcceptToken, AtGate,
         Dispatch, Cleared, Perform, Return, Goto, Located, InProgress
<1>5. ASSUME NEW n \in Names, backends[n] # Nil
      PROVE  /\ backends[n] \in Ptr /\ backends[n][2] <= gen
             /\ config[backends[n]] # Nil
  BY <1>5 DEF MuxInv, MuxTypeOK, PtrInv, ConfigInv, Current
<1>6. ASSUME NEW c \in Calls, Step(c), c # d
      PROVE  UNCHANGED <<pc[d], req[d], backendOf[d], performed[d]>>
  <2>1. CASE Acquires(c)
    BY <1>6, <2>1 DEF Acquires, Acquire, Goto
  <2>2. CASE Releases(c)
    BY <1>6, <2>2, ReleaseEffect
  <2>3. CASE KeepsSlots(c)
    BY <1>6, <2>3, KeepEffect
  <2> QED BY <1>6, <2>1, <2>2, <2>3, StepKinds
<1>7. CASE Step(d)
  <2>1. CASE Acquires(d) \/ Releases(d)
    BY <1>1, <1>3, <2>1 DEF Located, InProgress, Cfg
  <2>2. CASE KeepsSlots(d)
    BY <1>1, <1>4, <1>5, <2>2 DEF Located, Cfg
  <2> QED BY <1>7, <2>1, <2>2, StepKinds
<1>8. CASE MuxStep \/ ClockStep \/ UNCHANGED vars
  BY <1>2, <1>8 DEF MuxStep, ClockStep, callVars, vars
<1> QED BY <1>2, <1>6, <1>7, <1>8 DEF Next

\* The books balance: each acquisition adds its call to the holders of one
\* backend, each release takes it out, and nothing else moves either.
LEMMA SlotSame ==
  ASSUME NEW p \in Ptr, SlotOK(p), Holders(p)' = Holders(p), slots'[p] = slots[p],
         slots[p] > 0 => config'[p] = config[p]
  PROVE  SlotOK(p)'
  BY DEF SlotOK

LEMMA SlotStep ==
  ASSUME MuxInv, CallTypes, Located, SlotInv, [Next]_vars
  PROVE  SlotInv'
<1> USE DEF CallTypes
<1>0. \A p \in Ptr : slots[p] > 0 => config'[p] = config[p]
  <2> SUFFICES ASSUME NEW p \in Ptr, slots[p] > 0 PROVE config'[p] = config[p]
    OBVIOUS
  <2>1. Holders(p) # {}
    BY FS_EmptySet DEF SlotInv, SlotOK
  <2>2. PICK c \in Calls : InProgress(c) /\ backendOf[c] = p
    BY <2>1 DEF Holders, InProgress
  <2> QED BY <2>2, CfgStable DEF Located
<1>1. ASSUME NEW c \in Calls, Acquires(c) PROVE SlotInv'
  <2>0. PICK b \in Ptr : b = backendOf[c]
    BY <1>1 DEF Acquires, Acquire, Located, InProgress
  <2>1. /\ config[b] \in ServerConfigs /\ config' = config
        /\ c \notin Holders(b) /\ slots[b] < Capacity(config[b])
    <3>1. pc[c] = "queued" /\ slots[b] < Capacity(Cfg(c)) /\ config' = config
      BY <1>1, <2>0 DEF Acquires, Acquire, muxVars
    <3>2. Cfg(c) # Nil
      BY <3>1 DEF Located, InProgress
    <3> QED BY <2>0, <3>1, <3>2 DEF Cfg, Holders, MuxInv, MuxTypeOK
  <2>2. Capacity(config[b]) \in Int
    BY <2>1, MuxAssumption, DefaultAssumption DEF Capacity
  <2>3. slots' = [slots EXCEPT ![b] = @ + 1]
    BY <1>1, <2>0 DEF Acquires, Acquire
  <2>4. Holders(b)' = Holders(b) \cup {c} /\ \A p \in Ptr \ {b} : Holders(p)' = Holders(p)
    BY <1>1, <2>0 DEF Acquires, Acquire, Goto, Holders
  <2>5. IsFiniteSet(Holders(b)) /\ slots[b] = Cardinality(Holders(b))
    BY <2>1 DEF SlotInv, SlotOK
  <2>6. /\ IsFiniteSet(Holders(b) \cup {c})
        /\ Cardinality(Holders(b) \cup {c}) = slots[b] + 1
    BY <2>1, <2>5, FS_AddElement
  <2>7. slots'[b] <= Capacity(config[b])
    BY <2>1, <2>2, <2>3
  <2>8. SlotOK(b)'
    BY <2>1, <2>3, <2>4, <2>6, <2>7 DEF SlotOK
  <2>9. ASSUME NEW p \in Ptr \ {b} PROVE SlotOK(p)'
    <3>1. slots'[p] = slots[p] /\ Holders(p)' = Holders(p)
      BY <2>3, <2>4
    <3> QED BY <1>0, <3>1, SlotSame DEF SlotInv
  <2> QED BY <2>8, <2>9 DEF SlotInv
<1>2. ASSUME NEW c \in Calls, Releases(c) PROVE SlotInv'
  <2>0. PICK b \in Ptr : b = backendOf[c]
    BY <1>2, ReleaseEffect, HolderCounted
  <2>1. c \in Holders(b) /\ slots[b] \in Nat \ {0}
    BY <1>2, <2>0, ReleaseEffect, HolderCounted
  <2>2. slots' = [slots EXCEPT ![b] = @ - 1] /\ config'[b] = config[b]
    BY <1>0, <1>2, <2>0, <2>1, ReleaseEffect
  <2>3. Holders(b)' = Holders(b) \ {c} /\ \A p \in Ptr \ {b} : Holders(p)' = Holders(p)
    BY <1>2, <2>0, ReleaseEffect DEF Holders
  <2>4. IsFiniteSet(Holders(b)) /\ slots[b] = Cardinality(Holders(b))
    BY <2>1 DEF SlotInv, SlotOK
  <2>5. /\ IsFiniteSet(Holders(b) \ {c})
        /\ Cardinality(Holders(b) \ {c}) = slots[b] - 1
    BY <2>1, <2>4, FS_RemoveElement
  <2>6. slots'[b] = slots[b] - 1 /\ slots[b] <= Capacity(config[b])
    BY <2>1, <2>2 DEF SlotInv, SlotOK
  <2>7. Capacity(config[b]) \in Int
    <3>1. Cfg(c) # Nil
      BY <1>2, ReleaseEffect DEF Located, InProgress, Holding
    <3>2. config[b] \in ServerConfigs
      BY <2>0, <3>1 DEF Cfg, MuxInv, MuxTypeOK
    <3> QED BY <3>2, MuxAssumption, DefaultAssumption DEF Capacity
  <2>8. slots'[b] <= Capacity(config'[b])
    BY <2>1, <2>2, <2>6, <2>7
  <2>9. SlotOK(b)'
    BY <2>1, <2>2, <2>3, <2>5, <2>6, <2>8 DEF SlotOK
  <2>10. ASSUME NEW p \in Ptr \ {b} PROVE SlotOK(p)'
    <3>1. slots'[p] = slots[p] /\ Holders(p)' = Holders(p)
      BY <2>2, <2>3
    <3> QED BY <1>0, <3>1, SlotSame DEF SlotInv
  <2> QED BY <2>9, <2>10 DEF SlotInv
<1>3. ASSUME NEW c \in Calls, KeepsSlots(c) PROVE SlotInv'
  <2>1. \A p \in Ptr : Holders(p)' = Holders(p)
    BY <1>3, KeepEffect DEF Holders, Holding
  <2>2. slots' = slots
    BY <1>3, KeepEffect
  <2>3. ASSUME NEW p \in Ptr PROVE SlotOK(p)'
    BY <1>0, <2>1, <2>2, SlotSame DEF SlotInv
  <2> QED BY <2>3 DEF SlotInv
<1>4. CASE MuxStep \/ ClockStep \/ UNCHANGED vars
  <2>1. UNCHANGED <<pc, backendOf, slots>>
    BY <1>4 DEF MuxStep, ClockStep, callVars, vars
  <2>2. \A p \in Ptr : Holders(p)' = Holders(p)
    BY <2>1 DEF Holders
  <2>3. ASSUME NEW p \in Ptr PROVE SlotOK(p)'
    BY <1>0, <2>1, <2>2, SlotSame DEF SlotInv
  <2> QED BY <2>3 DEF SlotInv
<1> QED BY <1>1, <1>2, <1>3, <1>4, StepKinds DEF Next

-----------------------------------------------------------------------------
\* Approvals are never withdrawn, nor is what a token was issued for.
LEMMA ApprovalsKept ==
  ASSUME HitlInv, [HitlNext]_hitlVars
  PROVE  /\ ApprovedTokens \subseteq ApprovedTokens'
         /\ \A t \in Tokens : issued[t] # NoAction => issued'[t] = issued[t]
<1> USE DEF HitlInv, HitlTypeOK
<1>1. approvals \subseteq approvals'
  BY DEF HitlNext, Stage, Staged, ValidateAndConsume, Spent, Tick, hitlVars
<1>2. \A t \in Tokens : issued[t] # NoAction => issued'[t] = issued[t]
  BY DEF HitlNext, Stage, Staged, ValidateAndConsume, Spent, Tick, hitlVars
<1> QED BY <1>1, <1>2 DEF ApprovedTokens

LEMMA AcceptEffect ==
  ASSUME HitlInv, CallTypes, Located, NEW c \in Calls, NEW t \in Tokens, AcceptToken(c, t)
  PROVE  /\ t \notin ApprovedTokens /\ t \in ApprovedTokens'
         /\ issued'[t].tool = req[c].tool
         /\ ticket' = [ticket EXCEPT ![c] = t]
         /\ pc' = [pc EXCEPT ![c] = "cleared"]
         /\ Allowed(c)
         /\ UNCHANGED <<req, backendOf, performed>>
<1>1. /\ pc[c] = "guard" /\ Allowed(c)
      /\ Verdict(t, req[c].agent, req[c].tool) = "approved"
      /\ ValidateAndConsume(t, req[c].agent, req[c].tool)
  BY DEF AcceptToken, AtGate
<1>2. req[c].agent \in Agents /\ req[c].tool \in Tools
  BY <1>1, ReqFacts DEF Located
<1>3. /\ t \in Unexpired /\ pending[t].tool = req[c].tool
      /\ approvals' = approvals \cup
           {[token |-> t, agent |-> req[c].agent, tool |-> req[c].tool, at |-> now]}
  BY <1>1, <1>2, ConsumeEffect
<1>4. t \notin ApprovedTokens /\ issued[t] = pending[t]
  BY <1>3 DEF HitlInv, TableInv, Unexpired
<1>5. issued' = issued
  BY <1>1 DEF ValidateAndConsume
<1> QED BY <1>1, <1>3, <1>4, <1>5, ApprovedGrows DEF AcceptToken, Goto

\* A call past the gate keeps its request, and no step but an acceptance
\* gives a ticket.
LEMMA TicketKept ==
  ASSUME CallTypes, [Next]_vars,
         ~ \E c \in Calls, t \in Tokens : AcceptToken(c, t)
  PROVE  /\ ticket' = ticket
         /\ \A d \in Calls : pc[d] \in {"cleared", "calling", "done"} =>
              req'[d] = req[d] /\ pc'[d] \in {"cleared", "calling", "done"}
<1> USE DEF CallTypes
<1>1. ASSUME NEW c \in Calls, Acquires(c)
      PROVE  ticket' = ticket /\ req' = req /\ pc[c] = "queued" /\ pc' = [pc EXCEPT ![c] = "guard"]
  BY <1>1 DEF Acquires, Acquire, Goto
<1>2. ASSUME NEW c \in Calls, Releases(c)
      PROVE  ticket' = ticket /\ req' = req /\ pc' = [pc EXCEPT ![c] = "done"]
  BY <1>2, ReleaseEffect
<1>3. ASSUME NEW c \in Calls, KeepsSlots(c)
      PROVE  /\ ticket' = ticket
             /\ \/ /\ pc[c] = "idle"
                   /\ \E r \in Requests : req' = [req EXCEPT ![c] = r]
                   /\ \E l \in {"queued", "done"} : pc' = [pc EXCEPT ![c] = l]
                \/ /\ req' = req
                   /\ \E l \in {"calling", "done"} : pc' = [pc EXCEPT ![c] = l]
                \/ UNCHANGED <<req, pc>>
  BY <1>3 DEF KeepsSlots, Unavailable, Arrive, QueueTimeout, Cancel, Dispatch, Perform, Return, Goto
<1>4. CASE MuxStep \/ ClockStep \/ UNCHANGED vars
  BY <1>4 DEF MuxStep, ClockStep, callVars, vars
<1> QED BY <1>1, <1>2, <1>3, <1>4, StepKinds DEF Next

LEMMA TicketStep ==
  ASSUME HitlInv, CallTypes, Located, TicketInv, [Next]_vars
  PROVE  TicketInv'
<1> USE DEF CallTypes
<1>1. /\ ApprovedTokens \subseteq ApprovedTokens'
      /\ \A t \in Tokens : issued[t] # NoAction => issued'[t] = issued[t]
  BY ComponentSteps, ApprovalsKept
<1>2. \A t \in ApprovedTokens : t \in Tokens /\ issued[t] # NoAction
  BY DEF ApprovedTokens, HitlInv, ApprovalsSound, HitlTypeOK
<1>3. ASSUME NEW c \in Calls, NEW t \in Tokens, AcceptToken(c, t) PROVE TicketInv'
  <2>1. /\ t \notin ApprovedTokens /\ t \in ApprovedTokens'
        /\ issued'[t].tool = req[c].tool
        /\ ticket' = [ticket EXCEPT ![c] = t]
        /\ pc' = [pc EXCEPT ![c] = "cleared"]
        /\ req' = req
    BY <1>3, AcceptEffect
  <2>2. \A d \in Calls : ticket[d] # t
    BY <2>1, CallAssumption DEF TicketInv
  <2>3. ASSUME NEW d \in Calls, d # c, ticket'[d] # Nil
        PROVE  /\ ticket'[d] \in ApprovedTokens'
               /\ issued'[ticket'[d]].tool = req'[d].tool
               /\ pc'[d] \in {"cleared", "calling", "done"}
               /\ \A e \in Calls \ {d} : ticket'[e] # ticket'[d]
    BY <1>1, <1>2, <2>1, <2>2, <2>3 DEF TicketInv
  <2>4. /\ ticket'[c] \in ApprovedTokens'
        /\ issued'[ticket'[c]].tool = req'[c].tool
        /\ pc'[c] \in {"cleared", "calling", "done"}
        /\ \A e \in Calls \ {c} : ticket'[e] # ticket'[c]
    BY <2>1, <2>2
  <2> QED BY <2>3, <2>4 DEF TicketInv
<1>4. CASE ~ \E c \in Calls, t \in Tokens : AcceptToken(c, t)
  <2>1. /\ ticket' = ticket
        /\ \A d \in Calls : pc[d] \in {"cleared", "calling", "done"} =>
             req'[d] = req[d] /\ pc'[d] \in {"cleared", "calling", "done"}
    BY <1>4, TicketKept
  <2> QED BY <1>1, <1>2, <2>1 DEF TicketInv
<1> QED BY <1>3, <1>4

\* What the guards ask depends on the request and the backend in hand only.
LEMMA SameQuestions ==
  ASSUME NEW d \in Calls, req'[d] = req[d], config'[backendOf'[d]] = config[backendOf[d]]
  PROVE  (Allowed(d)' <=> Allowed(d)) /\ (Gated(d)' <=> Gated(d)) /\ (Forbidden(d)' <=> Forbidden(d))
  BY DEF Allowed, Gated, Forbidden, Cfg

\* The step that takes a call past a guard has checked it.
LEMMA Passing ==
  ASSUME HitlInv, CallTypes, Located, GuardInv, NEW d \in Calls, Step(d)
  PROVE  /\ PastGate(d)' => /\ req'[d] = req[d] /\ backendOf'[d] = backendOf[d]
                            /\ InProgress(d) \/ performed[d]
                            /\ Allowed(d) /\ (Gated(d) => ticket'[d] # Nil)
         /\ PastBranch(d)' => ~Forbidden(d)
<1> USE DEF CallTypes
<1>1. CASE Acquires(d) \/ Releases(d)
  <2>1. /\ UNCHANGED <<req, backendOf, performed, ticket>> /\ pc'[d] \in {"guard", "done"}
    BY <1>1, ReleaseEffect DEF Acquires, Acquire, Goto
  <2> QED BY <2>1 DEF PastGate, PastBranch, GuardInv
<1>2. ASSUME NEW t \in Tokens, AcceptToken(d, t)
      PROVE  /\ UNCHANGED <<req, backendOf>> /\ ~PastBranch(d)' /\ InProgress(d)
             /\ Allowed(d) /\ ticket'[d] # Nil
  <2>1. ~performed[d] /\ pc[d] = "guard"
    BY <1>2 DEF Located, AcceptToken, AtGate
  <2> QED BY <1>2, <2>1, AcceptEffect, CallAssumption DEF PastBranch, InProgress
<1>3. CASE Dispatch(d)
  <2>1. Cleared(d) /\ ~Forbidden(d) /\ UNCHANGED <<req, backendOf, ticket>>
    BY <1>3 DEF Dispatch
  <2> QED BY <2>1 DEF Cleared, InProgress, GuardInv, PastGate
<1>4. CASE Perform(d)
  BY <1>4 DEF Perform, InProgress, GuardInv, PastGate, PastBranch
<1>5. CASE \/ \E r \in Requests : Unavailable(d, r) \/ Arrive(d, r)
           \/ QueueTimeout(d) \/ Cancel(d)
  <2>1. pc[d] \in {"idle", "queued"} /\ performed' = performed /\ pc'[d] \in {"queued", "done"}
    BY <1>5 DEF Unavailable, Arrive, QueueTimeout, Cancel, Return, Goto
  <2> QED BY <2>1 DEF Located, PastGate, PastBranch
<1> QED BY <1>1, <1>2, <1>3, <1>4, <1>5, StepKinds DEF KeepsSlots

LEMMA GuardStep ==
  ASSUME MuxInv, HitlInv, CallTypes, Located, GuardInv, [Next]_vars
  PROVE  GuardInv'
<1> USE DEF CallTypes
<1> SUFFICES ASSUME NEW d \in Calls
             PROVE  /\ PastGate(d)' => Allowed(d)' /\ (Gated(d)' => ticket'[d] # Nil)
                    /\ PastBranch(d)' => ~Forbidden(d)'
  BY DEF GuardInv
<1>1. ASSUME req'[d] = req[d], backendOf'[d] = backendOf[d], InProgress(d) \/ performed[d]
      PROVE  (Allowed(d)' <=> Allowed(d)) /\ (Gated(d)' <=> Gated(d)) /\ (Forbidden(d)' <=> Forbidden(d))
  BY <1>1, CfgStable, SameQuestions DEF Located
<1>2. CASE UNCHANGED <<pc[d], req[d], backendOf[d], ticket[d], performed[d]>>
  BY <1>1, <1>2 DEF GuardInv, PastGate, PastBranch, InProgress
<1>3. CASE Step(d)
  <2>1. PastBranch(d)' => PastGate(d)'
    BY DEF PastGate, PastBranch
  <2>2. CASE PastGate(d)'
    <3>0. req'[d] = req[d] /\ backendOf'[d] = backendOf[d]
      BY <1>3, <2>2, Passing DEF PastGate, PastBranch
    <3>3. InProgress(d) \/ performed[d]
      BY <1>3, <2>2, Passing DEF PastGate, PastBranch
    <3>1. Allowed(d) /\ (Gated(d) => ticket'[d] # Nil)
      BY <1>3, <2>2, Passing DEF PastGate, PastBranch
    <3>2. PastBranch(d)' => ~Forbidden(d)
      BY <1>3, Passing DEF PastGate, PastBranch
    <3> QED BY <1>1, <3>0, <3>1, <3>2, <3>3
  <2> QED BY <2>1, <2>2
<1>4. ASSUME NEW c \in Calls, Step(c), c # d
      PROVE  UNCHANGED <<pc[d], req[d], backendOf[d], ticket[d], performed[d]>>
  <2>1. CASE Acquires(c)
    BY <1>4, <2>1 DEF Acquires, Acquire, Goto
  <2>2. CASE Releases(c)
    BY <1>4, <2>2, ReleaseEffect
  <2>3. CASE KeepsSlots(c)
    BY <1>4, <2>3, KeepEffect
  <2> QED BY <1>4, <2>1, <2>2, <2>3, StepKinds
<1>5. CASE MuxStep \/ ClockStep \/ UNCHANGED vars
  BY <1>2, <1>5 DEF MuxStep, ClockStep, callVars, vars
<1> QED BY <1>2, <1>3, <1>4, <1>5 DEF Next

-----------------------------------------------------------------------------
LEMMA CallInvInit == Init => CallInv
<1> SUFFICES ASSUME Init PROVE CallInv
  OBVIOUS
<1>1. MuxInv /\ HitlInv /\ CallTypes
  BY MuxInvInit, HitlInvInit, TypesInit DEF Init
<1>2. \A c \in Calls : pc[c] = "idle" /\ ticket[c] = Nil /\ ~performed[c]
  BY DEF Init
<1>3. \A p \in Ptr : Holders(p) = {} /\ slots[p] = 0
  BY DEF Init, Holders
<1>4. SlotInv
  BY <1>3, FS_EmptySet DEF SlotInv, SlotOK
<1> QED BY <1>1, <1>2, <1>4
        DEF CallInv, Located, InProgress, TicketInv, GuardInv, PastGate, PastBranch

LEMMA CallInvStep == CallInv /\ [Next]_vars => CallInv'
<1> SUFFICES ASSUME CallInv, [Next]_vars PROVE CallInv'
  OBVIOUS
<1> USE DEF CallInv
<1>1. MuxInv' /\ HitlInv'
  BY ComponentSteps, MuxInvStep, HitlInvStep
<1> QED BY <1>1, TypesStep, LocatedStep, SlotStep, TicketStep, GuardStep

THEOREM CallsInductive == Spec => []CallInv
  BY CallInvInit, CallInvStep, PTL DEF Spec

\* Every variable of the composition keeps its type; in particular no slot
\* counter goes below zero, so no deferred release waits on an empty channel.
THEOREM CallTypeCorrect == Spec => []TypeOK
<1>1. CallInv => TypeOK
  BY DEF CallInv, CallTypes, Labels, EventSeqs, TypeOK, MuxInv, HitlInv
<1> QED BY <1>1, CallsInductive, PTL

\* Slots and calls in progress match, on current and retired backends.
THEOREM SlotsCorrect == Spec => []SlotsAccounted
<1>1. CallInv => SlotsAccounted
  BY DEF CallInv, SlotInv, SlotOK, SlotsAccounted
<1> QED BY <1>1, CallsInductive, PTL

\* No merge or deploy reaches a server without an approval of its own.
THEOREM GateCorrect == Spec => []GatedApproved
<1>1. CallInv => GatedApproved
  BY DEF CallInv, GuardInv, TicketInv, PastGate, GatedApproved
<1> QED BY <1>1, CallsInductive, PTL

\* No call passes by the tools' allowlist or the branch guard of the backend that
\* runs it, however many reloads happen while it is in progress.
THEOREM GuardsCorrect == Spec => []GuardsHonoured
<1>1. CallInv => GuardsHonoured
  BY DEF CallInv, GuardInv, PastGate, PastBranch, GuardsHonoured
<1> QED BY <1>1, CallsInductive, PTL

-----------------------------------------------------------------------------
(***************************************************************************)
(* The audit trail of effects.                                             *)
(***************************************************************************)
Last(s) == s[Len(s)]

LEMMA LastLogged ==
  ASSUME NEW s \in EventSeqs, NEW x \in {"TOOL_ERROR", "SECURITY_BLOCK", "STATE_CHANGE"}
  PROVE  s \o <<x>> # << >> /\ Last(s \o <<x>>) = x
  BY DEF EventSeqs, Last

\* What EffectsAudited asks of one call.
Audited(c) ==
  pc[c] = "done" /\ performed[c] /\ req[c].tool \in StateChangingTools =>
    audit[c] # << >> /\ (outcome[c] = "ok" => Last(audit[c]) = "STATE_CHANGE")

\* A call the server ran returns with a record.
LEMMA ReturnAudited ==
  ASSUME CallTypes, Located, NEW d \in Calls, Step(d), ~(pc[d] = "done")
  PROVE  Audited(d)'
<1> USE DEF CallTypes
<1>1. CASE Succeed(d)
  <2>1. CASE req[d].tool \in StateChangingTools
    <3>1. audit' = [audit EXCEPT ![d] = @ \o <<"STATE_CHANGE">>]
      BY <1>1, <2>1 DEF Succeed, ReturnAndRelease, Return, Log
    <3>2. audit'[d] # << >> /\ Last(audit'[d]) = "STATE_CHANGE"
      BY <3>1, LastLogged
    <3> QED BY <3>2 DEF Audited, Last
  <2>2. CASE req[d].tool \notin StateChangingTools
    BY <1>1, <2>2 DEF Succeed, ReturnAndRelease, Audited
  <2> QED BY <2>1, <2>2
<1>2. CASE Fail(d)
  <2>1. /\ audit' = [audit EXCEPT ![d] = @ \o <<"TOOL_ERROR">>]
        /\ outcome'[d] # "ok"
    BY <1>2 DEF Fail, ReturnAndRelease, Return, Log
  <2>2. audit'[d] # << >>
    BY <2>1, LastLogged
  <2> QED BY <2>1, <2>2 DEF Audited
<1>3. CASE ~Succeed(d) /\ ~Fail(d)
  <2>1. ~(pc'[d] = "done" /\ performed'[d])
    BY <1>3 DEF Step, Guards, Gate, Unavailable, Arrive, Acquire, QueueTimeout, Cancel, Deny,
            StageAction, RejectToken, AcceptToken, AtGate, BlockBranch, Disconnected, Dispatch,
            Cleared, Perform, ReturnAndRelease, Return, Goto, Located
  <2> QED BY <2>1 DEF Audited
<1> QED BY <1>1, <1>2, <1>3

\* The record of a call that is over stays, and other calls do not touch it.
LEMMA AuditKept ==
  ASSUME CallTypes, NEW d \in Calls, [Next]_vars, ~Step(d) \/ pc[d] = "done"
  PROVE  UNCHANGED <<pc[d], performed[d], req[d], audit[d], outcome[d]>>
<1> USE DEF CallTypes
<1>1. ASSUME NEW c \in Calls, Releases(c)
      PROVE  c # d /\ UNCHANGED <<pc[d], performed[d], req[d], audit[d], outcome[d]>>
  <2>1. c # d
    BY <1>1, ReleaseEffect DEF Holding, Step, Guards, Gate, Releases
  <2> QED BY <1>1, <2>1, ReleaseEffect DEF Log
<1>2. ASSUME NEW c \in Calls, Acquires(c) \/ KeepsSlots(c)
      PROVE  c # d /\ UNCHANGED <<pc[d], performed[d], req[d], audit[d], outcome[d]>>
  <2>1. c # d
    BY <1>2 DEF Acquires, KeepsSlots, Step, Guards, Gate, Acquire, Unavailable, Arrive, QueueTimeout,
                Cancel, AcceptToken, AtGate, Dispatch, Cleared, Perform
  <2> QED BY <1>2, <2>1 DEF Acquires, KeepsSlots, Acquire, Unavailable, Arrive, QueueTimeout,
                Cancel, AcceptToken, Dispatch, Perform, Return, Goto, Log
<1>3. CASE MuxStep \/ ClockStep \/ UNCHANGED vars
  BY <1>3 DEF MuxStep, ClockStep, callVars, vars
<1> QED BY <1>1, <1>2, <1>3, StepKinds DEF Next

\* No tool that changes the state of a server runs without a trace: the call's
\* last record is a change when its client was told of success.
THEOREM AuditCorrect == Spec => []EffectsAudited
<1> DEFINE AllAudited == \A c \in Calls : Audited(c)
<1>1. Init => AllAudited
  BY DEF Init, Audited
<1>2. CallInv /\ AllAudited /\ [Next]_vars => AllAudited'
  <2> SUFFICES ASSUME CallInv, AllAudited, [Next]_vars, NEW d \in Calls
               PROVE  Audited(d)'
    OBVIOUS
  <2>1. CASE Step(d) /\ ~(pc[d] = "done")
    BY <2>1, ReturnAudited DEF CallInv
  <2>2. CASE ~Step(d) \/ pc[d] = "done"
    <3>1. UNCHANGED <<pc[d], performed[d], req[d], audit[d], outcome[d]>>
      BY <2>2, AuditKept DEF CallInv
    <3> QED BY <3>1 DEF Audited, Last
  <2> QED BY <2>1, <2>2
<1>3. AllAudited => EffectsAudited
  BY DEF Audited, Last, EffectsAudited
<1> HIDE DEF AllAudited
<1> QED BY <1>1, <1>2, <1>3, CallsInductive, PTL DEF Spec

-----------------------------------------------------------------------------
(***************************************************************************)
(* The two components in the composition.                                  *)
(***************************************************************************)
\* Whatever the calls do, the multiplexer and the approval manager behave as
\* they do alone, so that what is proved of them holds under the calls.
THEOREM CallsRefinement == Spec => MuxSpec /\ HitlSpec
<1>1. Init => MuxInit /\ HitlInit
  BY DEF Init
<1>2. CallInv /\ [Next]_vars => [MuxNext]_muxVars /\ [HitlNext]_hitlVars
  BY ComponentSteps DEF CallInv
<1> QED BY <1>1, <1>2, CallsInductive, PTL DEF Spec, MuxSpec, HitlSpec

\* In particular no reload disturbs, under the calls, a server it keeps.
COROLLARY CallsUnchangedStay == Spec => UnchangedKept
  BY CallsRefinement, UnchangedStay, PTL

\* Nothing takes its client from a backend that has one.
LEMMA ClientStays ==
  ASSUME MuxInv, [MuxNext]_muxVars, NEW p \in Ptr, client[p]
  PROVE  client'[p]
<1> USE DEF MuxInv, MuxTypeOK
<1>1. ASSUME NEW q \in Ptr, Starter(q) PROVE client'[p]
  BY <1>1 DEF Starter, DialFail, Dial, InitializeFail, Initialize, ListTools
<1>2. ASSUME NEW cfg \in ConfigFiles, Reload(cfg) PROVE client'[p]
  BY <1>2 DEF Reload
<1>3. CASE \/ \E q \in Ptr : PeerDies(q) \/ Retire(q)
           \/ Serve \/ Swap \/ ReloadReturns \/ Stop \/ UNCHANGED muxVars
  BY <1>3 DEF PeerDies, Retire, Serve, Swap, ReloadReturns, Stop, fieldVars, muxVars
<1> QED BY <1>1, <1>2, <1>3 DEF MuxNext

\* A call in flight has a client.
ClientInv == \A c \in Calls : pc[c] = "calling" => client[backendOf[c]]

LEMMA ClientStep ==
  ASSUME CallInv, ClientInv, [Next]_vars
  PROVE  ClientInv'
<1> USE DEF CallInv, CallTypes
<1> SUFFICES ASSUME NEW d \in Calls, pc'[d] = "calling" PROVE client'[backendOf'[d]]
  BY DEF ClientInv
<1>1. [MuxNext]_muxVars
  BY ComponentSteps
<1>2. backendOf'[d] = backendOf[d] /\ backendOf[d] \in Ptr /\ client[backendOf[d]]
  <2>1. CASE UNCHANGED <<pc[d], backendOf[d]>>
    BY <2>1 DEF ClientInv, Located, InProgress
  <2>2. ASSUME NEW c \in Calls, Dispatch(c) PROVE <1>2
    <3>1. UNCHANGED backendOf /\ client[backendOf[c]] /\ (c # d => pc'[d] = pc[d])
      BY <2>2 DEF Dispatch, Goto
    <3>2. c = d => InProgress(d)
      BY <2>2 DEF Dispatch, Cleared, InProgress
    <3> QED BY <3>1, <3>2 DEF ClientInv, Located, InProgress
  <2>3. ASSUME NEW c \in Calls, Acquires(c) \/ Releases(c) PROVE <1>2
    <3>1. pc'[c] # "calling" /\ UNCHANGED backendOf /\ (c # d => pc'[d] = pc[d])
      BY <2>3, ReleaseEffect DEF Acquires, Acquire, Goto
    <3> QED BY <2>1, <3>1
  <2>4. ASSUME NEW c \in Calls, KeepsSlots(c), ~Dispatch(c) PROVE <1>2
    <3>1. \/ UNCHANGED <<pc, backendOf>>
          \/ /\ pc'[c] # "calling" /\ (c # d => pc'[d] = pc[d])
             /\ c # d => backendOf'[d] = backendOf[d]
      BY <2>4 DEF KeepsSlots, Unavailable, Arrive, QueueTimeout, Cancel, AcceptToken,
                  Perform, Return, Goto
    <3> QED BY <2>1, <3>1
  <2>5. CASE MuxStep \/ ClockStep \/ UNCHANGED vars
    BY <2>1, <2>5 DEF MuxStep, ClockStep, callVars, vars
  <2> QED BY <2>2, <2>3, <2>4, <2>5, StepKinds DEF Next
<1> QED BY <1>1, <1>2, ClientStays

\* The calls a reload cuts short are those on the backends it replaced.
THEOREM DropsExplained == Spec => []DroppedOnlyReplaced
<1>1. Init => ClientInv
  BY DEF Init, ClientInv
<1>2. CallInv /\ ClientInv /\ [Next]_vars => ClientInv'
  BY ClientStep
<1>3. CallInv /\ ClientInv => DroppedOnlyReplaced
  BY DEF CallInv, ClientInv, MuxInv, OpenInv, DroppedOnlyReplaced
<1> QED BY <1>1, <1>2, <1>3, CallsInductive, PTL DEF Spec
=============================================================================
