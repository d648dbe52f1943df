----------------------------- MODULE HitlProofs -----------------------------
(***************************************************************************)
(* Proofs about Hitl, for any capacity, life time and set of tokens.       *)
(***************************************************************************)
EXTENDS Hitl, FiniteSetTheorems, TLAPS

\* The table is finite and within its limit, holds what was issued and not
\* yet approved, and nothing in it comes from the future.
TableInv ==
  /\ IsFiniteSet(Pending)
  /\ Cardinality(Pending) <= MaxPending
  /\ \A t \in Pending :
       /\ issued[t] = pending[t]
       /\ t \notin ApprovedTokens
       /\ pending[t].createdAt <= now

HitlInv == HitlTypeOK /\ TableInv /\ ApprovalsSound

LEMMA ActionType ==
  ASSUME NEW act \in Actions
  PROVE  act.agent \in Agents /\ act.tool \in Tools /\ act.createdAt \in Nat /\ act # NoAction
  BY HitlAssumption DEF Actions

LEMMA HitlInvInit == HitlInit => HitlInv
<1> SUFFICES ASSUME HitlInit PROVE HitlInv
  OBVIOUS
<1>1. Pending = {}
  BY DEF HitlInit, Pending
<1>2. HitlTypeOK
  BY HitlAssumption DEF HitlInit, HitlTypeOK
<1>3. IsFiniteSet({}) /\ Cardinality({}) = 0
  BY FS_EmptySet
<1> QED BY <1>1, <1>2, <1>3, HitlAssumption DEF HitlInit, HitlInv, TableInv, ApprovalsSound

LEMMA HitlTypeStep == HitlTypeOK /\ [HitlNext]_hitlVars => HitlTypeOK'
<1> USE HitlAssumption DEF HitlTypeOK
<1> SUFFICES ASSUME HitlTypeOK, [HitlNext]_hitlVars PROVE HitlTypeOK'
  OBVIOUS
<1>1. ASSUME NEW t \in Tokens, NEW agent \in Agents, NEW tool \in Tools,
             Stage(t, agent, tool)
      PROVE  HitlTypeOK'
  <2>1. [agent |-> agent, tool |-> tool, createdAt |-> now] \in Actions
    BY DEF Actions
  <2> QED BY <1>1, <2>1 DEF Stage, Staged
<1>2. ASSUME NEW t \in Tokens, NEW agent \in Agents, NEW tool \in Tools,
             ValidateAndConsume(t, agent, tool)
      PROVE  HitlTypeOK'
  BY <1>2 DEF ValidateAndConsume, Spent
<1>3. CASE Tick
  BY <1>3 DEF Tick
<1>4. CASE UNCHANGED hitlVars
  BY <1>4 DEF hitlVars
<1> QED BY <1>1, <1>2, <1>3, <1>4 DEF HitlNext

\* What staging leaves in the table: the actions still valid, less one of the
\* oldest when they fill it, and the new one.
LEMMA StageEffect ==
  ASSUME HitlInv, NEW t \in Tokens, NEW agent \in Agents, NEW tool \in Tools,
         Stage(t, agent, tool)
  PROVE  \E kept \in Room(Unexpired) :
           /\ kept \subseteq Unexpired
           /\ t \notin Pending
           /\ Pending' = kept \cup {t}
           /\ pending'[t] = [agent |-> agent, tool |-> tool, createdAt |-> now]
           /\ \A u \in kept : pending'[u] = pending[u]
<1> USE DEF HitlInv, HitlTypeOK
<1>1. t \notin Pending
  BY HitlAssumption DEF Stage, Staged, TableInv, Pending
<1>2. [agent |-> agent, tool |-> tool, createdAt |-> now] \in Actions
  BY DEF Actions
<1>3. [agent |-> agent, tool |-> tool, createdAt |-> now] # NoAction
  BY <1>2, HitlAssumption
<1>4. PICK kept \in Room(Unexpired) :
        pending' = [u \in Tokens |->
                      IF u = t THEN [agent |-> agent, tool |-> tool, createdAt |-> now]
                      ELSE IF u \in kept THEN pending[u] ELSE NoAction]
  BY DEF Stage, Staged
<1>5. kept \subseteq Unexpired
  BY DEF Room
<1>6. Pending' = kept \cup {t}
  BY <1>3, <1>4, <1>5 DEF Pending, Unexpired
<1> QED BY <1>1, <1>4, <1>5, <1>6 DEF Unexpired, Pending

LEMMA UnexpiredFinite ==
  ASSUME HitlInv
  PROVE  /\ IsFiniteSet(Unexpired)
         /\ Cardinality(Unexpired) \in Nat
         /\ Cardinality(Unexpired) <= MaxPending
<1>1. Unexpired \in SUBSET Pending
  BY DEF Unexpired
<1> QED BY <1>1, FS_Subset, FS_CardinalityType, HitlAssumption DEF HitlInv, TableInv

LEMMA StageStep ==
  ASSUME HitlInv, HitlTypeOK', NEW t \in Tokens, NEW agent \in Agents, NEW tool \in Tools,
         Stage(t, agent, tool)
  PROVE  HitlInv'
<1> USE DEF HitlInv
<1>1. PICK kept \in Room(Unexpired) :
        /\ kept \subseteq Unexpired
        /\ t \notin Pending
        /\ Pending' = kept \cup {t}
        /\ pending'[t] = [agent |-> agent, tool |-> tool, createdAt |-> now]
        /\ \A u \in kept : pending'[u] = pending[u]
  BY StageEffect
<1>2. IsFiniteSet(kept) /\ Cardinality(kept) \in Nat /\ Cardinality(kept) < MaxPending
  <2>1. CASE Cardinality(Unexpired) < MaxPending
    BY <1>1, <2>1, UnexpiredFinite DEF Room
  <2>2. CASE ~(Cardinality(Unexpired) < MaxPending)
    <3>1. PICK o \in Oldest(Unexpired) : kept = Unexpired \ {o}
      BY <2>2 DEF Room
    <3>2. o \in Unexpired
      BY DEF Oldest
    <3>3. /\ IsFiniteSet(kept)
          /\ Cardinality(kept) = Cardinality(Unexpired) - 1
      BY <3>1, <3>2, UnexpiredFinite, FS_RemoveElement
    <3> QED BY <3>3, UnexpiredFinite, FS_CardinalityType, HitlAssumption
  <2> QED BY <2>1, <2>2
<1>3. t \notin kept
  BY <1>1 DEF Unexpired
<1>4. IsFiniteSet(Pending') /\ Cardinality(Pending') <= MaxPending
  <2>1. /\ IsFiniteSet(kept \cup {t})
        /\ Cardinality(kept \cup {t}) = Cardinality(kept) + 1
    BY <1>2, <1>3, FS_AddElement
  <2>2. Pending' = kept \cup {t}
    BY <1>1
  <2>3. MaxPending \in Nat
    BY HitlAssumption
  <2> QED BY <1>2, <2>1, <2>2, <2>3
<1>5. /\ issued[t] = NoAction /\ approvals' = approvals /\ now' = now
      /\ issued' = [issued EXCEPT ![t] = [agent |-> agent, tool |-> tool, createdAt |-> now]]
  BY DEF Stage, Staged
<1>6. t \notin ApprovedTokens
  BY <1>5 DEF ApprovalsSound, ApprovedTokens
<1>7. TableInv'
  BY <1>1, <1>3, <1>4, <1>5, <1>6 DEF TableInv, ApprovedTokens, Unexpired, HitlTypeOK, Pending
<1>8. ApprovalsSound'
  <2>1. \A a \in approvals : issued'[a.token] = issued[a.token]
    BY <1>5 DEF ApprovalsSound, HitlTypeOK
  <2> QED BY <1>5, <2>1 DEF ApprovalsSound
<1> QED BY <1>7, <1>8

\* What a consumption leaves: at most its own token goes, and when it is
\* approved it was there, matched, and in time.
LEMMA ConsumeEffect ==
  ASSUME HitlInv, NEW t \in Tokens, NEW agent \in Agents, NEW tool \in Tools,
         ValidateAndConsume(t, agent, tool)
  PROVE  \/ /\ Verdict(t, agent, tool) # "approved"
            /\ approvals' = approvals
            /\ \/ pending' = pending
               \/ pending' = [pending EXCEPT ![t] = NoAction] /\ t \in Pending \ Unexpired
         \/ /\ t \in Unexpired
            /\ SameAgent(pending[t].agent, agent) /\ pending[t].tool = tool
            /\ pending' = [pending EXCEPT ![t] = NoAction]
            /\ approvals' = approvals \cup
                   {[token |-> t, agent |-> agent, tool |-> tool, at |-> now]}
  BY DEF ValidateAndConsume, Spent, Verdict, Unexpired

LEMMA ApprovedGrows ==
  ASSUME NEW t, NEW agent, NEW tool,
         approvals' = approvals \cup
            {[token |-> t, agent |-> agent, tool |-> tool, at |-> now]}
  PROVE  ApprovedTokens' = ApprovedTokens \cup {t}
<1> DEFINE answer == [token |-> t, agent |-> agent, tool |-> tool, at |-> now]
<1>1. answer.token = t /\ \A a : a \in approvals' <=> a \in approvals \/ a = answer
  OBVIOUS
<1> HIDE DEF answer
<1>2. \A x : x \in ApprovedTokens' <=> \E a \in approvals' : x = a.token
  BY DEF ApprovedTokens
<1>3. \A x : x \in ApprovedTokens <=> \E a \in approvals : x = a.token
  BY DEF ApprovedTokens
<1> QED BY <1>1, <1>2, <1>3

LEMMA ConsumeStep ==
  ASSUME HitlInv, HitlTypeOK', NEW t \in Tokens, NEW agent \in Agents, NEW tool \in Tools,
         ValidateAndConsume(t, agent, tool)
  PROVE  HitlInv'
<1> USE DEF HitlInv
<1> DEFINE answer == [token |-> t, agent |-> agent, tool |-> tool, at |-> now]
<1>1. UNCHANGED <<now, issued>>
  BY DEF ValidateAndConsume, Spent
<1>2. \/ pending' = pending /\ approvals' = approvals
      \/ /\ pending' = [pending EXCEPT ![t] = NoAction]
         /\ approvals' = approvals \/ approvals' = approvals \cup {answer}
  BY ConsumeEffect
<1>3. Pending' = Pending \/ Pending' = Pending \ {t}
  BY <1>2 DEF HitlTypeOK, Pending
<1>4. IsFiniteSet(Pending') /\ Cardinality(Pending') <= MaxPending
  <2>1. CASE Pending' = Pending
    BY <2>1 DEF TableInv
  <2>2. CASE Pending' = Pending \ {t}
    <3>1. (Pending \ {t}) \in SUBSET Pending
      OBVIOUS
    <3>2. /\ IsFiniteSet(Pending \ {t})
          /\ Cardinality(Pending \ {t}) <= Cardinality(Pending)
      BY <3>1, FS_Subset DEF TableInv
    <3>3. Cardinality(Pending) \in Nat /\ Cardinality(Pending \ {t}) \in Nat
      BY <3>2, FS_CardinalityType DEF TableInv
    <3> QED BY <2>2, <3>2, <3>3, HitlAssumption DEF TableInv
  <2> QED BY <1>3, <2>1, <2>2
<1>5. TableInv'
  <2> SUFFICES ASSUME NEW u \in Pending'
               PROVE  /\ issued'[u] = pending'[u]
                      /\ u \notin ApprovedTokens'
                      /\ pending'[u].createdAt <= now'
    BY <1>4 DEF TableInv
  <2>1. u \in Pending /\ pending'[u] = pending[u]
    BY <1>2, <1>3 DEF HitlTypeOK, Pending
  <2>2. u = t => approvals' = approvals
    BY <1>2 DEF HitlTypeOK, Pending
  <2>3. u \notin ApprovedTokens'
    BY <1>2, <2>1, <2>2 DEF TableInv, ApprovedTokens
  <2> QED BY <1>1, <2>1, <2>3 DEF TableInv
<1>6. ApprovalsSound'
  <2>1. CASE approvals' = approvals
    BY <1>1, <2>1 DEF ApprovalsSound
  <2>2. CASE approvals' # approvals
    <3>1. /\ t \in Unexpired /\ SameAgent(pending[t].agent, agent)
          /\ pending[t].tool = tool /\ approvals' = approvals \cup {answer}
      BY <2>2, ConsumeEffect
    <3>2. /\ issued[t] = pending[t] /\ issued[t] # NoAction /\ t \notin ApprovedTokens
          /\ issued[t] \in Actions
      BY <3>1 DEF TableInv, Unexpired, Pending, HitlTypeOK
    <3>3. now \in issued[t].createdAt .. (issued[t].createdAt + TTL)
      <4>1. pending[t].createdAt <= now /\ ~(now > pending[t].createdAt + TTL)
        BY <3>1 DEF TableInv, Unexpired, Expired
      <4>2. pending[t].createdAt \in Nat /\ now \in Nat /\ TTL \in Nat
        BY <3>2, ActionType, HitlAssumption DEF HitlTypeOK
      <4> QED BY <3>2, <4>1, <4>2
    <3>4. \A a \in approvals : a.token # t
      BY <3>2 DEF ApprovedTokens
    <3>5. \A a \in approvals' : a = answer \/ a \in approvals
      BY <3>1
    <3>6. ASSUME NEW a \in approvals'
          PROVE  /\ issued'[a.token] # NoAction
                 /\ a.tool = issued'[a.token].tool
                 /\ SameAgent(issued'[a.token].agent, a.agent)
                 /\ a.at \in issued'[a.token].createdAt ..
                              (issued'[a.token].createdAt + TTL)
                 /\ \A b \in approvals' : b.token = a.token => b = a
      BY <1>1, <3>1, <3>2, <3>3, <3>4, <3>5 DEF ApprovalsSound
    <3> QED BY <3>6 DEF ApprovalsSound, SameAgent
  <2> QED BY <2>1, <2>2
<1> QED BY <1>5, <1>6

LEMMA TickStep ==
  ASSUME HitlInv, HitlTypeOK', Tick
  PROVE  HitlInv'
<1> USE DEF HitlInv, Tick
<1>1. \A t \in Pending : pending[t].createdAt \in Nat
  BY ActionType DEF HitlTypeOK, Pending
<1>2. now \in Nat
  BY HitlAssumption DEF HitlTypeOK
<1>3. Pending' = Pending /\ ApprovedTokens' = ApprovedTokens
  BY DEF Pending, ApprovedTokens
<1>4. TableInv'
  BY <1>1, <1>2, <1>3 DEF TableInv
<1>5. ApprovalsSound'
  BY DEF ApprovalsSound, SameAgent
<1> QED BY <1>4, <1>5

LEMMA HitlInvStep == HitlInv /\ [HitlNext]_hitlVars => HitlInv'
<1> SUFFICES ASSUME HitlInv, [HitlNext]_hitlVars PROVE HitlInv'
  OBVIOUS
<1>0. HitlTypeOK'
  BY HitlTypeStep DEF HitlInv
<1>1. CASE UNCHANGED hitlVars
  BY <1>0, <1>1 DEF hitlVars, HitlInv, TableInv, Pending, ApprovedTokens, ApprovalsSound, SameAgent
<1> QED BY <1>0, <1>1, StageStep, ConsumeStep, TickStep DEF HitlNext

THEOREM HitlInductive == HitlSpec => []HitlInv
  BY HitlInvInit, HitlInvStep, PTL DEF HitlSpec

\* Every variable of the manager keeps its type.
THEOREM HitlTypeCorrect == HitlSpec => []HitlTypeOK
<1>1. HitlInv => HitlTypeOK
  BY DEF HitlInv
<1> QED BY <1>1, HitlInductive, PTL

\* The table never outgrows maxPending.
THEOREM Bounded == HitlSpec => []PendingBounded
<1>1. HitlInv => PendingBounded
  BY DEF HitlInv, TableInv, PendingBounded
<1> QED BY <1>1, HitlInductive, PTL

\* Approvals match what was staged, come in time, and answer a token once.
THEOREM SingleUse == HitlSpec => []ApprovalsSound
<1>1. HitlInv => ApprovalsSound
  BY DEF HitlInv
<1> QED BY <1>1, HitlInductive, PTL

-----------------------------------------------------------------------------
\* A valid approval request is displaced only from a full table, and only
\* when none of those kept is older.
THEOREM Displacement == HitlSpec => DisplacedOldest
<1>1. HitlInv /\ [HitlNext]_hitlVars => [DisplacedOnlyOldest]_hitlVars
  <2> SUFFICES ASSUME HitlInv, HitlNext, NEW v \in Unexpired,
                      pending'[v] = NoAction, v \notin ApprovedTokens'
               PROVE  /\ Cardinality(Unexpired) = MaxPending
                      /\ \A u \in Pending \cap Pending' :
                           pending[v].createdAt <= pending[u].createdAt
    BY DEF DisplacedOnlyOldest
  <2>0. v \in Tokens /\ v \in Pending /\ pending[v] # NoAction
    BY DEF Unexpired, Pending
  <2>1. ASSUME NEW t \in Tokens, NEW agent \in Agents, NEW tool \in Tools,
               Stage(t, agent, tool)
        PROVE  /\ Cardinality(Unexpired) = MaxPending
               /\ \A u \in Pending \cap Pending' :
                    pending[v].createdAt <= pending[u].createdAt
    <3>1. PICK kept \in Room(Unexpired) :
            /\ kept \subseteq Unexpired
            /\ t \notin Pending
            /\ Pending' = kept \cup {t}
            /\ pending'[t] = [agent |-> agent, tool |-> tool, createdAt |-> now]
            /\ \A u \in kept : pending'[u] = pending[u]
      BY <2>1, StageEffect
    <3>2. v \notin kept
      BY <2>0, <3>1
    <3>3. ~(Cardinality(Unexpired) < MaxPending)
      BY <3>1, <3>2 DEF Room
    <3>4. Cardinality(Unexpired) = MaxPending
      BY <3>3, UnexpiredFinite, HitlAssumption
    <3>5. PICK o \in Oldest(Unexpired) : kept = Unexpired \ {o}
      BY <3>1, <3>3 DEF Room
    <3>6. v = o /\ \A u \in Unexpired : pending[v].createdAt <= pending[u].createdAt
      BY <3>2, <3>5 DEF Oldest
    <3> QED BY <3>1, <3>4, <3>6
  <2>2. ASSUME NEW t \in Tokens, NEW agent \in Agents, NEW tool \in Tools,
               ValidateAndConsume(t, agent, tool)
        PROVE  FALSE
    <3>1. v \in Unexpired /\ pending \in [Tokens -> Actions \cup {NoAction}]
      BY DEF HitlInv, HitlTypeOK
    <3>2. v = t
      BY <2>0, <2>2, <3>1, ConsumeEffect
    <3>3. approvals' = approvals \cup
             {[token |-> t, agent |-> agent, tool |-> tool, at |-> now]}
      BY <2>0, <2>2, <3>1, <3>2, ConsumeEffect
    <3> QED BY <3>2, <3>3, ApprovedGrows
  <2>3. CASE Tick
    BY <2>0, <2>3 DEF Tick
  <2> QED BY <2>1, <2>2, <2>3 DEF HitlNext
<1> QED BY <1>1, HitlInductive, PTL DEF HitlSpec, DisplacedOldest

-----------------------------------------------------------------------------
(***************************************************************************)
(* The refinement.  The live tickets are the unexpired entries; purging    *)
(* and failed consumptions leave every status alone.                       *)
(***************************************************************************)
statusOf == [t \in Tokens |-> Status(t)]

\* The instance has a copy of FiniteSets of its own.
LEMMA SameCardinality == \A S : Tickets!Cardinality(S) = Cardinality(S)
  BY DEF Tickets!Cardinality, Tickets!IsFiniteSet, Cardinality, IsFiniteSet

LEMMA StatusFacts ==
  ASSUME HitlInv
  PROVE  /\ Tickets!Live = Unexpired
         /\ \A t \in Unexpired : t \notin ApprovedTokens /\ issued[t] # NoAction
         /\ \A t \in Tokens : statusOf[t] = Status(t)
<1>1. \A t \in Unexpired : t \in Tokens /\ t \notin ApprovedTokens /\ issued[t] # NoAction
  BY DEF HitlInv, TableInv, Unexpired, Pending
<1> QED BY <1>1 DEF Tickets!Live, Status, statusOf

LEMMA StageRefines ==
  ASSUME HitlInv, HitlTypeOK', NEW t \in Tokens, NEW agent \in Agents, NEW tool \in Tools,
         Stage(t, agent, tool)
  PROVE  Tickets!Issue(t)
<1>1. PICK kept \in Room(Unexpired) :
        /\ kept \subseteq Unexpired
        /\ t \notin Pending
        /\ Pending' = kept \cup {t}
        /\ pending'[t] = [agent |-> agent, tool |-> tool, createdAt |-> now]
        /\ \A u \in kept : pending'[u] = pending[u]
  BY StageEffect
<1>2. /\ issued[t] = NoAction /\ approvals' = approvals /\ now' = now
      /\ \A u \in Tokens : u # t => issued'[u] = issued[u]
      /\ issued' \in [Tokens -> Actions \cup {NoAction}]
  BY DEF Stage, Staged, HitlInv, HitlTypeOK
<1>3. ApprovedTokens' = ApprovedTokens /\ t \notin ApprovedTokens /\ t \notin Unexpired
  BY <1>1, <1>2 DEF ApprovedTokens, HitlInv, ApprovalsSound, Unexpired
<1>4. Unexpired' = kept \cup {t}
  <2>1. \A u \in kept : ~Expired(pending[u])'
    BY <1>1, <1>2 DEF Unexpired, Expired
  <2>2. ~Expired(pending[t])'
    BY <1>1, <1>2, HitlAssumption DEF Expired, HitlInv, HitlTypeOK
  <2> QED BY <1>1, <2>1, <2>2 DEF Unexpired
<1>5. Status(t) = "fresh" /\ Status(t)' = "live"
  BY <1>2, <1>3, <1>4 DEF Status
<1>6. ASSUME NEW u \in Tokens, u # t
      PROVE  Status(u)' = IF u \in Unexpired \ kept THEN "void" ELSE Status(u)
  <2>1. u \in Unexpired => u \notin ApprovedTokens /\ issued[u] # NoAction
    BY StatusFacts
  <2> QED BY <1>1, <1>2, <1>3, <1>4, <1>6, <2>1 DEF Status
<1>7. CASE Cardinality(Unexpired) < MaxPending
  <2>1. kept = Unexpired
    BY <1>7 DEF Room
  <2>2. statusOf' = [statusOf EXCEPT ![t] = "live"]
    BY <1>5, <1>6, <2>1 DEF statusOf
  <2>3. statusOf[t] = "fresh" /\ Tickets!Cardinality(Tickets!Live) < MaxPending
    BY <1>5, <1>7, StatusFacts, SameCardinality
  <2> QED BY <2>2, <2>3 DEF Tickets!Issue, statusOf
<1>8. CASE ~(Cardinality(Unexpired) < MaxPending)
  <2>1. PICK o \in Oldest(Unexpired) : kept = Unexpired \ {o}
    BY <1>8 DEF Room
  <2>2. o \in Unexpired /\ o \in Tokens /\ o # t
    BY <1>3 DEF Oldest, Unexpired, Pending
  <2>3. statusOf' = [statusOf EXCEPT ![t] = "live", ![o] = "void"]
    BY <1>5, <1>6, <2>1, <2>2 DEF statusOf
  <2>4. Cardinality(Unexpired) = MaxPending
    BY <1>8, UnexpiredFinite, HitlAssumption
  <2>5. /\ statusOf[t] = "fresh" /\ Tickets!Cardinality(Tickets!Live) = MaxPending
        /\ o \in Tickets!Live
    BY <1>5, <2>2, <2>4, StatusFacts, SameCardinality
  <2> QED BY <2>3, <2>5 DEF Tickets!Issue, statusOf
<1> QED BY <1>7, <1>8

LEMMA ConsumeRefines ==
  ASSUME HitlInv, HitlTypeOK', NEW t \in Tokens, NEW agent \in Agents, NEW tool \in Tools,
         ValidateAndConsume(t, agent, tool)
  PROVE  Tickets!Use(t) \/ UNCHANGED statusOf
<1>0. UNCHANGED <<now, issued>> /\ pending \in [Tokens -> Actions \cup {NoAction}]
  BY DEF ValidateAndConsume, Spent, HitlInv, HitlTypeOK
<1>1. CASE /\ approvals' = approvals
           /\ \/ pending' = pending
              \/ pending' = [pending EXCEPT ![t] = NoAction] /\ t \in Pending \ Unexpired
  <2>1. Unexpired' = Unexpired
    BY <1>0, <1>1 DEF Unexpired, Pending, Expired
  <2> QED BY <1>0, <1>1, <2>1 DEF statusOf, Status, ApprovedTokens
<1>2. CASE /\ t \in Unexpired
           /\ pending' = [pending EXCEPT ![t] = NoAction]
           /\ approvals' = approvals \cup
                {[token |-> t, agent |-> agent, tool |-> tool, at |-> now]}
  <2>1. Unexpired' = Unexpired \ {t}
    BY <1>0, <1>2 DEF Unexpired, Pending, Expired
  <2>2. ApprovedTokens' = ApprovedTokens \cup {t}
    BY <1>2, ApprovedGrows
  <2>3. Status(t) = "live"
    BY <1>2, StatusFacts DEF Status
  <2>4. statusOf' = [statusOf EXCEPT ![t] = "used"]
    BY <1>0, <2>1, <2>2 DEF statusOf, Status
  <2> QED BY <2>3, <2>4 DEF Tickets!Use, statusOf
<1> QED BY <1>1, <1>2, ConsumeEffect

LEMMA TickRefines ==
  ASSUME HitlInv, HitlTypeOK', Tick
  PROVE  (\E S \in SUBSET Tickets!Live : Tickets!Lapse(S)) \/ UNCHANGED statusOf
<1>1. UNCHANGED <<pending, issued, approvals>> /\ now' = now + 1 /\ now \in Nat
  BY HitlAssumption DEF Tick, HitlInv, HitlTypeOK
<1>2. Unexpired' \subseteq Unexpired
  <2>1. \A t \in Pending : pending[t].createdAt \in Nat
    BY ActionType DEF HitlInv, HitlTypeOK, Pending
  <2> QED BY <1>1, <2>1, HitlAssumption DEF Unexpired, Pending, Expired
<1> DEFINE S == Unexpired \ Unexpired'
<1>3. ASSUME NEW t \in Tokens
      PROVE  Status(t)' = IF t \in S THEN "void" ELSE Status(t)
  BY <1>1, <1>2, StatusFacts DEF Status, ApprovedTokens
<1>4. statusOf' = [t \in Tokens |-> IF t \in S THEN "void" ELSE statusOf[t]]
  BY <1>3 DEF statusOf
<1>5. CASE S = {}
  BY <1>4, <1>5 DEF statusOf
<1>6. CASE S # {}
  BY <1>4, <1>6, StatusFacts DEF Tickets!Lapse, statusOf
<1> QED BY <1>5, <1>6

\* Staging and consuming implement the life cycle of ApprovalTickets: issued
\* once, live within the capacity, used at most once, never revived.
THEOREM HitlRefinement == HitlSpec => TicketSpec
<1>1. HitlInit => Tickets!Init
  BY HitlInvInit, StatusFacts DEF HitlInit, Tickets!Init, Status, ApprovedTokens, Unexpired, Pending
<1>2. HitlInv /\ [HitlNext]_hitlVars => [Tickets!Next]_statusOf
  <2> SUFFICES ASSUME HitlInv, [HitlNext]_hitlVars
               PROVE  Tickets!Next \/ UNCHANGED statusOf
    OBVIOUS
  <2>0. HitlTypeOK'
    BY HitlTypeStep DEF HitlInv
  <2>1. ASSUME NEW t \in Tokens, NEW agent \in Agents, NEW tool \in Tools,
               Stage(t, agent, tool) \/ ValidateAndConsume(t, agent, tool)
        PROVE  Tickets!Next \/ UNCHANGED statusOf
    BY <2>0, <2>1, StageRefines, ConsumeRefines DEF Tickets!Next
  <2>2. CASE Tick
    BY <2>0, <2>2, TickRefines DEF Tickets!Next
  <2>3. CASE UNCHANGED hitlVars
    BY <2>3 DEF hitlVars, statusOf, Status, Unexpired, Pending, Expired, ApprovedTokens
  <2> QED BY <2>1, <2>2, <2>3 DEF HitlNext
<1> QED BY <1>1, <1>2, HitlInductive, PTL DEF HitlSpec, TicketSpec, Tickets!Spec, statusOf
=============================================================================
