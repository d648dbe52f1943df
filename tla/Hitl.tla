-------------------------------- MODULE Hitl --------------------------------
(***************************************************************************)
(* hitl.go: the table of staged actions and the single-use tokens that     *)
(* release them.  Stage and ValidateAndConsume each hold the manager's     *)
(* mutex throughout, so each is one action; time passes between them.      *)
(* Backend, action type and arguments of a staged action are recorded by   *)
(* the code and never compared, so they are left out.                      *)
(***************************************************************************)
EXTENDS Integers, FiniteSets

CONSTANTS
  Tokens,      \* values generateHITLToken may draw, 128 random bits each
  Agents,      \* agent names; the handler never passes the empty one
  Anonymous,   \* "anonymous"
  Tools,
  MaxPending,  \* 200
  TTL,         \* 15 minutes, in ticks of the model's clock
  MaxTime,     \* bound on the clock
  NoAction     \* a missing map entry

Actions == [agent : Agents, tool : Tools, createdAt : 0..MaxTime]

ASSUME HitlAssumption ==
  /\ Anonymous \in Agents
  /\ MaxPending \in Nat \ {0}
  /\ TTL \in Nat \ {0}
  /\ MaxTime \in Nat
  /\ NoAction \notin Actions

VARIABLES
  pending,    \* HITLManager.pending: staged actions by token
  now,        \* the clock
  issued,     \* history: what each token drawn so far was issued for
  approvals   \* history: the successful consumptions

hitlVars == <<pending, now, issued, approvals>>

HitlInit ==
  /\ pending = [t \in Tokens |-> NoAction]
  /\ now = 0
  /\ issued = [t \in Tokens |-> NoAction]
  /\ approvals = {}

\* now.After(act.ExpiresAt)
Expired(act) == now > act.createdAt + TTL

Pending == {t \in Tokens : pending[t] # NoAction}

Unexpired == {t \in Pending : ~Expired(pending[t])}

\* Mutant of Oldest: the comparison is the wrong way round.
Newest(S) == {t \in S : \A u \in S : pending[t].createdAt >= pending[u].createdAt}

Oldest(S) == {t \in S : \A u \in S : pending[t].createdAt <= pending[u].createdAt}

\* Mutants of Room: the limit is off by one; a full table is cleared.
RoomOffByOne(S) ==
  IF Cardinality(S) <= MaxPending THEN {S} ELSE {S \ {t} : t \in Oldest(S)}
RoomCleared(S) == IF Cardinality(S) < MaxPending THEN {S} ELSE {{}}

\* What is left of S once there is room for one more: eviction removes one
\* action, whichever of the oldest the map iteration meets first.
Room(S) == IF Cardinality(S) < MaxPending THEN {S} ELSE {S \ {t} : t \in Oldest(S)}

\* Mutant of Staged: the expiry is stored as the creation time.
StagedExpiry(agent, tool) == [agent |-> agent, tool |-> tool, createdAt |-> now + TTL]

Staged(agent, tool) == [agent |-> agent, tool |-> tool, createdAt |-> now]

\* Expired actions are purged first; t is a token never drawn before.
Stage(t, agent, tool) ==
  LET act == Staged(agent, tool)
  IN
  /\ issued[t] = NoAction
  /\ \E kept \in Room(Unexpired) :
       pending' = [u \in Tokens |-> IF u = t THEN act
                                    ELSE IF u \in kept THEN pending[u] ELSE NoAction]
  /\ issued' = [issued EXCEPT ![t] = act]
  /\ UNCHANGED <<now, approvals>>

SameAgent(staged, caller) ==
  staged = caller \/ staged = Anonymous \/ caller = Anonymous

\* Mutant of Verdict: any tool will do.
VerdictAnyTool(t, agent, tool) ==
  IF t \notin Pending THEN "unknown"
  ELSE IF Expired(pending[t]) THEN "expired"
  ELSE IF ~SameAgent(pending[t].agent, agent) THEN "wrong agent" ELSE "approved"

\* The checks of ValidateAndConsume, in their order.
Verdict(t, agent, tool) ==
  IF t \notin Pending THEN "unknown"
  ELSE IF Expired(pending[t]) THEN "expired"
  ELSE IF ~SameAgent(pending[t].agent, agent) THEN "wrong agent"
  ELSE IF pending[t].tool # tool THEN "wrong tool"
  ELSE "approved"

\* Mutant of Spent: an approved token stays until it expires.
SpentExpired(verdict) == verdict = "expired"

\* An expired or approved token leaves the table; after a mismatch the token
\* stays good for its owner.
Spent(verdict) == verdict \in {"expired", "approved"}

ValidateAndConsume(t, agent, tool) ==
  LET verdict == Verdict(t, agent, tool)
  IN
  /\ pending' = IF Spent(verdict)
                THEN [pending EXCEPT ![t] = NoAction] ELSE pending
  /\ approvals' = IF verdict = "approved"
                  THEN approvals \cup {[token |-> t, agent |-> agent, tool |-> tool, at |-> now]}
                  ELSE approvals
  /\ UNCHANGED <<now, issued>>

Tick ==
  /\ now < MaxTime
  /\ now' = now + 1
  /\ UNCHANGED <<pending, issued, approvals>>

HitlNext ==
  \/ \E t \in Tokens, agent \in Agents, tool \in Tools :
       Stage(t, agent, tool) \/ ValidateAndConsume(t, agent, tool)
  \/ Tick

HitlSpec == HitlInit /\ [][HitlNext]_hitlVars

-----------------------------------------------------------------------------
HitlTypeOK ==
  /\ pending \in [Tokens -> Actions \cup {NoAction}]
  /\ issued \in [Tokens -> Actions \cup {NoAction}]
  /\ now \in 0..MaxTime
  /\ approvals \subseteq [token : Tokens, agent : Agents, tool : Tools, at : 0..MaxTime]

ApprovedTokens == {a.token : a \in approvals}

\* The table never outgrows its limit, expired entries included.
PendingBounded == Cardinality(Pending) <= MaxPending

\* Every approval answers one staged action: of the same tool, by an agent
\* compatible with the one that staged it, within the life of the token, and
\* no token is answered twice.
ApprovalsSound ==
  \A a \in approvals :
    /\ issued[a.token] # NoAction
    /\ a.tool = issued[a.token].tool
    /\ SameAgent(issued[a.token].agent, a.agent)
    /\ a.at \in issued[a.token].createdAt .. (issued[a.token].createdAt + TTL)
    /\ \A b \in approvals : b.token = a.token => b = a

DisplacedOnlyOldest ==
  \A t \in Unexpired :
    pending'[t] = NoAction /\ t \notin ApprovedTokens' =>
      /\ Cardinality(Unexpired) = MaxPending
      /\ \A u \in Pending \cap Pending' :
           pending[t].createdAt <= pending[u].createdAt

\* A token is lost before its time only to make room: the table was full of
\* actions still valid, and none of those kept is older.
DisplacedOldest == [][DisplacedOnlyOldest]_hitlVars

\* The message the handler sends with a token: it "is valid for 15 minutes".
ValidForTTL ==
  \A t \in Tokens :
    issued[t] # NoAction /\ t \notin ApprovedTokens /\ ~Expired(issued[t]) => t \in Pending

\* The manager implements the life cycle of tickets.
Status(t) ==
  IF t \in ApprovedTokens THEN "used"
  ELSE IF t \in Unexpired THEN "live"
  ELSE IF issued[t] # NoAction THEN "void" ELSE "fresh"

Tickets == INSTANCE ApprovalTickets WITH
  Tickets <- Tokens, Capacity <- MaxPending,
  status <- [t \in Tokens |-> Status(t)]

TicketSpec == Tickets!Spec
=============================================================================
