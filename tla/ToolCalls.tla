----------------------------- MODULE ToolCalls ------------------------------
(***************************************************************************)
(* CreateToolHandler (router.go): the calls of tools that run concurrently *)
(* over the backends of Multiplexer and the approvals of Hitl.  A call     *)
(* looks its backend up once and keeps the pointer: it queues on that      *)
(* backend's semaphore, passes the guards its configuration sets, and uses *)
(* its client, whatever a reload does to the map meanwhile.                *)
(*                                                                         *)
(* Every step takes at most one of the shared objects: the map's read      *)
(* lock, the semaphore, the approval manager's mutex, the client.          *)
(***************************************************************************)
EXTENDS Multiplexer, Hitl

CONSTANTS
  Calls,              \* tool calls the clients make, once each
  Requests,           \* what a call may ask
  MergeTool,          \* "merge_pull_request"
  DeployTools,        \* tools the deploy guard recognises
  BranchTools,        \* tools that write to a branch
  StateChangingTools  \* IsStateChangingTool

\* A tool stands for a name and what the deploy guard reads of its arguments;
\* onProtected: an argument names a protected branch (findForbiddenBranch).
ASSUME CallAssumption ==
  /\ Requests \subseteq [server : Names, tool : Tools, agent : Agents, onProtected : BOOLEAN]
  /\ Nil \notin Tokens

VARIABLES
  pc,         \* where the call's goroutine stands
  req,        \* the request, Nil before it arrives
  backendOf,  \* the handler's local backend
  slots,      \* len(Backend.Semaphore), by backend
  ticket,     \* history: the token the call consumed, or Nil
  performed,  \* history: the remote server has run the tool for this call
  outcome,    \* how the handler returned
  audit       \* history: the types of the events the call logged

callVars == <<pc, req, backendOf, slots, ticket, performed, outcome, audit>>
vars == <<muxVars, hitlVars, callVars>>

Init ==
  /\ MuxInit /\ HitlInit
  /\ pc = [c \in Calls |-> "idle"]
  /\ req = [c \in Calls |-> Nil]
  /\ backendOf = [c \in Calls |-> Nil]
  /\ slots = [p \in Ptr |-> 0]
  /\ ticket = [c \in Calls |-> Nil]
  /\ performed = [c \in Calls |-> FALSE]
  /\ outcome = [c \in Calls |-> Nil]
  /\ audit = [c \in Calls |-> << >>]

-----------------------------------------------------------------------------
(* What the guards ask of a call.                                          *)
Cfg(c) == config[backendOf[c]]

\* The only use of the agent's identity before the approval gate: the list of
\* agents in the configuration, which AgentListed reads, is not asked here.
Allowed(c) == IsToolAllowed(Cfg(c), req[c].tool, req[c].agent)

Gated(c) ==
  \/ Cfg(c).github /\ req[c].tool = MergeTool
  \/ req[c].tool \in DeployTools

Forbidden(c) == Cfg(c).github /\ req[c].tool \in BranchTools /\ req[c].onProtected

-----------------------------------------------------------------------------
Goto(c, label) == pc' = [pc EXCEPT ![c] = label]

Log(c, events) == audit' = [audit EXCEPT ![c] = @ \o events]

\* The handler returns.
Return(c, result, events) ==
  /\ Goto(c, "done")
  /\ outcome' = [outcome EXCEPT ![c] = result]
  /\ Log(c, events)

\* Mutants of Release: the backend is looked up again; nothing is deferred.
ReleaseByName(c) == slots' = [slots EXCEPT ![backends[req[c].server]] = @ - 1]
ReleaseNone(c) == UNCHANGED slots

\* The deferred receive from the semaphore channel.
Release(c) == slots' = [slots EXCEPT ![backendOf[c]] = @ - 1]

ReturnAndRelease(c, result, events) ==
  /\ Return(c, result, events)
  /\ Release(c)
  /\ UNCHANGED <<req, backendOf, ticket, performed>>

(***************************************************************************)
(* The request arrives and GetBackend looks the name up.                   *)
(***************************************************************************)
Listening == phase \in {"serving", "preparing", "retiring"}

Unavailable(c, r) ==
  /\ pc[c] = "idle" /\ Listening
  /\ backends[r.server] = Nil
  /\ req' = [req EXCEPT ![c] = r]
  /\ Return(c, "unavailable", <<"TOOL_ERROR">>)
  /\ UNCHANGED <<muxVars, hitlVars, backendOf, slots, ticket, performed>>

Arrive(c, r) ==
  /\ pc[c] = "idle" /\ Listening
  /\ backends[r.server] # Nil
  /\ req' = [req EXCEPT ![c] = r]
  /\ backendOf' = [backendOf EXCEPT ![c] = backends[r.server]]
  /\ Goto(c, "queued")
  /\ UNCHANGED <<muxVars, hitlVars, slots, ticket, performed, outcome, audit>>

(***************************************************************************)
(* The select over the semaphore, the timer of 15 s and the request's      *)
(* context.  Go picks any of the ready cases.                              *)
(***************************************************************************)
Acquire(c) ==
  /\ pc[c] = "queued"
  /\ slots[backendOf[c]] < Capacity(Cfg(c))
  /\ slots' = [slots EXCEPT ![backendOf[c]] = @ + 1]
  /\ Goto(c, "guard")
  /\ UNCHANGED <<muxVars, hitlVars, req, backendOf, ticket, performed, outcome, audit>>

\* Mutant of QueueTimeout: the release is deferred before the select.
QueueTimeoutReleases(c) ==
  /\ pc[c] = "queued"
  /\ ReturnAndRelease(c, "overloaded", <<"TOOL_ERROR">>)
  /\ UNCHANGED <<muxVars, hitlVars>>

QueueTimeout(c) ==
  /\ pc[c] = "queued"
  /\ Return(c, "overloaded", <<"TOOL_ERROR">>)
  /\ UNCHANGED <<muxVars, hitlVars, req, backendOf, slots, ticket, performed>>

Cancel(c) ==
  /\ pc[c] = "queued"
  /\ Return(c, "cancelled", << >>)
  /\ UNCHANGED <<muxVars, hitlVars, req, backendOf, slots, ticket, performed>>

(***************************************************************************)
(* The guards, in the handler's order: the allowlist, the approval gate,   *)
(* the protected branches, the nil client.                                 *)
(***************************************************************************)
Deny(c) ==
  /\ pc[c] = "guard"
  /\ ~Allowed(c)
  /\ ReturnAndRelease(c, "denied", <<"SECURITY_BLOCK">>)
  /\ UNCHANGED <<muxVars, hitlVars>>

AtGate(c) == pc[c] = "guard" /\ Allowed(c) /\ Gated(c)

\* No token with the request, or no hitl_approved: the action is staged.
StageAction(c, t) ==
  /\ AtGate(c)
  /\ Stage(t, req[c].agent, req[c].tool)
  /\ ReturnAndRelease(c, "staged", <<"SECURITY_BLOCK">>)
  /\ UNCHANGED muxVars

RejectToken(c, t) ==
  /\ AtGate(c)
  /\ Verdict(t, req[c].agent, req[c].tool) # "approved"
  /\ ValidateAndConsume(t, req[c].agent, req[c].tool)
  /\ ReturnAndRelease(c, "rejected", <<"SECURITY_BLOCK">>)
  /\ UNCHANGED muxVars

AcceptToken(c, t) ==
  /\ AtGate(c)
  /\ Verdict(t, req[c].agent, req[c].tool) = "approved"
  /\ ValidateAndConsume(t, req[c].agent, req[c].tool)
  /\ ticket' = [ticket EXCEPT ![c] = t]
  /\ Goto(c, "cleared")
  /\ Log(c, <<"STATE_CHANGE">>)
  /\ UNCHANGED <<muxVars, req, backendOf, slots, performed, outcome>>

\* Mutant of Cleared: without a gate, the allowlist is not asked.
ClearedUnlisted(c) == pc[c] = "cleared" \/ (pc[c] = "guard" /\ ~Gated(c))

\* Past the gate, or with nothing to pass.
Cleared(c) ==
  \/ pc[c] = "cleared"
  \/ pc[c] = "guard" /\ Allowed(c) /\ ~Gated(c)

BlockBranch(c) ==
  /\ Cleared(c)
  /\ Forbidden(c)
  /\ ReturnAndRelease(c, "branch blocked", <<"SECURITY_BLOCK">>)
  /\ UNCHANGED <<muxVars, hitlVars>>

Disconnected(c) ==
  /\ Cleared(c) /\ ~Forbidden(c)
  /\ ~client[backendOf[c]]
  /\ ReturnAndRelease(c, "disconnected", <<"TOOL_ERROR">>)
  /\ UNCHANGED <<muxVars, hitlVars>>

Dispatch(c) ==
  /\ Cleared(c) /\ ~Forbidden(c)
  /\ client[backendOf[c]]
  /\ Goto(c, "calling")
  /\ UNCHANGED <<muxVars, hitlVars, req, backendOf, slots, ticket, performed, outcome, audit>>

(***************************************************************************)
(* safeCallTool.  The remote server runs the tool while its connection     *)
(* lasts; what the handler makes of it depends on the answer, an error of  *)
(* the transport, or the deadline, which wins over a late answer.          *)
(***************************************************************************)
Perform(c) ==
  /\ pc[c] = "calling" /\ ~performed[c]
  /\ conn[backendOf[c]] = "open"
  /\ performed' = [performed EXCEPT ![c] = TRUE]
  /\ UNCHANGED <<muxVars, hitlVars, pc, req, backendOf, slots, ticket, outcome, audit>>

Succeed(c) ==
  /\ pc[c] = "calling" /\ performed[c]
  /\ ReturnAndRelease(c, "ok", IF req[c].tool \in StateChangingTools
                              THEN <<"STATE_CHANGE">> ELSE << >>)
  /\ UNCHANGED <<muxVars, hitlVars>>

\* Mutants of Fail: no deadline on the call; the error is not logged.
FailAnswered(c) ==
  /\ pc[c] = "calling" /\ performed[c]
  /\ ReturnAndRelease(c, "error", <<"TOOL_ERROR">>)
  /\ UNCHANGED <<muxVars, hitlVars>>
FailUnaudited(c) ==
  /\ pc[c] = "calling"
  /\ ReturnAndRelease(c, "error", << >>)
  /\ UNCHANGED <<muxVars, hitlVars>>

\* A result with IsError, a nil result, an error of the call (an RPC error, a
\* closed or dead transport, a cancelled context), or the deadline.
Fail(c) ==
  /\ pc[c] = "calling"
  /\ \E result \in {"tool error", "error", "timed out"} :
       /\ result = "tool error" => performed[c]
       /\ ReturnAndRelease(c, result, <<"TOOL_ERROR">>)
  /\ UNCHANGED <<muxVars, hitlVars>>

-----------------------------------------------------------------------------
Gate(c) ==
  \E t \in Tokens : StageAction(c, t) \/ RejectToken(c, t) \/ AcceptToken(c, t)

Guards(c) == Deny(c) \/ Gate(c) \/ BlockBranch(c) \/ Disconnected(c) \/ Dispatch(c)

Step(c) ==
  \/ \E r \in Requests : Unavailable(c, r) \/ Arrive(c, r)
  \/ Acquire(c) \/ QueueTimeout(c) \/ Cancel(c)
  \/ Guards(c)
  \/ Perform(c) \/ Succeed(c) \/ Fail(c)

MuxStep == MuxNext /\ UNCHANGED <<hitlVars, callVars>>

ClockStep == Tick /\ UNCHANGED <<muxVars, callVars>>

Next == (\E c \in Calls : Step(c)) \/ MuxStep \/ ClockStep

Spec == Init /\ [][Next]_vars

(***************************************************************************)
(* The queue's timer and the call's deadline always fire, and a goroutine  *)
(* past the queue is never blocked before the call.  No slot is promised   *)
(* to a queued call, and no answer to a dispatched one.                    *)
(***************************************************************************)
Fairness ==
  \A c \in Calls :
    /\ WF_vars(QueueTimeout(c))
    /\ WF_vars(Guards(c))
    /\ WF_vars(Fail(c))

FairSpec == Spec /\ Fairness

-----------------------------------------------------------------------------
InProgress(c) == pc[c] \in {"queued", "guard", "cleared", "calling"}

Holders(p) == {c \in Calls : pc[c] \in {"guard", "cleared", "calling"} /\ backendOf[c] = p}

Outcomes == {"unavailable", "overloaded", "cancelled", "denied", "staged", "rejected",
             "branch blocked", "disconnected", "ok", "tool error", "error", "timed out"}

TypeOK ==
  /\ MuxTypeOK /\ HitlTypeOK
  /\ pc \in [Calls -> {"idle", "queued", "guard", "cleared", "calling", "done"}]
  /\ req \in [Calls -> Requests \cup {Nil}]
  /\ backendOf \in [Calls -> Ptr \cup {Nil}]
  /\ slots \in [Ptr -> Nat]
  /\ ticket \in [Calls -> Tokens \cup {Nil}]
  /\ performed \in [Calls -> BOOLEAN]
  /\ outcome \in [Calls -> Outcomes \cup {Nil}]
  /\ audit \in [Calls -> Seq({"TOOL_ERROR", "SECURITY_BLOCK", "STATE_CHANGE"})]

\* Every slot taken is held by one call in progress, so none leaks on any of
\* the handler's returns, and no backend ever has more calls than its limit,
\* the backends a reload has retired included.
SlotsAccounted ==
  \A p \in Ptr :
    /\ slots[p] = Cardinality(Holders(p))
    /\ slots[p] > 0 => slots[p] <= Capacity(config[p])

\* A merge or deploy that reaches a remote server was approved: its call
\* consumed a token issued for that tool, and no other call has that token.
GatedApproved ==
  \A c \in Calls : performed[c] /\ Gated(c) =>
    /\ ticket[c] \in ApprovedTokens
    /\ issued[ticket[c]].tool = req[c].tool
    /\ \A d \in Calls \ {c} : ticket[d] # ticket[c]

\* A tool is run only past the handler's own two guards, the tools' allowlist
\* for the agent and the protected branches, as the configuration of the backend
\* that runs it sets them and whatever configuration is in force by then.  Not
\* among them is that configuration's list of agents: see AgentsRestricted.
GuardsHonoured ==
  \A c \in Calls : performed[c] => Allowed(c) /\ ~Forbidden(c)

\* No silent effect: when a call of a state-changing tool is over and the
\* remote server ran it, the audit log has a record of that call, and if the
\* client was told it succeeded the record says STATE_CHANGE.
EffectsAudited ==
  \A c \in Calls : pc[c] = "done" /\ performed[c] /\ req[c].tool \in StateChangingTools =>
    /\ audit[c] # << >>
    /\ outcome[c] = "ok" => audit[c][Len(audit[c])] = "STATE_CHANGE"

\* What holds of "zero dropped calls" (Reload's doc comment): until shutdown the
\* router closes a client under a call in flight only when a reload has taken
\* the call's backend out of the map.
DroppedOnlyReplaced ==
  phase # "stopped" =>
    \A c \in Calls : pc[c] = "calling" /\ backendOf[c] \in Current =>
      client[backendOf[c]] /\ conn[backendOf[c]] # "closed"

\* config.example.yaml:39: "allowed_agents: Restrict entire backend to specific
\* agent IDs".  A backend runs tools for the agents of its list only.
AgentsRestricted ==
  \A c \in Calls : performed[c] => AgentListed(Cfg(c), req[c].agent)

\* Every call that has started returns to its client, unless the process stops.
CallsEnd == \A c \in Calls : InProgress(c) ~> (pc[c] = "done" \/ phase = "stopped")

\* The doc comment of Reload: "zero dropped calls".  The router never closes
\* the client of a call in flight before it shuts down.
NoDroppedCalls ==
  phase # "stopped" =>
    \A c \in Calls : pc[c] = "calling" => conn[backendOf[c]] # "closed"
=============================================================================
