------------------------------ MODULE Requests ------------------------------
(***************************************************************************)
(* The way of one HTTP request through the functions that keep no state:   *)
(* AuthMiddleware, the routes of main.go, the session it opens or the one  *)
(* it belongs to, and, for a call of a tool that writes to a branch, the   *)
(* branch guard and what the audit log is given (ToolCalls has the rest of *)
(* the handler).  An event's arguments are decoded JSON, so that encoding  *)
(* it again does not fail.                                                 *)
(*                                                                         *)
(* Of the two servers of the MCP library, the SSE server asks              *)
(* SessionIDExtractor for the identifier of a stream it opens, and takes a *)
(* message posted to /message for the session its query names; the         *)
(* streamable one asks its session id manager to Generate an identifier    *)
(* for a posted initialize, and to Validate the one any other request      *)
(* presents.                                                               *)
(***************************************************************************)
EXTENDS Arguments, Identity

CONSTANTS
  Inputs,      \* the requests, with the configuration and the arguments
  Parts        \* the parts of identifiers

VARIABLES
  input,     \* the request, what it meets, and the request that opened the
             \* stream a message is posted to
  step,      \* how far it has come
  session,   \* the identifier of its session
  hit,       \* the address of the match findForbiddenBranch returned
  event      \* the audit event logged for it

vars == <<input, step, session, hit, event>>

None == << >>

\* Identifiers, what a request says of itself, and the auth section of the
\* configuration, where Validate refuses an empty token.
Ids == Seq(Parts) \ {<< >>}

Https ==
  [path : {"/sse", "/message", "/mcp"},
   body : {"none", "initialize", "call"},    \* none: not a POST
   mcpHeader : BOOLEAN,                      \* Mcp-Protocol-Version or Mcp-Method
   scheme : {"none", "bearer"}, token : STRING, queryToken : STRING,
   agentHeader : Ids, agentQuery : Ids, agentIdQuery : Ids, localPeer : Ids,
   sessionHeader : Ids]

Auths ==
  {a \in [enabled : BOOLEAN, allowQueryToken : BOOLEAN, bearerToken : STRING] :
     a.enabled => a.bearerToken # ""}

\* Which of the two servers SetupHandler gives a request to.
IsStreamable(http) ==
  \/ http.path = "/mcp"
  \/ http.path = "/sse" /\ (http.body # "none" \/ http.mcpHeader \/ http.sessionHeader # Empty)

IsStream(http) == http.path = "/sse" /\ ~IsStreamable(http)

IsInitialize(http) == IsStreamable(http) /\ http.body = "initialize"

ASSUME InputsAssumption ==
  /\ {"", "anonymous", Fresh} \subseteq Parts
  /\ \A in \in Inputs :
       /\ in.auth \in Auths /\ in.http \in Https /\ in.opener \in Https
       /\ IsStream(in.opener) /\ Authorized(in.auth, in.opener)
       /\ ArgumentTree(in.args)

Init ==
  /\ input \in Inputs
  /\ step = "received"
  /\ session = None /\ hit = None /\ event = None

-----------------------------------------------------------------------------
(* AuthMiddleware.                                                         *)
Admit ==
  /\ step = "received"
  /\ Authorized(input.auth, input.http)
  /\ step' = "admitted"
  /\ UNCHANGED <<input, session, hit, event>>

\* Mutant of Refuse: nothing is logged.
RefuseSilently ==
  /\ step = "received"
  /\ ~Authorized(input.auth, input.http)
  /\ step' = "refused"
  /\ UNCHANGED <<input, session, hit, event>>

\* The agent on record is the one the header claims.
Refuse ==
  /\ step = "received"
  /\ ~Authorized(input.auth, input.http)
  /\ step' = "refused"
  /\ event' = [type |-> "SECURITY_BLOCK", args |-> {},
               agent |-> IF input.http.agentHeader = Empty THEN <<"unknown">>
                         ELSE input.http.agentHeader]
  /\ UNCHANGED <<input, session, hit>>

-----------------------------------------------------------------------------
\* RouterSessionIdManager.Generate, for the agent the resolver saw.
Generate(http) == Append(ExtractAgentID(SessionIDExtractor(http)), Fresh)

\* A stream, or a posted initialize: a new session.
Open ==
  /\ step = "admitted"
  /\ \/ IsStream(input.http) /\ session' = SessionIDExtractor(input.http)
     \/ IsInitialize(input.http) /\ session' = Generate(input.http)
  /\ step' = "opened"
  /\ UNCHANGED <<input, hit, event>>

\* A call in the session of a stream; or, on the streamable server, in whichever
\* session it presents: Validate refuses none, the missing one included, and
\* compares none with the agent of the request.
Join ==
  /\ step = "admitted"
  /\ input.http.body = "call"
  /\ \/ input.http.path = "/message" /\ session' = SessionIDExtractor(input.opener)
     \/ IsStreamable(input.http) /\ session' = input.http.sessionHeader
  /\ step' = "identified"
  /\ UNCHANGED <<input, hit, event>>

-----------------------------------------------------------------------------
(* The call: the branch guard, and the event, whose arguments LogAuditEvent *)
(* sanitizes.                                                               *)
Logged(type, agent) ==
  [type |-> type, args |-> SanitizeArguments(input.args), agent |-> agent]

Bounds == {Empty, ExtractAgentID(session)}

Block ==
  /\ step = "identified"
  /\ hit' \in ForbiddenBranches(input.args)
  /\ \E bound \in Bounds : event' = Logged("SECURITY_BLOCK", TargetAgent(bound, session))
  /\ step' = "blocked"
  /\ UNCHANGED <<input, session>>

Perform ==
  /\ step = "identified"
  /\ ForbiddenBranches(input.args) = {}
  /\ \E bound \in Bounds : event' = Logged("STATE_CHANGE", TargetAgent(bound, session))
  /\ step' = "performed"
  /\ UNCHANGED <<input, session, hit>>

Next == Admit \/ Refuse \/ Open \/ Join \/ Block \/ Perform

Spec == Init /\ [][Next]_vars

-----------------------------------------------------------------------------
\* A request that is refused, and a call that is over, leave one event.
RequestsTypeOK ==
  /\ step \in {"received", "admitted", "opened", "identified", "refused", "blocked", "performed"}
  /\ (step \in {"refused", "blocked", "performed"}) <=> (event # None)
  /\ (step = "blocked") <=> (hit # None)
  /\ (step \in {"opened", "identified", "blocked", "performed"}) <=> (session # None)

\* Unless the configuration allows it, and also when there is a Bearer header,
\* what the query says about a token makes no difference.
QueryTokenIgnored ==
  \A q \in {"", input.auth.bearerToken} :
    ~input.auth.allowQueryToken \/ input.http.scheme = "bearer" =>
      (step = "refused" => ~Authorized(input.auth, [input.http EXCEPT !.queryToken = q]))

\* The first name a request gives, in the order of the sources.
Names(http) == <<http.agentHeader, http.agentQuery, http.agentIdQuery>>

Caller(http) ==
  LET given == {i \in 1..3 : Names(http)[i] # Empty}
      name  == IF given = {} THEN Anonymous
               ELSE Names(http)[CHOOSE i \in given : \A j \in given : i <= j]
  IN  IF name = Anonymous /\ http.localPeer # Empty THEN http.localPeer ELSE name

\* The sessions the router itself names: a stream, and what is posted to it, and
\* the session of an initialize.
OwnSession ==
  session # None /\ (input.http.path = "/message" \/ IsStream(input.http) \/ IsInitialize(input.http))

Opener == IF input.http.path = "/message" THEN input.opener ELSE input.http

AgentOfSession ==
  IF ExtractAgentID(session) = Empty THEN Anonymous ELSE ExtractAgentID(session)

\* A session the router opens is its opener's, whatever identifier the opener
\* presents: of the opener's name it keeps what comes before the first colon,
\* which is all of a name without one.  (A name that begins with a colon is left
\* out: no agent's name can be told from it.)  And the events of a call carry the
\* agent of its session, whoever the tool was bound to; for a message to a
\* stream that is the opener's name.  A streamable call is taken for the agent
\* its identifier names; that this is the caller's is not claimed, nor does the
\* code see to it.
SessionIsOpeners ==
  LET name == Caller(Opener)[1] IN
  /\ OwnSession /\ name # "" => ExtractAgentID(session) = <<name>>
  /\ step \in {"blocked", "performed"} => event.agent = AgentOfSession

\* The guard lets a call through exactly when no text of its arguments names a
\* protected branch, however deep it is, outside the keys that hold contents;
\* the match it reports is one of those texts.
BranchGuardExact ==
  LET args  == input.args
      named == {p \in DOMAIN args :
                  /\ args[p].kind = "text" /\ IsForbiddenBranchValue(args[p].content)
                  /\ ~Under(p, ContentKeys, 0)}
  IN  /\ step = "performed" => named = {}
      /\ step = "blocked" => hit \in named

\* What the log shows of a value it should show.
Shown(v) == IF v.kind = "text" /\ v.content \in SecretTexts THEN RedactedValue ELSE v

\* The arguments on record have the shape of the call's, with every value of a
\* sensitive key and every sensitive text hidden, at any depth, and nothing else.
RedactionExact ==
  step \in {"blocked", "performed"} =>
    event.args =
      {<<p, IF Under(p, SecretKeys, 0) THEN Redacted ELSE Shown(input.args[p])>> :
         p \in {q \in DOMAIN input.args : ~Under(q, SecretKeys, 1)}}
=============================================================================
