------------------------------ MODULE Identity ------------------------------
(***************************************************************************)
(* Who a request comes from: the token AuthMiddleware looks for (auth.go), *)
(* and the agent behind a request, a session and a call                    *)
(* (SessionIDExtractor, ExtractAgentID and CreateToolHandler of router.go). *)
(*                                                                         *)
(* An agent or session identifier is the sequence of its parts between     *)
(* colons: bot:123 is <<"bot", "123">>, and the empty one is <<"">>.       *)
(***************************************************************************)
EXTENDS Integers, SequencesExt

Empty == <<"">>
Anonymous == <<"anonymous">>
Fresh == "uuid"        \* uuid.New

-----------------------------------------------------------------------------
\* Mutant of TokenOf: the query is asked whenever it is allowed.
TokenOfEither(auth, http) ==
  IF auth.allowQueryToken /\ http.queryToken # "" THEN http.queryToken
  ELSE IF http.scheme = "bearer" THEN http.token ELSE ""

\* The token of the Authorization header, if its scheme is Bearer, else of the
\* query, if that is allowed; "" for none.
TokenOf(auth, http) ==
  IF http.scheme = "bearer" THEN http.token
  ELSE IF auth.allowQueryToken THEN http.queryToken ELSE ""

Authorized(auth, http) ==
  auth.enabled => TokenOf(auth, http) # "" /\ TokenOf(auth, http) = auth.bearerToken

-----------------------------------------------------------------------------
ExtractAgentID(sessionID) ==
  IF Len(sessionID) > 1 /\ sessionID[1] # "" THEN <<sessionID[1]>> ELSE sessionID

ClaimedAgent(http) ==
  IF http.agentHeader # Empty THEN http.agentHeader
  ELSE IF http.agentQuery # Empty THEN http.agentQuery
  ELSE http.agentIdQuery

\* A caller on the same machine that claims no name is looked up by its socket.
AgentOf(http) ==
  LET claimed == ClaimedAgent(http) IN
  IF claimed \in {Empty, Anonymous} /\ http.localPeer # Empty THEN http.localPeer
  ELSE IF claimed = Empty THEN Anonymous ELSE claimed

\* Mutant of Continues: any session identifier is taken over.
ContinuesAny(http, agent) == http.sessionHeader # Empty

\* The request names a session of the same agent.
Continues(http, agent) ==
  IsPrefix(agent, http.sessionHeader) /\ Len(http.sessionHeader) > Len(agent)

SessionIDExtractor(http) ==
  LET agent == AgentOf(http) IN
  IF Continues(http, agent) THEN http.sessionHeader ELSE Append(agent, Fresh)

\* Whom the handler takes the call for.  A tool registered for the session was
\* bound to its agent then, a global one to nobody.
TargetAgent(bound, sid) ==
  LET extracted == ExtractAgentID(sid) IN
  IF bound \notin {Empty, Anonymous} THEN bound
  ELSE IF extracted \notin {Empty, Anonymous} THEN extracted
  ELSE Anonymous
=============================================================================
