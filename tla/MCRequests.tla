----------------------------- MODULE MCRequests -----------------------------
(***************************************************************************)
(* The requests TLC sends: every mix of headers with fixed arguments, and  *)
(* every small tree of arguments in a fixed request.                       *)
(***************************************************************************)
EXTENDS Requests

SomeAuths ==
  {[enabled |-> FALSE, allowQueryToken |-> FALSE, bearerToken |-> ""],
   [enabled |-> TRUE, allowQueryToken |-> FALSE, bearerToken |-> "right"],
   [enabled |-> TRUE, allowQueryToken |-> TRUE, bearerToken |-> "right"]}

Bot == <<"bot">>
Ops == <<"ops">>
Team == <<"team", "bot">>

SomeParts == {"", "anonymous", Fresh, "bot", "ops", "team", "1", "2"}

\* One request of each kind: where it goes and what it posts.
Target(path, body, mcpHeader) == [path |-> path, body |-> body, mcpHeader |-> mcpHeader]

Stream == Target("/sse", "none", FALSE)

Targets ==
  {Stream, Target("/sse", "none", TRUE), Target("/sse", "call", TRUE),
   Target("/sse", "initialize", FALSE), Target("/mcp", "initialize", FALSE),
   Target("/mcp", "call", TRUE), Target("/message", "call", FALSE)}

\* What it says of its token, and of its agent.
Tokens ==
  [scheme : {"none", "bearer"}, token : {"", "right", "wrong"}, queryToken : {"", "right", "wrong"}]

NoToken == [scheme |-> "none", token |-> "", queryToken |-> ""]
Bearer == [scheme |-> "bearer", token |-> "right", queryToken |-> ""]

Agents ==
  [agentHeader : {Empty, Anonymous, Bot, Team}, agentQuery : {Empty, Ops}, agentIdQuery : {Empty, Bot},
   localPeer : {Empty, Ops}, sessionHeader : {Empty, <<"bot", "1">>, <<"ops", "2">>}]

NoSession == {ag \in Agents : ag.sessionHeader = Empty}

TheBot ==
  [agentHeader |-> Bot, agentQuery |-> Empty, agentIdQuery |-> Empty, localPeer |-> Empty,
   sessionHeader |-> Empty]
SomeAgents ==
  {[TheBot EXCEPT !.agentHeader = Empty], [TheBot EXCEPT !.agentHeader = Team]}

AuthOff == [enabled |-> FALSE, allowQueryToken |-> FALSE, bearerToken |-> ""]

-----------------------------------------------------------------------------
Keys == {"branch", "content", "token"}
Contents == {"content"}
Secrets == {"token"}
SecretValues == {<<"ghp_0">>}

\* The tree of a value that has the given trees under it, by steps.
Tree(node, under) ==
  [p \in {<< >>} \cup UNION {{<<st>> \o q : q \in DOMAIN under[st]} : st \in DOMAIN under} |->
     IF p = << >> THEN node ELSE under[Head(p)][Tail(p)]]

Leaves ==
  {Tree(node, << >>) :
     node \in {Text(<<"refs", "main">>), Text(<<"main", "fix">>), Text(<<"ghp_0">>), Other}}

\* Objects of at most `n` fields, and lists of at most `n` items.
Objects(values, n) ==
  {Tree(Object, f) : f \in UNION {[Fields(ks) -> values] : ks \in {s \in SUBSET Keys : Cardinality(s) <= n}}}
Lists(values, n) ==
  {Tree(List, l) : l \in UNION {[{Item(j) : j \in 1..i} -> values] : i \in 0..n}}

Flat == Leaves \cup Objects(Leaves, 1) \cup Lists(Leaves, 2)
Nested == Flat \cup Objects(Flat, 1) \cup Lists(Flat, 1)

Trees == Objects(Flat, 2) \cup Objects(Nested, 1)

NoArgs == Tree(Object, << >>)

Request(target, token, agent) == target @@ token @@ agent
Posted == Target("/message", "call", FALSE)

Input(auth, http, opener, args) ==
  [auth |-> auth, http |-> http, opener |-> Request(Stream, Bearer, opener), args |-> args]

\* Every token on a stream; every agent on every kind of request; every agent as
\* the opener of the stream a call is posted to; every tree in a call.
SomeInputs ==
  {Input(au, Request(Stream, tok, ag), TheBot, NoArgs) :
     au \in SomeAuths, tok \in Tokens, ag \in SomeAgents}
    \cup {Input(AuthOff, Request(tg, NoToken, ag), TheBot, NoArgs) : tg \in Targets, ag \in Agents}
    \cup {Input(AuthOff, Request(Posted, NoToken, ag), op, NoArgs) :
            ag \in SomeAgents, op \in NoSession}
    \cup {Input(AuthOff, Request(Posted, NoToken, TheBot), TheBot, t) : t \in Trees}
=============================================================================
