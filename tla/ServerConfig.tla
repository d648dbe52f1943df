---------------------------- MODULE ServerConfig ----------------------------
(***************************************************************************)
(* One entry of the "servers" section of the configuration file: the       *)
(* ServerConfig struct of config.go and the methods the router asks it.    *)
(* A configuration is a record with one field for each kind of field the   *)
(* struct has:                                                             *)
(*   settings       Timeout, Command, URL, Prefix, Args, EnvInherit: an    *)
(*                  opaque value, since the code compares scalars with !=  *)
(*                  and lists element by element                           *)
(*   agents         AllowedAgents, a sequence of agents                    *)
(*   transport      "stdio", "streamable_http" or "sse"                    *)
(*   github         GetType(name) = "github"                               *)
(*   maxConcurrent  MaxConcurrent as written in the file, 0 when omitted   *)
(*   env, headers   the two map[string]string fields, functions from a     *)
(*                  finite set of keys                                     *)
(*   tools          ToolsAllowlist, a sequence of tool names               *)
(*   agentTools     AgentToolsAllowlist, a function from agents to such    *)
(*                  sequences                                              *)
(***************************************************************************)
EXTENDS Integers, Sequences, FiniteSets

CONSTANT DefaultMaxConcurrent   \* 50 in the code

ASSUME DefaultAssumption == DefaultMaxConcurrent \in Nat \ {0}

\* Indexing a Go map[string]string: the zero value for a key that is absent.
MapLookup(m, k) == IF k \in DOMAIN m THEN m[k] ELSE ""

\* How Equal compares Env and Headers: the lengths, then every entry of the
\* first map with what indexing the second map gives.
SameStringMap(m, o) ==
  /\ Cardinality(DOMAIN m) = Cardinality(DOMAIN o)
  /\ \A k \in DOMAIN m : MapLookup(o, k) = m[k]

\* AgentToolsAllowlist is compared with the two-value form of the index.
SameListMap(m, o) ==
  /\ Cardinality(DOMAIN m) = Cardinality(DOMAIN o)
  /\ \A a \in DOMAIN m : a \in DOMAIN o /\ o[a] = m[a]

\* Mutant of Equal: the scalar fields are forgotten.
EqualMaps(s, o) ==
  SameStringMap(s.env, o.env) /\ SameStringMap(s.headers, o.headers) /\ s.tools = o.tools

Equal(s, o) ==
  /\ s.settings = o.settings
  /\ s.agents = o.agents
  /\ s.transport = o.transport
  /\ s.github = o.github
  /\ s.maxConcurrent = o.maxConcurrent
  /\ SameStringMap(s.env, o.env)
  /\ SameStringMap(s.headers, o.headers)
  /\ s.tools = o.tools
  /\ SameListMap(s.agentTools, o.agentTools)

\* The capacity NewMultiplexer and Reload give the semaphore channel.
Capacity(c) ==
  IF c.maxConcurrent <= 0 THEN DefaultMaxConcurrent ELSE c.maxConcurrent

\* The agents a backend is for, as the session hook and the filter ask it: an
\* empty list is for all.
AgentListed(c, agent) ==
  c.agents = << >> \/ \E i \in DOMAIN c.agents : c.agents[i] = agent

\* The list in force for an agent: its own when the map has one, even an
\* empty one, else the backend's.
GetToolsAllowlistForAgent(c, agent) ==
  IF agent \in DOMAIN c.agentTools THEN c.agentTools[agent] ELSE c.tools

\* The guard of the tool handler: an empty list restricts nothing.  A tool name
\* stands for every spelling isToolAllowed takes for it, which folds the case
\* and forgives the backend's prefix.
IsToolAllowed(c, tool, agent) ==
  LET list == GetToolsAllowlistForAgent(c, agent)
  IN  list = << >> \/ \E i \in DOMAIN list : list[i] = tool

-----------------------------------------------------------------------------
\* No map entry has the empty string for value.
NoEmptyValue(c) ==
  /\ \A k \in DOMAIN c.env : c.env[k] # ""
  /\ \A k \in DOMAIN c.headers : c.headers[k] # ""
=============================================================================
