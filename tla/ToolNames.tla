----------------------------- MODULE ToolNames ------------------------------
(***************************************************************************)
(* The names under which the router publishes the tools of its backends,   *)
(* and the rules of config.go about prefixes.                              *)
(*                                                                         *)
(* A name is the sequence of its parts between underscores: <<"a", "x">>   *)
(* is a_x.  A prefix is the parts before its final underscore, which       *)
(* Validate demands: <<"a">> is a_, and <<"a", "">> is a__.  With that     *)
(* underscore in every prefix, a prefix of the string is a prefix of the   *)
(* sequence and the other way round.  Letter case and surrounding blanks   *)
(* are not represented; the code forgives both.                            *)
(***************************************************************************)
EXTENDS ServerConfig, SequencesExt

\* Of a configuration's other settings the session code reads the prefix only.
Prefix(c) == c.settings.prefix

\* Mutant of TrimPrefix: one part too many is cut off.
TrimPrefixOver(name, prefix) ==
  IF IsPrefix(prefix, name) THEN SubSeq(name, Len(prefix) + 2, Len(name)) ELSE name

TrimPrefix(name, prefix) ==
  IF IsPrefix(prefix, name) THEN SubSeq(name, Len(prefix) + 1, Len(name)) ELSE name

\* The name a tool is registered under.
Published(c, tool) == Prefix(c) \o tool

\* An allowlist may give the tool's own name, or the published one.
IsToolListed(tool, prefix, list) ==
  LET stripped == TrimPrefix(tool, prefix) IN
  list = << >> \/ \E i \in DOMAIN list : list[i] \in {tool, stripped, prefix \o stripped}

\* The test of the session hook, of the filter and of the call handler.
ToolGranted(c, tool, agent) ==
  IsToolListed(tool, Prefix(c), GetToolsAllowlistForAgent(c, agent))

Permitted(c, tool, agent) == AgentListed(c, agent) /\ ToolGranted(c, tool, agent)

-----------------------------------------------------------------------------
\* No two servers of a file share a prefix.
DistinctPrefixes(file, names) ==
  \A n, m \in names : Prefix(file[n]) = Prefix(file[m]) => n = m

\* What Validate says of the servers of a file, which are `names`.  Two different
\* prefixes pass, also when one begins with the other.
Validate(file, names) ==
  /\ names # {}
  /\ \A n \in names : Prefix(file[n]) # << >>
  /\ DistinctPrefixes(file, names)
=============================================================================
