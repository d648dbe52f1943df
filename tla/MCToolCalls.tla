---------------------------- MODULE MCToolCalls -----------------------------
(***************************************************************************)
(* Instances of ToolCalls for TLC.                                         *)
(***************************************************************************)
EXTENDS ToolCalls, TLC

CONSTANTS a, b, c1, c2, c3, t1, t2, alice, merge, deploy, push, get

Entry(agents, tools) ==
  [settings |-> "v1", agents |-> agents, transport |-> "stdio", github |-> TRUE, maxConcurrent |-> 1,
   env |-> << >>, headers |-> << >>, tools |-> tools, agentTools |-> << >>]

\* A GitHub server that lets one call in at a time, and the same server once
\* its allowlist has been cut down to pushes.
OpenEntry == Entry(<< >>, << >>)
PushOnly == Entry(<< >>, <<push>>)
Entries == {OpenEntry, PushOnly}

\* Files that serve `a` alone, under either entry, or `b` in its stead.
Serving(n, entry) == [m \in Names |-> IF m = n THEN entry ELSE Nil]
ReloadFiles == {Serving(a, OpenEntry), Serving(a, PushOnly), Serving(b, OpenEntry)}

\* One configuration throughout.
FixedFiles == {Serving(a, OpenEntry)}

\* The same server, for one agent only.
ForAlice == Entry(<<alice>>, << >>)
AliceFiles == {Serving(a, ForAlice)}
AliceEntries == {ForAlice}

Ask(tool, agent, onProtected) ==
  [server |-> a, tool |-> tool, agent |-> agent, onProtected |-> onProtected]

\* Reads, pushes to a feature branch and to a protected one.
PlainRequests == {Ask(get, alice, FALSE), Ask(push, alice, FALSE), Ask(push, alice, TRUE)}

\* A merge, and a deployment by an agent without a name.
GatedRequests == {Ask(merge, alice, FALSE), Ask(deploy, Anonymous, FALSE)}

\* A read by an agent that is not on the list.
ReadByAnother == {Ask(get, Anonymous, FALSE)}

CallSymmetry == Permutations(Calls)
=============================================================================
