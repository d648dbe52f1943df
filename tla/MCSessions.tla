----------------------------- MODULE MCSessions -----------------------------
(***************************************************************************)
(* An instance of Sessions for TLC.                                        *)
(***************************************************************************)
EXTENDS Sessions

CONSTANTS srvA, srvB, s1, alice

Entry(prefix, agents, tools, agentTools) ==
  [settings |-> [prefix |-> prefix], agents |-> agents,
   transport |-> "stdio", github |-> FALSE, maxConcurrent |-> 1,
   env |-> << >>, headers |-> << >>, tools |-> tools, agentTools |-> agentTools]

\* Two tools, one with a name of two parts.  a_ and b__ as prefixes, c_ for the
\* server that moves, and a_b_, which begins with a_.
Get == <<"get">>
BGet == <<"b", "get">>

Plain == Entry(<<"a">>, << >>, << >>, << >>)
ForBob == Entry(<<"a">>, <<"bob">>, << >>, << >>)
Moved == Entry(<<"c">>, << >>, << >>, << >>)
Listing == Entry(<<"b", "">>, <<alice>>, <<Get>>, << >>)
PerAgent == Entry(<<"b", "">>, << >>, <<Get>>, [x \in {alice} |-> << <<"b", "", "b", "get">> >>])
Under == Entry(<<"a", "b">>, <<"bob">>, << >>, << >>)
Clash == Entry(<<"a">>, << >>, << >>, << >>)

Entries == {Plain, ForBob, Listing, PerAgent, Moved, Under}

File(forA, forB) == [n \in Names |-> IF n = srvA THEN forA ELSE forB]

\* Access, allowlists and prefixes change, servers come and go; in one file the
\* name a_b_get belongs to both servers, and one, which is refused, gives them
\* the same prefix.
SomeFiles ==
  {File(Plain, Listing), File(ForBob, PerAgent), File(Moved, Nil), File(Nil, Listing),
   File(Plain, Under), File(Plain, Clash)}

\* A server answers with nothing, or with two tools and one whose own name looks
\* like a published one.
SomeTools == {{}, {Get, BGet, <<"a", "get">>}}

OneAgent == [s \in {s1} |-> alice]
=============================================================================
