--------------------------- MODULE MCMultiplexer ----------------------------
(***************************************************************************)
(* Instances of Multiplexer for TLC.                                       *)
(***************************************************************************)
EXTENDS Multiplexer, TLC

CONSTANTS a, b

Entry(set, tr) ==
  [settings |-> set, agents |-> << >>, transport |-> tr, github |-> FALSE, maxConcurrent |-> 1,
   env |-> << >>, headers |-> << >>, tools |-> << >>, agentTools |-> << >>]

\* Two versions of a server, told apart by a scalar field.
PlainConfigs == {Entry("v1", "stdio"), Entry("v2", "stdio")}

\* LoadConfig accepts every assignment of entries to names but the empty one.
AllFiles(entries) ==
  {f \in [Names -> entries \cup {Nil}] : \E n \in Names : f[n] # Nil}

PlainFiles == AllFiles(PlainConfigs)

NameSymmetry == Permutations(Names)
=============================================================================
