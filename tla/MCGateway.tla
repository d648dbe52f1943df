----------------------------- MODULE MCGateway ------------------------------
(***************************************************************************)
(* An instance of Gateway for TLC.                                         *)
(***************************************************************************)
EXTENDS Gateway

CONSTANTS a, posted

Entry(version) ==
  [settings |-> version, agents |-> << >>, transport |-> "stdio", github |-> FALSE, maxConcurrent |-> 1,
   env |-> << >>, headers |-> << >>, tools |-> << >>, agentTools |-> << >>]

Versions == {Entry("v1"), Entry("v2")}

\* One server.  The two versions are alike, so it starts in the first; so are
\* the two paths of the log, and it has the fallback's or none.
OneServer == {[n \in Names |-> e] : e \in Versions}

MCInit ==
  /\ Init
  /\ requested = [n \in Names |-> Entry("v1")]
  /\ logPath # "primary"

MCSpec == MCInit /\ [][Next]_vars /\ Fairness
=============================================================================
