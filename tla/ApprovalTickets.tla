--------------------------- MODULE ApprovalTickets --------------------------
(***************************************************************************)
(* What staging and consuming approvals promises, with none of the tables  *)
(* and clocks: each ticket is issued once, is live for a while, and then   *)
(* is used once or lapses for good.  At most Capacity tickets are live; a  *)
(* live ticket is displaced only by issuing one beyond the capacity.       *)
(***************************************************************************)
EXTENDS Integers, FiniteSets

CONSTANTS Tickets, Capacity

VARIABLE status   \* of every ticket: "fresh", "live", "used" or "void"

Live == {t \in Tickets : status[t] = "live"}

Init == status = [t \in Tickets |-> "fresh"]

\* t becomes live; at capacity, d makes room for it.
Issue(t) ==
  /\ status[t] = "fresh"
  /\ \/ /\ Cardinality(Live) < Capacity
        /\ status' = [status EXCEPT ![t] = "live"]
     \/ /\ Cardinality(Live) = Capacity
        /\ \E d \in Live : status' = [status EXCEPT ![t] = "live", ![d] = "void"]

Use(t) ==
  /\ status[t] = "live"
  /\ status' = [status EXCEPT ![t] = "used"]

\* Time passes over the tickets of S.
Lapse(S) ==
  /\ S # {}
  /\ status' = [t \in Tickets |-> IF t \in S THEN "void" ELSE status[t]]

Next ==
  \/ \E t \in Tickets : Issue(t) \/ Use(t)
  \/ \E S \in SUBSET Live : Lapse(S)

Spec == Init /\ [][Next]_status
=============================================================================
