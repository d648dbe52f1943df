---------------------------- MODULE BackendTable ----------------------------
(***************************************************************************)
(* What the multiplexer promises its readers about a reload, with none of  *)
(* the machinery: a table from server names to the configurations they run *)
(* under.  A reload is requested, prepared while the table still shows the *)
(* old configuration, and takes effect in one step that shows exactly the  *)
(* requested one.  A second reload waits for the first.  Once halted,      *)
(* nothing changes.                                                        *)
(***************************************************************************)
CONSTANTS Names, ServerConfigs, Nil

VARIABLES
  table,    \* table[n]: the configuration n runs under, Nil when n is not served
  target,   \* the table being prepared, Nil when no reload is under way
  halted

vars == <<table, target, halted>>

Tables == [Names -> ServerConfigs \cup {Nil}]

Init ==
  /\ table \in Tables
  /\ target = Nil
  /\ halted = FALSE

Request ==
  /\ ~halted /\ target = Nil
  /\ target' \in Tables
  /\ UNCHANGED <<table, halted>>

TakeEffect ==
  /\ ~halted /\ target # Nil
  /\ table' = target
  /\ target' = Nil
  /\ UNCHANGED halted

Halt ==
  /\ ~halted /\ target = Nil
  /\ halted' = TRUE
  /\ UNCHANGED <<table, target>>

Next == Request \/ TakeEffect \/ Halt

Spec == Init /\ [][Next]_vars
=============================================================================
