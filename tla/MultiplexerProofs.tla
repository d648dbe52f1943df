------------------------- MODULE MultiplexerProofs --------------------------
(***************************************************************************)
(* Proofs about Multiplexer, for any names, configurations and number of   *)
(* reloads.  The inductive invariant MuxInv says which pointers each phase   *)
(* of the main goroutine may use: what a starter touches is not yet        *)
(* published after the start-up, what Reload will close is exactly what    *)
(* its swap takes out of the map, and what it closes is out of the map.    *)
(***************************************************************************)
EXTENDS Multiplexer, ServerConfigProofs, TLAPS

Active(p) == starter[p] \in {"dial", "initialize", "listTools"}

\* The generation in a pointer, and which pointers are in use.
PtrInv ==
  /\ \A n \in Names : backends[n] # Nil =>
       /\ backends[n][1] = n
       /\ backends[n][2] <= gen
       /\ phase = "preparing" => backends[n][2] < gen
  /\ \A p \in Ptr : p[2] > gen =>
       conn[p] = "none" /\ ~client[p] /\ starter[p] = "idle"

\* Reload's locals, phase by phase.
PlanInv ==
  /\ \A p \in shadow : p[2] = gen /\ phase = "preparing"
  /\ toDelete # {} => phase = "preparing"
  /\ toStop # {} => phase \in {"preparing", "retiring"}
  /\ phase = "retiring" => toStop \cap Current = {}
  /\ phase = "preparing" =>
       /\ \A n \in toDelete : <<n, gen>> \notin shadow
       /\ toStop \subseteq Current
       /\ \A n \in Names : backends[n] # Nil =>
            (backends[n] \in toStop <=> n \in toDelete \/ <<n, gen>> \in shadow)

\* How far a starter has come against what its backend holds.
StarterInv ==
  \A p \in Ptr :
    /\ Active(p) => \/ phase = "starting" /\ p \in Current
                    \/ phase = "preparing" /\ p \in shadow
    /\ starter[p] \in {"idle", "dial"} => conn[p] = "none" /\ ~client[p]
    /\ starter[p] = "initialize" => conn[p] \in {"open", "dead"} /\ ~client[p]
    /\ starter[p] = "listTools" => conn[p] \in {"open", "dead"} /\ client[p]
    /\ conn[p] \in {"open", "dead"} /\ starter[p] = "done" => client[p]

\* RoutedNotClosed, strengthened with the backends about to be routed.
OpenInv ==
  phase # "stopped" =>
    \A p \in Current \cup shadow : client[p] => conn[p] # "closed"

\* A backend in the map or on its way there has a configuration.
ConfigInv == \A p \in Current \cup shadow : config[p] # Nil

MuxInv ==
  /\ MuxTypeOK /\ PtrInv /\ PlanInv /\ ConfigInv
  /\ StarterInv /\ OpenInv /\ NoOrphanClient

-----------------------------------------------------------------------------
\* Every variable keeps its type, through any number of reloads.
LEMMA MuxTypeInit == MuxInit => MuxTypeOK
<1> USE MuxAssumption
<1> SUFFICES ASSUME NEW cfg \in ConfigFiles,
                    requested = cfg,
                    backends = [n \in Names |-> IF cfg[n] = Nil THEN Nil ELSE <<n, 0>>],
                    config = [p \in Ptr |-> IF p[2] = 0 THEN cfg[p[1]] ELSE Nil],
                    client = [p \in Ptr |-> FALSE],
                    hasTools = [p \in Ptr |-> FALSE],
                    conn = [p \in Ptr |-> "none"],
                    starter = [p \in Ptr |-> IF p[2] = 0 /\ cfg[p[1]] # Nil
                                             THEN "dial" ELSE "idle"],
                    phase = "starting", gen = 0,
                    toDelete = {}, shadow = {}, toStop = {}
             PROVE  MuxTypeOK
  BY DEF MuxInit
<1>1. cfg \in [Names -> ServerConfigs \cup {Nil}]
  OBVIOUS
<1>2. 0 \in Gens /\ \A p \in Ptr : p[1] \in Names
  BY DEF Gens, Ptr
<1>3. backends \in [Names -> Ptr \cup {Nil}]
  BY <1>2 DEF Ptr
<1>4. config \in [Ptr -> ServerConfigs \cup {Nil}]
  BY <1>1, <1>2
<1> QED BY <1>1, <1>2, <1>3, <1>4 DEF MuxTypeOK

LEMMA MuxTypeStep == MuxTypeOK /\ [MuxNext]_muxVars => MuxTypeOK'
<1> USE MuxAssumption
<1> SUFFICES ASSUME MuxTypeOK, [MuxNext]_muxVars PROVE MuxTypeOK'
  OBVIOUS
<1> USE DEF MuxTypeOK
<1>1. ASSUME NEW p \in Ptr, Starter(p) PROVE MuxTypeOK'
  BY <1>1 DEF Starter, DialFail, Dial, InitializeFail, Initialize, ListTools,
              Finish, mapVars, planVars
<1>2. ASSUME NEW p \in Ptr, PeerDies(p) PROVE MuxTypeOK'
  BY <1>2 DEF PeerDies, mapVars, planVars
<1>3. ASSUME NEW p \in Ptr, Retire(p) PROVE MuxTypeOK'
  BY <1>3 DEF Retire, CloseClients, mapVars
<1>4. ASSUME NEW cfg \in ConfigFiles, Reload(cfg) PROVE MuxTypeOK'
  <2>1. gen + 1 \in Gens
    BY <1>4 DEF Reload, Served, Wanted, Updated, Closing, Gens
  <2>2. shadow' \subseteq Ptr /\ toStop' \subseteq Ptr /\ toDelete' \subseteq Names
    BY <1>4, <2>1 DEF Reload, Served, Wanted, Updated, Closing, Ptr
  <2>3. config' \in [Ptr -> ServerConfigs \cup {Nil}]
    <3>1. cfg \in [Names -> ServerConfigs \cup {Nil}] /\ \A p \in Ptr : p[1] \in Names
      BY DEF Ptr
    <3> QED BY <1>4, <3>1 DEF Reload, Served, Wanted, Updated, Closing
  <2>4. starter' \in [Ptr -> {"idle", "dial", "initialize", "listTools", "done"}]
    BY <1>4 DEF Reload, Served, Wanted, Updated, Closing
  <2> QED BY <1>4, <2>1, <2>2, <2>3, <2>4 DEF Reload, Served, Wanted, Updated, Closing
<1>5. CASE Serve
  BY <1>5 DEF Serve, mapVars, planVars, fieldVars
<1>6. CASE Swap
  <2>1. backends' \in [Names -> Ptr \cup {Nil}]
    BY <1>6 DEF Swap, Swapped
  <2> QED BY <1>6, <2>1 DEF Swap, fieldVars
<1>7. CASE ReloadReturns
  BY <1>7 DEF ReloadReturns, mapVars, planVars, fieldVars
<1>8. CASE Stop
  BY <1>8 DEF Stop, CloseClients, mapVars, planVars
<1>9. CASE UNCHANGED muxVars
  BY <1>9 DEF muxVars
<1> QED BY <1>1, <1>2, <1>3, <1>4, <1>5, <1>6, <1>7, <1>8, <1>9 DEF MuxNext

THEOREM MuxTypeCorrect == MuxSpec => []MuxTypeOK
  BY MuxTypeInit, MuxTypeStep, PTL DEF MuxSpec

-----------------------------------------------------------------------------
\* The bound of the pointers: what the arithmetic below needs of them.
LEMMA PtrFacts ==
  /\ \A p \in Ptr : p[1] \in Names /\ p[2] \in Nat /\ p = <<p[1], p[2]>>
  /\ \A n \in Names, g \in Gens : <<n, g>> \in Ptr /\ <<n, g>>[1] = n /\ <<n, g>>[2] = g
  /\ Gens \subseteq Nat
  BY MuxAssumption DEF Ptr, Gens

LEMMA MuxInvInit == MuxInit => MuxInv
<1> SUFFICES ASSUME MuxInit PROVE MuxInv
  OBVIOUS
<1>1. MuxTypeOK
  BY MuxTypeInit
<1> USE PtrFacts, MuxAssumption
<1>2. PICK cfg \in ConfigFiles :
        /\ backends = [n \in Names |-> IF cfg[n] = Nil THEN Nil ELSE <<n, 0>>]
        /\ config = [p \in Ptr |-> IF p[2] = 0 THEN cfg[p[1]] ELSE Nil]
        /\ client = [p \in Ptr |-> FALSE]
        /\ conn = [p \in Ptr |-> "none"]
        /\ starter = [p \in Ptr |-> IF p[2] = 0 /\ cfg[p[1]] # Nil THEN "dial" ELSE "idle"]
  BY DEF MuxInit
<1>3. phase = "starting" /\ gen = 0 /\ toDelete = {} /\ shadow = {} /\ toStop = {}
  BY DEF MuxInit
<1>4. 0 \in Gens
  BY DEF Gens
<1>5. PtrInv /\ PlanInv
  BY <1>2, <1>3, <1>4 DEF PtrInv, PlanInv
<1>6. StarterInv
  <2> SUFFICES ASSUME NEW p \in Ptr, Active(p) PROVE p \in Current
    BY <1>2, <1>3 DEF StarterInv, Active
  <2>1. p[2] = 0 /\ cfg[p[1]] # Nil
    BY <1>2 DEF Active
  <2>2. backends[p[1]] = p /\ p # Nil
    BY <1>2, <2>1
  <2> QED BY <2>2 DEF Current
<1>7. OpenInv /\ NoOrphanClient
  BY <1>1, <1>2, <1>3 DEF OpenInv, NoOrphanClient, Current, MuxTypeOK
<1>8. ConfigInv
  BY <1>2, <1>3, <1>4 DEF ConfigInv, Current
<1> QED BY <1>1, <1>5, <1>6, <1>7, <1>8 DEF MuxInv

\* A starter of p: the map and Reload's locals are left alone, and of the
\* backends only p's changes.
LEMMA StarterStep ==
  ASSUME MuxInv, MuxTypeOK', NEW p \in Ptr, Starter(p)
  PROVE  MuxInv'
<1> USE DEF MuxInv, MuxTypeOK
<1>1. /\ UNCHANGED <<backends, config, gen, phase, toDelete, shadow, toStop>>
      /\ \A q \in Ptr \ {p} : UNCHANGED <<client[q], conn[q], starter[q]>>
  BY DEF Starter, DialFail, Dial, InitializeFail, Initialize, ListTools,
         mapVars, planVars, Finish
<1>2. Current' = Current
  BY <1>1 DEF Current
<1>3. Active(p)
  BY DEF Starter, DialFail, Dial, InitializeFail, Initialize, ListTools, Active
<1>4. p[2] <= gen /\ PtrInv'
  BY <1>1, <1>3, PtrFacts DEF PtrInv, Active
<1>5. PlanInv' /\ ConfigInv'
  BY <1>1, <1>2 DEF PlanInv, ConfigInv
<1>6. \/ phase = "starting" /\ p \in Current
      \/ phase = "preparing" /\ p \in shadow
  BY <1>3 DEF StarterInv
<1>7. /\ starter'[p] \in {"idle", "dial"} => conn'[p] = "none" /\ ~client'[p]
      /\ starter'[p] = "initialize" => conn'[p] \in {"open", "dead"} /\ ~client'[p]
      /\ starter'[p] = "listTools" => conn'[p] \in {"open", "dead"} /\ client'[p]
      /\ conn'[p] \in {"open", "dead"} /\ starter'[p] = "done" => client'[p]
      /\ client'[p] => conn'[p] # "closed"
  BY DEF StarterInv, Starter, DialFail, Dial, InitializeFail, Initialize,
         ListTools, Finish
<1>8. StarterInv'
  BY <1>1, <1>2, <1>6, <1>7 DEF StarterInv, Active
<1>9. OpenInv'
  <2> SUFFICES ASSUME NEW q \in (Current \cup shadow), phase # "stopped", client'[q]
               PROVE  conn'[q] # "closed"
    BY <1>1, <1>2 DEF OpenInv
  <2>1. q \in Ptr
    BY DEF Current
  <2> QED BY <1>1, <1>7, <2>1 DEF OpenInv
<1>10. NoOrphanClient'
  BY <1>1, <1>2, <1>6 DEF NoOrphanClient
<1> QED BY <1>4, <1>5, <1>8, <1>9, <1>10

LEMMA PeerDiesStep ==
  ASSUME MuxInv, MuxTypeOK', NEW p \in Ptr, PeerDies(p)
  PROVE  MuxInv'
<1> USE DEF MuxInv, MuxTypeOK, PeerDies, mapVars, planVars
<1>1. Current' = Current
  BY DEF Current
<1>2. PtrInv' /\ PlanInv' /\ ConfigInv'
  BY <1>1, PtrFacts DEF PtrInv, PlanInv, ConfigInv
<1>3. StarterInv'
  BY <1>1 DEF StarterInv, Active
<1>4. OpenInv' /\ NoOrphanClient'
  <2>1. Current \cup shadow \subseteq Ptr
    BY DEF Current
  <2> QED BY <1>1, <2>1 DEF OpenInv, NoOrphanClient
<1> QED BY <1>2, <1>3, <1>4

LEMMA RetireStep ==
  ASSUME MuxInv, MuxTypeOK', NEW p \in Ptr, Retire(p)
  PROVE  MuxInv'
<1> USE DEF MuxInv, MuxTypeOK, Retire, CloseClients, mapVars
<1>1. Current' = Current /\ p \notin Current /\ shadow = {}
  BY DEF Current, PlanInv
<1>2. \A q \in Ptr : q # p => conn'[q] = conn[q]
  OBVIOUS
<1>3. starter[p] \in {"idle", "done"}
  BY <1>1 DEF StarterInv, Active
<1>4. PtrInv' /\ PlanInv' /\ ConfigInv'
  BY <1>1, PtrFacts DEF PtrInv, PlanInv, ConfigInv
<1>5. StarterInv'
  BY <1>1, <1>2, <1>3 DEF StarterInv, Active
<1>6. OpenInv'
  BY <1>1, <1>2 DEF OpenInv, Current
<1>7. NoOrphanClient'
  <2>1. conn'[p] \notin {"open", "dead"}
    BY <1>3 DEF StarterInv
  <2> QED BY <1>1, <1>2, <2>1 DEF NoOrphanClient
<1> QED BY <1>4, <1>5, <1>6, <1>7

LEMMA ReloadStep ==
  ASSUME MuxInv, MuxTypeOK', NEW cfg \in ConfigFiles, Reload(cfg)
  PROVE  MuxInv'
<1> USE DEF MuxInv, MuxTypeOK, Reload, Served, Wanted, Updated, Closing
<1>1. Current' = Current /\ gen' = gen + 1 /\ gen \in Nat /\ gen' \in Gens
  BY PtrFacts DEF Current
<1>2. \A q \in Current : q \in Ptr /\ q[2] <= gen
  BY DEF Current, PtrInv
<1>3. \A q \in shadow' : q \in Ptr /\ q[2] = gen + 1
  BY <1>1, PtrFacts
<1>4. \A q \in Ptr : ~Active(q)
  BY DEF StarterInv
<1>5. PtrInv'
  <2>1. \A q \in Ptr : q[2] > gen' => q \notin shadow'
    BY <1>1, <1>3, PtrFacts
  <2> QED BY <1>1, <2>1, PtrFacts DEF PtrInv
<1>6. PlanInv'
  <2>1. \A n \in toDelete' : <<n, gen'>> \notin shadow'
    BY <1>1, PtrFacts
  <2>2. toStop' \subseteq Current
    BY DEF Current
  <2>3. ASSUME NEW n \in Names, backends[n] # Nil
        PROVE  backends[n] \in toStop' <=> n \in toDelete' \/ <<n, gen'>> \in shadow'
    <3>1. \A m \in Names : backends[m] = backends[n] => m = n
      BY <2>3 DEF PtrInv
    <3> QED BY <1>1, <2>3, <3>1, PtrFacts
  <2> QED BY <1>1, <1>3, <2>1, <2>2, <2>3 DEF PlanInv
<1>7. StarterInv'
  <2>1. \A q \in shadow' : conn[q] = "none" /\ ~client[q]
    BY <1>1, <1>3, PtrFacts DEF PtrInv
  <2> QED BY <1>1, <1>4, <2>1 DEF StarterInv, Active
<1>8. OpenInv'
  <2>1. \A q \in shadow' : ~client[q]
    BY <1>1, <1>3, PtrFacts DEF PtrInv
  <2> QED BY <1>1, <2>1 DEF OpenInv
<1>9. NoOrphanClient'
  <2>1. shadow = {} /\ toStop = {}
    BY DEF PlanInv
  <2> QED BY <1>1, <2>1 DEF NoOrphanClient
<1>10. ConfigInv'
  <2>1. \A q \in shadow' : config'[q] # Nil
    BY <1>1, <1>3, PtrFacts
  <2>2. \A q \in Current : config'[q] = config[q]
    BY <1>1, <1>2, PtrFacts
  <2> QED BY <1>1, <2>1, <2>2 DEF ConfigInv
<1> QED BY <1>5, <1>6, <1>7, <1>8, <1>9, <1>10

\* The swap moves the shadow backends into the map, and out of it exactly
\* those that Reload's last loop will close.
LEMMA SwapCurrent ==
  ASSUME MuxInv, Swap
  PROVE  /\ Current' \subseteq Current \cup shadow
         /\ Current' \cap toStop = {}
         /\ Current \cup shadow \subseteq Current' \cup toStop
<1> USE DEF MuxInv, MuxTypeOK, Swap
<1>0. phase = "preparing" /\ gen \in Nat
  BY PtrFacts
<1>1. \A n \in Names : backends'[n] =
         IF <<n, gen>> \in shadow THEN <<n, gen>>
         ELSE IF n \in toDelete THEN Nil ELSE backends[n]
  BY DEF Swapped
<1>2. Current' = {backends'[n] : n \in Names} \ {Nil}
  BY DEF Current
<1>3. ASSUME NEW q \in Current' PROVE q \in Current \cup shadow
  <2>1. PICK n \in Names : q = backends'[n] /\ q # Nil
    BY <1>2
  <2>2. q \in shadow \/ q = backends[n]
    BY <1>1, <2>1
  <2> QED BY <2>1, <2>2 DEF Current
<1>4. ASSUME NEW n \in Names, backends'[n] # Nil PROVE backends'[n] \notin toStop
  <2>1. CASE <<n, gen>> \in shadow
    <3>1. backends'[n] = <<n, gen>> /\ <<n, gen>>[2] = gen
      BY <1>1, <2>1, PtrFacts
    <3>2. \A q \in toStop : q[2] < gen
      BY <1>0 DEF PlanInv, PtrInv, Current
    <3> QED BY <1>0, <3>1, <3>2
  <2>2. CASE <<n, gen>> \notin shadow
    <3>1. backends'[n] = backends[n] /\ n \notin toDelete
      BY <1>1, <1>4, <2>2
    <3> QED BY <1>0, <1>4, <2>2, <3>1 DEF PlanInv
  <2> QED BY <2>1, <2>2
<1>5. ASSUME NEW n \in Names, backends[n] # Nil PROVE backends[n] \in Current' \cup toStop
  <2>1. CASE backends[n] \in toStop
    BY <2>1
  <2>2. CASE backends[n] \notin toStop
    <3>1. n \notin toDelete /\ <<n, gen>> \notin shadow
      BY <1>0, <1>5, <2>2 DEF PlanInv
    <3> QED BY <1>1, <1>2, <1>5, <3>1
  <2> QED BY <2>1, <2>2
<1>6. \A q \in shadow : q \in Current'
  <2> SUFFICES ASSUME NEW q \in shadow PROVE q \in Current'
    OBVIOUS
  <2>1. q \in Ptr /\ q = <<q[1], gen>> /\ q[1] \in Names
    BY PtrFacts DEF PlanInv
  <2>2. backends'[q[1]] = q /\ q # Nil
    BY <1>1, <2>1, MuxAssumption
  <2> QED BY <1>2, <2>1, <2>2
<1> QED BY <1>2, <1>3, <1>4, <1>5, <1>6 DEF Current

LEMMA SwapStep ==
  ASSUME MuxInv, MuxTypeOK', Swap
  PROVE  MuxInv'
<1> USE DEF MuxInv, MuxTypeOK, Swap, fieldVars
<1>1. /\ Current' \subseteq Current \cup shadow
      /\ Current' \cap toStop = {}
      /\ Current \cup shadow \subseteq Current' \cup toStop
  BY SwapCurrent
<1>2. \A q \in Ptr : ~Active(q)
  BY DEF StarterInv, Started, Active
<1>3. PtrInv'
  <2>1. \A n \in Names : backends'[n] # Nil =>
           backends'[n] = <<n, gen>> \/ backends'[n] = backends[n]
    BY DEF Swapped
  <2> QED BY <2>1, PtrFacts DEF PtrInv
<1>4. PlanInv' /\ ConfigInv'
  BY <1>1 DEF PlanInv, ConfigInv
<1>5. StarterInv'
  BY <1>2 DEF StarterInv, Active
<1>6. OpenInv'
  BY <1>1 DEF OpenInv
<1>7. NoOrphanClient'
  BY <1>1 DEF NoOrphanClient
<1> QED BY <1>3, <1>4, <1>5, <1>6, <1>7

LEMMA StopStep ==
  ASSUME MuxInv, MuxTypeOK', Stop
  PROVE  MuxInv'
<1> USE DEF MuxInv, MuxTypeOK, Stop, CloseClients, mapVars, planVars
<1>1. Current' = Current /\ shadow = {} /\ toStop = {}
  BY DEF Current, PlanInv
<1>2. \A q \in Ptr : ~Active(q)
  BY <1>1 DEF StarterInv
<1>3. PtrInv' /\ PlanInv' /\ ConfigInv' /\ OpenInv'
  BY <1>1, PtrFacts DEF PtrInv, PlanInv, ConfigInv, OpenInv
<1>4. StarterInv'
  BY <1>1, <1>2 DEF StarterInv, Active
<1>5. NoOrphanClient'
  <2> SUFFICES ASSUME NEW q \in Ptr, conn'[q] \in {"open", "dead"} PROVE FALSE
    BY DEF NoOrphanClient
  <2>1. conn'[q] = conn[q] /\ ~(q \in Current /\ client[q])
    OBVIOUS
  <2>2. q \in Current
    BY <1>1, <2>1 DEF NoOrphanClient
  <2>3. starter[q] = "done" /\ client[q]
    BY <1>2, <2>1 DEF StarterInv, Active
  <2> QED BY <2>1, <2>2, <2>3
<1> QED BY <1>3, <1>4, <1>5

LEMMA MuxInvStep == MuxInv /\ [MuxNext]_muxVars => MuxInv'
<1> SUFFICES ASSUME MuxInv, [MuxNext]_muxVars PROVE MuxInv'
  OBVIOUS
<1>0. MuxTypeOK'
  BY MuxTypeStep DEF MuxInv
<1>1. ASSUME NEW p \in Ptr, Starter(p) \/ PeerDies(p) \/ Retire(p) PROVE MuxInv'
  BY <1>0, <1>1, StarterStep, PeerDiesStep, RetireStep
<1>2. ASSUME NEW cfg \in ConfigFiles, Reload(cfg) PROVE MuxInv'
  BY <1>0, <1>2, ReloadStep
<1>3. CASE Swap \/ Stop
  BY <1>0, <1>3, SwapStep, StopStep
<1>4. CASE Serve
  <2> USE DEF Serve, mapVars, planVars, fieldVars
  <2>1. Current' = Current /\ \A q \in Ptr : ~Active(q)
    BY <1>4 DEF Current, MuxInv, StarterInv, Started, Active
  <2> QED BY <1>0, <1>4, <2>1, PtrFacts
        DEF MuxInv, PtrInv, PlanInv, ConfigInv, StarterInv, Active, OpenInv, NoOrphanClient
<1>5. CASE ReloadReturns
  <2> USE DEF ReloadReturns, mapVars, planVars, fieldVars
  <2>1. Current' = Current
    BY <1>5 DEF Current
  <2> QED BY <1>0, <1>5, <2>1, PtrFacts
        DEF MuxInv, PtrInv, PlanInv, ConfigInv, StarterInv, Active, OpenInv, NoOrphanClient
<1>6. CASE UNCHANGED muxVars
  BY <1>0, <1>6 DEF muxVars, MuxInv, PtrInv, PlanInv, ConfigInv, StarterInv, Active, OpenInv,
                    NoOrphanClient, Current
<1> QED BY <1>1, <1>2, <1>3, <1>4, <1>5, <1>6 DEF MuxNext

\* The strengthening is invariant.
THEOREM MuxInductive == MuxSpec => []MuxInv
  BY MuxInvInit, MuxInvStep, PTL DEF MuxSpec

\* Nothing that was started is ever lost sight of: every live client is in
\* the map or in a local of the running Reload, and Stop leaves none.
THEOREM NoOrphans == MuxSpec => []NoOrphanClient
<1>1. MuxInv => NoOrphanClient
  BY DEF MuxInv
<1> QED BY <1>1, MuxInductive, PTL

\* No caller finds a backend whose client the router has closed.
THEOREM RoutedOpen == MuxSpec => []RoutedNotClosed
<1>1. MuxInv => RoutedNotClosed
  BY DEF MuxInv, OpenInv, RoutedNotClosed
<1> QED BY <1>1, MuxInductive, PTL

\* What the lock-free readers rely on: no step changes the fields of a
\* published backend, nor of one waiting to be closed.
THEOREM Frozen == MuxSpec => PublishedFrozen
<1>1. MuxInv /\ [MuxNext]_muxVars => [FieldsKept]_muxVars
  <2> SUFFICES ASSUME MuxInv, MuxNext, NEW p \in Current \cup toStop, phase # "starting"
               PROVE  /\ config'[p] = config[p]
                      /\ client'[p] = client[p]
                      /\ hasTools'[p] = hasTools[p]
    BY DEF FieldsKept
  <2> USE DEF MuxInv, MuxTypeOK
  <2>1. p \in Ptr
    BY DEF Current
  <2>2. ~Active(p)
    <3>1. CASE phase = "preparing"
      <4>1. p[2] < gen
        BY <3>1 DEF PlanInv, PtrInv, Current
      <4>2. p \notin shadow
        BY <2>1, <4>1, PtrFacts DEF PlanInv
      <4> QED BY <2>1, <3>1, <4>2 DEF StarterInv
    <3>2. CASE phase # "preparing"
      BY <2>1, <3>2 DEF StarterInv
    <3> QED BY <3>1, <3>2
  <2>3. ASSUME NEW q \in Ptr, Starter(q)
        PROVE  UNCHANGED <<config, client[p], hasTools[p]>>
    <3>1. q # p
      BY <2>2, <2>3 DEF Starter, DialFail, Dial, InitializeFail, Initialize, ListTools, Active
    <3>2. /\ UNCHANGED config
          /\ client' = client \/ client' = [client EXCEPT ![q] = TRUE]
          /\ hasTools' = hasTools \/ hasTools' = [hasTools EXCEPT ![q] = TRUE]
      BY <2>3 DEF Starter, DialFail, Dial, InitializeFail, Initialize, ListTools, mapVars
    <3> QED BY <2>1, <3>1, <3>2
  <2>4. ASSUME NEW cfg \in ConfigFiles, Reload(cfg)
        PROVE  UNCHANGED <<client, hasTools, config[p]>>
    <3>1. toStop = {} /\ gen \in Nat
      BY <2>4, PtrFacts DEF Reload, Served, Wanted, Updated, Closing, PlanInv
    <3>2. p[2] <= gen /\ p[2] \in Nat
      BY <2>1, <3>1, PtrFacts DEF PtrInv, Current
    <3>3. \A n \in Names : p # <<n, gen + 1>>
      BY <3>1, <3>2
    <3> QED BY <2>1, <2>4, <3>3 DEF Reload, Served, Wanted, Updated, Closing
  <2>5. ASSUME \/ \E q \in Ptr : PeerDies(q) \/ Retire(q)
               \/ Serve \/ Swap \/ ReloadReturns \/ Stop
        PROVE  UNCHANGED <<config, client, hasTools>>
    BY <2>5 DEF PeerDies, Retire, Serve, Swap, ReloadReturns, Stop, mapVars, planVars, fieldVars
  <2> QED BY <2>3, <2>4, <2>5 DEF MuxNext
<1> QED BY <1>1, MuxInductive, PTL DEF PublishedFrozen, MuxSpec

\* What Reload will close runs under an entry its file has changed or dropped.
ChangedInv ==
  \A p \in toStop : requested[p[1]] = Nil \/ ~Equal(config[p], requested[p[1]])

LEMMA ChangedStep ==
  ASSUME MuxInv, ChangedInv, [MuxNext]_muxVars
  PROVE  ChangedInv'
<1> USE DEF MuxInv, MuxTypeOK
<1>1. ASSUME NEW cfg \in ConfigFiles, Reload(cfg) PROVE ChangedInv'
  <2> USE DEF Reload, Served, Wanted, Updated, Closing
  <2> SUFFICES ASSUME NEW p \in toStop'
               PROVE  cfg[p[1]] = Nil \/ ~Equal(config'[p], cfg[p[1]])
    BY <1>1 DEF ChangedInv
  <2>1. PICK n \in Names : /\ p = backends[n] /\ p # Nil
                           /\ cfg[n] = Nil \/ ~Equal(config[p], cfg[n])
    BY <1>1
  <2>2. p \in Ptr /\ p[1] = n /\ p[2] <= gen /\ gen \in Nat
    BY <2>1, PtrFacts DEF PtrInv
  <2>3. config'[p] = config[p]
    BY <1>1, <2>2, PtrFacts
  <2> QED BY <2>1, <2>2, <2>3
<1>2. CASE \/ \E p \in Ptr : Starter(p) \/ PeerDies(p) \/ Retire(p)
           \/ Serve \/ Swap \/ ReloadReturns \/ Stop \/ UNCHANGED muxVars
  <2>1. toStop' \subseteq toStop /\ UNCHANGED <<config, requested>>
    BY <1>2 DEF Starter, DialFail, Dial, InitializeFail, Initialize, ListTools, PeerDies, Retire,
                Serve, Swap, ReloadReturns, Stop, mapVars, planVars, muxVars
  <2> QED BY <2>1 DEF ChangedInv
<1> QED BY <1>1, <1>2 DEF MuxNext

\* The servers whose entries a reload finds unchanged run through it untouched.
THEOREM UnchangedStay == MuxSpec => UnchangedKept
<1>1. MuxInit => ChangedInv
  BY DEF MuxInit, ChangedInv
<1>2. MuxInv /\ ChangedInv /\ [MuxNext]_muxVars => ChangedInv'
  BY ChangedStep
<1>3. MuxInv /\ ChangedInv /\ [MuxNext]_muxVars => [phase' # "stopped" => KeptUntouched]_muxVars
  <2> SUFFICES ASSUME MuxInv, ChangedInv, MuxNext, phase' # "stopped",
                      NEW n \in Names, NEW p, p = backends[n], p # Nil, requested[n] # Nil,
                      Equal(config[p], requested[n])
               PROVE  /\ backends'[n] = p
                      /\ client[p] /\ conn[p] # "closed" => conn'[p] # "closed"
    BY DEF KeptUntouched
  <2> USE DEF MuxInv, MuxTypeOK
  <2>1. p \in Ptr /\ p \in Current /\ p[1] = n
    BY DEF PtrInv, Current
  <2>2. p \notin toStop
    BY <2>1 DEF ChangedInv
  <2>3. ASSUME NEW q \in Ptr, Starter(q)
        PROVE  /\ backends' = backends
               /\ client[p] => conn'[p] # "closed" \/ conn'[p] = conn[p]
    <3>1. InitializeFail(q) => ~client[q]
      BY DEF InitializeFail, StarterInv
    <3> QED BY <2>1, <2>3, <3>1
              DEF Starter, DialFail, Dial, InitializeFail, Initialize, ListTools, mapVars
  <2>4. ASSUME NEW q \in Ptr, Retire(q) PROVE backends' = backends /\ conn'[p] = conn[p]
    BY <2>1, <2>2, <2>4 DEF Retire, CloseClients, mapVars
  <2>5. CASE Swap
    <3>1. n \notin toDelete /\ <<n, gen>> \notin shadow
      BY <2>2, <2>5 DEF Swap, PlanInv
    <3> QED BY <2>5, <3>1 DEF Swap, Swapped, fieldVars
  <2>6. ASSUME \/ \E q \in Ptr : PeerDies(q)
               \/ \E cfg \in ConfigFiles : Reload(cfg)
               \/ Serve \/ ReloadReturns
        PROVE  backends' = backends /\ conn'[p] \in {conn[p], "dead"}
    BY <2>1, <2>6 DEF PeerDies, Reload, Serve, ReloadReturns, mapVars, planVars, fieldVars
  <2>7. ~Stop
    BY DEF Stop
  <2> QED BY <2>3, <2>4, <2>5, <2>6, <2>7 DEF MuxNext
<1> QED BY <1>1, <1>2, <1>3, MuxInductive, PTL DEF UnchangedKept, MuxSpec

\* For the components that keep a pointer: the configuration of a backend
\* never changes once it is allocated.
LEMMA ConfigStable ==
  ASSUME MuxInv, [MuxNext]_muxVars
  PROVE  /\ gen' >= gen
         /\ \A p \in Ptr : p[2] <= gen => config'[p] = config[p]
<1> USE DEF MuxInv, MuxTypeOK
<1>1. gen \in Nat
  BY PtrFacts
<1>2. ASSUME NEW cfg \in ConfigFiles, Reload(cfg)
      PROVE  gen' = gen + 1 /\ \A p \in Ptr : p[2] <= gen => config'[p] = config[p]
  BY <1>1, <1>2, PtrFacts DEF Reload, Served, Wanted, Updated, Closing
<1>3. ASSUME \/ \E p \in Ptr : Starter(p) \/ PeerDies(p) \/ Retire(p)
             \/ Serve \/ Swap \/ ReloadReturns \/ Stop \/ UNCHANGED muxVars
      PROVE  UNCHANGED <<gen, config>>
  BY <1>3 DEF Starter, DialFail, Dial, InitializeFail, Initialize, ListTools,
              PeerDies, Retire, Serve, Swap, ReloadReturns, Stop, mapVars, planVars, muxVars
<1> QED BY <1>1, <1>2, <1>3 DEF MuxNext

-----------------------------------------------------------------------------
(***************************************************************************)
(* What a reload achieves, for configurations Equal can tell apart.        *)
(***************************************************************************)
EqualExact == \A c, d \in ServerConfigs : Equal(c, d) => c = d

\* What the map will run after the swap.
Planned ==
  [n \in Names |-> IF <<n, gen>> \in shadow THEN config[<<n, gen>>]
                   ELSE IF n \in toDelete THEN Nil ELSE Running[n]]

AppliedInv ==
  /\ phase # "preparing" => Running = requested
  /\ phase = "preparing" => Planned = requested

LEMMA AppliedInit == MuxInit => AppliedInv
<1> SUFFICES ASSUME MuxInit PROVE AppliedInv
  OBVIOUS
<1> USE PtrFacts, MuxAssumption
<1>1. PICK cfg \in ConfigFiles :
        /\ backends = [n \in Names |-> IF cfg[n] = Nil THEN Nil ELSE <<n, 0>>]
        /\ config = [p \in Ptr |-> IF p[2] = 0 THEN cfg[p[1]] ELSE Nil]
        /\ requested = cfg /\ phase = "starting" /\ shadow = {}
  BY DEF MuxInit
<1>2. \A n \in Names : <<n, 0>> \in Ptr /\ config[<<n, 0>>] = cfg[n] /\ <<n, 0>> # Nil
  <2>1. 0 \in Gens
    BY DEF Gens
  <2> QED BY <1>1, <2>1
<1>3. Running = requested
  <2>1. cfg = [n \in Names |-> cfg[n]]
    OBVIOUS
  <2>2. \A n \in Names : Running[n] = cfg[n]
    BY <1>1, <1>2 DEF Running
  <2> QED BY <1>1, <2>1, <2>2 DEF Running
<1> QED BY <1>1, <1>3 DEF AppliedInv

\* Reload(cfg) plans cfg: a kept backend has cfg's configuration because
\* Equal is exact.
LEMMA ReloadPlans ==
  ASSUME EqualExact, MuxInv, MuxTypeOK', AppliedInv, NEW cfg \in ConfigFiles, Reload(cfg)
  PROVE  AppliedInv' /\ UNCHANGED Running
<1> USE DEF MuxInv, MuxTypeOK, AppliedInv, Reload, Served, Wanted, Updated, Closing
<1>1. gen \in Nat /\ gen' = gen + 1 /\ gen' \in Gens /\ Current' = Current
  BY PtrFacts DEF Current
<1>2. \A q \in Current : q \in Ptr /\ q[2] <= gen
  BY DEF Current, PtrInv
<1>3. \A q \in Current : config'[q] = config[q]
  BY <1>1, <1>2, PtrFacts
<1>4. UNCHANGED Running
  BY <1>3 DEF Running, Current
<1>5. \A q \in shadow' : q \in Ptr /\ config'[q] = cfg[q[1]] /\ cfg[q[1]] # Nil
  BY <1>1, PtrFacts
<1>6. ASSUME NEW n \in Names PROVE Planned'[n] = cfg[n]
  <2> DEFINE fresh == <<n, gen'>>
  <2>0. fresh \in Ptr /\ fresh[1] = n
    BY <1>1, PtrFacts
  <2>1. CASE fresh \in shadow'
    BY <1>5, <2>0, <2>1 DEF Planned
  <2>2. CASE fresh \notin shadow' /\ n \in toDelete'
    BY <2>2 DEF Planned
  <2>3. CASE fresh \notin shadow' /\ n \notin toDelete' /\ backends[n] = Nil
    <3>1. cfg[n] = Nil
      BY <1>1, <2>3
    <3>2. Running'[n] = Nil
      BY <1>4, <2>3 DEF Running
    <3> QED BY <2>3, <3>1, <3>2 DEF Planned
  <2>4. CASE fresh \notin shadow' /\ n \notin toDelete' /\ backends[n] # Nil
    <3>1. cfg[n] # Nil /\ Equal(config[backends[n]], cfg[n])
      BY <1>1, <2>4
    <3>2. cfg[n] \in ServerConfigs
      BY <3>1, MuxAssumption
    <3>3. config[backends[n]] \in ServerConfigs
      BY <2>4 DEF Current, ConfigInv
    <3>4. config[backends[n]] = cfg[n]
      BY <3>1, <3>2, <3>3 DEF EqualExact
    <3>5. Running'[n] = cfg[n]
      BY <1>4, <2>4, <3>4 DEF Running
    <3> QED BY <2>4, <3>5 DEF Planned
  <2> QED BY <2>1, <2>2, <2>3, <2>4
<1>7. Planned' = cfg
  <2>1. cfg = [n \in Names |-> cfg[n]]
    BY MuxAssumption
  <2>2. Planned' = [n \in Names |-> Planned'[n]]
    BY DEF Planned
  <2> QED BY <1>6, <2>1, <2>2
<1> QED BY <1>1, <1>4, <1>7

\* The swap shows what was planned.
LEMMA SwapApplies ==
  ASSUME MuxInv, AppliedInv, Swap
  PROVE  AppliedInv' /\ Running' = requested
<1> USE DEF MuxInv, MuxTypeOK, AppliedInv, Swap
<1>1. \A n \in Names : <<n, gen>> \in Ptr /\ <<n, gen>> # Nil
  BY PtrFacts, MuxAssumption
<1>2. ASSUME NEW n \in Names PROVE Running'[n] = Planned[n]
  BY <1>1 DEF Swapped, Running, Planned
<1>3. Running' = Planned
  <2>1. Running' = [n \in Names |-> Running'[n]]
    BY DEF Running
  <2>2. Planned = [n \in Names |-> Planned[n]]
    BY DEF Planned
  <2> QED BY <1>2, <2>1, <2>2
<1> QED BY <1>3

LEMMA AppliedStep ==
  ASSUME EqualExact, MuxInv, AppliedInv, [MuxNext]_muxVars
  PROVE  AppliedInv'
<1>0. MuxTypeOK'
  BY MuxTypeStep DEF MuxInv
<1>1. ASSUME NEW cfg \in ConfigFiles, Reload(cfg) PROVE AppliedInv'
  BY <1>0, <1>1, ReloadPlans
<1>2. CASE Swap
  BY <1>2, SwapApplies
<1>3. CASE \/ \E p \in Ptr : Starter(p) \/ PeerDies(p) \/ Retire(p)
           \/ Serve \/ ReloadReturns \/ Stop \/ UNCHANGED muxVars
  <2>1. /\ UNCHANGED <<backends, config, gen, requested, toDelete, shadow>>
        /\ phase = "preparing" <=> phase' = "preparing"
    BY <1>3 DEF Starter, DialFail, Dial, InitializeFail, Initialize, ListTools,
                PeerDies, Retire, Serve, ReloadReturns, Stop, mapVars, planVars, muxVars
  <2> QED BY <2>1 DEF AppliedInv, Running, Planned, Current
<1> QED BY <1>1, <1>2, <1>3 DEF MuxNext

\* After a reload the map runs exactly what the file asked for, when Equal
\* can tell the configurations apart.
THEOREM ReloadExact ==
  ASSUME EqualExact
  PROVE  MuxSpec => []ReloadApplied
<1>1. MuxInit => AppliedInv
  BY AppliedInit
<1>2. MuxInv /\ AppliedInv /\ [MuxNext]_muxVars => AppliedInv'
  BY AppliedStep
<1>3. AppliedInv => ReloadApplied
  BY DEF AppliedInv, ReloadApplied
<1> QED BY <1>1, <1>2, <1>3, MuxInductive, PTL DEF MuxSpec

\* In particular when no configuration has an empty environment variable or
\* header.
COROLLARY ReloadExactNoEmpty ==
  ASSUME \A c \in ServerConfigs : WellFormed(c) /\ NoEmptyValue(c)
  PROVE  MuxSpec => []ReloadApplied
<1>1. EqualExact
  BY EqualDecides DEF EqualExact
<1> QED BY <1>1, ReloadExact

\* The multiplexer implements the table of BackendTable: readers see the
\* requested configuration appear in one step, and see nothing else happen.
THEOREM MuxRefinement ==
  ASSUME EqualExact
  PROVE  MuxSpec => TableSpec
<1>1. \A f \in ConfigFiles : f \in Table!Tables /\ f # Nil
  BY MuxAssumption DEF Table!Tables
<1>2. MuxInv => Running \in Table!Tables
  BY DEF MuxInv, MuxTypeOK, Running, Table!Tables
<1>3. MuxInit => Table!Init
  <2> SUFFICES ASSUME MuxInit PROVE Table!Init
    OBVIOUS
  <2>1. MuxInv
    BY MuxInvInit
  <2> QED BY <1>2, <2>1 DEF MuxInit, Table!Init
<1>4. MuxInv /\ AppliedInv /\ [MuxNext]_muxVars => [Table!Next]_(Table!vars)
  <2> SUFFICES ASSUME MuxInv, AppliedInv, [MuxNext]_muxVars
               PROVE  Table!Next \/ UNCHANGED Table!vars
    OBVIOUS
  <2>0. MuxTypeOK' /\ requested \in ConfigFiles
    BY MuxTypeStep DEF MuxInv, MuxTypeOK
  <2>1. ASSUME NEW cfg \in ConfigFiles, Reload(cfg) PROVE Table!Request
    <3>1. UNCHANGED Running
      BY <2>0, <2>1, ReloadPlans
    <3> QED BY <1>1, <2>1, <3>1 DEF Reload, Served, Wanted, Updated, Closing, Table!Request
  <2>2. ASSUME Swap PROVE Table!TakeEffect
    <3>1. Running' = requested
      BY <2>2, SwapApplies
    <3> QED BY <1>1, <2>0, <2>2, <3>1 DEF Swap, Table!TakeEffect
  <2>3. ASSUME Stop PROVE Table!Halt
    <3>1. UNCHANGED Running
      BY <2>3 DEF Stop, mapVars, Running
    <3> QED BY <2>3, <3>1 DEF Stop, mapVars, Table!Halt
  <2>4. CASE \/ \E p \in Ptr : Starter(p) \/ PeerDies(p) \/ Retire(p)
             \/ Serve \/ ReloadReturns \/ UNCHANGED muxVars
    <3>1. /\ UNCHANGED <<backends, config, requested>>
          /\ phase' = phase \/ <<phase, phase'>> \in {<<"starting", "serving">>,
                                                     <<"retiring", "serving">>}
      BY <2>4 DEF Starter, DialFail, Dial, InitializeFail, Initialize, ListTools,
                  PeerDies, Retire, Serve, ReloadReturns, mapVars, planVars, muxVars
    <3>2. UNCHANGED Running
      BY <3>1 DEF Running
    <3> QED BY <3>1, <3>2 DEF Table!vars
  <2>5. Table!Request \/ Table!TakeEffect \/ Table!Halt => Table!Next
    BY DEF Table!Next
  <2> QED BY <2>1, <2>2, <2>3, <2>4, <2>5 DEF MuxNext
<1>5. MuxInv /\ AppliedInv /\ [MuxNext]_muxVars => AppliedInv'
  BY AppliedStep
<1> QED BY <1>3, <1>4, <1>5, AppliedInit, MuxInductive, PTL DEF MuxSpec, TableSpec, Table!Spec
=============================================================================
