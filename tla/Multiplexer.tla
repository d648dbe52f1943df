---------------------------- MODULE Multiplexer -----------------------------
(***************************************************************************)
(* multiplexer.go: the map of backends, the goroutines that start their    *)
(* clients, Reload's shadow-initialise-and-swap, and Stop.                 *)
(*                                                                         *)
(* A *Backend is the pair of its name and the number of the reload that    *)
(* allocated it (0 for NewMultiplexer): one reload allocates at most one   *)
(* backend of a name.  Reload and Stop are called by the one goroutine of  *)
(* main.go that also reads the signals, so they never overlap; `phase` is  *)
(* where that goroutine stands.  The goroutines of startSingleBackend and  *)
(* the remote ends of the clients run beside it.                           *)
(***************************************************************************)
EXTENDS ServerConfig

CONSTANTS
  Names,          \* server names
  ServerConfigs,  \* configurations a server may be given
  ConfigFiles,    \* what LoadConfig may return: functions from Names to
                  \* ServerConfigs \cup {Nil}
  MaxReloads,     \* bound on the number of reloads
  Nil             \* the nil pointer, and a missing map entry

Gens == 0..MaxReloads
Ptr == Names \X Gens

ASSUME MuxAssumption ==
  /\ MaxReloads \in Nat
  /\ ConfigFiles \subseteq [Names -> ServerConfigs \cup {Nil}]
  /\ Nil \notin Ptr \cup ServerConfigs \cup ConfigFiles
  /\ \A c \in ServerConfigs : c.maxConcurrent \in Int

VARIABLES
  backends,   \* Multiplexer.backends: the name's current *Backend, or Nil
  config,     \* Backend.Config, Nil while the backend is not allocated
  client,     \* Backend.Client # nil
  hasTools,   \* len(Backend.CachedTools) > 0
  conn,       \* the process or connection behind the client
  starter,    \* the goroutine running startSingleBackend on the backend
  phase,      \* the main goroutine
  gen,        \* reloads begun
  toDelete,   \* Reload's locals: names to drop,
  shadow,     \*   backends to swap in (shadowBackends and toStart),
  toStop,     \*   backends to close after the swap
  requested   \* history: the configuration last given to the multiplexer

planVars == <<toDelete, shadow, toStop>>
mapVars == <<backends, config, gen, requested>>
fieldVars == <<client, hasTools, conn, starter>>
muxVars == <<backends, config, client, hasTools, conn, starter, phase, gen,
             toDelete, shadow, toStop, requested>>

\* The backends the map points to.
Current == {backends[n] : n \in Names} \ {Nil}

\* The configuration each name runs under.
Running == [n \in Names |-> IF backends[n] = Nil THEN Nil ELSE config[backends[n]]]

-----------------------------------------------------------------------------
(* NewMultiplexer and the start of StartBackends: every configured server  *)
(* has a backend without a client, and a goroutine about to start it.      *)
MuxInit ==
  \E cfg \in ConfigFiles :
    /\ requested = cfg
    /\ backends = [n \in Names |-> IF cfg[n] = Nil THEN Nil ELSE <<n, 0>>]
    /\ config = [p \in Ptr |-> IF p[2] = 0 THEN cfg[p[1]] ELSE Nil]
    /\ client = [p \in Ptr |-> FALSE]
    /\ hasTools = [p \in Ptr |-> FALSE]
    /\ conn = [p \in Ptr |-> "none"]
    /\ starter = [p \in Ptr |-> IF p[2] = 0 /\ cfg[p[1]] # Nil THEN "dial" ELSE "idle"]
    /\ phase = "starting"
    /\ gen = 0
    /\ toDelete = {} /\ shadow = {} /\ toStop = {}

(***************************************************************************)
(* startSingleBackend.                                                     *)
(***************************************************************************)
Finish(p) == starter' = [starter EXCEPT ![p] = "done"]

\* The transport cannot be created or started: return, nothing to close.
DialFail(p) ==
  /\ starter[p] = "dial"
  /\ Finish(p)
  /\ UNCHANGED <<mapVars, planVars, phase, client, hasTools, conn>>

Dial(p) ==
  /\ starter[p] = "dial"
  /\ starter' = [starter EXCEPT ![p] = "initialize"]
  /\ conn' = [conn EXCEPT ![p] = "open"]
  /\ UNCHANGED <<mapVars, planVars, phase, client, hasTools>>

\* An error answer, a dead peer, or the 15 s of initCtx: the deferred
\* function finds b.Client nil and closes the client.
InitializeFail(p) ==
  /\ starter[p] = "initialize"
  /\ Finish(p)
  /\ conn' = [conn EXCEPT ![p] = "closed"]
  /\ UNCHANGED <<mapVars, planVars, phase, client, hasTools>>

Initialize(p) ==
  /\ starter[p] = "initialize" /\ conn[p] = "open"
  /\ starter' = [starter EXCEPT ![p] = "listTools"]
  /\ client' = [client EXCEPT ![p] = TRUE]
  /\ UNCHANGED <<mapVars, planVars, phase, hasTools, conn>>

\* A failed ListTools is only logged: the backend stays connected with no
\* cached tools, like one that answers with none.
ListTools(p) ==
  /\ starter[p] = "listTools"
  /\ Finish(p)
  /\ \/ /\ conn[p] = "open"
        /\ hasTools' = [hasTools EXCEPT ![p] = TRUE]
     \/ UNCHANGED hasTools
  /\ UNCHANGED <<mapVars, planVars, phase, client, conn>>

\* The subprocess exits or the remote end goes away; nothing tells the router.
PeerDies(p) ==
  /\ conn[p] = "open"
  /\ conn' = [conn EXCEPT ![p] = "dead"]
  /\ UNCHANGED <<mapVars, planVars, phase, client, hasTools, starter>>

\* Mutants of Started: nothing is waited for; a client is waited for.
StartedAlways(S) == TRUE
StartedConnected(S) == \A p \in S : starter[p] = "done" /\ client[p]

\* wg.Wait has returned.
Started(S) == \A p \in S : starter[p] = "done"

\* StartBackends' wg.Wait returns and main goes on to listen.
Serve ==
  /\ phase = "starting"
  /\ Started(Current)
  /\ phase' = "serving"
  /\ UNCHANGED <<mapVars, planVars, fieldVars>>

(***************************************************************************)
(* Reload.                                                                 *)
(***************************************************************************)
Served == {n \in Names : backends[n] # Nil}

Wanted(cfg) == {n \in Names : cfg[n] # Nil}

\* Mutant of Updated: an entry that is still there is always built anew.
UpdatedAlways(cfg) == Served \cap Wanted(cfg)

Updated(cfg) == {n \in Served \cap Wanted(cfg) : ~Equal(config[backends[n]], cfg[n])}

\* Mutants of Closing: the backends an update replaces are forgotten; the
\* kept ones are closed too; new names are looked up in the map as well.
ClosingDropped(cfg) == {backends[n] : n \in Served \ Wanted(cfg)}
ClosingAll(cfg) == {backends[n] : n \in Served}
ClosingNew(cfg) ==
  {backends[n] : n \in (Served \ Wanted(cfg)) \cup Updated(cfg) \cup (Wanted(cfg) \ Served)}

\* The backends to stop: those of dropped names, and those replaced.
Closing(cfg) == {backends[n] : n \in (Served \ Wanted(cfg)) \cup Updated(cfg)}

\* Steps 1 and 2, under the read lock, and the launch of the goroutines:
\* the plan is made from the map, no reader is disturbed.
Reload(cfg) ==
  LET new   == gen + 1
      fresh == {<<n, new>> : n \in Updated(cfg) \cup (Wanted(cfg) \ Served)}
  IN
  /\ phase = "serving" /\ gen < MaxReloads
  /\ phase' = "preparing"
  /\ gen' = new
  /\ requested' = cfg
  /\ toDelete' = Served \ Wanted(cfg)
  /\ toStop' = Closing(cfg)
  /\ shadow' = fresh
  /\ config' = [p \in Ptr |-> IF p \in fresh THEN cfg[p[1]] ELSE config[p]]
  /\ starter' = [p \in Ptr |-> IF p \in fresh THEN "dial" ELSE starter[p]]
  /\ UNCHANGED <<backends, client, hasTools, conn>>

\* Mutant of Swapped: the dropped names stay.
SwappedOver == [n \in Names |-> IF <<n, gen>> \in shadow THEN <<n, gen>> ELSE backends[n]]

\* The map after step 4: dropped names, then the shadow backends over the rest.
Swapped ==
  [n \in Names |-> IF <<n, gen>> \in shadow THEN <<n, gen>>
                   ELSE IF n \in toDelete THEN Nil ELSE backends[n]]

\* wg.Wait returns; steps 3 and 4 under the write lock.  A shadow backend
\* whose start failed is swapped in like the others.
Swap ==
  /\ phase = "preparing"
  /\ Started(shadow)
  /\ backends' = Swapped
  /\ phase' = "retiring"
  /\ toDelete' = {} /\ shadow' = {}
  /\ UNCHANGED <<config, gen, requested, toStop, fieldVars>>

\* Closing a backend's client, when it has one.
CloseClients(S) ==
  conn' = [p \in Ptr |-> IF p \in S /\ client[p] THEN "closed" ELSE conn[p]]

\* One turn of step 5's loop, outside the lock.
Retire(p) ==
  /\ phase = "retiring"
  /\ p \in toStop
  /\ CloseClients({p})
  /\ toStop' = toStop \ {p}
  /\ UNCHANGED <<mapVars, phase, toDelete, shadow, client, hasTools, starter>>

ReloadReturns ==
  /\ phase = "retiring" /\ toStop = {}
  /\ phase' = "serving"
  /\ UNCHANGED <<mapVars, planVars, fieldVars>>

(***************************************************************************)
(* Stop, called once by main on its way out.  Client.Close is called with  *)
(* the write lock held, and each call of a tool touches one client only,   *)
(* so closing them in one step hides no behaviour of a reader.             *)
(***************************************************************************)
Stop ==
  /\ phase = "serving"
  /\ phase' = "stopped"
  /\ CloseClients(Current)
  /\ UNCHANGED <<mapVars, planVars, client, hasTools, starter>>

-----------------------------------------------------------------------------
Starter(p) ==
  \/ DialFail(p) \/ Dial(p)
  \/ InitializeFail(p) \/ Initialize(p)
  \/ ListTools(p)

MuxNext ==
  \/ \E p \in Ptr : Starter(p) \/ PeerDies(p) \/ Retire(p)
  \/ \E cfg \in ConfigFiles : Reload(cfg)
  \/ Serve \/ Swap \/ ReloadReturns \/ Stop

MuxSpec == MuxInit /\ [][MuxNext]_muxVars

(***************************************************************************)
(* Initialize and ListTools run under a context of 15 s, and starting a    *)
(* subprocess or a streamable_http client waits for nobody.  Starting an   *)
(* SSE client waits for the server's answer under m.ctx, which has no      *)
(* deadline, so that step is not fair.  Client.Close is taken to return.   *)
(***************************************************************************)
MuxFairness ==
  /\ \A p \in Ptr :
       /\ WF_muxVars((Dial(p) \/ DialFail(p)) /\ config[p].transport # "sse")
       /\ WF_muxVars(Initialize(p) \/ InitializeFail(p))
       /\ WF_muxVars(ListTools(p))
       /\ WF_muxVars(Retire(p))
  /\ WF_muxVars(Serve) /\ WF_muxVars(Swap) /\ WF_muxVars(ReloadReturns)

MuxFairSpec == MuxSpec /\ MuxFairness

-----------------------------------------------------------------------------
(* health.go: what /health reports of a backend.                           *)
BackendStatus(p) ==
  IF ~client[p] THEN "DEGRADED" ELSE IF hasTools[p] THEN "READY" ELSE "UP"

-----------------------------------------------------------------------------
MuxTypeOK ==
  /\ backends \in [Names -> Ptr \cup {Nil}]
  /\ config \in [Ptr -> ServerConfigs \cup {Nil}]
  /\ client \in [Ptr -> BOOLEAN]
  /\ hasTools \in [Ptr -> BOOLEAN]
  /\ conn \in [Ptr -> {"none", "open", "dead", "closed"}]
  /\ starter \in [Ptr -> {"idle", "dial", "initialize", "listTools", "done"}]
  /\ phase \in {"starting", "serving", "preparing", "retiring", "stopped"}
  /\ gen \in Gens
  /\ toDelete \subseteq Names /\ shadow \subseteq Ptr /\ toStop \subseteq Ptr
  /\ requested \in ConfigFiles

\* Every client that was started and not yet closed is still within reach of
\* the code that will close it (the map, or a local of the running Reload),
\* and none outlives Stop: "zero zombie processes" (README, teardown).
NoOrphanClient ==
  \A p \in Ptr : conn[p] \in {"open", "dead"} =>
    /\ phase # "stopped"
    /\ p \in Current \cup shadow \cup toStop

\* Until Stop, a backend a caller can find in the map never has a client
\* that the router itself closed: old clients are closed after the swap, and
\* only those the swap replaced.
RoutedNotClosed ==
  phase # "stopped" => \A p \in Current : client[p] => conn[p] # "closed"

\* After the swap the map runs exactly the configuration Reload was given:
\* nothing kept that should have changed, nothing lost, nothing left over.
ReloadApplied == phase \in {"serving", "retiring"} => Running = requested

FieldsKept ==
  \A p \in Current \cup toStop :
    phase # "starting" =>
      /\ config'[p] = config[p]
      /\ client'[p] = client[p]
      /\ hasTools'[p] = hasTools[p]

\* The tool handlers read Config, Client and CachedTools of a backend with no
\* lock.  That is sound because nothing writes these fields once callers can
\* find the backend, nor while it waits to be closed.
PublishedFrozen == [][FieldsKept]_muxVars

KeptUntouched ==
  \A n \in Names :
    LET p == backends[n] IN
    p # Nil /\ requested[n] # Nil /\ Equal(config[p], requested[n]) =>
      /\ backends'[n] = p
      /\ client[p] /\ conn[p] # "closed" => conn'[p] # "closed"

\* The servers a reload reports as kept run on: from its plan to its end it
\* neither replaces their backends nor closes their clients.
UnchangedKept == [][phase' # "stopped" => KeptUntouched]_muxVars

\* A reload of subprocess and streamable_http servers comes to its end, so
\* main returns to its signals.
ReloadCompletes == phase \in {"preparing", "retiring"} ~> phase = "serving"

\* The doc comment of Reload: "guaranteeing zero downtime".  A name that has a
\* connected backend keeps having one for as long as it is configured.
ZeroDowntime ==
  [][\A n \in Names :
       (backends[n] # Nil /\ client[backends[n]] /\ backends'[n] # Nil)
         => client'[backends'[n]]]_muxVars

\* README on /health: a backend is reported DEGRADED "if disconnected".
HealthReportsDisconnected ==
  phase \in {"serving", "preparing", "retiring"} =>
    \A p \in Current : conn[p] # "open" => BackendStatus(p) = "DEGRADED"

\* The multiplexer implements the table it promises its readers.
Table == INSTANCE BackendTable WITH
  table <- Running,
  target <- IF phase = "preparing" THEN requested ELSE Nil,
  halted <- phase = "stopped"

TableSpec == Table!Spec
=============================================================================
