# mcp-router, verified in TLA+

The router is one Go process that puts many MCP servers (backends) behind one
endpoint.  It starts them, routes calls of their tools, guards the calls, and
replaces backends while it runs when it is told to reload its configuration.
This directory models the parts of it whose correctness depends on the order in
which things happen, checks them with TLC and proves the main results with
TLAPS.  Line references are to the files of the repository.

## The system

| Component | State it keeps | Operations | Talks to | What must hold |
|---|---|---|---|---|
| Multiplexer (`multiplexer.go`) | the map name → `*Backend` under an RWMutex; the fields of each `Backend`; clients and their processes | `NewMultiplexer`, `StartBackends`, `GetBackend(s)`, `Reload`, `Stop` | called by main, the call handler, the session hook and `/health` | no client is lost sight of; nothing routed is closed; a reload applies the file in one step; published fields do not change |
| Server configuration (`config.go`) | none after loading | `LoadConfig`, `Validate`, `Equal`, `GetType`, allowlists, expansions | read by the multiplexer and the handler | `Equal` tells configurations apart |
| Human approval (`hitl.go`) | the table of staged actions by token, under a mutex | `Stage`, `ValidateAndConsume`, `Len` | called by the handler | tokens are single-use, bounded, for their tool and agent, and in time |
| Call handler (`CreateToolHandler`, `router.go`) | one goroutine per call; the backend's semaphore | lookup, queue, allowlist, approval gate, branch guard, dispatch, deadline, audit | multiplexer, approval manager, clients, audit log | slots balance; guards hold through reloads; every call returns; effects leave a trace |
| Session registration (`BuildRouter`) | the tools of each session, in the MCP library | `OnRegisterSession`, `toolFilter`, `findBackendForTool` | multiplexer | what a session is given and shown is what the configuration grants its agent, through reloads |
| Session identity (`router.go`, `main.go`) | none | `SessionIDExtractor`, `ExtractAgentID` | headers, `/proc` | a session the router opens is its opener's, and calls are logged as their session's agent's |
| Audit log (`logger.go`) | the open file under a mutex, a global pointer | `Init…`, `Reopen`, `Close`, `LogAuditEvent`, `SanitizeArguments` | handler, main | no event is lost silently; secrets are redacted |
| Gateway (`main.go`) | the signal channel, the HTTP server | start, the signal loop, shutdown | everything | a signal taken in is acted on; a clean drain cuts no call short; no backend outlives main |
| Health (`health.go`), authentication (`auth.go`) | none | one handler each | multiplexer; none | status reflects the backends |

What is hard here: calls keep the `*Backend` they looked up while a reload
retires it; starts run beside readers that take no lock; a reload prepares
outside the lock what it applies later under it; a start can fail at any stage,
a process can die at any time; a call races its queue timer, its cancellation
and its deadline; tokens expire, are evicted and are presented twice.
`PROJECT.json` lists each hazard at its line with the properties that watch it.

## The modules

| Module | Models | Built on |
|---|---|---|
| `ServerConfig` | `ServerConfig.Equal`, capacity, allowlists, the list of agents, as operators on a configuration record | |
| `Multiplexer` | `multiplexer.go`, and main's order of start, reload and stop | `ServerConfig` |
| `BackendTable` | abstract: a table that a reload replaces in one step | implemented by `Multiplexer` |
| `Hitl` | `hitl.go` with a clock | |
| `ApprovalTickets` | abstract: the life of a ticket, from issue to use or lapse | implemented by `Hitl` |
| `ToolCalls` | `CreateToolHandler`, composed with the two components | `Multiplexer`, `Hitl` |
| `AuditLog` | the file of `logger.go`: opening, reopening, closing, `LogAuditEvent` | |
| `Gateway` | `main.go`: signals, listener, reload, drain, teardown, composed with the two components | `Multiplexer`, `AuditLog` |
| `ToolNames` | published names, allowlists by name, `Validate`'s rules about prefixes | `ServerConfig` |
| `Sessions` | `BuildRouter`: global tools, registration hook, filter | `ToolNames`, an instance of `BackendTable` |
| `Identity` | the token and the agent behind a request, a session, a call | |
| `Arguments` | `findForbiddenBranch` and `SanitizeArguments` | |
| `Requests` | one request through the routes and the functions of the last two | `Identity`, `Arguments` |
| `MC…` | instances for TLC | |
| `…Proofs` | theorems | the module they are about |

**Multiplexer.**  A pointer is a name and the number of the reload that
allocated it.  `backends`, `config`, `client`, `hasTools` are the map and the
fields of `Backend`; `conn` is the process or connection behind the client;
`starter` is the goroutine in `startSingleBackend`, one action per stage
(`Dial`, `Initialize`, `ListTools`, and the failures); `phase` is the main
goroutine, so that a reload is four kinds of step: `Reload` (the plan, under
the read lock), `Swap` (the write lock), one `Retire` per client to close, and
`ReloadReturns`.  Starters, `PeerDies` and the calls interleave with them.  What
a critical section does is one action.  `Retire` of several backends is one
action each because calls see the clients close one by one.  `Stop` closes all
clients in one step; no call touches more than one.  A start is one `Dial`
whatever the transport; the three transports differ in what can block, which
only the fairness mentions.

**Hitl.**  `Stage` purges, evicts and inserts in one action, as under the
mutex; eviction may take any of the oldest.  `ValidateAndConsume` computes the
verdict by the code's checks in their order.  Tokens are drawn from a set and
never twice (128 random bits).  `issued` and `approvals` are history: what
tokens were issued for and which consumptions succeeded.

**ToolCalls.**  Each call is a goroutine with a label and the local `backend`.
A step takes at most one shared object: lookup; the `select` over semaphore,
timer and context; each return of a guard; the gate with the manager's
operation; the dispatch; the server running the tool (`Perform`); the return
after it.  The deferred release is part of every return.  Guards only read what
does not change while the call holds its backend (this is `PublishedFrozen`),
so a guard that lets the call pass needs no step of its own.  `performed`,
`ticket` and `audit` are history.  `Fail` covers an error result, a nil result,
an error or panic of the client, and the deadline, which the code asks after the
call and which therefore may override a success.

**AuditLog.**  A file is a number, given at its creation; `dir` says which file
is at which path, so that a rotation is a change of `dir` and an open descriptor
goes on pointing at the renamed file.  `Reopen` closes before it opens, and may
fail in between: the descriptor is then closed and `logFile` still set.
`LogAuditEvent` is two steps, `LogBegin` (the look at the logger, which takes no
mutex) and `LogWrite` (under it); anything may happen to the file between them.
A write to a nil or closed descriptor fails, and the code then echoes the event
to stderr, which counts as a place.  `records` is the history of event and place.

**Gateway.**  `main` is where the main goroutine stands, one label for each point
at which something else can happen; `signal` is the content of `sigChan`.  A
signal that comes before `signal.Notify` kills the process; one that finds the
channel full is dropped, that is, it is no step.  The multiplexer's steps and the
log's are taken over as they are, each bound to the label at which main makes
them.  A call is cut down to what a shutdown can do to it; whether its HTTP
request waits for it (`Attached`) decides whether `srv.Shutdown` waits too.  A
message posted to an SSE session is answered at once and is not attached; an open
SSE stream is, to main, an attached call that hangs.

**Sessions.**  The multiplexer is its abstract specification, `BackendTable`, and
the tools cached for each server: what `Multiplexer` implements is all that
readers can see.  The hook takes its snapshot (`Connect`), one backend per turn
(`Gather`) with the agent's access looked up in the map as it then is, and
registers (`Register`), or fails to and leaves the session without tools of its
own (`RegisterFails`, the error of `AddSessionTools`).  The filter judges one name
at a time with a step per look: the search by prefix, which may end at any server
that has one of the name's prefixes, the search by name, the agent's access, the
allowlist.  Three variables are history: `disturbed` tells the filters a reload
has crossed, `access` and `verdicts` record what each map in force since the hook
or the filter found a backend says of it, and the properties compare with them
what the code concluded from its few looks.
A name is the sequence of its parts between underscores, which `Validate`'s rule
that a prefix ends with one makes exact for prefixes.

**Identity, Arguments, Requests.**  An identifier is the sequence of its parts
between colons, a text that of its parts between slashes, a JSON value a tree:
the function that gives, for the address of each of its parts, what is there
(`ArgumentTree` says which functions the decoder can make).  `Arguments` defines
the two walks as the code recurses, each as a recursive function on the addresses
of the tree; the properties of `Requests` define by addresses alone what they
should return.  `MaxDepth` is the nesting the decoder of `encoding/json` accepts.
`Requests` sends a request through the middleware, the routes of `SetupHandler`,
the choice of its session, and the guard and log of a call.  The router names the
sessions it opens itself (`Open`): a stream by `SessionIDExtractor`, a posted
`initialize` by `Generate`.  A call joins one (`Join`): posted to `/message`, that
of a stream another request opened (`opener`); on the streamable server, whichever
identifier it presents, since `RouterSessionIdManager.Validate` (`main.go:52-54`)
refuses none.

Abstractions: a tool is a value standing for every spelling that means it and
for the arguments the deploy guard reads; whether an argument names a protected
branch is an input of the request.  Scalars and lists of a configuration are one
opaque field because `Equal` compares them exactly; the maps are kept as maps
because it does not.

## The runs

| Run | Checks | Instance |
|---|---|---|
| `mux_safety` | types, `NoOrphanClient`, `RoutedNotClosed`, `ReloadApplied`, `PublishedFrozen`, `UnchangedKept`, refinement of `BackendTable` | 2 names, 2 versions of each, 2 reloads |
| `hitl_safety` | types, `PendingBounded`, `ApprovalsSound`, `DisplacedOldest`, refinement of `ApprovalTickets` | 3 tokens, 3 agents, 2 tools, table of 2, life of 1 tick, clock of 2 |
| `calls_reload` | types, `SlotsAccounted`, `GuardsHonoured`, `EffectsAudited`, `DroppedOnlyReplaced` | 2 calls, 1 slot, reload to the same, a restricted, or another server |
| `calls_gate` | `SlotsAccounted`, `GatedApproved`, `CallsEnd` | 3 calls, 2 tokens, table of 1, fairness |
| `gateway` | types, `Teardown`, `CleanDrain`, `EventsKept`, `RotationHonoured`, `ReloadCompletes`, `ShutdownEnds` | 1 server, 2 versions, 1 reload, 1 attached call, 2 files, fairness |
| `sessions` | types, `FilterAgreement`, `FilterExact`, `FilterSteady`, `RegistrationExact` | 1 session, 2 servers, 6 files (one with overlapping prefixes, one invalid), 3 tools, any number of reloads |
| `requests` | types, `QueryTokenIgnored`, `SessionIsOpeners`, `BranchGuardExact`, `RedactionExact` | every mix of a token's headers; 7 kinds of request with every mix of the headers that name an agent or a session, or of those of the stream's opener; trees of depth 3 with 3 keys |

Every property of these runs is also checked to fail on a mutant of the model
(the operators marked "Mutant of" next to the originals), so none holds idly.

Bounds.  `MaxReloads`: a backend lives through at most one plan that replaces
it, so two reloads cover every relation of two generations (kept then replaced,
added then dropped, dropped then added again); the proofs cover any number.  Two
names show a kept backend beside a replaced one.  A table of two with three
tokens overflows, with and without expired entries; ticks 0 to 2 with a life of
one reach "at expiry" and "after".  Two calls over one slot queue behind each
other; three calls of gated tools let one token be presented twice and another
be evicted meanwhile.  `MaxTime` and `Tokens` bound time and staging, which is
why these instances may stop (`CHECK_DEADLOCK FALSE`); the multiplexer stops
after `Stop`, as the program does.

`gateway`: its instance starts from one of the two versions and without a log or
with the fallback's, as the other cases differ by a renaming only (`MCInit`).
`MaxReloads` is one because the drain and the teardown see at most one generation
in the map and one behind it; `MaxFiles` of two is the file in use and the one
made by a rotation or reload, after which opening may fail as on a full disk.  An
attached call suffices there: all that a detached one lacks is that main waits
for it.  `sessions`: the files change access, allowlists per agent, prefixes and
the set of servers; one gives two servers the same prefix, which `Validate`
must reject, and one the prefixes `a_` and `a_b_`, which it accepts and under which
the name `a_b_get` belongs to both.  One of the tools has for its own name what another is published as.
`requests`: the two walks treat depth alike from the second level on, so depth
three shows each nesting of an object and a list in the other.

What the properties of a session say where the code is ambiguous or not atomic:

* `Validate` refuses equal prefixes of one file and nothing else.  With `a_` and
  `a_b_`, and when a reload gives one server a prefix another had, the answer of
  `findBackendForTool` is one of several, by the order of a map.  Nothing is
  assumed about this.  `FilterAgreement` says which names are safe from it: those
  that no configuration makes ambiguous (`Unambiguous`), whatever the other names
  do.  `FilterExact` says what is left for the others: the verdict is that of *one*
  of the servers with a prefix of the name (`Rulings`), and exactly that of the
  only one when there is one.  That a name `a_b_get` is judged by the rules of the
  server its handler calls does not hold, and is not claimed.
* Between the looks of a filter or of the hook a reload may take effect.
  `FilterExact` leaves such filters out; `FilterSteady` is about them: they may put
  two configurations together, but list nothing that none of them granted and hide
  nothing that all of them grant.  `RegistrationExact` says the same of every
  registration, reloads inside it or not: nothing that was not granted by a
  backend the agent had access to, and all of what those grant to which it had
  access throughout.  The hook takes the tools and allowlists of its snapshot, so
  "granted" there means by the snapshot.

Whose a session is.  `SessionIsOpeners` says that a stream, and the session of an
`initialize`, is that of the agent who opens it, whatever identifier it presents,
and that a message posted to a stream is taken for, and logged as, the stream's
opener's.  Of a caller whose name has a colon the part before it counts; names
that begin with one are left out.  It does not say that a call is its own
caller's: on the streamable server a call is taken for the agent that the
identifier it presents begins with, and a message to `/message` for the opener of
the stream it names.  Neither is compared with the agent headers of the request
itself, and the model has both.

What a call may run.  `GuardsHonoured` is about the handler's own guards, the
tools' allowlist and the protected branches.  It is not all that a backend's
configuration says: `allowed_agents` is read where tools are registered and shown,
and never by the handler, which is what `agents_restricted` shows.

Five runs show the code at odds with what its documentation says of it; each has
a finding in `PROJECT.json`:

| Run | Statement | What the run shows |
|---|---|---|
| `zero_downtime` | `Reload`'s comment, "zero downtime" | a shadow backend whose start failed replaces a connected one |
| `calls_dropped` | the same comment, "zero dropped calls" | the client of a call in flight is closed by the reload (`DroppedOnlyReplaced` is what does hold) |
| `agents_restricted` | `config.example.yaml:39`, "restrict entire backend to specific agent IDs" | an agent not on the list calls a tool registered for every session, and the handler has the backend run it |
| `disconnected` | README on `/health`, "`DEGRADED` if disconnected" | a dead backend stays `READY` or `UP` |
| `hitl_token_ttl` | the handler's message, "valid for 15 minutes" | a full table evicts a valid token |

## Fairness

`MuxFairness`: the stages of a start are weakly fair because `Initialize` and
`ListTools` run under contexts of 15 s and starting a subprocess or an HTTP
client waits for nobody; starting an SSE client has no deadline
(`multiplexer.go:159`), so that step is not fair and the instance of `gateway`,
which checks `ReloadCompletes`, has no SSE server.  The main goroutine's own steps are fair; `Client.Close` is taken to
return.  `Reload` and `Stop`, which answer signals, are not fair.

`Fairness` of the calls: the queue timer and the deadline of the call fire
(`QueueTimeout`, `Fail`), and a goroutine between them is never blocked
(`Guards`).  Getting a slot and getting an answer are not fair.

`Fairness` of the gateway: main is never blocked but where it waits for a signal,
for the starts or for the drain, which its 10 s end, so `Main` is weakly fair; and
some start goes on while one can (`StartGoesOn`), with the same exception for SSE.
Nothing is asked of clients, calls, signals or logrotate: `ShutdownEnds` holds
with calls that never return.

## The proofs

For every set of names, configurations, agents and calls, any capacity and any
number of reloads (`…Proofs`, under the named assumptions on the constants).

* **Multiplexer.**  `MuxInv` is inductive.  `NoOrphanClient` alone is not: one
  must know that a starter works only on a backend of the starting map or of the
  shadow set (`StarterInv`), that the list to stop is exactly what the swap will
  take out of the map (`PlanInv`), and that pointers of later generations are
  untouched (`PtrInv`).  From it: `MuxTypeCorrect`, `NoOrphans`, `RoutedOpen`,
  and the action property `Frozen`.  `UnchangedStay` needs one fact more, that
  what is on the list to stop was found different from the file (`ChangedInv`); it
  holds without assumptions on `Equal`, being about what the router takes for
  unchanged.
* **Reload.**  `ReloadExact` and `MuxRefinement` assume that `Equal` tells the
  configurations apart.  In general it does not: `EqualMistakes` proves that the
  environments `{FOO: ""}` and `{BAR: "x"}` are equal to it, against its comment
  (`config.go:120`, "deeply equal"), so that a reload from one to the other keeps
  the old backend.  `EqualDecides` proves the assumption for configurations without
  empty values, and `ReloadExactNoEmpty` puts the two together.
* **Hitl.**  `HitlInv` adds that pending entries are as issued, not yet approved
  and not from the future.  From it: `HitlTypeCorrect`, `Bounded`, `SingleUse`,
  `Displacement`, `HitlRefinement`.
* **ToolCalls.**  `CallInv` conjoins both components' invariants with four of
  its own.  `ComponentSteps` shows that each step of the composition is a step or
  a stutter of each component, which carries their invariants over.  `Located`
  ties a call to a backend that was allocated, whose configuration is then
  constant (`CfgStable`); `SlotInv` balances slots with calls; `TicketInv` gives
  each ticket to one call; `GuardInv` keeps what the guards saw.  From it:
  `CallTypeCorrect`, `SlotsCorrect`, `GateCorrect`, `GuardsCorrect`, and with one
  more step `AuditCorrect`.  `CallsRefinement` states the composition as such:
  every behaviour of `ToolCalls` is one of `Multiplexer` and of `Hitl`, so that
  what is proved of them holds under any traffic (`CallsUnchangedStay` uses it).
  `DropsExplained` joins `RoutedNotClosed` with `ClientInv`, that a call in flight
  passed the check for a nil client and nothing takes a client away again.
* **AuditLog.**  `AuditInv` is the types, the two properties, and that without a
  logger there is no file.  `AuditLogSafe` is the log alone, its operations in any
  order.
* **Gateway.**  `GatewayRefinement`: each step of the router is a step or a
  stutter of the multiplexer and of the log.  `GatewayInv` adds what ties them:
  main's label to the multiplexer's phase (`PhaseInv`) and to the listener
  (`HttpInv`: nothing arrives once Shutdown has begun), an effect to a
  call that has arrived and the end of a call to its event (`CallOK`), and a clean drain to calls that are over (`DrainInv`).
  From them and the components' invariants: `GatewayTypeCorrect`,
  `GatewayKeepsEvents`, `GatewayFollowsRotation`, `TeardownComplete`,
  `DrainComplete`.
* **Sessions.**  Nothing is assumed of prefixes but what `Validate` checks.
  `SafeInv` is the types and `FoundInv`: what the filter has found behind an
  unambiguous name fits it, since a server with a prefix of the name can only be
  the name's own (`ClaimIsOwners`).  It gives `FilterAgrees`.  Three invariants per
  session stand on it.  `VerdictInv` is what the filter's label has established
  about the map when no reload came between: `FilterIsExact`.  `SteadyInv` is what
  it has established about some map in force since: the answer of the present map
  is always among `verdicts`, so that each look adds a witness: `FilterIsSteady`.
  `RegisteringInv` relates the hook's loop to `access`: what is gathered comes from
  a backend that gave access (`Earned`), a backend of the snapshot is still to be
  looked at, has refused, or is gathered (`Counted`), and what the present map says
  of those to come is recorded (`Recorded`): `RegistrationIsExact`, an action
  property.
* **Identity.**  `QueryTokenUnread`, `TokenDemanded` and `SessionKeepsOpener` are
  about the operators, for all requests; the last is about the identifiers the
  router makes, by `SessionIDExtractor` or `Generate`.
* **Arguments.**  `ForbiddenBranchesExact` and `SanitizeArgumentsExact` say, for
  arguments of any shape, that the two walks compute what the definitions by
  addresses say.  The library's induction theorems cannot be used, so the
  induction is by least elements: a set of numbers that is not empty has a least
  one (`Least`, from the well-foundedness of inclusion on finite sets), so
  any set of addresses has a longest one (`Deepest`), because `MaxDepth` bounds
  them.  Hence the equation of a walk has a solution (`WalkExists`: were
  there a least height up to which it had none, the one below it would extend), and what holds of a part whenever it holds
  of all below it holds of the root (`Upward`).  `FinderWalks` and `SanitizerWalks`
  are the two walks as instances, `MatchesExact` and `SanitizedView` the step from
  the parts to the whole.
* **Requests.**  `RequestInv` is inductive: each field holds what the steps before
  have put there; a session the router names is one its opener is given, any other
  is any identifier.  With the theorems above it gives the run's five properties:
  `RequestsTypeCorrect`, `QueryTokenCorrect`, `OpenerCorrect`,
  `BranchGuardCorrect`, `RedactionCorrect`.  `InputsAssumption` asks of the requests
  that they are of the form `Https`, of the configuration what `Validate` lets
  pass, and of the arguments that they are a tree; `DepthAssumption`, that there is
  some bound on the nesting.

Only model-checked: the three liveness properties (`ReloadCompletes`,
`ShutdownEnds`, `CallsEnd`: liveness under fairness is outside the prover's reach)
and, by nature, the five refuted statements.  Every other property of a passing
run is a theorem.

## Not modelled

* `LoadConfig` beyond `Validate`'s rules on prefixes: YAML decoding, environment
  expansion and checks of single fields.  A configuration is any value it may
  return, and a reload may find the file rejected.
* `resolveAgentIDFromLocalPeer`: it reads `/proc` and the output of `ss`.  Its
  answer is an input (`localPeer`).
* `IsStateChangingTool`, `isSensitiveKey` and `isSensitiveValue`: tables of words
  and patterns.  Which tools change state, and which keys and texts are secret,
  are constants.
* The aggregation in `HealthHandler` and the log's `Status`, which only read; the
  failure of `json.Marshal`, as an event's arguments were decoded from JSON.
* TLS and ports of `main.go`, and the routes without a session (`/health`,
  `/metrics`), which are fixed before anything runs.
* A signal that is dropped because the channel is full: `ShutdownEnds` is about a
  SIGTERM that was taken in, and the code promises nothing of the other.
* The MCP library: its sessions, clients and transports appear as far as the code
  relies on them (`PeerDies`, `OnePerName`, `Visible`).

## Reading order

`ServerConfig`, `Multiplexer`, `BackendTable`; `Hitl`, `ApprovalTickets`;
`ToolCalls`; `AuditLog`, `Gateway`; `ToolNames`, `Sessions`; `Identity`,
`Arguments`, `Requests`.  Each `…Proofs` after its module.
