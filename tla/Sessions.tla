------------------------------ MODULE Sessions ------------------------------
(***************************************************************************)
(* The tools a session is given and the tools it is shown (BuildRouter and *)
(* findBackendForTool of router.go).  When a session is registered, a hook *)
(* goes through the backends and registers the tools its agent may use;    *)
(* when it asks for its tools, a filter judges each registered name by     *)
(* finding the backend behind the name again.  Both look at the map of     *)
(* backends several times, without holding its lock in between, so a       *)
(* reload may take effect anywhere inside them.                            *)
(*                                                                         *)
(* The multiplexer is represented by BackendTable, which it implements,    *)
(* with the tools each backend has cached.  A pointer to a backend is the  *)
(* pair of its configuration and its cached tools, as neither changes once *)
(* it is in the map.                                                       *)
(***************************************************************************)
EXTENDS ToolNames

CONSTANTS
  Names,          \* server names
  ServerConfigs,  \* configurations
  Nil,
  Files,          \* what parsing the configuration file may give
  ToolSets,       \* the sets of tools a server may list
  Sessions,       \* session identifiers
  AgentOf         \* ExtractAgentID of a session identifier

VARIABLES
  table, target, halted,   \* the multiplexer, as in BackendTable
  cached,      \* CachedTools of the name's current backend
  globals,     \* the tools BuildRouter registered for every session
  own,         \* the tools registered for each session
  label,       \* where the session's goroutine stands
  todo,        \* the backends the hook still has to look at, as it found them
  gathered,    \* sessionTools
  judged,      \* the tool the filter looks at, and what it has found so far
  disturbed,   \* history: a reload took effect inside the filter
  access,      \* history: for the backends the hook has found, what the map has
               \* said of the agent's access since
  verdicts     \* history: what the map has said of the agent's access to the
               \* backend and of the tool, since the filter has found them

muxVars == <<table, target, halted, cached>>
sessionVars == <<own, label, todo, gathered, judged>>
histVars == <<disturbed, access, verdicts>>
vars == <<muxVars, globals, sessionVars, histVars>>

Mux == INSTANCE BackendTable

Tools == UNION ToolSets

ASSUME SessionsAssumption ==
  /\ Files \subseteq [Names -> ServerConfigs \cup {Nil}]
  /\ Nil \notin ServerConfigs /\ Nil \notin Files /\ Nil \notin Names
  /\ Tools \subseteq Seq(STRING)
  /\ {} \in ToolSets
  /\ \A c \in ServerConfigs : Prefix(c) \in Seq(STRING)

Named(file) == {n \in Names : file[n] # Nil}

Served == Named(table)

\* A registered tool: the name it is published under and what its handler is
\* bound to.
Binding(n, c, tool) == [name |-> Published(c, tool), server |-> n, tool |-> tool]

Bindings == [name : Seq(STRING), server : Names, tool : Tools]

NoFinding == [server |-> Nil, tool |-> << >>]

Finding(n, tool) == [server |-> n, tool |-> tool]

-----------------------------------------------------------------------------
(* LoadConfig, Reload and Stop, as far as readers see them.  Each backend  *)
(* caches what its server listed when it was started, none when that fails. *)
Configs == {f \in Files : Validate(f, Named(f))}

Cachings(file) ==
  {k \in [Names -> ToolSets] : \A n \in Names \ Named(file) : k[n] = {}}

\* AddTool and AddSessionTools keep one tool of a name.
OnePerName(bindings) ==
  {kept \in SUBSET bindings :
     \A e \in bindings : Cardinality({k \in kept : k.name = e.name}) = 1}

\* StartBackends has returned; BuildRouter registers every cached tool for
\* everybody.
Init ==
  /\ table \in Configs /\ target = Nil /\ halted = FALSE
  /\ cached \in Cachings(table)
  /\ globals \in OnePerName(UNION {{Binding(n, table[n], t) : t \in cached[n]} : n \in Served})
  /\ own = [s \in Sessions |-> {}]
  /\ label = [s \in Sessions |-> "new"]
  /\ todo = [s \in Sessions |-> {}]
  /\ gathered = [s \in Sessions |-> {}]
  /\ judged = [s \in Sessions |-> Nil]
  /\ disturbed = [s \in Sessions |-> FALSE]
  /\ access = [s \in Sessions |-> {}]
  /\ verdicts = [s \in Sessions |-> {}]

\* What Reload is given next.
RequestReload ==
  /\ target' \in Configs
  /\ Mux!Request
  /\ UNCHANGED <<cached, globals, sessionVars, histVars>>

-----------------------------------------------------------------------------
(* What the histories record: the questions of the hook and of the filter, *)
(* as a map answers them.                                                  *)
IsAgentAllowed(map, n, agent) == map[n] # Nil /\ AgentListed(map[n], agent)

Access(map, b, agent) == <<b, IsAgentAllowed(map, b.server, agent)>>

Answer(map, finding, agent) ==
  LET c == map[finding.server] IN
  <<IsAgentAllowed(map, finding.server, agent), c # Nil /\ ToolGranted(c, finding.tool, agent)>>

Judging(s) == label[s] \notin {"new", "registering", "idle"}

Found(s) == judged[s].found.server # Nil

\* The swap: kept backends keep their caches, the others were started anew.
TakeEffect ==
  /\ Mux!TakeEffect
  /\ cached' \in Cachings(target)
  /\ \A n \in Names : target[n] = table[n] => cached'[n] = cached[n]
  /\ disturbed' = [s \in Sessions |-> Judging(s)]
  /\ access' = [s \in Sessions |->
       access[s] \cup {Access(target, p[1], AgentOf[s]) : p \in access[s]}]
  /\ verdicts' = [s \in Sessions |->
       IF Judging(s) /\ Found(s)
       THEN verdicts[s] \cup {Answer(target, judged[s].found, AgentOf[s])} ELSE verdicts[s]]
  /\ UNCHANGED <<globals, sessionVars>>

Halt == Mux!Halt /\ UNCHANGED <<cached, globals, sessionVars, histVars>>

-----------------------------------------------------------------------------
Goto(s, l) == label' = [label EXCEPT ![s] = l]

(***************************************************************************)
(* The OnRegisterSession hook: a snapshot of the backends, then for each   *)
(* the agent's access, looked up by name, and the tools of the snapshot.   *)
(***************************************************************************)
GetBackends == {[server |-> n, config |-> table[n], tools |-> cached[n]] : n \in Served}

Connect(s) ==
  /\ label[s] = "new"
  /\ Goto(s, "registering")
  /\ todo' = [todo EXCEPT ![s] = GetBackends]
  /\ access' = [access EXCEPT ![s] = {Access(table, b, AgentOf[s]) : b \in GetBackends}]
  /\ UNCHANGED <<muxVars, globals, own, gathered, judged, disturbed, verdicts>>

\* The tools the hook takes from a backend.
Taken(b, agent) ==
  {Binding(b.server, b.config, t) : t \in {u \in b.tools : ToolGranted(b.config, u, agent)}}

\* Mutant of GoThrough: a backend the agent may not use ends the loop.
GoThroughBreak(s, b) ==
  IF IsAgentAllowed(table, b.server, AgentOf[s])
  THEN /\ gathered' = [gathered EXCEPT ![s] = @ \cup Taken(b, AgentOf[s])]
       /\ todo' = [todo EXCEPT ![s] = @ \ {b}]
  ELSE /\ todo' = [todo EXCEPT ![s] = {}]
       /\ UNCHANGED gathered

\* One turn of the hook's loop.
GoThrough(s, b) ==
  /\ gathered' = [gathered EXCEPT ![s] =
       IF IsAgentAllowed(table, b.server, AgentOf[s]) THEN @ \cup Taken(b, AgentOf[s]) ELSE @]
  /\ todo' = [todo EXCEPT ![s] = @ \ {b}]

Gather(s) ==
  /\ label[s] = "registering"
  /\ \E b \in todo[s] : GoThrough(s, b)
  /\ UNCHANGED <<muxVars, globals, own, label, judged, histVars>>

\* The hook ends.
EndHook(s) ==
  /\ label[s] = "registering" /\ todo[s] = {}
  /\ gathered' = [gathered EXCEPT ![s] = {}]
  /\ access' = [access EXCEPT ![s] = {}]
  /\ Goto(s, "idle")
  /\ UNCHANGED <<muxVars, globals, todo, judged, disturbed, verdicts>>

Register(s) ==
  /\ EndHook(s)
  /\ own' \in {[own EXCEPT ![s] = kept] : kept \in OnePerName(gathered[s])}

\* AddSessionTools fails, which is logged: the session goes on without tools of
\* its own.
RegisterFails(s) ==
  /\ EndHook(s)
  /\ gathered[s] # {}
  /\ UNCHANGED own

(***************************************************************************)
(* tools/list: the session's own tools and the global ones they do not     *)
(* hide, each judged by the filter with four looks at the map.             *)
(***************************************************************************)
Visible(s) == own[s] \cup {g \in globals : \A e \in own[s] : e.name # g.name}

Judge(s) ==
  /\ label[s] = "idle"
  /\ \E e \in Visible(s) : judged' = [judged EXCEPT ![s] = [binding |-> e, found |-> NoFinding]]
  /\ Goto(s, "byPrefix")
  /\ UNCHANGED <<muxVars, globals, own, todo, gathered, histVars>>

Find(s, finding) ==
  /\ judged' = [judged EXCEPT ![s].found = finding]
  /\ verdicts' = [verdicts EXCEPT ![s] = {Answer(table, finding, AgentOf[s])}]
  /\ Goto(s, "agent")

FindNothing(s, l) == Goto(s, l) /\ UNCHANGED <<judged, verdicts>>

\* The servers that have a prefix of the name, and those that list the name.
Claimants(name) == {n \in Served : IsPrefix(Prefix(table[n]), name)}
Listers(name) == {n \in Served : name \in cached[n]}

JudgedName(s) == judged[s].binding.name

\* findBackendForTool, first loop: the map is gone through in any order.
FindByPrefix(s) ==
  /\ label[s] = "byPrefix"
  /\ \/ \E n \in Claimants(JudgedName(s)) :
          Find(s, Finding(n, TrimPrefix(JudgedName(s), Prefix(table[n]))))
     \/ Claimants(JudgedName(s)) = {} /\ FindNothing(s, "byName")
  /\ UNCHANGED <<muxVars, globals, own, todo, gathered, disturbed, access>>

\* Mutant of FindByName: the empty name of "not found" is looked up.
FindByNameUnchecked(s) ==
  /\ label[s] = "byName"
  /\ Goto(s, "agent")
  /\ UNCHANGED <<muxVars, globals, own, todo, gathered, judged, histVars>>

\* Second loop, over a new snapshot: a backend that lists the tool as it is.
FindByName(s) ==
  /\ label[s] = "byName"
  /\ \/ \E n \in Listers(JudgedName(s)) : Find(s, Finding(n, JudgedName(s)))
     \/ Listers(JudgedName(s)) = {} /\ FindNothing(s, "hidden")
  /\ UNCHANGED <<muxVars, globals, own, todo, gathered, disturbed, access>>

\* Mutant of CheckAgent: only the allowlist is asked.
CheckNobody(s) ==
  /\ label[s] = "agent"
  /\ Goto(s, "tool")
  /\ UNCHANGED <<muxVars, globals, own, todo, gathered, judged, histVars>>

CheckAgent(s) ==
  /\ label[s] = "agent"
  /\ Goto(s, IF IsAgentAllowed(table, judged[s].found.server, AgentOf[s]) THEN "tool" ELSE "hidden")
  /\ UNCHANGED <<muxVars, globals, own, todo, gathered, judged, histVars>>

\* Mutant of CheckTool: a backend that is gone has no allowlist.
CheckToolGone(s) ==
  LET c == table[judged[s].found.server] IN
  /\ label[s] = "tool"
  /\ Goto(s, IF c = Nil \/ ToolGranted(c, judged[s].found.tool, AgentOf[s])
             THEN "listed" ELSE "hidden")
  /\ UNCHANGED <<muxVars, globals, own, todo, gathered, judged, histVars>>

CheckTool(s) ==
  LET c == table[judged[s].found.server] IN
  /\ label[s] = "tool"
  /\ Goto(s, IF c # Nil /\ ToolGranted(c, judged[s].found.tool, AgentOf[s])
             THEN "listed" ELSE "hidden")
  /\ UNCHANGED <<muxVars, globals, own, todo, gathered, judged, histVars>>

\* The filter goes on to the next tool, or returns.
Pass(s) ==
  /\ label[s] \in {"listed", "hidden"}
  /\ Goto(s, "idle")
  /\ judged' = [judged EXCEPT ![s] = Nil]
  /\ disturbed' = [disturbed EXCEPT ![s] = FALSE]
  /\ verdicts' = [verdicts EXCEPT ![s] = {}]
  /\ UNCHANGED <<muxVars, globals, own, todo, gathered, access>>

-----------------------------------------------------------------------------
Filter(s) ==
  \/ Judge(s)
  \/ FindByPrefix(s) \/ FindByName(s)
  \/ CheckAgent(s) \/ CheckTool(s) \/ Pass(s)

Hook(s) == Connect(s) \/ Gather(s) \/ Register(s) \/ RegisterFails(s)

Next ==
  \/ RequestReload \/ TakeEffect \/ Halt
  \/ \E s \in Sessions : Hook(s) \/ Filter(s)

Spec == Init /\ [][Next]_vars

-----------------------------------------------------------------------------
Labels == {"new", "registering", "idle", "byPrefix", "byName", "agent", "tool", "listed", "hidden"}

SessionsTypeOK ==
  /\ table \in Configs /\ target \in Configs \cup {Nil} /\ halted \in BOOLEAN
  /\ cached \in Cachings(table)
  /\ globals \subseteq Bindings
  /\ label \in [Sessions -> Labels]
  /\ \A s \in Sessions :
       /\ own[s] \subseteq Bindings /\ gathered[s] \subseteq Bindings
       /\ todo[s] \subseteq [server : Names, config : ServerConfigs, tools : ToolSets]
       /\ disturbed[s] \in BOOLEAN
       /\ Judging(s) =>
            /\ judged[s].binding \in Bindings
            /\ label[s] \in {"agent", "tool", "listed"} => Found(s)

\* No configuration gives another server a prefix the tool's name begins with,
\* nor its own server a prefix under which the name would be another tool's.
Unambiguous(b) ==
  \A f \in Configs : \A n \in Named(f) :
    IsPrefix(Prefix(f[n]), b.name) => n = b.server /\ b.name = Published(f[n], b.tool)

\* The filter only has a name to go by.  Whatever reloads do between its looks,
\* what it finds behind a name that no configuration makes ambiguous is the
\* backend and the tool the name's handler is bound to, so that it is judged by
\* the right rules; or else no backend has the prefix any more, and one lists a
\* tool by that very name.
FilterAgreement ==
  \A s \in Sessions : Judging(s) /\ Found(s) =>
    LET b == judged[s].binding
        f == judged[s].found
    IN  Unambiguous(b) => f = Finding(b.server, b.tool) \/ f.tool = b.name

\* What the present configuration may say of a name: the word of any server with
\* a prefix of it; when there is none, of any that lists the name; else no.
Rulings(name, agent) ==
  IF Claimants(name) # {}
  THEN {Permitted(table[n], TrimPrefix(name, Prefix(table[n])), agent) : n \in Claimants(name)}
  ELSE IF Listers(name) # {}
  THEN {Permitted(table[n], name, agent) : n \in Listers(name)}
  ELSE {FALSE}

\* A filter no reload has got in the way of says of a name what one of these
\* servers says.  Of a tool whose server is still there under its prefix, and is
\* the only one with a prefix of the name, it says exactly what that server says:
\* what was registered before a reload does not outlive its permission, and what
\* is granted is not hidden.
FilterExact ==
  \A s \in Sessions : label[s] \in {"listed", "hidden"} /\ ~disturbed[s] =>
    LET b == judged[s].binding
        c == table[b.server]
    IN  /\ (label[s] = "listed") \in Rulings(b.name, AgentOf[s])
        /\ Claimants(b.name) = {b.server} /\ b.name = Published(c, b.tool) =>
             (label[s] = "listed" <=> Permitted(c, b.tool, AgentOf[s]))

\* A filter that reloads do get in the way of may put together the answers of two
\* configurations, but makes up none of its own: it lists a tool only if, since
\* it found the backend, the agent has had access to it and the tool has been
\* granted, and hides it only if some configuration since then refuses it.
FilterSteady ==
  \A s \in Sessions :
    /\ label[s] = "listed" => /\ \E p \in verdicts[s] : p[1]
                              /\ \E p \in verdicts[s] : p[2]
    /\ label[s] = "hidden" /\ Found(s) => \E p \in verdicts[s] : ~(p[1] /\ p[2])

\* A registration, whatever reloads do inside it, gives a session no tool but
\* those that backends of its snapshot granted, to which the agent has had access
\* since; and of a backend to which the agent has had access throughout it gives
\* every such tool, except that of two with one name it gives one.
RegistrationExact ==
  [][\A s \in Sessions : Register(s) =>
       /\ own'[s] \subseteq UNION {Taken(p[1], AgentOf[s]) : p \in {q \in access[s] : q[2]}}
       /\ \A p \in access[s] : <<p[1], FALSE>> \notin access[s] =>
            \A e \in Taken(p[1], AgentOf[s]) : \E k \in own'[s] : k.name = e.name]_vars
=============================================================================
