--------------------------- MODULE SessionsProofs ---------------------------
(***************************************************************************)
(* Proofs about Sessions, for any servers, tools, agents and sessions, any *)
(* configurations that Validate accepts, those with prefixes that begin    *)
(* with one another included, and any number of reloads.                   *)
(***************************************************************************)
EXTENDS Sessions, FiniteSetTheorems, TLAPS

-----------------------------------------------------------------------------
(* Names and prefixes.                                                     *)
LEMMA TrimPublished ==
  ASSUME NEW p \in Seq(STRING), NEW t \in Seq(STRING)
  PROVE  /\ p \o t \in Seq(STRING)
         /\ IsPrefix(p, p \o t)
         /\ TrimPrefix(p \o t, p) = t
<1>1. /\ p \o t \in Seq(STRING) /\ Len(p \o t) = Len(p) + Len(t)
      /\ \A i \in 1..Len(p) : (p \o t)[i] = p[i]
      /\ \A i \in 1..Len(t) : (p \o t)[Len(p) + i] = t[i]
  OBVIOUS
<1>2. Len(p) \in Nat /\ Len(t) \in Nat
  OBVIOUS
<1>3. SubSeq(p \o t, 1, Len(p)) = SubSeq(p, 1, Len(p))
  BY <1>1, <1>2
<1>4. SubSeq(p \o t, Len(p) + 1, Len(p \o t)) = t
  BY <1>1, <1>2
<1> QED BY <1>1, <1>2, <1>3, <1>4 DEF IsPrefix, TrimPrefix

\* What is left of a name without a prefix it begins with is a name.
LEMMA TrimType ==
  ASSUME NEW name \in Seq(STRING), NEW p \in Seq(STRING), IsPrefix(p, name)
  PROVE  TrimPrefix(name, p) \in Seq(STRING)
<1>1. Len(p) \in Nat /\ Len(name) \in Nat /\ Len(p) <= Len(name)
  BY DEF IsPrefix
<1>2. SubSeq(name, Len(p) + 1, Len(name)) \in Seq(STRING)
  BY <1>1
<1> QED BY <1>2 DEF TrimPrefix

-----------------------------------------------------------------------------
(* The invariant.                                                          *)
Findings == [server : Names \cup {Nil}, tool : Seq(STRING)]

Judgements == [binding : Bindings, found : Findings]

Backends == [server : Names, config : ServerConfigs, tools : ToolSets]

TableInv ==
  /\ table \in Configs /\ target \in Configs \cup {Nil} /\ halted \in BOOLEAN
  /\ cached \in Cachings(table)

SessionTypes ==
  /\ label \in [Sessions -> Labels]
  /\ globals \subseteq Bindings
  /\ own \in [Sessions -> SUBSET Bindings]
  /\ gathered \in [Sessions -> SUBSET Bindings]
  /\ todo \in [Sessions -> SUBSET Backends]
  /\ judged \in [Sessions -> {Nil} \cup Judgements]
  /\ disturbed \in [Sessions -> BOOLEAN]
  /\ access = [s \in Sessions |-> access[s]]
  /\ verdicts = [s \in Sessions |-> verdicts[s]]

FoundInv ==
  \A s \in Sessions :
    /\ Judging(s) => judged[s] \in Judgements
    /\ label[s] \in {"byPrefix", "byName"} => ~Found(s)
    /\ label[s] \in {"agent", "tool", "listed"} => Found(s)
    /\ Judging(s) /\ Found(s) /\ Unambiguous(judged[s].binding) =>
         \/ judged[s].found = Finding(judged[s].binding.server, judged[s].binding.tool)
         \/ judged[s].found.tool = judged[s].binding.name

SafeInv == TableInv /\ SessionTypes /\ FoundInv

LEMMA TableFacts ==
  ASSUME TableInv
  PROVE  /\ Served \subseteq Names
         /\ Served = Named(table)
         /\ \A n \in Names : cached[n] \in ToolSets /\ cached[n] \subseteq Tools
         /\ \A n \in Served : table[n] \in ServerConfigs /\ table[n] # Nil
                              /\ Prefix(table[n]) \in Seq(STRING)
         /\ Tools \subseteq Seq(STRING)
<1>1. cached \in [Names -> ToolSets]
  BY DEF TableInv, Cachings
<1>2. \A T \in ToolSets : T \subseteq Tools
  BY DEF Tools
<1>3. \A n \in Served : table[n] \in ServerConfigs
  BY SessionsAssumption DEF TableInv, Configs, Served, Named
<1> QED BY <1>1, <1>2, <1>3, SessionsAssumption DEF Served, Named

\* The published name of a tool is a name.
LEMMA BindingType ==
  ASSUME NEW n \in Names, NEW c \in ServerConfigs, NEW t \in Tools
  PROVE  Binding(n, c, t) \in Bindings
<1>1. Published(c, t) \in Seq(STRING)
  BY TrimPublished, SessionsAssumption DEF Published
<1> QED BY <1>1 DEF Binding, Bindings

LEMMA TakenType ==
  ASSUME NEW b \in Backends, NEW agent
  PROVE  Taken(b, agent) \subseteq Bindings
<1>1. b.server \in Names /\ b.config \in ServerConfigs /\ b.tools \subseteq Tools
  BY DEF Backends, Tools
<1> QED BY <1>1, BindingType DEF Taken

\* The steps by what they touch.
MuxMoves == RequestReload \/ TakeEffect \/ Halt

LEMMA TableStep ==
  ASSUME TableInv, [Next]_vars
  PROVE  TableInv'
<1>1. CASE RequestReload
  BY <1>1 DEF RequestReload, Mux!Request, TableInv
<1>2. CASE TakeEffect
  BY <1>2 DEF TakeEffect, Mux!TakeEffect, TableInv
<1>3. CASE Halt
  BY <1>3 DEF Halt, Mux!Halt, TableInv
<1>4. ASSUME UNCHANGED muxVars PROVE TableInv'
  BY <1>4 DEF muxVars, TableInv
<1>5. ASSUME NEW s \in Sessions, Hook(s) \/ Filter(s) PROVE UNCHANGED muxVars
  BY <1>5 DEF Hook, Filter, Connect, Gather, EndHook, Register, RegisterFails, Judge,
              FindByPrefix, FindByName, CheckAgent, CheckTool, Pass
<1> QED BY <1>1, <1>2, <1>3, <1>4, <1>5 DEF Next, vars

LEMMA SafeInit == Init => SafeInv
<1> SUFFICES ASSUME Init PROVE SafeInv
  OBVIOUS
<1>1. TableInv
  BY DEF Init, TableInv
<1>2. globals \subseteq Bindings
  <2>1. \A n \in Served : \A t \in cached[n] : Binding(n, table[n], t) \in Bindings
    BY <1>1, TableFacts, BindingType
  <2> QED BY <2>1 DEF Init, OnePerName
<1>3. \A s \in Sessions : label[s] = "new"
  BY DEF Init
<1>4. SessionTypes
  BY <1>2 DEF Init, SessionTypes, Labels
<1>5. FoundInv
  BY <1>3 DEF FoundInv, Judging
<1> QED BY <1>1, <1>4, <1>5 DEF SafeInv

-----------------------------------------------------------------------------
LEMMA ConnectSafe ==
  ASSUME SafeInv, NEW s \in Sessions, Connect(s)
  PROVE  SessionTypes' /\ FoundInv'
<1>1. /\ todo' = [todo EXCEPT ![s] = GetBackends]
      /\ label' = [label EXCEPT ![s] = "registering"]
      /\ access' = [access EXCEPT ![s] = {Access(table, b, AgentOf[s]) : b \in GetBackends}]
      /\ UNCHANGED <<globals, own, gathered, judged, disturbed, verdicts>>
  BY DEF Connect, Goto
<1>2. GetBackends \subseteq Backends
  BY TableFacts DEF SafeInv, GetBackends, Backends
<1>3. SessionTypes'
  BY <1>1, <1>2 DEF SafeInv, SessionTypes, Labels
<1>4. FoundInv'
  BY <1>1 DEF SafeInv, SessionTypes, FoundInv, Judging, Found
<1> QED BY <1>3, <1>4

LEMMA GatherSafe ==
  ASSUME SafeInv, NEW s \in Sessions, Gather(s)
  PROVE  SessionTypes' /\ FoundInv'
<1>1. PICK b \in todo[s] : GoThrough(s, b)
  BY DEF Gather
<1>2. b \in Backends /\ Taken(b, AgentOf[s]) \subseteq Bindings
  BY <1>1, TakenType DEF SafeInv, SessionTypes
<1>3. PICK more : /\ more \subseteq Bindings
                  /\ gathered' = [gathered EXCEPT ![s] = @ \cup more]
  <2>1. CASE IsAgentAllowed(table, b.server, AgentOf[s])
    BY <1>1, <1>2, <2>1 DEF GoThrough
  <2>2. CASE ~IsAgentAllowed(table, b.server, AgentOf[s])
    <3>1. gathered' = [gathered EXCEPT ![s] = @ \cup {}]
      BY <1>1, <2>2 DEF GoThrough
    <3> QED BY <3>1
  <2> QED BY <2>1, <2>2
<1>4. /\ todo' = [todo EXCEPT ![s] = @ \ {b}]
      /\ UNCHANGED <<globals, own, label, judged, disturbed, access, verdicts>>
  BY <1>1 DEF Gather, GoThrough, histVars
<1>5. SessionTypes'
  BY <1>3, <1>4 DEF SafeInv, SessionTypes
<1>6. FoundInv'
  BY <1>4 DEF SafeInv, FoundInv, Judging, Found
<1> QED BY <1>5, <1>6

LEMMA RegisterSafe ==
  ASSUME SafeInv, NEW s \in Sessions, Register(s) \/ RegisterFails(s)
  PROVE  SessionTypes' /\ FoundInv'
<1>1. PICK kept : kept \subseteq Bindings /\ own' = [own EXCEPT ![s] = kept]
  <2>1. CASE Register(s)
    BY <2>1 DEF Register, OnePerName, SafeInv, SessionTypes
  <2>2. CASE RegisterFails(s)
    <3>1. own' = [own EXCEPT ![s] = own[s]] /\ own[s] \subseteq Bindings
      BY <2>2 DEF RegisterFails, SafeInv, SessionTypes
    <3> QED BY <3>1
  <2> QED BY <2>1, <2>2
<1>2. /\ gathered' = [gathered EXCEPT ![s] = {}]
      /\ label' = [label EXCEPT ![s] = "idle"]
      /\ access' = [access EXCEPT ![s] = {}]
      /\ UNCHANGED <<globals, todo, judged, disturbed, verdicts>>
  BY DEF Register, RegisterFails, EndHook, Goto
<1>3. SessionTypes'
  BY <1>1, <1>2 DEF SafeInv, SessionTypes, Labels
<1>4. FoundInv'
  BY <1>2 DEF SafeInv, SessionTypes, FoundInv, Judging, Found
<1> QED BY <1>3, <1>4

-----------------------------------------------------------------------------
LEMMA JudgeSafe ==
  ASSUME SafeInv, NEW s \in Sessions, Judge(s)
  PROVE  SessionTypes' /\ FoundInv'
<1>1. PICK e \in Visible(s) : judged' = [judged EXCEPT ![s] = [binding |-> e, found |-> NoFinding]]
  BY DEF Judge
<1>2. e \in Bindings
  BY <1>1 DEF Visible, SafeInv, SessionTypes
<1>3. NoFinding \in Findings
  BY DEF NoFinding, Findings
<1>4. /\ label' = [label EXCEPT ![s] = "byPrefix"]
      /\ UNCHANGED <<globals, own, todo, gathered, disturbed, access, verdicts>>
  BY DEF Judge, Goto, histVars
<1>5. SessionTypes'
  BY <1>1, <1>2, <1>3, <1>4 DEF SafeInv, SessionTypes, Judgements, Labels
<1>6. judged'[s] \in Judgements /\ judged'[s].found = NoFinding
  <2>1. judged'[s] = [binding |-> e, found |-> NoFinding]
    BY <1>1 DEF SafeInv, SessionTypes
  <2> QED BY <1>2, <1>3, <2>1 DEF Judgements
<1>7. FoundInv'
  BY <1>1, <1>4, <1>6 DEF SafeInv, SessionTypes, FoundInv, Judging, Found, NoFinding
<1> QED BY <1>5, <1>7

\* What a finding leaves.
LEMMA FindEffect ==
  ASSUME SafeInv, NEW s \in Sessions, Judging(s), NEW n \in Names, NEW t \in Seq(STRING),
         Find(s, Finding(n, t))
  PROVE  /\ judged' = [judged EXCEPT ![s] = judged'[s]]
         /\ judged'[s] \in Judgements
         /\ judged'[s].binding = judged[s].binding
         /\ judged'[s].found = Finding(n, t)
         /\ judged'[s].found.server = n /\ judged'[s].found.tool = t
         /\ label' = [label EXCEPT ![s] = "agent"]
         /\ verdicts' = [verdicts EXCEPT ![s] = {Answer(table, Finding(n, t), AgentOf[s])}]
<1>1. judged[s] \in Judgements
  BY DEF SafeInv, FoundInv
<1>2. Finding(n, t) \in Findings /\ Finding(n, t).server = n /\ Finding(n, t).tool = t
  BY DEF Finding, Findings
<1>3. /\ judged' = [judged EXCEPT ![s] = [judged[s] EXCEPT !.found = Finding(n, t)]]
      /\ label' = [label EXCEPT ![s] = "agent"]
      /\ verdicts' = [verdicts EXCEPT ![s] = {Answer(table, Finding(n, t), AgentOf[s])}]
  BY DEF Find, Goto
<1>4. judged'[s] = [judged[s] EXCEPT !.found = Finding(n, t)]
  BY <1>3 DEF SafeInv, SessionTypes
<1> QED BY <1>1, <1>2, <1>3, <1>4 DEF Judgements

\* A finding that fits the judged name keeps the invariant.
LEMMA FindSafe ==
  ASSUME SafeInv, NEW s \in Sessions, Judging(s), NEW n \in Names, NEW t \in Seq(STRING),
         Find(s, Finding(n, t)),
         UNCHANGED <<globals, own, todo, gathered, disturbed, access>>,
         Unambiguous(judged[s].binding) =>
           \/ Finding(n, t) = Finding(judged[s].binding.server, judged[s].binding.tool)
           \/ t = judged[s].binding.name
  PROVE  SessionTypes' /\ FoundInv'
<1>1. /\ judged' = [judged EXCEPT ![s] = judged'[s]]
      /\ judged'[s] \in Judgements
      /\ judged'[s].binding = judged[s].binding
      /\ judged'[s].found = Finding(n, t)
      /\ judged'[s].found.server = n /\ judged'[s].found.tool = t
      /\ label' = [label EXCEPT ![s] = "agent"]
      /\ verdicts' = [verdicts EXCEPT ![s] = {Answer(table, Finding(n, t), AgentOf[s])}]
  BY FindEffect
<1>2. SessionTypes'
  BY <1>1 DEF SafeInv, SessionTypes, Labels
<1>3. n # Nil
  BY SessionsAssumption
<1>4. FoundInv'
  BY <1>1, <1>3 DEF SafeInv, SessionTypes, FoundInv, Judging, Found
<1> QED BY <1>2, <1>4

\* A step of the filter that only moves on.
LEMMA MoveSafe ==
  ASSUME SafeInv, NEW s \in Sessions, Judging(s), NEW l \in {"byName", "hidden", "tool", "listed"},
         Goto(s, l),
         l \in {"tool", "listed"} => Found(s), l = "byName" => ~Found(s),
         UNCHANGED <<globals, own, todo, gathered, judged, disturbed, access, verdicts>>
  PROVE  SessionTypes' /\ FoundInv'
<1>1. label' = [label EXCEPT ![s] = l]
  BY DEF Goto
<1>2. SessionTypes'
  BY <1>1 DEF SafeInv, SessionTypes, Labels
<1>3. FoundInv'
  BY <1>1 DEF SafeInv, SessionTypes, FoundInv, Judging, Found
<1> QED BY <1>2, <1>3

\* A server with a prefix of an unambiguous name is the one the name belongs to,
\* and what comes after the prefix is its tool.
LEMMA ClaimIsOwners ==
  ASSUME TableInv, NEW b \in Bindings, NEW n \in Claimants(b.name)
  PROVE  /\ n \in Names /\ TrimPrefix(b.name, Prefix(table[n])) \in Seq(STRING)
         /\ b.name = Published(table[n], b.tool) => TrimPrefix(b.name, Prefix(table[n])) = b.tool
         /\ Unambiguous(b) =>
              n = b.server /\ TrimPrefix(b.name, Prefix(table[n])) = b.tool
<1>1. /\ n \in Served /\ IsPrefix(Prefix(table[n]), b.name)
      /\ n \in Names /\ n \in Named(table) /\ table \in Configs
      /\ Prefix(table[n]) \in Seq(STRING)
  BY TableFacts DEF Claimants, TableInv
<1>2. b.name \in Seq(STRING) /\ b.tool \in Seq(STRING)
  BY TableFacts DEF Bindings
<1>3. b.name = Published(table[n], b.tool) => TrimPrefix(b.name, Prefix(table[n])) = b.tool
  BY <1>1, <1>2, TrimPublished DEF Published
<1>4. TrimPrefix(b.name, Prefix(table[n])) \in Seq(STRING)
  BY <1>1, <1>2, TrimType
<1>5. Unambiguous(b) => n = b.server /\ b.name = Published(table[n], b.tool)
  BY <1>1 DEF Unambiguous
<1> QED BY <1>1, <1>3, <1>4, <1>5

LEMMA FindByPrefixSafe ==
  ASSUME SafeInv, NEW s \in Sessions, FindByPrefix(s)
  PROVE  SessionTypes' /\ FoundInv'
<1>1. Judging(s) /\ UNCHANGED <<globals, own, todo, gathered, disturbed, access>>
  BY DEF FindByPrefix, Judging
<1>2. judged[s].binding \in Bindings /\ ~Found(s)
  BY <1>1 DEF SafeInv, FoundInv, Judgements, FindByPrefix
<1>3. ASSUME NEW n \in Claimants(JudgedName(s)),
             Find(s, Finding(n, TrimPrefix(JudgedName(s), Prefix(table[n]))))
      PROVE  SessionTypes' /\ FoundInv'
  <2> DEFINE t == TrimPrefix(JudgedName(s), Prefix(table[n]))
  <2>1. /\ n \in Names /\ t \in Seq(STRING)
        /\ Unambiguous(judged[s].binding) =>
             n = judged[s].binding.server /\ t = judged[s].binding.tool
    BY <1>2, ClaimIsOwners DEF SafeInv, JudgedName
  <2> HIDE DEF t
  <2> QED BY <1>1, <1>3, <2>1, FindSafe DEF t
<1>4. CASE FindNothing(s, "byName")
  BY <1>1, <1>2, <1>4, MoveSafe DEF FindNothing
<1> QED BY <1>3, <1>4 DEF FindByPrefix

LEMMA FindByNameSafe ==
  ASSUME SafeInv, NEW s \in Sessions, FindByName(s)
  PROVE  SessionTypes' /\ FoundInv'
<1>1. Judging(s) /\ UNCHANGED <<globals, own, todo, gathered, disturbed, access>>
  BY DEF FindByName, Judging
<1>2. ASSUME NEW n \in Listers(JudgedName(s)), Find(s, Finding(n, JudgedName(s)))
      PROVE  SessionTypes' /\ FoundInv'
  <2>1. n \in Names /\ JudgedName(s) \in Seq(STRING)
    BY TableFacts DEF SafeInv, Listers
  <2> QED BY <1>1, <1>2, <2>1, FindSafe DEF JudgedName
<1>3. CASE FindNothing(s, "hidden")
  BY <1>1, <1>3, MoveSafe DEF FindNothing
<1> QED BY <1>2, <1>3 DEF FindByName

LEMMA CheckSafe ==
  ASSUME SafeInv, NEW s \in Sessions, CheckAgent(s) \/ CheckTool(s)
  PROVE  SessionTypes' /\ FoundInv'
<1>1. /\ Judging(s) /\ label[s] \in {"agent", "tool"}
      /\ UNCHANGED <<globals, own, todo, gathered, judged, disturbed, access, verdicts>>
  BY DEF CheckAgent, CheckTool, Judging, histVars
<1>2. Found(s)
  BY <1>1 DEF SafeInv, FoundInv
<1>3. \/ Goto(s, "tool") \/ Goto(s, "hidden") \/ Goto(s, "listed")
  BY DEF CheckAgent, CheckTool
<1> QED BY <1>1, <1>2, <1>3, MoveSafe

LEMMA PassSafe ==
  ASSUME SafeInv, NEW s \in Sessions, Pass(s)
  PROVE  SessionTypes' /\ FoundInv'
<1>1. /\ label' = [label EXCEPT ![s] = "idle"]
      /\ judged' = [judged EXCEPT ![s] = Nil]
      /\ disturbed' = [disturbed EXCEPT ![s] = FALSE]
      /\ verdicts' = [verdicts EXCEPT ![s] = {}]
      /\ UNCHANGED <<globals, own, todo, gathered, access>>
  BY DEF Pass, Goto
<1>2. SessionTypes'
  BY <1>1 DEF SafeInv, SessionTypes, Labels
<1>3. FoundInv'
  BY <1>1 DEF SafeInv, SessionTypes, FoundInv, Judging, Found
<1> QED BY <1>2, <1>3

LEMMA SafeStep == SafeInv /\ [Next]_vars => SafeInv'
<1> SUFFICES ASSUME SafeInv, [Next]_vars PROVE SafeInv'
  OBVIOUS
<1>1. TableInv'
  BY TableStep DEF SafeInv
<1>2. ASSUME NEW s \in Sessions, Hook(s) \/ Filter(s)
      PROVE  SessionTypes' /\ FoundInv'
  BY <1>2, ConnectSafe, GatherSafe, RegisterSafe, JudgeSafe, FindByPrefixSafe, FindByNameSafe,
     CheckSafe, PassSafe DEF Hook, Filter
<1>3. CASE MuxMoves \/ UNCHANGED vars
  <2>1. UNCHANGED <<globals, sessionVars>>
    BY <1>3 DEF MuxMoves, RequestReload, TakeEffect, Halt, vars
  <2>2. /\ disturbed' \in [Sessions -> BOOLEAN]
        /\ access' = [s \in Sessions |-> access'[s]]
        /\ verdicts' = [s \in Sessions |-> verdicts'[s]]
    BY <1>3 DEF MuxMoves, RequestReload, TakeEffect, Halt, vars, histVars, SafeInv, SessionTypes,
                Judging
  <2>3. SessionTypes'
    BY <2>1, <2>2 DEF sessionVars, SafeInv, SessionTypes
  <2>4. FoundInv'
    BY <2>1 DEF sessionVars, SafeInv, FoundInv, Judging, Found
  <2> QED BY <1>1, <2>3, <2>4 DEF SafeInv
<1> QED BY <1>1, <1>2, <1>3 DEF Next, MuxMoves, SafeInv

\* The invariant the theorems below start from: what the filter holds of a name
\* fits it, through any number of reloads.
THEOREM SessionsInductive == Spec => []SafeInv
  BY SafeInit, SafeStep, PTL DEF Spec

\* Types, and that the filter goes on only with a backend it has found.
THEOREM SessionsTypeCorrect == Spec => []SessionsTypeOK
<1>1. SafeInv => SessionsTypeOK
  <2> SUFFICES ASSUME SafeInv PROVE SessionsTypeOK
    OBVIOUS
  <2>1. ASSUME NEW s \in Sessions, Judging(s)
        PROVE  judged[s].binding \in Bindings
    BY <2>1 DEF SafeInv, FoundInv, Judgements
  <2> QED BY <2>1 DEF SafeInv, TableInv, SessionTypes, FoundInv, SessionsTypeOK, Backends
<1> QED BY <1>1, SessionsInductive, PTL

\* The filter judges a name that no configuration makes ambiguous by the rules of
\* the backend its handler is bound to, through any number of reloads between its
\* looks at the map.
THEOREM FilterAgrees == Spec => []FilterAgreement
<1>1. SafeInv => FilterAgreement
  BY DEF SafeInv, FoundInv, FilterAgreement
<1> QED BY <1>1, SessionsInductive, PTL

-----------------------------------------------------------------------------
(* One step of a session.                                                  *)
B(s) == judged[s].binding
F(s) == judged[s].found

\* It leaves the others alone, and the multiplexer.
LEMMA OthersKeep ==
  ASSUME SafeInv, NEW s \in Sessions, Hook(s) \/ Filter(s)
  PROVE  /\ UNCHANGED muxVars
         /\ \A r \in Sessions \ {s} :
              UNCHANGED <<label[r], own[r], gathered[r], todo[r], judged[r], disturbed[r],
                          access[r], verdicts[r]>>
<1> USE DEF SafeInv, SessionTypes, Goto, histVars
<1>1. CASE Connect(s) \/ Judge(s) \/ Register(s) \/ RegisterFails(s)
  BY <1>1 DEF Connect, Judge, Register, RegisterFails, EndHook
<1>2. CASE Gather(s)
  BY <1>2 DEF Gather, GoThrough
<1>3. CASE FindByPrefix(s) \/ FindByName(s)
  BY <1>3 DEF FindByPrefix, FindByName, Find, FindNothing
<1>4. CASE CheckAgent(s) \/ CheckTool(s) \/ Pass(s)
  BY <1>4 DEF CheckAgent, CheckTool, Pass
<1> QED BY <1>1, <1>2, <1>3, <1>4 DEF Hook, Filter

\* No step of the filter goes back to the hook.
LEMMA FilterGoes ==
  ASSUME SafeInv, NEW s \in Sessions, Filter(s)
  PROVE  label'[s] \notin {"new", "registering"}
<1> USE DEF Goto, SafeInv, SessionTypes
<1>1. CASE Judge(s) \/ CheckAgent(s) \/ CheckTool(s) \/ Pass(s)
  BY <1>1 DEF Judge, CheckAgent, CheckTool, Pass
<1>2. CASE FindByPrefix(s) \/ FindByName(s)
  BY <1>2 DEF FindByPrefix, FindByName, Find, FindNothing
<1> QED BY <1>1, <1>2 DEF Filter

\* Each step of the filter that finds something, by what it finds.
LEMMA Finds ==
  ASSUME SafeInv, NEW s \in Sessions, FindByPrefix(s) \/ FindByName(s), judged'[s] # judged[s]
  PROVE  /\ label'[s] = "agent" /\ B(s)' = B(s)
         /\ verdicts'[s] = {Answer(table, F(s)', AgentOf[s])}
         /\ \/ /\ label[s] = "byPrefix"
               /\ F(s).server' \in Claimants(B(s).name)
               /\ F(s).tool' = TrimPrefix(B(s).name, Prefix(table[F(s).server']))
            \/ /\ label[s] = "byName"
               /\ F(s).server' \in Listers(B(s).name)
               /\ F(s).tool' = B(s).name
<1>1. Judging(s) /\ B(s) \in Bindings
  BY DEF FindByPrefix, FindByName, Judging, SafeInv, FoundInv, Judgements, B
<1>2. CASE FindByPrefix(s)
  <2>1. PICK n \in Claimants(B(s).name) : Find(s, Finding(n, TrimPrefix(B(s).name, Prefix(table[n]))))
    BY <1>2 DEF FindByPrefix, FindNothing, JudgedName, B
  <2> DEFINE t == TrimPrefix(B(s).name, Prefix(table[n]))
  <2>2. n \in Names /\ t \in Seq(STRING)
    BY <1>1, ClaimIsOwners DEF SafeInv
  <2>3. /\ F(s)' = Finding(n, t) /\ F(s).server' = n /\ F(s).tool' = t
        /\ label'[s] = "agent" /\ B(s)' = B(s)
        /\ verdicts'[s] = {Answer(table, Finding(n, t), AgentOf[s])}
    <3> HIDE DEF t
    <3>1. Find(s, Finding(n, t))
      BY <2>1 DEF t
    <3> QED BY <1>1, <2>2, <3>1, FindEffect DEF SafeInv, SessionTypes, B, F
  <2> QED BY <1>2, <2>3 DEF FindByPrefix
<1>3. CASE FindByName(s)
  <2>1. PICK n \in Listers(B(s).name) : Find(s, Finding(n, B(s).name))
    BY <1>3 DEF FindByName, FindNothing, JudgedName, B
  <2>2. n \in Names /\ B(s).name \in Seq(STRING)
    BY <1>1, TableFacts DEF SafeInv, Listers, Bindings
  <2>3. /\ F(s)' = Finding(n, B(s).name) /\ F(s).server' = n /\ F(s).tool' = B(s).name
        /\ label'[s] = "agent" /\ B(s)' = B(s)
        /\ verdicts'[s] = {Answer(table, Finding(n, B(s).name), AgentOf[s])}
    BY <1>1, <2>1, <2>2, FindEffect DEF SafeInv, SessionTypes, B, F
  <2> QED BY <1>3, <2>3 DEF FindByName
<1> QED BY <1>2, <1>3

\* And each that finds nothing.
LEMMA FindsNothing ==
  ASSUME SafeInv, NEW s \in Sessions, FindByPrefix(s) \/ FindByName(s), judged'[s] = judged[s]
  PROVE  \/ /\ label'[s] = "byName" /\ Claimants(B(s).name) = {}
         \/ /\ label[s] = "byName" /\ label'[s] = "hidden" /\ Listers(B(s).name) = {}
<1>1. Judging(s) /\ B(s) \in Bindings /\ ~Found(s)
  BY DEF FindByPrefix, FindByName, Judging, SafeInv, FoundInv, Judgements, B
<1>2. ASSUME NEW n \in Names, NEW t \in Seq(STRING), Find(s, Finding(n, t)) PROVE FALSE
  <2>1. judged'[s].found.server = n /\ n # Nil
    BY <1>1, <1>2, FindEffect, SessionsAssumption
  <2> QED BY <1>1, <2>1 DEF Found
<1>3. CASE FindByPrefix(s)
  <2>1. ASSUME NEW n \in Claimants(B(s).name),
               Find(s, Finding(n, TrimPrefix(B(s).name, Prefix(table[n]))))
        PROVE  FALSE
    BY <1>1, <1>2, <2>1, ClaimIsOwners DEF SafeInv
  <2> QED BY <1>3, <2>1 DEF FindByPrefix, FindNothing, Goto, JudgedName, B, SafeInv, SessionTypes
<1>4. CASE FindByName(s)
  <2>1. ASSUME NEW n \in Listers(B(s).name), Find(s, Finding(n, B(s).name)) PROVE FALSE
    BY <1>1, <1>2, <2>1, TableFacts DEF SafeInv, Listers, Bindings
  <2> QED BY <1>4, <2>1 DEF FindByName, FindNothing, Goto, JudgedName, B, SafeInv, SessionTypes
<1> QED BY <1>3, <1>4

-----------------------------------------------------------------------------
(* What a filter no reload has disturbed knows at each of its steps.       *)
ByPrefix(s) ==
  /\ F(s).server \in Claimants(B(s).name)
  /\ F(s).tool = TrimPrefix(B(s).name, Prefix(table[F(s).server]))

ByName(s) ==
  /\ Claimants(B(s).name) = {}
  /\ F(s).server \in Listers(B(s).name)
  /\ F(s).tool = B(s).name

Refused(s) == ~Permitted(table[F(s).server], F(s).tool, AgentOf[s])

Verdict(s) ==
  /\ label[s] = "byName" => Claimants(B(s).name) = {}
  /\ label[s] \in {"agent", "tool", "listed"} => ByPrefix(s) \/ ByName(s)
  /\ label[s] \in {"tool", "listed"} => IsAgentAllowed(table, F(s).server, AgentOf[s])
  /\ label[s] = "listed" => ToolGranted(table[F(s).server], F(s).tool, AgentOf[s])
  /\ label[s] = "hidden" =>
       \/ Claimants(B(s).name) = {} /\ Listers(B(s).name) = {}
       \/ (ByPrefix(s) \/ ByName(s)) /\ Refused(s)

VerdictInv == \A s \in Sessions : disturbed[s] \/ Verdict(s)

LEMMA SameVerdict ==
  ASSUME UNCHANGED <<table, cached>>, NEW s \in Sessions, UNCHANGED <<label[s], judged[s]>>,
         Verdict(s)
  PROVE  Verdict(s)'
  BY DEF Verdict, ByPrefix, ByName, Refused, Claimants, Listers, B, F, Served, IsAgentAllowed

LEMMA FindVerdict ==
  ASSUME SafeInv, NEW s \in Sessions, FindByPrefix(s) \/ FindByName(s), Verdict(s)
  PROVE  Verdict(s)'
<1>1. UNCHANGED <<table, cached>>
  BY OthersKeep DEF Filter, muxVars
<1>2. \A name : Claimants(name)' = Claimants(name) /\ Listers(name)' = Listers(name)
  BY <1>1 DEF Claimants, Listers, Served
<1>3. CASE judged'[s] # judged[s]
  <2>1. ByPrefix(s)' \/ ByName(s)'
    BY <1>1, <1>2, <1>3, Finds DEF Verdict, ByPrefix, ByName, B, F
  <2>2. label'[s] = "agent"
    BY <1>3, Finds
  <2> QED BY <2>1, <2>2 DEF Verdict
<1>4. CASE judged'[s] = judged[s]
  <2>1. B(s)' = B(s)
    BY <1>4 DEF B
  <2> QED BY <1>2, <1>4, <2>1, FindsNothing DEF Verdict
<1> QED BY <1>3, <1>4

LEMMA CheckVerdict ==
  ASSUME SafeInv, NEW s \in Sessions, CheckAgent(s) \/ CheckTool(s), Verdict(s)
  PROVE  Verdict(s)'
<1>1. UNCHANGED <<table, cached, judged>> /\ label[s] \in {"agent", "tool"}
  BY DEF CheckAgent, CheckTool, muxVars
<1>2. ByPrefix(s) \/ ByName(s)
  BY <1>1 DEF Verdict
<1>3. /\ ByPrefix(s)' = ByPrefix(s) /\ ByName(s)' = ByName(s)
      /\ Refused(s)' = Refused(s) /\ F(s)' = F(s)
  BY <1>1 DEF ByPrefix, ByName, Refused, Claimants, Listers, B, F, Served
<1>4. F(s).server \in Served
  BY <1>2 DEF ByPrefix, ByName, Claimants, Listers
<1>5. table[F(s).server] # Nil
  BY <1>4, TableFacts DEF SafeInv
<1>6. CASE CheckAgent(s)
  <2>1. CASE IsAgentAllowed(table, F(s).server, AgentOf[s])
    <3>1. label'[s] = "tool"
      BY <1>6, <2>1 DEF CheckAgent, Goto, SafeInv, SessionTypes, F
    <3>2. IsAgentAllowed(table, F(s).server, AgentOf[s])'
      BY <1>1, <1>3, <2>1 DEF IsAgentAllowed
    <3> QED BY <1>2, <1>3, <3>1, <3>2 DEF Verdict
  <2>2. CASE ~IsAgentAllowed(table, F(s).server, AgentOf[s])
    <3>1. label'[s] = "hidden"
      BY <1>6, <2>2 DEF CheckAgent, Goto, SafeInv, SessionTypes, F
    <3>2. Refused(s)
      BY <1>5, <2>2 DEF IsAgentAllowed, Permitted, Refused
    <3> QED BY <1>2, <1>3, <3>1, <3>2 DEF Verdict
  <2> QED BY <2>1, <2>2
<1>7. CASE CheckTool(s)
  <2>1. IsAgentAllowed(table, F(s).server, AgentOf[s])
    BY <1>7 DEF CheckTool, Verdict
  <2>2. CASE ToolGranted(table[F(s).server], F(s).tool, AgentOf[s])
    <3>1. label'[s] = "listed"
      BY <1>5, <1>7, <2>2 DEF CheckTool, Goto, SafeInv, SessionTypes, F
    <3>2. /\ IsAgentAllowed(table, F(s).server, AgentOf[s])'
          /\ ToolGranted(table[F(s).server], F(s).tool, AgentOf[s])'
      BY <1>1, <1>3, <2>1, <2>2 DEF IsAgentAllowed
    <3> QED BY <1>2, <1>3, <3>1, <3>2 DEF Verdict
  <2>3. CASE ~ToolGranted(table[F(s).server], F(s).tool, AgentOf[s])
    <3>1. label'[s] = "hidden"
      BY <1>7, <2>3 DEF CheckTool, Goto, SafeInv, SessionTypes, F
    <3>2. Refused(s)
      BY <2>3 DEF Permitted, Refused
    <3> QED BY <1>2, <1>3, <3>1, <3>2 DEF Verdict
  <2> QED BY <2>2, <2>3
<1> QED BY <1>6, <1>7

\* A step of the system keeps what every undisturbed filter knows.
LEMMA VerdictStep ==
  ASSUME SafeInv, VerdictInv, [Next]_vars
  PROVE  VerdictInv'
<1>1. ASSUME NEW s \in Sessions, Hook(s) \/ Filter(s)
      PROVE  VerdictInv'
  <2> SUFFICES ASSUME NEW r \in Sessions, ~disturbed'[r]
               PROVE  Verdict(r)'
    BY DEF VerdictInv
  <2>1. CASE r # s
    <3>1. UNCHANGED <<table, cached>> /\ UNCHANGED <<label[r], judged[r], disturbed[r]>>
      BY <1>1, <2>1, OthersKeep DEF muxVars
    <3> QED BY <3>1, SameVerdict DEF VerdictInv
  <2>2. CASE r = s
    <3>1. CASE FindByPrefix(s) \/ FindByName(s) \/ CheckAgent(s) \/ CheckTool(s)
      <4>1. disturbed' = disturbed
        BY <3>1 DEF FindByPrefix, FindByName, CheckAgent, CheckTool, histVars
      <4>2. ~disturbed[s]
        BY <2>2, <4>1
      <4> QED BY <2>2, <3>1, <4>2, FindVerdict, CheckVerdict DEF VerdictInv
    <3>2. CASE Hook(s) \/ Judge(s) \/ Pass(s)
      <4>1. label'[s] \in {"registering", "idle", "byPrefix"}
        BY <3>2 DEF Hook, Connect, Gather, Register, RegisterFails, EndHook, Judge, Pass, Goto,
                    SafeInv, SessionTypes
      <4> QED BY <2>2, <4>1 DEF Verdict
    <3> QED BY <1>1, <3>1, <3>2 DEF Filter
  <2> QED BY <2>1, <2>2
<1>2. CASE TakeEffect
  <2>1. \A s \in Sessions : disturbed'[s] = Judging(s) /\ label'[s] = label[s]
    BY <1>2 DEF TakeEffect, sessionVars
  <2>2. \A s \in Sessions : ~Judging(s) => Verdict(s)'
    BY <2>1 DEF Verdict, Judging
  <2> QED BY <2>1, <2>2 DEF VerdictInv
<1>3. CASE RequestReload \/ Halt \/ UNCHANGED vars
  <2>1. UNCHANGED <<table, cached, label, judged, disturbed>>
    BY <1>3 DEF RequestReload, Halt, Mux!Request, Mux!Halt, vars, muxVars, sessionVars, histVars
  <2> QED BY <2>1, SameVerdict DEF VerdictInv
<1> QED BY <1>1, <1>2, <1>3 DEF Next

\* An undisturbed filter says what a server with a prefix of the name says, and
\* shows of the only such server exactly what it grants.
THEOREM FilterIsExact == Spec => []FilterExact
<1>1. Init => VerdictInv
  <2> SUFFICES ASSUME Init, NEW s \in Sessions PROVE Verdict(s)
    BY DEF VerdictInv
  <2>1. label[s] = "new"
    BY DEF Init
  <2> QED BY <2>1 DEF Verdict
<1>2. SafeInv /\ VerdictInv /\ [Next]_vars => (SafeInv /\ VerdictInv)'
  BY SafeStep, VerdictStep
<1>3. SafeInv /\ VerdictInv => FilterExact
  <2> DEFINE word(s) == Permitted(table[F(s).server], F(s).tool, AgentOf[s])
  <2> SUFFICES ASSUME SafeInv, VerdictInv, NEW s \in Sessions,
                      label[s] \in {"listed", "hidden"}, ~disturbed[s]
               PROVE  /\ (label[s] = "listed") \in Rulings(B(s).name, AgentOf[s])
                      /\ Claimants(B(s).name) = {B(s).server}
                           /\ B(s).name = Published(table[B(s).server], B(s).tool) =>
                         (label[s] = "listed" <=>
                            Permitted(table[B(s).server], B(s).tool, AgentOf[s]))
    BY DEF FilterExact, B
  <2>1. Verdict(s)
    BY DEF VerdictInv
  <2>2. B(s) \in Bindings
    BY DEF SafeInv, FoundInv, Judging, Judgements, B
  <2>3. CASE label[s] = "hidden" /\ Claimants(B(s).name) = {} /\ Listers(B(s).name) = {}
    BY <2>3 DEF Rulings
  <2>4. CASE (ByPrefix(s) \/ ByName(s)) /\ (label[s] = "listed") = word(s)
    <3>1. CASE ByPrefix(s)
      <4>1. word(s) \in Rulings(B(s).name, AgentOf[s])
        BY <3>1 DEF ByPrefix, Rulings
      <4>2. ASSUME Claimants(B(s).name) = {B(s).server},
                   B(s).name = Published(table[B(s).server], B(s).tool)
            PROVE  F(s).server = B(s).server /\ F(s).tool = B(s).tool
        BY <2>2, <3>1, <4>2, ClaimIsOwners DEF ByPrefix, SafeInv
      <4> QED BY <2>4, <4>1, <4>2
    <3>2. CASE ByName(s)
      BY <2>4, <3>2 DEF ByName, Rulings
    <3> QED BY <2>4, <3>1, <3>2
  <2>5. ASSUME label[s] = "listed" PROVE (ByPrefix(s) \/ ByName(s)) /\ word(s)
    BY <2>1, <2>5 DEF Verdict, IsAgentAllowed, Permitted
  <2>6. word(s) \in BOOLEAN
    BY DEF Permitted
  <2>7. ASSUME label[s] = "hidden", ByPrefix(s) \/ ByName(s), Refused(s)
        PROVE  (label[s] = "listed") = word(s)
    BY <2>6, <2>7 DEF Refused
  <2> QED BY <2>1, <2>3, <2>4, <2>5, <2>6, <2>7 DEF Verdict
<1> QED BY <1>1, <1>2, <1>3, SafeInit, PTL DEF Spec

-----------------------------------------------------------------------------
(* What a filter knows when reloads may take effect between its steps.     *)
LEMMA AnswerParts ==
  ASSUME NEW map, NEW finding, NEW agent
  PROVE  LET p == Answer(map, finding, agent)
             c == map[finding.server]
         IN  /\ p[1] <=> IsAgentAllowed(map, finding.server, agent)
             /\ p[2] <=> c # Nil /\ ToolGranted(c, finding.tool, agent)
  BY DEF Answer

Steady(s) ==
  /\ label[s] \in {"agent", "tool", "listed"} =>
       Answer(table, F(s), AgentOf[s]) \in verdicts[s]
  /\ label[s] \in {"tool", "listed"} => \E p \in verdicts[s] : p[1]
  /\ label[s] = "listed" => \E p \in verdicts[s] : p[2]
  /\ label[s] = "hidden" /\ Found(s) => \E p \in verdicts[s] : ~(p[1] /\ p[2])

SteadyInv == \A s \in Sessions : Steady(s)

LEMMA SameSteady ==
  ASSUME NEW s \in Sessions, UNCHANGED <<table, label[s], judged[s], verdicts[s]>>, Steady(s)
  PROVE  Steady(s)'
  BY DEF Steady, F, Found

LEMMA FindSteady ==
  ASSUME SafeInv, NEW s \in Sessions, FindByPrefix(s) \/ FindByName(s)
  PROVE  Steady(s)'
<1>1. table' = table
  BY OthersKeep DEF Filter, muxVars
<1>2. CASE judged'[s] # judged[s]
  <2>1. label'[s] = "agent" /\ verdicts'[s] = {Answer(table, F(s)', AgentOf[s])}
    BY <1>2, Finds
  <2> QED BY <1>1, <2>1 DEF Steady, F
<1>3. CASE judged'[s] = judged[s]
  <2>1. label'[s] \in {"byName", "hidden"} /\ ~Found(s)'
    BY <1>3, FindsNothing DEF SafeInv, FoundInv, Found, FindByPrefix, FindByName
  <2> QED BY <2>1 DEF Steady
<1> QED BY <1>2, <1>3

LEMMA CheckSteady ==
  ASSUME SafeInv, NEW s \in Sessions, CheckAgent(s) \/ CheckTool(s), Steady(s)
  PROVE  Steady(s)'
<1> DEFINE p == Answer(table, F(s), AgentOf[s])
           c == table[F(s).server]
<1>1. UNCHANGED <<table, judged, verdicts>> /\ label[s] \in {"agent", "tool"} /\ p \in verdicts[s]
  BY DEF CheckAgent, CheckTool, muxVars, histVars, Steady
<1>2. F(s)' = F(s) /\ p' = p
  BY <1>1 DEF F
<1>3. /\ p[1] <=> IsAgentAllowed(table, F(s).server, AgentOf[s])
      /\ p[2] <=> c # Nil /\ ToolGranted(c, F(s).tool, AgentOf[s])
  BY AnswerParts
<1>4. CASE CheckAgent(s)
  <2>1. CASE p[1]
    <3>1. label'[s] = "tool"
      BY <1>3, <1>4, <2>1 DEF CheckAgent, Goto, SafeInv, SessionTypes, F
    <3> HIDE DEF p
    <3> QED BY <1>1, <1>2, <2>1, <3>1 DEF Steady, p
  <2>2. CASE ~p[1]
    <3>1. label'[s] = "hidden"
      BY <1>3, <1>4, <2>2 DEF CheckAgent, Goto, SafeInv, SessionTypes, F
    <3>2. \E q \in verdicts'[s] : ~(q[1] /\ q[2])
      <4> HIDE DEF p
      <4> QED BY <1>1, <2>2
    <3> QED BY <3>1, <3>2 DEF Steady
  <2> QED BY <2>1, <2>2
<1>5. CASE CheckTool(s)
  <2>1. CASE p[2]
    <3>1. label'[s] = "listed"
      BY <1>3, <1>5, <2>1 DEF CheckTool, Goto, SafeInv, SessionTypes, F
    <3>2. \E q \in verdicts[s] : q[1]
      BY <1>5 DEF CheckTool, Steady
    <3>3. \E q \in verdicts[s] : q[2]
      <4> HIDE DEF p
      <4> QED BY <1>1, <2>1
    <3> QED BY <1>1, <1>2, <3>1, <3>2, <3>3 DEF Steady
  <2>2. CASE ~p[2]
    <3>1. label'[s] = "hidden"
      BY <1>3, <1>5, <2>2 DEF CheckTool, Goto, SafeInv, SessionTypes, F
    <3>2. \E q \in verdicts'[s] : ~(q[1] /\ q[2])
      <4> HIDE DEF p
      <4> QED BY <1>1, <2>2
    <3> QED BY <3>1, <3>2 DEF Steady
  <2> QED BY <2>1, <2>2
<1> QED BY <1>4, <1>5

\* The swap adds what the new map says.
LEMMA SwapSteady ==
  ASSUME SafeInv, NEW s \in Sessions, TakeEffect, Steady(s)
  PROVE  Steady(s)'
<1>1. /\ table' = target /\ UNCHANGED <<label, judged>>
      /\ verdicts'[s] = IF Judging(s) /\ Found(s)
                        THEN verdicts[s] \cup {Answer(target, F(s), AgentOf[s])}
                        ELSE verdicts[s]
  BY DEF TakeEffect, Mux!TakeEffect, sessionVars, F
<1>2. F(s)' = F(s) /\ Found(s)' = Found(s) /\ verdicts[s] \subseteq verdicts'[s]
  BY <1>1 DEF F, Found
<1>3. label[s] \in {"agent", "tool", "listed"} => Answer(target, F(s), AgentOf[s]) \in verdicts'[s]
  BY <1>1 DEF SafeInv, FoundInv, Judging
<1> QED BY <1>1, <1>2, <1>3 DEF Steady

LEMMA SteadyStep ==
  ASSUME SafeInv, SteadyInv, [Next]_vars
  PROVE  SteadyInv'
<1>1. ASSUME NEW s \in Sessions, Hook(s) \/ Filter(s), NEW r \in Sessions
      PROVE  Steady(r)'
  <2>1. CASE r # s
    <3>1. UNCHANGED <<table, label[r], judged[r], verdicts[r]>>
      BY <1>1, <2>1, OthersKeep DEF muxVars
    <3> QED BY <3>1, SameSteady DEF SteadyInv
  <2>2. CASE r = s
    <3>1. CASE FindByPrefix(s) \/ FindByName(s) \/ CheckAgent(s) \/ CheckTool(s)
      BY <2>2, <3>1, FindSteady, CheckSteady DEF SteadyInv
    <3>2. CASE Hook(s) \/ Judge(s) \/ Pass(s)
      <4>1. label'[s] \in {"registering", "idle", "byPrefix"}
        BY <3>2 DEF Hook, Connect, Gather, Register, RegisterFails, EndHook, Judge, Pass, Goto,
                    SafeInv, SessionTypes
      <4> QED BY <2>2, <4>1 DEF Steady
    <3> QED BY <1>1, <3>1, <3>2 DEF Filter
  <2> QED BY <2>1, <2>2
<1>2. CASE TakeEffect
  BY <1>2, SwapSteady DEF SteadyInv
<1>3. CASE RequestReload \/ Halt \/ UNCHANGED vars
  <2>1. UNCHANGED <<table, label, judged, verdicts>>
    BY <1>3 DEF RequestReload, Halt, Mux!Request, Mux!Halt, vars, muxVars, sessionVars, histVars
  <2> QED BY <2>1, SameSteady DEF SteadyInv
<1> QED BY <1>1, <1>2, <1>3 DEF Next, SteadyInv

\* Whatever reloads do inside it, a filter lists only what the map has granted,
\* and the agent has had access to, since it found the backend, and hides only
\* what some map since then refuses.
THEOREM FilterIsSteady == Spec => []FilterSteady
<1>1. Init => SteadyInv
  <2> SUFFICES ASSUME Init, NEW s \in Sessions PROVE Steady(s)
    BY DEF SteadyInv
  <2>1. label[s] = "new"
    BY DEF Init
  <2> QED BY <2>1 DEF Steady
<1>2. SafeInv /\ SteadyInv /\ [Next]_vars => (SafeInv /\ SteadyInv)'
  BY SafeStep, SteadyStep
<1>3. SteadyInv => FilterSteady
  BY DEF SteadyInv, Steady, FilterSteady
<1> QED BY <1>1, <1>2, <1>3, SafeInit, PTL DEF Spec

-----------------------------------------------------------------------------
(* What the hook knows when reloads may take effect between its turns.     *)
Granted(s, b) == Taken(b, AgentOf[s])

\* What has been gathered comes from backends the agent has had access to.
Earned(s) == \A e \in gathered[s] : \E p \in access[s] : p[2] /\ e \in Granted(s, p[1])

\* A backend is still to be looked at, has refused the agent, or is gathered.
Counted(s) ==
  \A p \in access[s] : \/ p[1] \in todo[s]
                       \/ <<p[1], FALSE>> \in access[s]
                       \/ Granted(s, p[1]) \subseteq gathered[s]

\* What the present map says of the backends still to be looked at is recorded.
Recorded(s) == \A b \in todo[s] : Access(table, b, AgentOf[s]) \in access[s]

Registering(s) ==
  /\ label[s] = "new" => gathered[s] = {}
  /\ label[s] = "registering" => Earned(s) /\ Counted(s) /\ Recorded(s)

RegisteringInv == \A s \in Sessions : Registering(s)

LEMMA AccessParts ==
  ASSUME NEW map, NEW b, NEW agent
  PROVE  /\ Access(map, b, agent)[2] <=> IsAgentAllowed(map, b.server, agent)
         /\ ~IsAgentAllowed(map, b.server, agent) => Access(map, b, agent) = <<b, FALSE>>
<1>1. IsAgentAllowed(map, b.server, agent) \in BOOLEAN
  BY DEF IsAgentAllowed
<1> QED BY <1>1 DEF Access

LEMMA AccessIsOf == \A map, b, agent : Access(map, b, agent)[1] = b
  BY DEF Access

LEMMA SameRegistering ==
  ASSUME NEW s \in Sessions, UNCHANGED <<table, label[s], gathered[s], todo[s], access[s]>>,
         Registering(s)
  PROVE  Registering(s)'
  BY DEF Registering, Earned, Counted, Recorded, Granted

LEMMA ConnectRegistering ==
  ASSUME SafeInv, NEW s \in Sessions, Connect(s), Registering(s)
  PROVE  Registering(s)'
<1>1. /\ gathered'[s] = {} /\ label'[s] = "registering" /\ table' = table
      /\ todo'[s] = GetBackends
      /\ access'[s] = {Access(table, b, AgentOf[s]) : b \in GetBackends}
  BY DEF Connect, Goto, SafeInv, SessionTypes, Registering, muxVars
<1>2. \A b \in GetBackends : Access(table, b, AgentOf[s])[1] = b
  BY AccessIsOf
<1>3. Earned(s)'
  BY <1>1 DEF Earned
<1>4. Counted(s)'
  BY <1>1, <1>2 DEF Counted
<1>5. Recorded(s)'
  BY <1>1 DEF Recorded
<1> QED BY <1>1, <1>3, <1>4, <1>5 DEF Registering

LEMMA GatherRegistering ==
  ASSUME SafeInv, NEW s \in Sessions, Gather(s), Registering(s)
  PROVE  Registering(s)'
<1>1. PICK b \in todo[s] : GoThrough(s, b)
  BY DEF Gather
<1> DEFINE a == Access(table, b, AgentOf[s])
           allowed == IsAgentAllowed(table, b.server, AgentOf[s])
<1>2. /\ label'[s] = "registering" /\ UNCHANGED <<table, access>>
      /\ todo'[s] = todo[s] \ {b}
      /\ gathered'[s] = IF allowed THEN gathered[s] \cup Granted(s, b) ELSE gathered[s]
  BY <1>1 DEF Gather, GoThrough, Granted, SafeInv, SessionTypes, muxVars, histVars
<1>3. Earned(s) /\ Counted(s) /\ Recorded(s) /\ a \in access[s]
  BY <1>1 DEF Registering, Gather, Recorded
<1>4. a[1] = b /\ (a[2] <=> allowed) /\ (~allowed => a = <<b, FALSE>>)
  <2>1. a[1] = b
    BY AccessIsOf
  <2>2. (a[2] <=> allowed) /\ (~allowed => a = <<b, FALSE>>)
    BY AccessParts
  <2> QED BY <2>1, <2>2
<1> HIDE DEF a, allowed
<1>5. Earned(s)'
  <2>1. ASSUME allowed, NEW e \in Granted(s, b)
        PROVE  \E p \in access[s] : p[2] /\ e \in Granted(s, p[1])
    BY <1>3, <1>4, <2>1
  <2> QED BY <1>2, <1>3, <2>1 DEF Earned, Granted
<1>6. Counted(s)'
  <2> SUFFICES ASSUME NEW p \in access[s]
               PROVE  \/ p[1] \in todo'[s]
                      \/ <<p[1], FALSE>> \in access[s]
                      \/ Granted(s, p[1]) \subseteq gathered'[s]
    BY <1>2 DEF Counted, Granted
  <2>1. CASE p[1] = b
    <3>1. CASE allowed
      BY <1>2, <2>1, <3>1
    <3>2. CASE ~allowed
      <4>1. <<b, FALSE>> \in access[s]
        BY <1>3, <1>4, <3>2
      <4> QED BY <2>1, <4>1
    <3> QED BY <3>1, <3>2
  <2>2. CASE p[1] # b
    <3>1. gathered[s] \subseteq gathered'[s]
      BY <1>2
    <3> QED BY <1>2, <1>3, <2>2, <3>1 DEF Counted
  <2> QED BY <2>1, <2>2
<1>7. Recorded(s)'
  BY <1>2, <1>3 DEF Recorded
<1> QED BY <1>2, <1>5, <1>6, <1>7 DEF Registering

LEMMA SwapRegistering ==
  ASSUME SafeInv, NEW s \in Sessions, TakeEffect, Registering(s)
  PROVE  Registering(s)'
<1>1. /\ table' = target /\ UNCHANGED <<label, gathered, todo>>
      /\ access'[s] = access[s] \cup {Access(target, p[1], AgentOf[s]) : p \in access[s]}
  BY DEF TakeEffect, Mux!TakeEffect, sessionVars
<1> SUFFICES ASSUME label[s] = "registering", Earned(s), Counted(s), Recorded(s)
             PROVE  Earned(s)' /\ Counted(s)' /\ Recorded(s)'
  BY <1>1 DEF Registering
<1>2. Earned(s)'
  BY <1>1 DEF Earned, Granted
<1>3. Counted(s)'
  <2> SUFFICES ASSUME NEW p \in access'[s]
               PROVE  \/ p[1] \in todo[s]
                      \/ <<p[1], FALSE>> \in access'[s]
                      \/ Granted(s, p[1]) \subseteq gathered[s]
    BY <1>1 DEF Counted, Granted
  <2>1. PICK q \in access[s] : p[1] = q[1]
    <3>1. CASE p \in access[s]
      BY <3>1
    <3>2. CASE p \notin access[s]
      <4>1. PICK q \in access[s] : p = Access(target, q[1], AgentOf[s])
        BY <1>1, <3>2
      <4> QED BY <4>1, AccessIsOf
    <3> QED BY <3>1, <3>2
  <2> QED BY <1>1, <2>1 DEF Counted
<1>4. Recorded(s)'
  <2> SUFFICES ASSUME NEW b \in todo[s] PROVE Access(target, b, AgentOf[s]) \in access'[s]
    BY <1>1 DEF Recorded
  <2>1. /\ Access(table, b, AgentOf[s]) \in access[s]
        /\ Access(table, b, AgentOf[s])[1] = b
    BY AccessIsOf DEF Recorded
  <2> DEFINE q == Access(table, b, AgentOf[s])
  <2>2. q \in access[s] /\ q[1] = b
    BY <2>1
  <2> HIDE DEF q
  <2> QED BY <1>1, <2>2
<1> QED BY <1>2, <1>3, <1>4

LEMMA RegisteringStep ==
  ASSUME SafeInv, RegisteringInv, [Next]_vars
  PROVE  RegisteringInv'
<1>1. ASSUME NEW s \in Sessions, Hook(s) \/ Filter(s), NEW r \in Sessions
      PROVE  Registering(r)'
  <2>1. CASE r # s
    <3>1. UNCHANGED <<table, label[r], gathered[r], todo[r], access[r]>>
      BY <1>1, <2>1, OthersKeep DEF muxVars
    <3> QED BY <3>1, SameRegistering DEF RegisteringInv
  <2>2. CASE r = s
    <3>1. CASE Connect(s) \/ Gather(s)
      BY <2>2, <3>1, ConnectRegistering, GatherRegistering DEF RegisteringInv
    <3>2. CASE Register(s) \/ RegisterFails(s) \/ Filter(s)
      <4>1. label'[s] \notin {"new", "registering"}
        BY <3>2, FilterGoes DEF Register, RegisterFails, EndHook, Goto, SafeInv, SessionTypes
      <4> QED BY <2>2, <4>1 DEF Registering
    <3> QED BY <1>1, <3>1, <3>2 DEF Hook
  <2> QED BY <2>1, <2>2
<1>2. CASE TakeEffect
  BY <1>2, SwapRegistering DEF RegisteringInv
<1>3. CASE RequestReload \/ Halt \/ UNCHANGED vars
  <2>1. UNCHANGED <<table, label, gathered, todo, access>>
    BY <1>3 DEF RequestReload, Halt, Mux!Request, Mux!Halt, vars, muxVars, sessionVars, histVars
  <2> QED BY <2>1, SameRegistering DEF RegisteringInv
<1> QED BY <1>1, <1>2, <1>3 DEF Next, RegisteringInv

\* One tool of each name is kept.
LEMMA KeptOfEach ==
  ASSUME NEW bindings, NEW kept \in OnePerName(bindings), NEW e \in bindings
  PROVE  \E k \in kept : k.name = e.name
<1>1. Cardinality({k \in kept : k.name = e.name}) = 1
  BY DEF OnePerName
<1>2. {k \in kept : k.name = e.name} # {}
  BY <1>1, FS_EmptySet
<1> QED BY <1>2

\* Whatever reloads take effect inside a registration, it gives only what is
\* granted by backends the agent has had access to, and all that is granted by
\* those the agent has had access to throughout, but for tools of one name.
THEOREM RegistrationIsExact == Spec => RegistrationExact
<1>1. Init => RegisteringInv
  <2> SUFFICES ASSUME Init, NEW s \in Sessions PROVE Registering(s)
    BY DEF RegisteringInv
  <2>1. label[s] = "new" /\ gathered[s] = {}
    BY DEF Init
  <2> QED BY <2>1 DEF Registering
<1>2. SafeInv /\ RegisteringInv /\ [Next]_vars => (SafeInv /\ RegisteringInv)'
  BY SafeStep, RegisteringStep
<1> DEFINE Exact(s) ==
      /\ own'[s] \subseteq UNION {Taken(p[1], AgentOf[s]) : p \in {q \in access[s] : q[2]}}
      /\ \A p \in access[s] : <<p[1], FALSE>> \notin access[s] =>
           \A e \in Taken(p[1], AgentOf[s]) : \E k \in own'[s] : k.name = e.name
<1>3. ASSUME SafeInv, RegisteringInv, NEW s \in Sessions, Register(s)
      PROVE  Exact(s)
  <2>1. PICK kept \in OnePerName(gathered[s]) : own'[s] = kept
    BY <1>3 DEF Register, SafeInv, SessionTypes
  <2>2. Earned(s) /\ Counted(s) /\ todo[s] = {}
    BY <1>3 DEF RegisteringInv, Registering, Register, EndHook
  <2>3. own'[s] \subseteq gathered[s]
    BY <2>1 DEF OnePerName
  <2>4. gathered[s] \subseteq UNION {Taken(p[1], AgentOf[s]) : p \in {q \in access[s] : q[2]}}
    BY <2>2 DEF Earned, Granted
  <2>5. ASSUME NEW p \in access[s], <<p[1], FALSE>> \notin access[s],
               NEW e \in Taken(p[1], AgentOf[s])
        PROVE  \E k \in own'[s] : k.name = e.name
    <3>1. e \in gathered[s]
      BY <2>2, <2>5 DEF Counted, Granted
    <3> QED BY <2>1, <3>1, KeptOfEach
  <2> QED BY <2>3, <2>4, <2>5
<1>4. SafeInv /\ RegisteringInv => [\A s \in Sessions : Register(s) => Exact(s)]_vars
  BY <1>3
<1> QED BY <1>1, <1>2, <1>4, SafeInit, PTL DEF Spec, RegistrationExact
=============================================================================
