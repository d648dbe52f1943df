------------------------- MODULE ServerConfigProofs -------------------------
(***************************************************************************)
(* When ServerConfig.Equal decides equality, for maps of any size.         *)
(***************************************************************************)
EXTENDS ServerConfig, FiniteSetTheorems, TLAPS

IsMap(m) == m = [k \in DOMAIN m |-> m[k]] /\ IsFiniteSet(DOMAIN m)

\* A record with the fields of a configuration, its maps finite.
WellFormed(c) ==
  /\ c = [settings |-> c.settings, agents |-> c.agents, transport |-> c.transport,
          github |-> c.github, maxConcurrent |-> c.maxConcurrent,
          env |-> c.env, headers |-> c.headers,
          tools |-> c.tools, agentTools |-> c.agentTools]
  /\ IsMap(c.env) /\ IsMap(c.headers) /\ IsMap(c.agentTools)

\* Two maps of the same size, one's keys among the other's.
LEMMA SameKeys ==
  ASSUME NEW m, NEW o, IsMap(m), IsMap(o),
         Cardinality(DOMAIN m) = Cardinality(DOMAIN o),
         \A k \in DOMAIN m : k \in DOMAIN o /\ o[k] = m[k]
  PROVE  m = o
<1>1. DOMAIN m \in SUBSET DOMAIN o
  OBVIOUS
<1>2. DOMAIN m = DOMAIN o
  BY <1>1, FS_Subset DEF IsMap
<1> QED BY <1>2 DEF IsMap

\* Indexing the second map is a sound comparison while the first has no empty
\* value: a missing key reads as the empty string.
LEMMA StringMapExact ==
  ASSUME NEW m, NEW o, IsMap(m), IsMap(o),
         \A k \in DOMAIN m : m[k] # "",
         SameStringMap(m, o)
  PROVE  m = o
<1>1. \A k \in DOMAIN m : k \in DOMAIN o /\ o[k] = m[k]
  BY DEF SameStringMap, MapLookup
<1> QED BY <1>1, SameKeys DEF SameStringMap

\* What the comment on Equal says, "deeply equal", holds of every pair of which the
\* first has no empty environment variable or header.
THEOREM EqualDecides ==
  ASSUME NEW c, NEW d, WellFormed(c), WellFormed(d), NoEmptyValue(c)
  PROVE  Equal(c, d) <=> c = d
<1>1. ASSUME Equal(c, d) PROVE c = d
  <2>1. c.env = d.env /\ c.headers = d.headers
    BY <1>1, StringMapExact DEF Equal, WellFormed, NoEmptyValue
  <2>2. c.agentTools = d.agentTools
    BY <1>1, SameKeys DEF Equal, WellFormed, SameListMap
  <2> QED BY <1>1, <2>1, <2>2 DEF Equal, WellFormed
<1>2. ASSUME c = d PROVE Equal(c, d)
  BY <1>2 DEF Equal, SameStringMap, SameListMap, MapLookup
<1> QED BY <1>1, <1>2

\* A configuration with nothing but an environment.
Only(env) ==
  [settings |-> "", agents |-> << >>, transport |-> "stdio", github |-> FALSE,
   maxConcurrent |-> 0, env |-> env, headers |-> << >>, tools |-> << >>,
   agentTools |-> << >>]

\* Without that condition it does not hold: the comparison of config.go:139-146
\* takes FOO="" for BAR="x", since the second map has nothing for FOO and
\* indexing it gives the empty string.
THEOREM EqualMistakes ==
  \E c, d : WellFormed(c) /\ WellFormed(d) /\ Equal(c, d) /\ c # d
<1> DEFINE m == [k \in {"FOO"} |-> ""]
           o == [k \in {"BAR"} |-> "x"]
           none == << >>
<1>1. /\ m = [k \in DOMAIN m |-> m[k]] /\ DOMAIN m = {"FOO"} /\ m["FOO"] = ""
      /\ o = [k \in DOMAIN o |-> o[k]] /\ DOMAIN o = {"BAR"} /\ o["BAR"] = "x"
      /\ none = [k \in DOMAIN none |-> none[k]] /\ DOMAIN none = {}
  OBVIOUS
<1>2. Only(m) # Only(o)
  BY <1>1 DEF Only
<1> HIDE DEF m, o
<1>3. IsMap(m) /\ IsMap(o) /\ IsMap(none)
  <2>1. IsFiniteSet({"FOO"}) /\ IsFiniteSet({"BAR"}) /\ IsFiniteSet({})
    BY FS_EmptySet, FS_Singleton
  <2> HIDE DEF none
  <2> QED BY <1>1, <2>1 DEF IsMap
<1>4. WellFormed(Only(m)) /\ WellFormed(Only(o))
  BY <1>3 DEF WellFormed, Only
<1>5. SameStringMap(m, o) /\ SameStringMap(none, none) /\ SameListMap(none, none)
  <2>1. Cardinality({"FOO"}) = 1 /\ Cardinality({"BAR"}) = 1
    BY FS_Singleton
  <2> HIDE DEF none
  <2> QED BY <1>1, <2>1 DEF SameStringMap, SameListMap, MapLookup
<1>6. Equal(Only(m), Only(o))
  BY <1>5 DEF Equal, Only
<1> QED BY <1>2, <1>4, <1>6
=============================================================================
