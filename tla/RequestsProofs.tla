--------------------------- MODULE RequestsProofs ---------------------------
(***************************************************************************)
(* Proofs about Requests and the functions it is made of, for requests     *)
(* with any tokens, names and session identifiers and for arguments of any *)
(* shape.  The two walks over the arguments recurse on the tree: what they *)
(* compute is proved for the deepest part first, and so for its root.      *)
(***************************************************************************)
EXTENDS Requests, SequenceTheorems, FiniteSetTheorems, TLAPS

-----------------------------------------------------------------------------
(* Recursion over data.                                                    *)

\* There is no infinite descent among the intervals 0..n.
LEMMA Least ==
  ASSUME NEW T \in SUBSET Nat, T # {}
  PROVE  \E n \in T : \A m \in T : n <= m
<1> DEFINE Downs == {0..n : n \in T}
<1>1. Downs \subseteq FiniteSubsetsOf(Nat) /\ Downs # {}
  <2>1. ASSUME NEW n \in T PROVE 0..n \in FiniteSubsetsOf(Nat)
    BY FS_Interval DEF FiniteSubsetsOf
  <2> QED BY <2>1
<1>2. PICK d \in Downs : \A e \in Downs : ~(<<e, d>> \in StrictSubsetOrdering(Nat))
  <2> HIDE DEF Downs
  <2> QED BY <1>1, WFMin, FS_StrictSubsetOrderingWellFounded
<1>3. PICK n \in T : d = 0..n
  OBVIOUS
<1>4. ASSUME NEW m \in T, m < n PROVE FALSE
  <2>1. <<0..m, 0..n>> \in StrictSubsetOrdering(Nat)
    <3>1. 0..m \in SUBSET Nat /\ 0..n \in SUBSET Nat /\ 0..m \subseteq 0..n
      BY <1>4
    <3>2. n \in 0..n /\ n \notin 0..m
      BY <1>4
    <3> QED BY <3>1, <3>2 DEF StrictSubsetOrdering
  <2> QED BY <1>2, <1>3, <2>1
<1> QED BY <1>4

-----------------------------------------------------------------------------
(* Trees.                                                                  *)

\* Nodes by their kind.
LEMMA NodeKinds ==
  /\ Object.kind = "object" /\ List.kind = "list" /\ Other.kind = "other"
  /\ Object # List /\ Object # Other /\ List # Other
  BY DEF Object, List, Other

LEMMA TreeFacts ==
  ASSUME NEW args, ArgumentTree(args)
  PROVE  /\ << >> \in DOMAIN args /\ args[<< >>] = Object
         /\ \A p \in DOMAIN args :
              /\ p \in Seq(STRING \X Nat) /\ Len(p) \in 0..MaxDepth
              /\ args[p] \in {Object, List, Other} \/ args[p].kind = "text"
              /\ \A n \in 0..(Len(p) - 1) :
                   /\ SubSeq(p, 1, n) \in DOMAIN args
                   /\ \/ args[SubSeq(p, 1, n)] = Object /\ p[n + 1] = Field(p[n + 1][1])
                      \/ /\ args[SubSeq(p, 1, n)] = List
                         /\ p[n + 1] = Item(p[n + 1][2]) /\ p[n + 1][2] > 0
<1>1. \A p \in DOMAIN args : p \in Seq(STRING \X Nat) /\ Len(p) \in 0..MaxDepth
  <2> TAKE p \in DOMAIN args
  <2>1. p \in Seq(STRING \X Nat) /\ Len(p) <= MaxDepth
    BY DEF ArgumentTree
  <2>2. Len(p) \in Nat
    BY <2>1
  <2> QED BY <2>1, <2>2, DepthAssumption
<1> QED BY <1>1 DEF ArgumentTree

\* A step under a list is not into a field.
LEMMA ItemsAreNotFields ==
  ASSUME NEW i, i # 0, NEW keys
  PROVE  Item(i) \notin Fields(keys)
  BY DEF Item, Fields, Field

\* What is properly within a part is within a child of it.
LEMMA Split ==
  ASSUME NEW args, ArgumentTree(args), NEW p \in DOMAIN args, NEW q \in Within(args, p), q # p
  PROVE  \E c \in Children(args, p) :
           /\ q \in Within(args, c)
           /\ Len(q) > Len(p) /\ Last(c) = q[Len(p) + 1]
<1>1. /\ q \in DOMAIN args
      /\ p \in Seq(STRING \X Nat) /\ q \in Seq(STRING \X Nat)
      /\ Len(p) \in Nat /\ Len(q) \in Nat /\ Len(q) >= Len(p)
      /\ \A i \in 1..Len(p) : q[i] = p[i]
  <2>1. q \in DOMAIN args /\ Len(q) >= Len(p) /\ \A i \in DOMAIN p : q[i] = p[i]
    BY DEF Within
  <2>2. p \in Seq(STRING \X Nat) /\ q \in Seq(STRING \X Nat)
    BY <2>1, TreeFacts
  <2> QED BY <2>1, <2>2
<1>2. Len(q) > Len(p)
  <2>1. Len(q) = Len(p) => q = p
    BY <1>1, SeqEqual
  <2> QED BY <1>1, <2>1
<1> DEFINE c == SubSeq(q, 1, Len(p) + 1)
<1>3. Len(c) = Len(p) + 1 /\ \A i \in 1..(Len(p) + 1) : c[i] = q[i]
  BY <1>1, <1>2
<1>4. c \in DOMAIN args
  <2>1. CASE Len(q) = Len(p) + 1
    <3>1. SubSeq(q, 1, Len(q)) = q
      BY <1>1, SubSeqFull
    <3> QED BY <1>1, <2>1, <3>1
  <2>2. CASE Len(q) # Len(p) + 1
    <3>1. Len(p) + 1 \in 0..(Len(q) - 1)
      BY <1>1, <1>2, <2>2
    <3> QED BY <1>1, <3>1, TreeFacts
  <2> QED BY <2>1, <2>2
<1>5. DOMAIN c = 1..(Len(p) + 1) /\ DOMAIN p = 1..Len(p)
  <2>1. c \in Seq(STRING \X Nat)
    BY <1>4, TreeFacts
  <2> QED BY <1>1, <1>3, <2>1
<1> HIDE DEF c
<1>6. c \in Children(args, p)
  BY <1>1, <1>3, <1>4, <1>5 DEF Children
<1>7. q \in Within(args, c)
  BY <1>1, <1>2, <1>3, <1>5 DEF Within
<1>8. Last(c) = q[Len(p) + 1]
  BY <1>1, <1>3 DEF Last
<1> QED BY <1>2, <1>6, <1>7, <1>8

\* A child hangs under an object by a field, under a list by an item; what is
\* within it is within its parent.
LEMMA ChildFacts ==
  ASSUME NEW args, ArgumentTree(args), NEW p \in DOMAIN args, NEW c \in Children(args, p)
  PROVE  /\ c \in DOMAIN args /\ Len(p) \in Nat /\ Len(c) = Len(p) + 1 /\ Last(c) = c[Len(p) + 1]
         /\ \/ args[p] = Object
            \/ args[p] = List /\ \A keys : Last(c) \notin Fields(keys)
         /\ \A q \in Within(args, c) :
              /\ q \in Within(args, p) /\ Len(q) \in Nat /\ Len(q) > Len(p)
              /\ q[Len(p) + 1] = Last(c)
<1>1. /\ c \in DOMAIN args
      /\ p \in Seq(STRING \X Nat) /\ c \in Seq(STRING \X Nat)
      /\ Len(p) \in Nat /\ Len(c) = Len(p) + 1
      /\ DOMAIN p = 1..Len(p) /\ DOMAIN c = 1..(Len(p) + 1)
      /\ \A i \in 1..Len(p) : c[i] = p[i]
  <2>1. c \in DOMAIN args /\ Len(c) = Len(p) + 1 /\ \A i \in DOMAIN p : c[i] = p[i]
    BY DEF Children
  <2>2. p \in Seq(STRING \X Nat) /\ c \in Seq(STRING \X Nat)
    BY <2>1, TreeFacts
  <2>3. Len(p) \in Nat /\ DOMAIN p = 1..Len(p) /\ DOMAIN c = 1..Len(c)
    BY <2>2
  <2> QED BY <2>1, <2>2, <2>3
<1>2. Last(c) = c[Len(p) + 1]
  BY <1>1 DEF Last
<1>3. SubSeq(c, 1, Len(p)) = p
  <2>1. SubSeq(c, 1, Len(p)) \in Seq(STRING \X Nat) /\ Len(SubSeq(c, 1, Len(p))) = Len(p)
    BY <1>1
  <2>2. \A i \in 1..Len(p) : SubSeq(c, 1, Len(p))[i] = p[i]
    BY <1>1
  <2> HIDE DEF Within
  <2> QED BY <1>1, <2>1, <2>2, SeqEqual
<1>4. \/ args[p] = Object
      \/ args[p] = List /\ c[Len(p) + 1] = Item(c[Len(p) + 1][2]) /\ c[Len(p) + 1][2] > 0
  <2>1. Len(p) \in 0..(Len(c) - 1)
    BY <1>1
  <2>2. \A n \in 0..(Len(c) - 1) :
          \/ args[SubSeq(c, 1, n)] = Object
          \/ args[SubSeq(c, 1, n)] = List /\ c[n + 1] = Item(c[n + 1][2]) /\ c[n + 1][2] > 0
    BY <1>1, TreeFacts
  <2>3. \/ args[SubSeq(c, 1, Len(p))] = Object
        \/ /\ args[SubSeq(c, 1, Len(p))] = List
           /\ c[Len(p) + 1] = Item(c[Len(p) + 1][2]) /\ c[Len(p) + 1][2] > 0
    BY <2>1, <2>2
  <2> QED BY <1>3, <2>3
<1>5. \/ args[p] = Object
      \/ args[p] = List /\ \A keys : Last(c) \notin Fields(keys)
  <2>1. c[Len(p) + 1][2] > 0 => c[Len(p) + 1][2] # 0
    <3>1. c[Len(p) + 1] \in STRING \X Nat
      BY <1>1
    <3> QED BY <3>1
  <2> QED BY <1>2, <1>4, <2>1, ItemsAreNotFields
<1>6. ASSUME NEW q \in Within(args, c)
      PROVE  /\ q \in Within(args, p) /\ Len(q) \in Nat /\ Len(q) > Len(p)
             /\ q[Len(p) + 1] = Last(c)
  <2>1. q \in DOMAIN args /\ Len(q) >= Len(c) /\ \A i \in DOMAIN c : q[i] = c[i]
    BY DEF Within
  <2>2. q \in Seq(STRING \X Nat)
    BY <2>1, TreeFacts
  <2>3. Len(q) \in Nat /\ Len(q) > Len(p)
    BY <1>1, <2>1, <2>2
  <2>4. \A i \in 1..(Len(p) + 1) : q[i] = c[i]
    BY <1>1, <2>1
  <2>5. \A i \in DOMAIN p : q[i] = p[i]
    BY <1>1, <2>4
  <2>6. q \in Within(args, p)
    <3>1. Len(q) >= Len(p)
      BY <1>1, <2>3
    <3> QED BY <2>1, <2>5, <3>1 DEF Within
  <2>7. q[Len(p) + 1] = c[Len(p) + 1]
    BY <1>1, <2>4
  <2> QED BY <1>2, <2>3, <2>6, <2>7
<1> QED BY <1>1, <1>2, <1>5, <1>6

\* Among some parts there is one with none of its children among them.
LEMMA Deepest ==
  ASSUME NEW args, ArgumentTree(args), NEW T \in SUBSET (DOMAIN args), T # {}
  PROVE  \E p \in T : Children(args, p) \cap T = {}
<1> DEFINE Heights == {MaxDepth - Len(p) : p \in T}
<1>1. \A p \in DOMAIN args : Len(p) \in Nat /\ MaxDepth - Len(p) \in Nat
  <2> TAKE p \in DOMAIN args
  <2>1. Len(p) \in 0..MaxDepth
    BY TreeFacts
  <2> QED BY <2>1, DepthAssumption
<1>2. PICK h \in Heights : \A k \in Heights : h <= k
  <2>1. Heights \subseteq Nat /\ Heights # {}
    BY <1>1
  <2> HIDE DEF Heights
  <2> QED BY <2>1, Least
<1>3. PICK p \in T : h = MaxDepth - Len(p)
  OBVIOUS
<1>4. ASSUME NEW c \in Children(args, p), c \in T PROVE FALSE
  <2>1. Len(c) = Len(p) + 1
    BY ChildFacts
  <2>2. h <= MaxDepth - Len(c)
    BY <1>2, <1>4
  <2> QED BY <1>1, <1>3, <2>1, <2>2, DepthAssumption
<1> QED BY <1>4

\* A walk with results in R: at a part of the arguments it uses the results at
\* the children of that part only, and it is a function of the part.
Walks(args, R) == [(DOMAIN args) \X [DOMAIN args -> R] -> R]

LooksBelow(args, R, E) ==
  \A p \in DOMAIN args : \A f, g \in [DOMAIN args -> R] :
    (\A c \in Children(args, p) : f[c] = g[c]) => E[<<p, f>>] = E[<<p, g>>]

Solution(args, E, f) == f = [p \in DOMAIN args |-> E[<<p, f>>]]

LEMMA WalkExists ==
  ASSUME NEW args, ArgumentTree(args), NEW R, NEW r \in R, NEW E \in Walks(args, R),
         LooksBelow(args, R, E)
  PROVE  \E f \in [DOMAIN args -> R] : Solution(args, E, f)
<1> DEFINE D == DOMAIN args
           Height(p) == MaxDepth - Len(p)
           Upto(f, n) == \A p \in D : Height(p) < n => f[p] = E[<<p, f>>]
           Bad == {n \in Nat : ~\E f \in [D -> R] : Upto(f, n)}
<1>1. \A p \in D : /\ Height(p) \in 0..MaxDepth
                   /\ \A c \in Children(args, p) : c \in D /\ Height(c) = Height(p) - 1
  <2> TAKE p \in D
  <2>1. Len(p) \in Nat /\ Height(p) \in 0..MaxDepth
    <3>1. Len(p) \in 0..MaxDepth
      BY TreeFacts
    <3> QED BY <3>1, DepthAssumption
  <2>2. \A c \in Children(args, p) : c \in D /\ Len(c) = Len(p) + 1
    BY ChildFacts
  <2> QED BY <2>1, <2>2, DepthAssumption
<1>2. \A f \in [D -> R] : [p \in D |-> E[<<p, f>>]] \in [D -> R]
  BY DEF Walks
<1>3. Bad = {}
  <2> SUFFICES ASSUME Bad # {} PROVE FALSE
    OBVIOUS
  <2>1. PICK n \in Bad : \A m \in Bad : n <= m
    <3> HIDE DEF Bad
    <3>1. Bad \subseteq Nat
      BY DEF Bad
    <3> QED BY <3>1, Least
  <2>2. n # 0
    <3>1. [p \in D |-> r] \in [D -> R] /\ Upto([p \in D |-> r], 0)
      BY <1>1
    <3> QED BY <2>1, <3>1
  <2>3. n - 1 \in Nat /\ n - 1 \notin Bad
    <3>1. n \in Nat
      BY <2>1
    <3> HIDE DEF Bad
    <3> QED BY <2>1, <2>2, <3>1
  <2>4. PICK f \in [D -> R] : Upto(f, n - 1)
    BY <2>3
  <2> DEFINE g == [p \in D |-> E[<<p, f>>]]
  <2>5. g \in [D -> R]
    BY <1>2
  <2>6. ASSUME NEW p \in D, Height(p) < n PROVE g[p] = E[<<p, g>>]
    <3>1. \A c \in Children(args, p) : f[c] = g[c]
      <4> TAKE c \in Children(args, p)
      <4>1. c \in D /\ Height(c) < n - 1
        BY <1>1, <2>1, <2>6
      <4> QED BY <2>4, <4>1
    <3> HIDE DEF g
    <3>2. E[<<p, f>>] = E[<<p, g>>]
      BY <2>5, <3>1 DEF LooksBelow
    <3> QED BY <3>2 DEF g
  <2>7. Upto(g, n)
    BY <2>6
  <2> QED BY <2>1, <2>5, <2>7
<1>4. PICK f \in [D -> R] : Upto(f, MaxDepth + 1)
  <2> HIDE DEF Upto
  <2>1. MaxDepth + 1 \in Nat
    BY DepthAssumption
  <2> QED BY <1>3, <2>1
<1>5. \A p \in D : f[p] = E[<<p, f>>]
  BY <1>1, <1>4, DepthAssumption
<1> QED BY <1>5 DEF Solution

\* A property that a part has when its children have it holds of every part.
LEMMA Upward ==
  ASSUME NEW args, ArgumentTree(args), NEW Good \in SUBSET (DOMAIN args),
         \A p \in DOMAIN args : Children(args, p) \subseteq Good => p \in Good
  PROVE  Good = DOMAIN args
<1> DEFINE Bad == (DOMAIN args) \ Good
<1>1. ASSUME Bad # {} PROVE FALSE
  <2>1. PICK p \in Bad : Children(args, p) \cap Bad = {}
    <3> HIDE DEF Bad
    <3>1. Bad \in SUBSET (DOMAIN args)
      BY DEF Bad
    <3> QED BY <1>1, <3>1, Deepest
  <2>2. Children(args, p) \subseteq DOMAIN args
    BY DEF Children
  <2> QED BY <2>1, <2>2
<1> QED BY <1>1

-----------------------------------------------------------------------------
(* findForbiddenBranch.                                                    *)

\* The texts within a part that name a protected branch, outside content keys.
Named(args, p) ==
  {q \in Within(args, p) :
     /\ args[q].kind = "text" /\ IsForbiddenBranchValue(args[q].content)
     /\ \A i \in (Len(p) + 1)..Len(q) : q[i] \notin Fields(ContentKeys)}

\* The matches at a part are such texts, and there is one if there are any.
Exact(args, p, matches) ==
  matches \subseteq Named(args, p) /\ (Named(args, p) # {} => matches # {})

\* What is named within a part is the part itself or is named within a child
\* the walk enters.
LEMMA NamedBelow ==
  ASSUME NEW args, ArgumentTree(args), NEW p \in DOMAIN args
  PROVE  /\ \A q \in Named(args, p) :
              q = p \/ \E c \in Searched(args, p) : q \in Named(args, c)
         /\ \A c \in Searched(args, p) : Named(args, c) \subseteq Named(args, p)
<1>1. ASSUME NEW q \in Named(args, p), q # p
      PROVE  \E c \in Searched(args, p) : q \in Named(args, c)
  <2>1. q \in Within(args, p) /\ \A i \in (Len(p) + 1)..Len(q) : q[i] \notin Fields(ContentKeys)
    BY DEF Named
  <2>2. PICK c \in Children(args, p) :
           q \in Within(args, c) /\ Len(q) > Len(p) /\ Last(c) = q[Len(p) + 1]
    BY <1>1, <2>1, Split
  <2>3. Len(p) \in Nat /\ Len(q) \in Nat /\ Len(c) = Len(p) + 1
    BY <2>2, ChildFacts
  <2>4. c \in Searched(args, p)
    <3>1. Len(p) + 1 \in (Len(p) + 1)..Len(q)
      BY <2>2, <2>3
    <3> QED BY <2>1, <2>2, <3>1 DEF Searched
  <2>5. \A i \in (Len(c) + 1)..Len(q) : i \in (Len(p) + 1)..Len(q)
    BY <2>3
  <2>6. q \in Named(args, c)
    BY <2>1, <2>2, <2>5 DEF Named
  <2> QED BY <2>4, <2>6
<1>2. ASSUME NEW c \in Searched(args, p), NEW q \in Named(args, c)
      PROVE  q \in Named(args, p)
  <2>1. c \in Children(args, p) /\ Last(c) \notin Fields(ContentKeys)
    BY DEF Searched
  <2>2. q \in Within(args, c) /\ \A i \in (Len(c) + 1)..Len(q) : q[i] \notin Fields(ContentKeys)
    BY DEF Named
  <2>3. /\ q \in Within(args, p) /\ Len(q) \in Nat /\ Len(p) \in Nat
        /\ Len(c) = Len(p) + 1 /\ q[Len(p) + 1] = Last(c)
    BY <2>1, <2>2, ChildFacts
  <2>4. ASSUME NEW i \in (Len(p) + 1)..Len(q) PROVE q[i] \notin Fields(ContentKeys)
    <3>1. i = Len(p) + 1 \/ i \in (Len(c) + 1)..Len(q)
      BY <2>3
    <3> QED BY <2>1, <2>2, <2>3, <3>1
  <2> QED BY <2>3, <2>4 DEF Named
<1> QED BY <1>1, <1>2

LEMMA FirstItemIsOne ==
  ASSUME NEW args, ArgumentTree(args), NEW p \in DOMAIN args,
         NEW items \in SUBSET Children(args, p), items # {}
  PROVE  FirstItem(items) \in items
<1> DEFINE Indices == {Last(q)[2] : q \in items}
<1>1. \A q \in items : Last(q)[2] \in Nat
  <2> TAKE q \in items
  <2>1. q \in DOMAIN args /\ Len(p) \in Nat /\ Len(q) = Len(p) + 1 /\ Last(q) = q[Len(p) + 1]
    BY ChildFacts
  <2>2. q \in Seq(STRING \X Nat)
    BY <2>1, TreeFacts
  <2>3. Last(q) \in STRING \X Nat
    BY <2>1, <2>2
  <2> QED BY <2>3
<1>2. PICK n \in Indices : \A m \in Indices : n <= m
  <2>1. Indices \subseteq Nat /\ Indices # {}
    BY <1>1
  <2> HIDE DEF Indices
  <2> QED BY <2>1, Least
<1>3. \E q \in items : \A r \in items : Last(q)[2] <= Last(r)[2]
  BY <1>2
<1> QED BY <1>3 DEF FirstItem

LEMMA MatchesExact ==
  ASSUME NEW args, ArgumentTree(args), NEW p \in DOMAIN args, NEW f,
         \A c \in Children(args, p) : Exact(args, c, f[c])
  PROVE  Exact(args, p, Matches(args, f, p))
<1>1. Searched(args, p) \subseteq Children(args, p)
  BY DEF Searched
<1>2. CASE args[p].kind = "text"
  <2>1. \A q \in Named(args, p) : q = p
    <3>1. args[p] \notin {Object, List}
      BY <1>2, NodeKinds
    <3>2. Children(args, p) = {}
      BY <3>1, ChildFacts
    <3> QED BY <1>1, <3>2, NamedBelow
  <2>2. p \in Named(args, p) <=> IsForbiddenBranchValue(args[p].content)
    <3>1. Len(p) \in Nat /\ p \in Within(args, p)
      <4>1. Len(p) \in 0..MaxDepth
        BY TreeFacts
      <4> QED BY <4>1, DepthAssumption DEF Within
    <3>2. (Len(p) + 1)..Len(p) = {}
      BY <3>1
    <3> QED BY <1>2, <3>1, <3>2 DEF Named
  <2>3. Matches(args, f, p) = IF IsForbiddenBranchValue(args[p].content) THEN {p} ELSE {}
    BY <1>2 DEF Matches
  <2> QED BY <2>1, <2>2, <2>3 DEF Exact
<1>3. ASSUME args[p].kind # "text", NEW q \in Named(args, p)
      PROVE  \E c \in Searched(args, p) : q \in Named(args, c)
  BY <1>3, NamedBelow DEF Named
<1>4. CASE args[p].kind = "object"
  <2>1. Matches(args, f, p) = UNION {f[c] : c \in Searched(args, p)}
    BY <1>4 DEF Matches
  <2>2. ASSUME NEW q \in Matches(args, f, p) PROVE q \in Named(args, p)
    BY <1>1, <2>1, NamedBelow DEF Exact
  <2>3. ASSUME NEW q \in Named(args, p) PROVE Matches(args, f, p) # {}
    <3>1. PICK c \in Searched(args, p) : q \in Named(args, c)
      BY <1>3, <1>4
    <3>2. f[c] # {}
      BY <1>1, <3>1 DEF Exact
    <3> QED BY <2>1, <3>2
  <2> QED BY <2>2, <2>3 DEF Exact
<1>5. CASE args[p].kind = "list"
  <2> DEFINE hits == {c \in Children(args, p) : f[c] # {}}
  <2>1. Matches(args, f, p) = IF hits = {} THEN {} ELSE f[FirstItem(hits)]
    BY <1>5 DEF Matches
  <2>2. hits # {} => FirstItem(hits) \in hits
    BY FirstItemIsOne
  <2>3. Searched(args, p) = Children(args, p)
    <3>1. args[p] # Object
      BY <1>5, NodeKinds
    <3> QED BY <3>1, ChildFacts DEF Searched
  <2>4. Matches(args, f, p) \subseteq Named(args, p)
    <3>1. CASE hits = {}
      BY <2>1, <3>1
    <3>2. CASE hits # {}
      <4>1. FirstItem(hits) \in Children(args, p) /\ Matches(args, f, p) = f[FirstItem(hits)]
        BY <2>1, <2>2, <3>2
      <4> HIDE DEF hits
      <4> QED BY <2>3, <4>1, NamedBelow DEF Exact
    <3> QED BY <3>1, <3>2
  <2>5. ASSUME NEW q \in Named(args, p) PROVE Matches(args, f, p) # {}
    <3>1. PICK c \in Searched(args, p) : q \in Named(args, c)
      BY <1>3, <1>5
    <3>2. c \in hits
      BY <2>3, <3>1 DEF Exact
    <3> QED BY <2>1, <2>2, <3>2
  <2> QED BY <2>4, <2>5 DEF Exact
<1>6. CASE args[p].kind \notin {"text", "object", "list"}
  <2>1. Matches(args, f, p) = {}
    BY <1>6 DEF Matches
  <2>2. Named(args, p) = {}
    <3>1. Children(args, p) = {}
      BY <1>6, NodeKinds, ChildFacts
    <3> QED BY <1>1, <1>3, <1>6, <3>1
  <2> QED BY <2>1, <2>2 DEF Exact
<1> QED BY <1>2, <1>4, <1>5, <1>6

\* The walk of findForbiddenBranch, as a function that walks.
Finder(args) ==
  [x \in (DOMAIN args) \X [DOMAIN args -> SUBSET (DOMAIN args)] |-> Matches(args, x[2], x[1])]

LEMMA FinderWalks ==
  ASSUME NEW args, ArgumentTree(args)
  PROVE  /\ Finder(args) \in Walks(args, SUBSET (DOMAIN args))
         /\ LooksBelow(args, SUBSET (DOMAIN args), Finder(args))
<1> DEFINE D == DOMAIN args
<1>1. \A p \in D : Children(args, p) \subseteq D /\ Searched(args, p) \subseteq Children(args, p)
  BY DEF Children, Searched
<1>2. ASSUME NEW p \in D, NEW f \in [D -> SUBSET D] PROVE Matches(args, f, p) \in SUBSET D
  <2> DEFINE hits == {c \in Children(args, p) : f[c] # {}}
  <2>1. hits # {} => f[FirstItem(hits)] \in SUBSET D
    <3>1. hits # {} => FirstItem(hits) \in hits
      <4>1. hits \in SUBSET Children(args, p) /\ p \in DOMAIN args
        OBVIOUS
      <4> HIDE DEF hits, D
      <4> QED BY <4>1, FirstItemIsOne
    <3> QED BY <1>1, <3>1
  <2>2. UNION {f[c] : c \in Searched(args, p)} \in SUBSET D
    BY <1>1
  <2>3. CASE args[p].kind = "text"
    BY <2>3 DEF Matches
  <2>4. CASE args[p].kind = "object"
    BY <2>2, <2>4 DEF Matches
  <2>5. CASE args[p].kind = "list"
    BY <2>1, <2>5 DEF Matches
  <2>6. CASE args[p].kind \notin {"text", "object", "list"}
    BY <2>6 DEF Matches
  <2> QED BY <2>3, <2>4, <2>5, <2>6
<1>3. ASSUME NEW p \in D, NEW f \in [D -> SUBSET D], NEW g \in [D -> SUBSET D],
             \A c \in Children(args, p) : f[c] = g[c]
      PROVE  Matches(args, f, p) = Matches(args, g, p)
  <2>1. UNION {f[c] : c \in Searched(args, p)} = UNION {g[c] : c \in Searched(args, p)}
    BY <1>1, <1>3
  <2> DEFINE hits(h) == {c \in Children(args, p) : h[c] # {}}
  <2>2. hits(f) = hits(g)
    BY <1>3
  <2>3. hits(f) # {} => f[FirstItem(hits(f))] = g[FirstItem(hits(f))]
    <3>1. hits(f) # {} => FirstItem(hits(f)) \in hits(f)
      <4>1. hits(f) \in SUBSET Children(args, p) /\ p \in DOMAIN args
        OBVIOUS
      <4> HIDE DEF hits, D
      <4> QED BY <4>1, FirstItemIsOne
    <3> QED BY <1>3, <3>1
  <2>4. CASE args[p].kind = "text"
    BY <2>4 DEF Matches
  <2>5. CASE args[p].kind = "object"
    BY <2>1, <2>5 DEF Matches
  <2>6. CASE args[p].kind = "list"
    BY <2>2, <2>3, <2>6 DEF Matches
  <2>7. CASE args[p].kind \notin {"text", "object", "list"}
    BY <2>7 DEF Matches
  <2> QED BY <2>4, <2>5, <2>6, <2>7
<1>4. Finder(args) \in Walks(args, SUBSET D)
  BY <1>2 DEF Finder, Walks
<1>5. ASSUME NEW p \in D, NEW f \in [D -> SUBSET D] PROVE Finder(args)[<<p, f>>] = Matches(args, f, p)
  BY DEF Finder
<1>6. LooksBelow(args, SUBSET D, Finder(args))
  BY <1>3, <1>5 DEF LooksBelow
<1> QED BY <1>4, <1>6

\* The branch guard searches the whole of the arguments and nothing but the
\* arguments, whatever their shape: its matches are texts that name a protected
\* branch outside content keys, and there is a match if there is such a text.
THEOREM ForbiddenBranchesExact ==
  ASSUME NEW args, ArgumentTree(args)
  PROVE  Exact(args, << >>, ForbiddenBranches(args))
<1> DEFINE D == DOMAIN args
           found == CHOOSE f : f = [p \in D |-> Matches(args, f, p)]
<1>1. found = [p \in D |-> Matches(args, found, p)]
  <2>1. PICK f \in [D -> SUBSET D] : Solution(args, Finder(args), f)
    <3>1. {} \in SUBSET D
      OBVIOUS
    <3> QED BY <3>1, FinderWalks, WalkExists
  <2>2. \A p \in D : Finder(args)[<<p, f>>] = Matches(args, f, p)
    BY DEF Finder
  <2>3. f = [p \in D |-> Matches(args, f, p)]
    BY <2>1, <2>2 DEF Solution
  <2> QED BY <2>3
<1>2. ForbiddenBranches(args) = found[<< >>]
  BY DEF ForbiddenBranches
<1> HIDE DEF found
<1> DEFINE Good == {p \in D : Exact(args, p, found[p])}
<1>3. \A p \in D : Children(args, p) \subseteq Good => p \in Good
  BY <1>1, MatchesExact
<1>4. Good = D
  <2> HIDE DEF Good
  <2>1. Good \in SUBSET D
    BY DEF Good
  <2> QED BY <1>3, <2>1, Upward
<1> QED BY <1>2, <1>4, TreeFacts

-----------------------------------------------------------------------------
(* SanitizeArguments.                                                      *)

\* What is on record of a part: the addresses within it that no secret key
\* hides, each with what is shown there.
Secret(q, from, to) == \E i \in from..to : q[i] \in Fields(SecretKeys)

Visible(args, p) == {q \in Within(args, p) : ~Secret(q, Len(p) + 1, Len(q) - 1)}

Seen(args, p, q) == IF Secret(q, Len(p) + 1, Len(q)) THEN Redacted ELSE Shown(args[q])

View(args, p) == {<<q, Seen(args, p, q)>> : q \in Visible(args, p)}

LEMMA RootVisible ==
  ASSUME NEW args, ArgumentTree(args), NEW p \in DOMAIN args
  PROVE  p \in Visible(args, p) /\ Seen(args, p, p) = Shown(args[p])
<1>1. Len(p) \in Nat
  <2>1. Len(p) \in 0..MaxDepth
    BY TreeFacts
  <2> QED BY <2>1, DepthAssumption
<1>2. ~Secret(p, Len(p) + 1, Len(p) - 1) /\ ~Secret(p, Len(p) + 1, Len(p))
  BY <1>1 DEF Secret
<1> QED BY <1>1, <1>2 DEF Visible, Within, Seen

\* A child under a secret key shows nothing but that it is there.
LEMMA SecretChild ==
  ASSUME NEW args, ArgumentTree(args), NEW p \in DOMAIN args, NEW c \in Children(args, p),
         Last(c) \in Fields(SecretKeys)
  PROVE  /\ c \in Visible(args, p) /\ Seen(args, p, c) = Redacted
         /\ \A q \in Within(args, c) : q \in Visible(args, p) => q = c
<1>1. /\ c \in DOMAIN args /\ Len(p) \in Nat /\ Len(c) = Len(p) + 1
      /\ Last(c) = c[Len(p) + 1]
      /\ \A q \in Within(args, c) :
           q \in Within(args, p) /\ Len(q) \in Nat /\ Len(q) > Len(p) /\ q[Len(p) + 1] = Last(c)
  BY ChildFacts
<1>2. c \in Within(args, c)
  BY <1>1, RootVisible DEF Visible
<1>3. c \in Visible(args, p)
  <2>1. ~Secret(c, Len(p) + 1, Len(c) - 1)
    BY <1>1 DEF Secret
  <2> QED BY <1>1, <1>2, <2>1 DEF Visible
<1>4. Seen(args, p, c) = Redacted
  <2>1. Len(p) + 1 \in (Len(p) + 1)..Len(c)
    BY <1>1
  <2> QED BY <1>1, <2>1 DEF Seen, Secret
<1>5. ASSUME NEW q \in Within(args, c), q \in Visible(args, p), q # c PROVE FALSE
  <2>1. Len(q) > Len(c)
    BY <1>1, <1>5, Split
  <2>2. Len(p) + 1 \in (Len(p) + 1)..(Len(q) - 1)
    BY <1>1, <2>1
  <2> QED BY <1>1, <1>5, <2>2 DEF Visible, Secret
<1> QED BY <1>3, <1>4, <1>5

\* A child under another key, or in a list, shows all that it shows by itself.
LEMMA OpenChild ==
  ASSUME NEW args, ArgumentTree(args), NEW p \in DOMAIN args, NEW c \in Children(args, p),
         Last(c) \notin Fields(SecretKeys), NEW q \in Within(args, c)
  PROVE  /\ q \in Visible(args, p) <=> q \in Visible(args, c)
         /\ Seen(args, p, q) = Seen(args, c, q)
<1>1. /\ Len(p) \in Nat /\ Len(c) = Len(p) + 1
      /\ q \in Within(args, p) /\ Len(q) \in Nat /\ Len(q) > Len(p) /\ q[Len(p) + 1] = Last(c)
  BY ChildFacts
<1>2. ASSUME NEW to \in Int
      PROVE  Secret(q, Len(p) + 1, to) <=> Secret(q, Len(c) + 1, to)
  <2>1. ASSUME NEW i \in (Len(p) + 1)..to, q[i] \in Fields(SecretKeys)
        PROVE  i \in (Len(c) + 1)..to
    BY <1>1, <2>1
  <2>2. \A i \in (Len(c) + 1)..to : i \in (Len(p) + 1)..to
    BY <1>1
  <2> QED BY <2>1, <2>2 DEF Secret
<1>3. Len(q) \in Int /\ Len(q) - 1 \in Int
  BY <1>1
<1> QED BY <1>1, <1>2, <1>3 DEF Visible, Seen

\* What a walk makes of a part that has children.
Assembled(args, f, p) ==
  At(p, args[p]) \cup
    UNION {IF Last(c) \in Fields(SecretKeys) THEN At(c, Redacted) ELSE f[c] :
             c \in Children(args, p)}

LEMMA AssembledView ==
  ASSUME NEW args, ArgumentTree(args), NEW p \in DOMAIN args, NEW f,
         args[p] \in {Object, List},
         \A c \in Children(args, p) : f[c] = View(args, c)
  PROVE  Assembled(args, f, p) = View(args, p)
<1> DEFINE Made(c) == IF Last(c) \in Fields(SecretKeys) THEN At(c, Redacted) ELSE f[c]
<1>1. Shown(args[p]) = args[p]
  BY NodeKinds DEF Shown
<1>2. <<p, args[p]>> \in View(args, p)
  BY <1>1, RootVisible DEF View
<1>3. ASSUME NEW c \in Children(args, p) PROVE Made(c) \subseteq View(args, p)
  <2>1. CASE Last(c) \in Fields(SecretKeys)
    BY <2>1, SecretChild DEF View, At
  <2>2. CASE Last(c) \notin Fields(SecretKeys)
    <3>1. ASSUME NEW q \in Visible(args, c) PROVE <<q, Seen(args, c, q)>> \in View(args, p)
      <4>1. q \in Within(args, c)
        BY DEF Visible
      <4> QED BY <2>2, <4>1, OpenChild DEF View
    <3>2. Made(c) = View(args, c)
      BY <2>2
    <3> QED BY <3>1, <3>2 DEF View
  <2> QED BY <2>1, <2>2
<1>4. ASSUME NEW q \in Visible(args, p), q # p
      PROVE  \E c \in Children(args, p) : <<q, Seen(args, p, q)>> \in Made(c)
  <2>1. q \in Within(args, p)
    BY DEF Visible
  <2>2. PICK c \in Children(args, p) : q \in Within(args, c)
    BY <1>4, <2>1, Split
  <2>3. CASE Last(c) \in Fields(SecretKeys)
    BY <2>2, <2>3, SecretChild DEF At
  <2>4. CASE Last(c) \notin Fields(SecretKeys)
    <3>1. q \in Visible(args, c) /\ Seen(args, p, q) = Seen(args, c, q)
      BY <2>2, <2>4, OpenChild
    <3>2. <<q, Seen(args, p, q)>> \in View(args, c)
      BY <3>1 DEF View
    <3> QED BY <2>4, <3>2
  <2> QED BY <2>3, <2>4
<1>5. Assembled(args, f, p) = At(p, args[p]) \cup UNION {Made(c) : c \in Children(args, p)}
  BY DEF Assembled
<1> HIDE DEF Made
<1>6. Assembled(args, f, p) \subseteq View(args, p)
  BY <1>2, <1>3, <1>5 DEF At
<1>7. ASSUME NEW x \in View(args, p) PROVE x \in Assembled(args, f, p)
  <2>1. PICK q \in Visible(args, p) : x = <<q, Seen(args, p, q)>>
    BY DEF View
  <2>2. CASE q = p
    <3>1. x = <<p, args[p]>>
      BY <1>1, <2>1, <2>2, RootVisible
    <3> QED BY <1>5, <3>1 DEF At
  <2>3. CASE q # p
    BY <1>4, <1>5, <2>1, <2>3
  <2> QED BY <2>2, <2>3
<1> QED BY <1>6, <1>7

LEMMA SanitizedCases ==
  ASSUME NEW args, ArgumentTree(args), NEW p \in DOMAIN args, NEW f
  PROVE  /\ args[p] \in {Object, List} => Sanitized(args, f, p) = Assembled(args, f, p)
         /\ args[p] \notin {Object, List} =>
              /\ Children(args, p) = {}
              /\ Sanitized(args, f, p) = At(p, Shown(args[p]))
<1>1. CASE args[p] = Object
  <2>1. args[p].kind = "object"
    BY <1>1, NodeKinds
  <2>2. Sanitized(args, f, p) = SanitizeObject(args, f, p)
    BY <2>1 DEF Sanitized
  <2> QED BY <1>1, <2>2 DEF SanitizeObject, Assembled
<1>2. CASE args[p] = List
  <2>1. args[p].kind = "list" /\ args[p] # Object
    BY <1>2, NodeKinds
  <2>2. \A c \in Children(args, p) : Last(c) \notin Fields(SecretKeys)
    BY <2>1, ChildFacts
  <2>3. UNION {IF Last(c) \in Fields(SecretKeys) THEN At(c, Redacted) ELSE f[c] :
                 c \in Children(args, p)}
          = UNION {f[c] : c \in Children(args, p)}
    BY <2>2
  <2>4. Sanitized(args, f, p) = SanitizeList(args, f, p)
    BY <2>1 DEF Sanitized
  <2> QED BY <1>2, <2>3, <2>4 DEF SanitizeList, Assembled
<1>3. CASE args[p] \notin {Object, List}
  <2>1. Children(args, p) = {}
    BY <1>3, ChildFacts
  <2>2. args[p].kind = "text" \/ args[p] = Other
    BY <1>3, TreeFacts
  <2>3. args[p].kind \in {"text", "other"}
    BY <2>2, NodeKinds
  <2>4. Sanitized(args, f, p) = At(p, Shown(args[p]))
    BY <2>3 DEF Sanitized, Shown
  <2> QED BY <1>3, <2>1, <2>4
<1>4. Object # List
  BY NodeKinds
<1> QED BY <1>1, <1>2, <1>3

LEMMA SanitizedView ==
  ASSUME NEW args, ArgumentTree(args), NEW p \in DOMAIN args, NEW f,
         \A c \in Children(args, p) : f[c] = View(args, c)
  PROVE  Sanitized(args, f, p) = View(args, p)
<1>1. CASE args[p] \in {Object, List}
  BY <1>1, SanitizedCases, AssembledView
<1>2. CASE args[p] \notin {Object, List}
  <2>1. Children(args, p) = {} /\ Sanitized(args, f, p) = At(p, Shown(args[p]))
    BY <1>2, SanitizedCases
  <2>2. \A q \in Visible(args, p) : q = p
    BY <2>1, Split DEF Visible
  <2> QED BY <2>1, <2>2, RootVisible DEF View, At
<1> QED BY <1>1, <1>2

\* The walk of SanitizeArguments, as a function that walks.
Records(args) ==
  SUBSET ((DOMAIN args) \X ({args[p] : p \in DOMAIN args} \cup {Redacted, RedactedValue}))

Sanitizer(args) ==
  [x \in (DOMAIN args) \X [DOMAIN args -> Records(args)] |-> Sanitized(args, x[2], x[1])]

LEMMA SanitizerWalks ==
  ASSUME NEW args, ArgumentTree(args)
  PROVE  /\ Sanitizer(args) \in Walks(args, Records(args))
         /\ LooksBelow(args, Records(args), Sanitizer(args))
<1> DEFINE D == DOMAIN args
           R == Records(args)
<1>1. \A p \in D : Children(args, p) \subseteq D
  BY DEF Children
<1>2. \A p \in D : /\ At(p, args[p]) \in R /\ At(p, Redacted) \in R
                   /\ At(p, Shown(args[p])) \in R
  BY DEF At, Records, Shown
<1>3. ASSUME NEW p \in D, NEW f \in [D -> R] PROVE Assembled(args, f, p) \in R
  <2>1. \A c \in Children(args, p) :
          (IF Last(c) \in Fields(SecretKeys) THEN At(c, Redacted) ELSE f[c]) \in R
    BY <1>1, <1>2
  <2>2. At(p, args[p]) \in R
    BY <1>2
  <2> QED BY <2>1, <2>2 DEF Assembled, Records
<1>4. ASSUME NEW p \in D, NEW f \in [D -> R] PROVE Sanitized(args, f, p) \in R
  <2> HIDE DEF R
  <2> QED BY <1>2, <1>3, SanitizedCases
<1>5. ASSUME NEW p \in D, NEW f \in [D -> R], NEW g \in [D -> R],
             \A c \in Children(args, p) : f[c] = g[c]
      PROVE  Sanitized(args, f, p) = Sanitized(args, g, p)
  <2>1. UNION {IF Last(c) \in Fields(SecretKeys) THEN At(c, Redacted) ELSE f[c] :
                 c \in Children(args, p)}
          = UNION {IF Last(c) \in Fields(SecretKeys) THEN At(c, Redacted) ELSE g[c] :
                     c \in Children(args, p)}
    BY <1>5
  <2>2. Assembled(args, f, p) = Assembled(args, g, p)
    BY <2>1 DEF Assembled
  <2> HIDE DEF R
  <2> QED BY <2>2, SanitizedCases
<1> HIDE DEF R
<1>6. Sanitizer(args) \in Walks(args, R)
  BY <1>4 DEF Sanitizer, Walks, R
<1>7. ASSUME NEW p \in D, NEW f \in [D -> R] PROVE Sanitizer(args)[<<p, f>>] = Sanitized(args, f, p)
  BY DEF Sanitizer, R
<1>8. LooksBelow(args, R, Sanitizer(args))
  BY <1>5, <1>7 DEF LooksBelow
<1> QED BY <1>6, <1>8 DEF R

\* The arguments on record have every value of a sensitive key and every
\* sensitive text hidden and nothing else changed, whatever their shape.
THEOREM SanitizeArgumentsExact ==
  ASSUME NEW args, ArgumentTree(args)
  PROVE  SanitizeArguments(args) = View(args, << >>)
<1> DEFINE D == DOMAIN args
           clean == CHOOSE f : f = [p \in D |-> Sanitized(args, f, p)]
<1>1. clean = [p \in D |-> Sanitized(args, clean, p)]
  <2>1. PICK f \in [D -> Records(args)] : Solution(args, Sanitizer(args), f)
    <3>1. {} \in Records(args)
      BY DEF Records
    <3> QED BY <3>1, SanitizerWalks, WalkExists
  <2>2. \A p \in D : Sanitizer(args)[<<p, f>>] = Sanitized(args, f, p)
    BY DEF Sanitizer
  <2>3. f = [p \in D |-> Sanitized(args, f, p)]
    BY <2>1, <2>2 DEF Solution
  <2> QED BY <2>3
<1>2. SanitizeArguments(args) = clean[<< >>]
  BY DEF SanitizeArguments
<1> HIDE DEF clean
<1> DEFINE Good == {p \in D : clean[p] = View(args, p)}
<1>3. \A p \in D : Children(args, p) \subseteq Good => p \in Good
  BY <1>1, SanitizedView
<1>4. Good = D
  <2> HIDE DEF Good
  <2>1. Good \in SUBSET D
    BY DEF Good
  <2> QED BY <1>3, <2>1, Upward
<1> QED BY <1>2, <1>4, TreeFacts

-----------------------------------------------------------------------------
(* AuthMiddleware and the identity of a session.                           *)

\* A request that is refused is refused whatever its query says of a token, and
\* one that is admitted stays so, unless the configuration allows such tokens
\* and there is no Bearer header: the code behind QueryTokenIgnored.
THEOREM QueryTokenUnread ==
  ASSUME NEW auth \in Auths, NEW http \in Https, NEW q,
         ~auth.allowQueryToken \/ http.scheme = "bearer"
  PROVE  Authorized(auth, [http EXCEPT !.queryToken = q]) <=> Authorized(auth, http)
<1>1. TokenOf(auth, [http EXCEPT !.queryToken = q]) = TokenOf(auth, http)
  BY DEF TokenOf, Auths, Https
<1> QED BY <1>1 DEF Authorized

\* With authentication enabled nobody is admitted without a token, not even by
\* a configuration with an empty one, which Validate refuses.
THEOREM TokenDemanded ==
  ASSUME NEW auth \in [enabled : BOOLEAN, allowQueryToken : BOOLEAN, bearerToken : STRING],
         NEW http \in Https, auth.enabled, Authorized(auth, http)
  PROVE  /\ auth.bearerToken # ""
         /\ \/ http.scheme = "bearer" /\ http.token = auth.bearerToken
            \/ auth.allowQueryToken /\ http.queryToken = auth.bearerToken
  BY DEF Authorized, TokenOf, Https

LEMMA PartFacts ==
  ASSUME NEW x \in Parts
  PROVE  /\ <<x>> \in Ids
         /\ \A a \in Ids : /\ Append(a, x) \in Ids /\ Len(Append(a, x)) > 1
                           /\ Append(a, x)[1] = a[1]
<1>1. <<x>> \in Seq(Parts) /\ <<x>> # << >>
  OBVIOUS
<1>2. ASSUME NEW a \in Seq(Parts), a # << >>
      PROVE  /\ Append(a, x) \in Seq(Parts) /\ Append(a, x) # << >>
             /\ Len(Append(a, x)) > 1 /\ Append(a, x)[1] = a[1]
  <2>1. Len(a) \in Nat /\ Len(a) > 0
    BY <1>2
  <2> QED BY <2>1
<1> QED BY <1>1, <1>2 DEF Ids

LEMMA AgentNamed ==
  ASSUME NEW http \in Https
  PROVE  AgentOf(http) \in Ids /\ AgentOf(http) # Empty
<1>1. Anonymous \in Ids /\ Anonymous # Empty
  <2>1. "anonymous" \in Parts /\ "anonymous" # ""
    BY InputsAssumption
  <2>2. Anonymous[1] = "anonymous" /\ Empty[1] = ""
    BY DEF Anonymous, Empty
  <2>3. Anonymous \in Ids
    BY <2>1, PartFacts DEF Anonymous
  <2> QED BY <2>1, <2>2, <2>3
<1>2. ClaimedAgent(http) \in Ids
  BY DEF ClaimedAgent, Https
<1> QED BY <1>1, <1>2 DEF AgentOf, Https

LEMMA IdFacts ==
  ASSUME NEW a \in Ids
  PROVE  /\ a[1] \in Parts /\ Len(a) \in 1..Len(a)
         /\ \A b \in Ids : Len(b) > Len(a) => Len(a) \in 1..Len(b)
<1>1. ASSUME NEW b \in Ids PROVE b[1] \in Parts /\ Len(b) \in Nat /\ Len(b) > 0
  <2>1. b \in Seq(Parts) /\ b # << >>
    BY DEF Ids
  <2> QED BY <2>1
<1>2. ASSUME NEW b \in Ids, Len(b) > Len(a) PROVE Len(a) \in 1..Len(b)
  BY <1>1, <1>2
<1> QED BY <1>1, <1>2

\* A beginning of an identifier has its first part.
LEMMA BeginsAlike ==
  ASSUME NEW a \in Ids, NEW n \in 1..Len(a)
  PROVE  SubSeq(a, 1, n)[1] = a[1]
<1>1. a \in Seq(Parts) /\ Len(a) \in Nat
  BY DEF Ids
<1>2. 1 \in 1..(n - 1 + 1) /\ n \in Int
  BY <1>1
<1> QED BY <1>1, <1>2

\* The agent of an identifier of several parts is its first part.
LEMMA ExtractFirst ==
  ASSUME NEW sid \in Ids, Len(sid) > 1, sid[1] # ""
  PROVE  ExtractAgentID(sid) = <<sid[1]>>
  BY DEF ExtractAgentID

\* The identifiers the router gives the session a request opens, as a stream or
\* on the streamable server.
SessionsOf(http) == {SessionIDExtractor(http), Generate(http)}

\* A session identifier has an agent and more.
LEMMA SessionNamed ==
  ASSUME NEW http \in Https
  PROVE  \A sid \in SessionsOf(http) : sid \in Ids /\ Len(sid) > 1
<1>1. \A a \in Ids : Append(a, Fresh) \in Ids /\ Len(Append(a, Fresh)) > 1
  BY PartFacts, InputsAssumption
<1>2. SessionIDExtractor(http) \in Ids /\ Len(SessionIDExtractor(http)) > 1
  <2>1. CASE Continues(http, AgentOf(http))
    <3>1. http.sessionHeader \in Ids /\ Len(http.sessionHeader) > Len(AgentOf(http))
      BY <2>1 DEF Continues, Https
    <3>2. Len(AgentOf(http)) \in Nat /\ Len(AgentOf(http)) > 0 /\ Len(http.sessionHeader) \in Nat
      BY <3>1, AgentNamed DEF Ids
    <3> QED BY <2>1, <3>1, <3>2 DEF SessionIDExtractor
  <2>2. CASE ~Continues(http, AgentOf(http))
    BY <1>1, <2>2, AgentNamed DEF SessionIDExtractor
  <2> QED BY <2>1, <2>2
<1>3. ExtractAgentID(SessionIDExtractor(http)) \in Ids
  <2>1. SessionIDExtractor(http)[1] \in Parts
    BY <1>2 DEF Ids
  <2> QED BY <1>2, <2>1, PartFacts DEF ExtractAgentID
<1> QED BY <1>1, <1>2, <1>3 DEF SessionsOf, Generate

\* The session a request opens is that of its agent's first part, on both
\* transports and whatever session the request claims to continue.  Of a session
\* another request opened, which a call on the streamable server may present,
\* this says nothing.
THEOREM SessionKeepsOpener ==
  ASSUME NEW http \in Https, AgentOf(http)[1] # "", NEW sid \in SessionsOf(http)
  PROVE  ExtractAgentID(sid) = <<AgentOf(http)[1]>>
<1> DEFINE agent == AgentOf(http)
           name  == agent[1]
<1>1. agent \in Ids /\ agent # Empty /\ name # ""
  BY AgentNamed
<1>2. \A a \in Ids : Append(a, Fresh)[1] = a[1]
  BY PartFacts, InputsAssumption
<1>3. SessionIDExtractor(http)[1] = name
  <2>1. CASE Continues(http, agent)
    <3>1. /\ http.sessionHeader \in Ids /\ Len(http.sessionHeader) > Len(agent)
          /\ SubSeq(agent, 1, Len(agent)) = SubSeq(http.sessionHeader, 1, Len(agent))
      BY <1>1, <2>1 DEF Continues, IsPrefix, Https
    <3>2. Len(agent) \in 1..Len(agent) /\ Len(agent) \in 1..Len(http.sessionHeader)
      BY <1>1, <3>1, IdFacts
    <3>3. http.sessionHeader[1] = name
      BY <1>1, <3>1, <3>2, BeginsAlike
    <3> QED BY <2>1, <3>3 DEF SessionIDExtractor
  <2>2. CASE ~Continues(http, agent)
    BY <1>1, <1>2, <2>2 DEF SessionIDExtractor
  <2> QED BY <2>1, <2>2
<1> HIDE DEF name
<1>4. \A s \in SessionsOf(http) : s \in Ids /\ Len(s) > 1
  BY SessionNamed
<1>5. ExtractAgentID(SessionIDExtractor(http)) = <<name>>
  BY <1>1, <1>3, <1>4, ExtractFirst DEF SessionsOf
<1>6. <<name>> \in Ids
  <2>1. name \in Parts
    BY <1>1, IdFacts DEF name
  <2> QED BY <2>1, PartFacts
<1>7. sid[1] = name
  BY <1>2, <1>3, <1>5, <1>6 DEF SessionsOf, Generate
<1>8. ExtractAgentID(sid) = <<name>>
  BY <1>1, <1>4, <1>7, ExtractFirst
<1> QED BY <1>8 DEF name

\* The handler takes a call for the agent of its session, whether the tool was
\* registered for the session or for everybody.
LEMMA TargetIsSessions ==
  ASSUME NEW sid, NEW bound \in {Empty, ExtractAgentID(sid)}
  PROVE  TargetAgent(bound, sid) =
           IF ExtractAgentID(sid) = Empty THEN Anonymous ELSE ExtractAgentID(sid)
  BY DEF TargetAgent

\* The caller of a request, as the first name it gives, is the agent
\* SessionIDExtractor finds.
LEMMA CallerIsAgent ==
  ASSUME NEW http \in Https
  PROVE  Caller(http) = AgentOf(http)
<1> DEFINE given == {i \in 1..3 : Names(http)[i] # Empty}
           first == CHOOSE i \in given : \A j \in given : i <= j
<1>1. /\ Names(http)[1] = http.agentHeader /\ Names(http)[2] = http.agentQuery
      /\ Names(http)[3] = http.agentIdQuery
  BY DEF Names
<1>2. given # {} => first \in given /\ \A j \in given : first <= j
  <2>1. given # {} => \E i \in given : \A j \in given : i <= j
    <3>1. given \in SUBSET Nat
      OBVIOUS
    <3> HIDE DEF given
    <3> QED BY <3>1, Least
  <2> QED BY <2>1
<1> HIDE DEF first
<1>3. given = {} <=> ClaimedAgent(http) = Empty
  BY <1>1 DEF ClaimedAgent
<1>4. given # {} => Names(http)[first] = ClaimedAgent(http)
  <2>1. CASE 1 \in given
    <3>1. first = 1
      BY <1>2, <2>1
    <3> QED BY <1>1, <2>1, <3>1 DEF ClaimedAgent
  <2>2. CASE 1 \notin given /\ 2 \in given
    <3>1. first = 2
      BY <1>2, <2>2
    <3> QED BY <1>1, <2>2, <3>1 DEF ClaimedAgent
  <2>3. CASE given = {3}
    <3>1. first = 3
      BY <1>2, <2>3
    <3>2. 1 \notin given /\ 2 \notin given
      BY <2>3
    <3> QED BY <1>1, <3>1, <3>2 DEF ClaimedAgent
  <2>4. 1 \in given \/ (1 \notin given /\ 2 \in given) \/ given = {3} \/ given = {}
    OBVIOUS
  <2> QED BY <2>1, <2>2, <2>3, <2>4
<1>5. Caller(http) =
        LET name == IF given = {} THEN Anonymous ELSE Names(http)[first]
        IN  IF name = Anonymous /\ http.localPeer # Empty THEN http.localPeer ELSE name
  BY DEF Caller, first
<1> HIDE DEF given
<1> QED BY <1>3, <1>4, <1>5 DEF AgentOf

-----------------------------------------------------------------------------
(* The way of a request.                                                   *)

\* How a request has come where it is: each field holds what the steps so far
\* have put there, and it passed the checks on its way.
EventOf(type) ==
  \E bound \in Bounds : event = Logged(type, TargetAgent(bound, session))

RequestInv ==
  /\ input \in Inputs
  /\ step \in {"received", "admitted", "opened", "identified", "refused", "blocked", "performed"}
  /\ step = "refused" => ~Authorized(input.auth, input.http)
  /\ IF step \in {"opened", "identified", "blocked", "performed"}
     THEN session \in Ids ELSE session = None
  /\ OwnSession => session \in SessionsOf(Opener)
  /\ IF step = "blocked" THEN hit \in ForbiddenBranches(input.args) ELSE hit = None
  /\ step = "performed" => ForbiddenBranches(input.args) = {}
  /\ step \in {"received", "admitted", "opened", "identified"} => event = None
  /\ step = "refused" => DOMAIN event = {"type", "args", "agent"}
  /\ step = "blocked" => EventOf("SECURITY_BLOCK")
  /\ step = "performed" => EventOf("STATE_CHANGE")

LEMMA RequestFacts ==
  ASSUME input \in Inputs
  PROVE  /\ input.auth \in Auths /\ input.http \in Https /\ ArgumentTree(input.args)
         /\ input.opener \in Https
  BY InputsAssumption

\* An event of a call, or of a refusal, is not the lack of one.
LEMMA EventsAre ==
  /\ DOMAIN None = {}
  /\ \A type : EventOf(type) => event.type = type /\ DOMAIN event = {"type", "args", "agent"}
<1>1. DOMAIN None = {}
  BY DEF None
<1>2. ASSUME NEW type, EventOf(type)
      PROVE  event.type = type /\ DOMAIN event = {"type", "args", "agent"}
  <2>1. PICK bound \in Bounds : event = Logged(type, TargetAgent(bound, session))
    BY <1>2 DEF EventOf
  <2> QED BY <2>1 DEF Logged
<1> QED BY <1>1, <1>2

\* RequestInv holds of a request from its first step to its last.
THEOREM RequestsInductive == Spec => []RequestInv
<1>1. Init => RequestInv
  BY DEF Init, RequestInv, OwnSession
<1>2. RequestInv /\ [Next]_vars => RequestInv'
  <2> SUFFICES ASSUME RequestInv, [Next]_vars PROVE RequestInv'
    OBVIOUS
  <2>1. CASE Admit
    <3>1. session = None /\ ~OwnSession'
      BY <2>1 DEF RequestInv, Admit, OwnSession
    <3> QED BY <2>1, <3>1 DEF RequestInv, Admit
  <2>2. CASE Refuse
    <3>1. DOMAIN event' = {"type", "args", "agent"}
      BY <2>2 DEF Refuse
    <3>2. session = None /\ ~OwnSession'
      BY <2>2 DEF RequestInv, Refuse, OwnSession
    <3> QED BY <2>2, <3>1, <3>2 DEF RequestInv, Refuse
  <2>3. CASE Open
    <3>1. session' \in SessionsOf(input.http) /\ session' \in Ids
      BY <2>3, RequestFacts, SessionNamed DEF RequestInv, Open, SessionsOf
    <3>2. Opener' = input.http
      BY <2>3 DEF Open, Opener, IsStream, IsInitialize, IsStreamable
    <3> QED BY <2>3, <3>1, <3>2 DEF RequestInv, Open, SessionsOf
  <2>4. CASE Join
    <3>1. session' \in Ids
      BY <2>4, RequestFacts, SessionNamed DEF RequestInv, Join, SessionsOf, Https
    <3>2. (OwnSession => session \in SessionsOf(Opener))'
      BY <2>4 DEF Join, OwnSession, Opener, SessionsOf, IsStream, IsInitialize, IsStreamable
    <3> QED BY <2>4, <3>1, <3>2 DEF RequestInv, Join
  <2>5. CASE Block
    <3>1. EventOf("SECURITY_BLOCK")'
      BY <2>5 DEF Block, EventOf, Bounds, Logged
    <3> QED BY <2>5, <3>1 DEF RequestInv, Block, OwnSession, Opener
  <2>6. CASE Perform
    <3>1. EventOf("STATE_CHANGE")'
      BY <2>6 DEF Perform, EventOf, Bounds, Logged
    <3> QED BY <2>6, <3>1 DEF RequestInv, Perform, OwnSession, Opener
  <2>7. CASE UNCHANGED vars
    <3>1. /\ EventOf("SECURITY_BLOCK")' <=> EventOf("SECURITY_BLOCK")
          /\ EventOf("STATE_CHANGE")' <=> EventOf("STATE_CHANGE")
      BY <2>7 DEF vars, EventOf, Bounds, Logged
    <3> QED BY <2>7, <3>1 DEF RequestInv, vars, OwnSession, Opener
  <2> QED BY <2>1, <2>2, <2>3, <2>4, <2>5, <2>6, <2>7 DEF Next
<1> QED BY <1>1, <1>2, PTL DEF Spec

\* A request that is refused and a call that is over leave one event, and what
\* the guard reports is a part of the arguments, never their root.
THEOREM RequestsTypeCorrect == Spec => []RequestsTypeOK
<1>1. RequestInv => RequestsTypeOK
  <2> SUFFICES ASSUME RequestInv PROVE RequestsTypeOK
    OBVIOUS
  <2>1. step \in {"received", "admitted", "opened", "identified", "refused", "blocked", "performed"}
    BY DEF RequestInv
  <2>2. (step \in {"refused", "blocked", "performed"}) <=> (event # None)
    <3>1. step \in {"refused", "blocked", "performed"} => DOMAIN event = {"type", "args", "agent"}
      BY EventsAre DEF RequestInv
    <3> QED BY <3>1, EventsAre DEF RequestInv
  <2>3. (step = "blocked") <=> (hit # None)
    <3>1. ASSUME step = "blocked" PROVE hit # << >>
      <4>1. ArgumentTree(input.args) /\ hit \in ForbiddenBranches(input.args)
        BY <3>1, RequestFacts DEF RequestInv
      <4>2. input.args[hit].kind = "text" /\ input.args[<< >>] = Object
        BY <4>1, ForbiddenBranchesExact, TreeFacts DEF Exact, Named
      <4> QED BY <4>2, NodeKinds
    <3> QED BY <3>1 DEF RequestInv, None
  <2>4. (step \in {"opened", "identified", "blocked", "performed"}) <=> (session # None)
    BY DEF RequestInv, Ids, None
  <2> QED BY <2>1, <2>2, <2>3, <2>4 DEF RequestsTypeOK
<1> QED BY <1>1, RequestsInductive, PTL

\* A request that is refused would have been whatever its query said of a
\* token, where the configuration does not take one from there.
THEOREM QueryTokenCorrect == Spec => []QueryTokenIgnored
<1>1. RequestInv => QueryTokenIgnored
  <2> SUFFICES ASSUME RequestInv, NEW q \in {"", input.auth.bearerToken},
                      ~input.auth.allowQueryToken \/ input.http.scheme = "bearer",
                      step = "refused"
               PROVE  ~Authorized(input.auth, [input.http EXCEPT !.queryToken = q])
    BY DEF QueryTokenIgnored
  <2>1. input.auth \in Auths /\ input.http \in Https
    BY RequestFacts DEF RequestInv
  <2>2. ~Authorized(input.auth, input.http)
    BY DEF RequestInv
  <2> QED BY <2>1, <2>2, QueryTokenUnread
<1> QED BY <1>1, RequestsInductive, PTL

\* The sessions the router opens are their openers', and every event of a call
\* carries the agent of the session the call came in.
THEOREM OpenerCorrect == Spec => []SessionIsOpeners
<1>1. RequestInv => SessionIsOpeners
  <2> DEFINE name == Caller(Opener)[1]
  <2> SUFFICES ASSUME RequestInv
               PROVE  /\ OwnSession /\ name # "" => ExtractAgentID(session) = <<name>>
                      /\ step \in {"blocked", "performed"} => event.agent = AgentOfSession
    BY DEF SessionIsOpeners
  <2>1. Opener \in Https /\ AgentOf(Opener)[1] = name
    BY RequestFacts, CallerIsAgent DEF RequestInv, Opener
  <2> HIDE DEF name
  <2>2. ASSUME OwnSession, name # "" PROVE ExtractAgentID(session) = <<name>>
    BY <2>1, <2>2, SessionKeepsOpener DEF RequestInv
  <2>3. ASSUME step \in {"blocked", "performed"} PROVE event.agent = AgentOfSession
    <3>1. PICK bound \in Bounds, type \in {"SECURITY_BLOCK", "STATE_CHANGE"} :
             event = Logged(type, TargetAgent(bound, session))
      BY <2>3 DEF RequestInv, EventOf
    <3>2. event.agent = TargetAgent(bound, session)
      BY <3>1 DEF Logged
    <3> QED BY <3>2, TargetIsSessions DEF Bounds, AgentOfSession
  <2> QED BY <2>2, <2>3
<1> QED BY <1>1, RequestsInductive, PTL

\* What is within the root is everything.
LEMMA WithinRoot ==
  ASSUME NEW args, ArgumentTree(args)
  PROVE  Within(args, << >>) = DOMAIN args
<1>1. \A q \in DOMAIN args : Len(q) >= 0
  <2> TAKE q \in DOMAIN args
  <2>1. Len(q) \in 0..MaxDepth
    BY TreeFacts
  <2> QED BY <2>1, DepthAssumption
<1>2. Len(<< >>) = 0 /\ DOMAIN << >> = {}
  OBVIOUS
<1> QED BY <1>1, <1>2 DEF Within

\* The guard lets a call through exactly when nothing in its arguments, however
\* deep, names a protected branch outside content keys, and what it reports does.
THEOREM BranchGuardCorrect == Spec => []BranchGuardExact
<1>1. RequestInv => BranchGuardExact
  <2> SUFFICES ASSUME RequestInv PROVE BranchGuardExact
    OBVIOUS
  <2> DEFINE args == input.args
             named == {p \in DOMAIN args :
                         /\ args[p].kind = "text" /\ IsForbiddenBranchValue(args[p].content)
                         /\ ~Under(p, ContentKeys, 0)}
  <2>1. ArgumentTree(args)
    BY RequestFacts DEF RequestInv
  <2>2. \A p \in DOMAIN args :
          Under(p, ContentKeys, 0) <=> \E i \in 1..Len(p) : p[i] \in Fields(ContentKeys)
    <3> TAKE p \in DOMAIN args
    <3>1. Len(p) \in 0..MaxDepth
      BY <2>1, TreeFacts
    <3>2. Len(p) - 0 = Len(p)
      BY <3>1, DepthAssumption
    <3> QED BY <3>2 DEF Under
  <2>3. Len(<< >>) + 1 = 1
    OBVIOUS
  <2> HIDE DEF args
  <2>4. named = Named(args, << >>)
    BY <2>1, <2>2, <2>3, WithinRoot DEF Named
  <2> HIDE DEF named
  <2>5. /\ ForbiddenBranches(args) \subseteq named
        /\ named # {} => ForbiddenBranches(args) # {}
    BY <2>1, <2>4, ForbiddenBranchesExact DEF Exact
  <2>6. step = "performed" => named = {}
    BY <2>5 DEF RequestInv, args
  <2>7. step = "blocked" => hit \in named
    BY <2>5 DEF RequestInv, args
  <2> QED BY <2>6, <2>7 DEF BranchGuardExact, named, args
<1> QED BY <1>1, RequestsInductive, PTL

\* What the audit log is given of a call hides every value of a sensitive key
\* and every sensitive text, at any depth, and nothing else.
THEOREM RedactionCorrect == Spec => []RedactionExact
<1>1. RequestInv => RedactionExact
  <2> SUFFICES ASSUME RequestInv, step \in {"blocked", "performed"} PROVE RedactionExact
    BY DEF RedactionExact
  <2> DEFINE args == input.args
  <2>1. ArgumentTree(args)
    BY RequestFacts DEF RequestInv
  <2>2. event.args = SanitizeArguments(args)
    BY DEF RequestInv, EventOf, Logged
  <2> HIDE DEF args
  <2>3. ASSUME NEW q \in DOMAIN args
        PROVE  /\ Under(q, SecretKeys, 0) <=> Secret(q, 1, Len(q))
               /\ Under(q, SecretKeys, 1) <=> Secret(q, 1, Len(q) - 1)
    <3>1. Len(q) \in 0..MaxDepth
      BY <2>1, TreeFacts
    <3>2. Len(q) - 0 = Len(q)
      BY <3>1, DepthAssumption
    <3> QED BY <3>2 DEF Under, Secret
  <2>4. Len(<< >>) + 1 = 1
    OBVIOUS
  <2>5. Visible(args, << >>) = {q \in DOMAIN args : ~Under(q, SecretKeys, 1)}
    BY <2>1, <2>3, <2>4, WithinRoot DEF Visible
  <2>6. \A q \in DOMAIN args :
          Seen(args, << >>, q) = IF Under(q, SecretKeys, 0) THEN Redacted ELSE Shown(args[q])
    BY <2>3, <2>4 DEF Seen
  <2>7. View(args, << >>) =
          {<<q, IF Under(q, SecretKeys, 0) THEN Redacted ELSE Shown(args[q])>> :
             q \in {r \in DOMAIN args : ~Under(r, SecretKeys, 1)}}
    BY <2>5, <2>6 DEF View
  <2>8. event.args = View(args, << >>)
    BY <2>1, <2>2, SanitizeArgumentsExact
  <2> QED BY <2>7, <2>8 DEF RedactionExact, args
<1> QED BY <1>1, RequestsInductive, PTL
=============================================================================
