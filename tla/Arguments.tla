----------------------------- MODULE Arguments ------------------------------
(***************************************************************************)
(* The two walks over the arguments of a call: findForbiddenBranch of      *)
(* router.go, which looks for the name of a protected branch, and          *)
(* SanitizeArguments of logger.go, which hides secrets from the audit log. *)
(*                                                                         *)
(* A JSON value is a tree: the function that gives, for the address of     *)
(* each of its parts, what is there.  An address is the sequence of steps  *)
(* that lead to the part, each into a field of an object or to an item of  *)
(* a list.  A text is the sequence of its parts between slashes.  Letter   *)
(* case and blanks around a text are not represented; the code forgives    *)
(* both.                                                                   *)
(***************************************************************************)
EXTENDS Integers, SequencesExt

CONSTANTS
  ContentKeys,  \* nonBranchContentKeys
  SecretKeys,   \* isSensitiveKey
  SecretTexts,  \* isSensitiveValue
  MaxDepth      \* the nesting the JSON decoder accepts

ASSUME DepthAssumption == MaxDepth \in Nat

Field(k) == <<k, 0>>
Item(i) == <<"[]", i>>

Fields(keys) == {Field(k) : k \in keys}

Text(t) == [kind |-> "text", content |-> t]
Object == [kind |-> "object", content |-> << >>]
List == [kind |-> "list", content |-> << >>]
Other == [kind |-> "other", content |-> << >>]

\* The arguments of a call as the decoder makes them: a tree that hangs
\* together, with an object at its root and under it the fields of objects and
\* the items of lists.
ArgumentTree(args) ==
  LET addresses == DOMAIN args IN
  /\ addresses \subseteq Seq(STRING \X Nat)
  /\ << >> \in addresses /\ args[<< >>] = Object
  /\ \A p \in addresses :
       /\ Len(p) <= MaxDepth
       /\ args[p] \in {Object, List, Other} \/ args[p].kind = "text"
       /\ \A n \in 0..(Len(p) - 1) :
            LET q    == SubSeq(p, 1, n)
                next == p[n + 1]
            IN  /\ q \in addresses
                /\ \/ args[q] = Object /\ next = Field(next[1])
                   \/ args[q] = List /\ next = Item(next[2]) /\ next[2] > 0

\* The addresses of the fields of an object, or of the items of a list.
Children(args, p) ==
  {q \in DOMAIN args : Len(q) = Len(p) + 1 /\ \A i \in DOMAIN p : q[i] = p[i]}

-----------------------------------------------------------------------------
\* isForbiddenBranchValue: main, master, or a path that ends in one of them.
IsForbiddenBranchValue(t) == Last(t) \in {"main", "master"}

\* Mutant of Searched: the walk does not enter content keys only at the top.
SearchedNested(args, p) ==
  {q \in Children(args, p) : p = << >> => Last(q) \notin Fields(ContentKeys)}

\* The fields of an object the walk goes into.
Searched(args, p) == {q \in Children(args, p) : Last(q) \notin Fields(ContentKeys)}

FirstItem(items) == CHOOSE q \in items : \A r \in items : Last(q)[2] <= Last(r)[2]

\* findForbiddenBranch at address p: the matches it may return, given by their
\* addresses, with none for "not found".  A map is gone through in any order and
\* the first match is returned; a list is gone through in its order.
Matches(args, found, p) ==
  CASE args[p].kind = "text" -> IF IsForbiddenBranchValue(args[p].content) THEN {p} ELSE {}
    [] args[p].kind = "object" -> UNION {found[q] : q \in Searched(args, p)}
    [] args[p].kind = "list" ->
         LET hits == {q \in Children(args, p) : found[q] # {}}
         IN  IF hits = {} THEN {} ELSE found[FirstItem(hits)]
    [] OTHER -> {}

ForbiddenBranches(args) ==
  LET found[p \in DOMAIN args] == Matches(args, found, p)
  IN  found[<< >>]

-----------------------------------------------------------------------------
Redacted == Text(<<"[REDACTED]">>)
RedactedValue == Text(<<"[REDACTED-VALUE]">>)

At(p, node) == {<<p, node>>}

\* The address of p itself and of what is under it.
Within(args, p) == {q \in DOMAIN args : Len(q) >= Len(p) /\ \A i \in DOMAIN p : q[i] = p[i]}

\* Mutant of SanitizeList: a list inside a list is copied as it is.
SanitizeListShallow(args, clean, p) ==
  IF p # << >> /\ Last(p)[2] > 0
  THEN {<<q, args[q]>> : q \in Within(args, p)}
  ELSE At(p, List) \cup UNION {clean[q] : q \in Children(args, p)}

\* sanitizeSlice.
SanitizeList(args, clean, p) ==
  At(p, List) \cup UNION {clean[q] : q \in Children(args, p)}

\* SanitizeArguments: a sensitive key hides its value whatever it is.
SanitizeObject(args, clean, p) ==
  At(p, Object) \cup
    UNION {IF Last(q) \in Fields(SecretKeys) THEN At(q, Redacted) ELSE clean[q] :
             q \in Children(args, p)}

\* What is made of the value at address p.
Sanitized(args, clean, p) ==
  CASE args[p].kind = "object" -> SanitizeObject(args, clean, p)
    [] args[p].kind = "list" -> SanitizeList(args, clean, p)
    [] args[p].kind = "text" /\ args[p].content \in SecretTexts -> At(p, RedactedValue)
    [] OTHER -> At(p, args[p])

\* The tree that is logged, as the set of its addresses with what is there.
SanitizeArguments(args) ==
  LET clean[p \in DOMAIN args] == Sanitized(args, clean, p)
  IN  clean[<< >>]

-----------------------------------------------------------------------------
\* Some step of the address, the last `spared` ones left aside, is into a field
\* of one of these names.
Under(address, keys, spared) ==
  \E i \in 1..(Len(address) - spared) : address[i] \in Fields(keys)
=============================================================================
