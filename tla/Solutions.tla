----------------------------- MODULE Solutions -----------------------------
(***************************************************************************)
(* Solutions of a query, and the two indexes that the joins keep of them.  *)
(*                                                                         *)
(* A term is a tuple of its termType, its value and, for a literal, the    *)
(* name of its datatype.  Bindings are a function from names of variables  *)
(* to terms (immutable, as in the code; their contexts are left out), and  *)
(* solutions a sequence of bindings, in the order of the stream.  Missing  *)
(* terms are written Undefined.                                            *)
(***************************************************************************)
EXTENDS Integers, Sequences, SequencesExt, FiniteSets

Variable(name) == <<"Variable", name>>
NamedNode(value) == <<"NamedNode", value>>
BlankNode(value) == <<"BlankNode", value>>
Literal(value, datatype) == <<"Literal", value, datatype>>
DefaultGraph == <<"DefaultGraph", "">>
Undefined == <<>>

IsVariable(term) == term[1] = "Variable"
termToString(term) ==
    CASE term[1] = "Variable" -> "?" \o term[2]
      [] term[1] = "BlankNode" -> "_:" \o term[2]
      [] term[1] = "Literal" -> "'" \o term[2] \o "'^^" \o term[3]
      [] OTHER -> term[2]

-----------------------------------------------------------------------------
(* Bindings.                                                               *)
EmptyBindings == [v \in {} |-> Undefined]
has(bindings, v) == v \in DOMAIN bindings
get(bindings, v) == IF has(bindings, v) THEN bindings[v] ELSE Undefined
set(bindings, v, term) == [w \in DOMAIN bindings \union {v} |-> IF w = v THEN term ELSE bindings[w]]
filterBindings(bindings, vars) == [v \in DOMAIN bindings \intersect vars |-> bindings[v]]

(* merge: one operand's entries are written over the other's, unless they  *)
(* disagree on a variable that both bind.                                  *)
Compatible(left, right) == \A v \in DOMAIN left \intersect DOMAIN right : left[v] = right[v]
Merged(left, right) ==
    [v \in DOMAIN left \union DOMAIN right |-> IF has(right, v) THEN right[v] ELSE left[v]]

(* joinBindings of two: the code's null is the empty sequence here, so     *)
(* that the results of many can be concatenated.                           *)
joinBindings(left, right) == IF Compatible(left, right) THEN <<Merged(left, right)>> ELSE <<>>

(* mergeWith: what disagrees is given to a merger, which in this code adds *)
(* or keeps: here it keeps the first.                                      *)
mergeWith(left, right) ==
    [v \in DOMAIN left \union DOMAIN right |-> IF has(left, v) THEN left[v] ELSE right[v]]

(* Two values that the code compares as texts.  bindingsToString writes    *)
(* names and terms as JSON and is injective; the compact form concatenates *)
(* the terms without a separator; the hash is over values only.            *)
bindingsToString(bindings) == bindings
Concatenated(texts) == FoldLeft(LAMBDA all, text : all \o text, "", texts)
bindingsToCompactString(bindings, vars) ==
    Concatenated([i \in DOMAIN vars |->
        IF has(bindings, vars[i]) THEN termToString(bindings[vars[i]]) ELSE ""])
hashFunction(bindings, vars) ==
    Concatenated([i \in DOMAIN vars |->
        IF has(bindings, vars[i]) THEN bindings[vars[i]][2] ELSE "UNDEF"])

-----------------------------------------------------------------------------
(* The two kinds of index: a sequence of [key, value] in the order of the  *)
(* first insertion.  "def" finds values by a text of all keys, "undef" by  *)
(* a term or Undefined per key (a tree of depth Len(keys) in the code).    *)
Index(kind, keys, hash, allowDisjointDomains) ==
    [kind |-> kind, keys |-> keys, hash |-> hash, data |-> <<>>,
     allowDisjointDomains |-> allowDisjointDomains /\ keys # <<>>]

(* The undef index holds and finds nothing for bindings of none of the     *)
(* keys, unless disjoint domains are allowed.                              *)
IsValid(index, bindings) ==
    index.allowDisjointDomains \/ \E i \in DOMAIN index.keys : has(bindings, index.keys[i])
KeyOf(index, bindings) ==
    CASE index.kind = "undef" -> [i \in DOMAIN index.keys |-> get(bindings, index.keys[i])]
      [] index.hash = "compact" -> <<bindingsToCompactString(bindings, index.keys)>>
      [] OTHER -> <<hashFunction(bindings, index.keys)>>

(* put: the def index overwrites, the undef index keeps a leaf it has.     *)
put(index, bindings, value) ==
    LET key == KeyOf(index, bindings)
        known == SelectInSeq(index.data, LAMBDA entry : entry.key = key)
    IN  CASE index.kind = "def" /\ known # 0 -> [index EXCEPT !.data[known].value = value]
          [] index.kind = "undef" /\ (known # 0 \/ ~IsValid(index, bindings)) -> index
          [] OTHER -> [index EXCEPT !.data = Append(@, [key |-> key, value |-> value])]

(* A key of the index matches a term: where either is undefined, all do.   *)
Matches(key, sought, wildcard) ==
    \A i \in DOMAIN key : \/ key[i] = sought[i]
                          \/ key[i] = Undefined
                          \/ wildcard /\ sought[i] = Undefined

(* The entries that match, in the order of the tree: at each depth the     *)
(* sought term comes before the undefined one, and where everything        *)
(* matches the branches come in the order in which they were made.         *)
BranchRank(index, key, sought, i) ==
    IF sought[i] # Undefined
    THEN IF key[i] = sought[i] THEN 0 ELSE 1
    ELSE SelectInSeq(index.data, LAMBDA entry : SubSeq(entry.key, 1, i) = SubSeq(key, 1, i))
Precedes(index, a, b, sought) ==
    \E i \in DOMAIN sought :
      /\ BranchRank(index, a.key, sought, i) < BranchRank(index, b.key, sought, i)
      /\ \A j \in 1 .. (i - 1) :
           BranchRank(index, a.key, sought, j) = BranchRank(index, b.key, sought, j)
Found(index, bindings, wildcard) ==
    LET sought == KeyOf(index, bindings)
    IN  CASE index.kind = "def" -> SelectSeq(index.data, LAMBDA entry : entry.key = sought)
          [] ~IsValid(index, bindings) -> <<>>
          [] OTHER ->
               SortSeq(SelectSeq(index.data, LAMBDA entry : Matches(entry.key, sought, wildcard)),
                       LAMBDA a, b : Precedes(index, a, b, sought))
getValues(index, bindings) ==
    LET found == Found(index, bindings, TRUE)
    IN  [i \in DOMAIN found |-> found[i].value]
hasFirst(index, bindings, wildcard) == Found(index, bindings, wildcard) # <<>>
values(index) ==
    IF index.kind = "undef" /\ index.keys = <<>> THEN <<>>
    ELSE [i \in DOMAIN index.data |-> index.data[i].value]

(* The joins fill an index of buckets with                                 *)
(* (index.getFirst(bindings, wildcard) ?? index.put(bindings, [])).push(b).*)
pushTo(index, bindings, wildcard) ==
    LET found == Found(index, bindings, wildcard)
    IN  IF found = <<>> THEN put(index, bindings, <<bindings>>)
        ELSE LET bucket == SelectInSeq(index.data, LAMBDA entry : entry.key = found[1].key)
             IN  [index EXCEPT !.data[bucket].value = Append(@, bindings)]
IndexOf(index, solutions, wildcard) ==
    FoldLeft(LAMBDA filled, bindings : pushTo(filled, bindings, wildcard), index, solutions)

-----------------------------------------------------------------------------
(* Sequences of solutions, and their comparison as bags.                   *)
Times(solutions, bindings) == Len(SelectSeq(solutions, LAMBDA b : b = bindings))
SameBag(a, b) ==
    /\ Len(a) = Len(b)
    /\ \A i \in DOMAIN a : Times(a, a[i]) = Times(b, a[i])
FlatMap(seq, Op(_)) == FlattenSeq([i \in DOMAIN seq |-> Op(seq[i])])
AsSequence(set_) == FoldSet(LAMBDA e, seq : Append(seq, e), <<>>, set_)
Unique(seq) == FoldLeft(LAMBDA seen, e : IF Contains(seen, e) THEN seen ELSE Append(seen, e), <<>>, seq)
=============================================================================
