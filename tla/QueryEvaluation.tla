--------------------------- MODULE QueryEvaluation ---------------------------
(***************************************************************************)
(* A query over some sources: the optimizers of a configuration rewrite    *)
(* it, one after another, and the operation that is there is evaluated     *)
(* with the join actors that the mediators prefer.                         *)
(***************************************************************************)
EXTENDS Evaluation

CONSTANTS
    Queries,       \* a sequence of [operation, sources]: a context's sources, by name, in order
    Orders,        \* sequences of optimizers, each in an order that the configuration allows
    Preferences    \* records of the join actors that mediators may prefer, by type

ASSUME OrdersAreAllowed ==
    \A order \in Orders : \A i, j \in DOMAIN order :
        i < j => <<order[j], order[i]>> \notin beforeActors

VARIABLES
    query,       \* the query, as it was asked
    context,     \* of the query, with what optimizers set in it
    operation,   \* what the query is rewritten to
    todo,        \* the optimizers that have not run
    result       \* none, or what was evaluated and its output, in a sequence
vars == <<query, context, operation, todo, result>>

NoPreference == [inner |-> "", minus |-> "", optional |-> ""]
ContextOf(asked) ==
    [querySources |-> asked.querySources, serviceSources |-> {}, sources |-> asked.sources,
     ids |-> [name \in DOMAIN asked.sources |-> ""], options |-> asked.options,
     extensionFunctions |-> asked.extensionFunctions, preferred |-> NoPreference,
     lastPhysicalJoin |-> "", distinctPath |-> FALSE]
Init ==
    /\ query \in ToSet(Queries)
    /\ context = ContextOf(query)
    /\ operation = query.operation
    /\ todo \in Orders
    /\ result = <<>>

(* One optimizer of the pipeline.                                          *)
Optimize ==
    /\ todo # <<>> /\ result = <<>>
    /\ context' = OptimizedContext(todo[1], context, operation)
    /\ operation' = OptimizedOperation(todo[1], context, operation)
    /\ todo' = Tail(todo)
    /\ UNCHANGED <<query, result>>

(* What is evaluated on the way to the result of a query.                  *)
NotEvaluated == {"expression", "link", "inv", "nps", "alt", "seq", "ZeroOrOnePath", "ZeroOrMorePath",
                 "OneOrMorePath", "describe", "service"}
Evaluable(op) == op.type \notin NotEvaluated

(* A configuration may leave out optimizers, but not the assignment of     *)
(* sources, nor, as FROM and others do not expect the union of sources in  *)
(* a BGP, what makes a join of a BGP.  The operation is evaluated, or one  *)
(* of those that it consists of, as the actors of that operation do it.    *)
Executable == ~Contains(todo, "assign") /\ ~Contains(todo, "bgpToJoin")
Execute ==
    /\ Executable /\ result = <<>>
    /\ \E op \in {operation} \union {o \in SubOperations(operation) : Evaluable(o)} :
         \E preferred \in (IF op = operation THEN Preferences ELSE {NoPreference}) :
           result' = <<[operation |-> op,
                        output |-> mediateQueryOperation([context EXCEPT !.preferred = preferred], op)]>>
    /\ UNCHANGED <<query, context, operation, todo>>

Next == Optimize \/ Execute
Spec == Init /\ [][Next]_vars

-----------------------------------------------------------------------------
(* What was asked, by the semantics of SPARQL, over what all sources hold: *)
(* a SERVICE clause has the solutions of its own source.                   *)
RECURSIVE Inlined(_)
Inlined(op) ==
    IF op.type = "service"
    THEN createValues(AsSequence(inScopeVariables(op.input[1])),
                      Evaluate(op.input[1], SkolemizedQuads(context, op.name[2])))
    ELSE copyOperation(op, Inlined)
Meaning(op) == Evaluate(Inlined(op), Dataset(context))

Erased(term) == IF Len(term) = 2 /\ term[1] = "BlankNode" THEN BlankNode("") ELSE term
ErasedQuads(quads) == {[i \in 1 .. 4 |-> Erased(quad[i])] : quad \in ToSet(quads)}
CountIn(seq, e) == Len(SelectSeq(seq, LAMBDA other : other = e))
IsPartOf(small, large) == \A e \in ToSet(small) : CountIn(small, e) <= CountIn(large, e)

(* Whatever optimizers have run and whichever join actors are preferred,   *)
(* a query gives the solutions that SPARQL defines, as often as it does:   *)
(* a slice any of its length, REDUCED each at least once, and new blank    *)
(* nodes whatever labels they get.                                         *)
SolutionsAreRight ==
    result # <<>> /\ result[1].operation = operation =>
      LET op == query.operation  given == result[1].output
      IN  CASE given.type = "error" -> FALSE
            [] op.type = "slice" -> /\ Len(given.bindings) = Len(Meaning(op))
                                    /\ IsPartOf(given.bindings, Meaning(op.input[1]))
            [] op.type = "reduced" -> ToSet(given.bindings) = ToSet(Meaning(op))
            [] op.type = "ask" -> given.value = (Meaning(op.input[1]) # <<>>)
            [] given.type = "quads" -> ErasedQuads(given.quads) = ErasedQuads(Meaning(op))
            [] OTHER -> SameBag(given.bindings, Meaning(op))

(* Metadata tells the truth of every stream that a join will trust: each   *)
(* variable that a solution binds is listed, one that cannot be undefined is *)
(* bound in all of them, and a cardinality of zero is only declared of a     *)
(* stream without solutions.  Otherwise a hash join loses solutions or gives *)
(* too many, and a join or the pruning of sources returns at once.           *)
MetadataIsTruthful ==
    result # <<>> /\ IsBindings(result[1].output) =>
      LET output == result[1].output
      IN  /\ output.metadata.cardinality.value = 0 => output.bindings = <<>>
          /\ \A bindings \in ToSet(output.bindings) :
               /\ DOMAIN bindings \subseteq ToSet(VariablesIn(output.metadata))
               /\ \A m \in ToSet(output.metadata.variables) : m.canBeUndef \/ has(bindings, m.variable)

(* A function that only the engine knows is never left to a source.        *)
ExtensionsStayWhereKnown ==
    \A op \in SubOperations(operation) : op.source # NoSource =>
      \A sub \in SubOperations(op) :
        isExtensionFunction(sub) /\ sub.name \in context.extensionFunctions
          => sub.name \in context.sources[op.source].extensionFunctions

=============================================================================
