-------------------------- MODULE MCQueryEvaluation --------------------------
(***************************************************************************)
(* Queries over small sources of all kinds, checked against the semantics. *)
(***************************************************************************)
EXTENDS QueryEvaluation

a == NamedNode("a")
b == NamedNode("b")
c == NamedNode("c")
p == NamedNode("p")
q == NamedNode("q")
g == NamedNode("g")
one == Literal("1", "integer")
uno == Literal("01", "integer")
x == Variable("x")
y == Variable("y")
z == Variable("z")
w == Variable("w")
n == BlankNode("n")

Source(kind, quads) ==
    [kind |-> kind, quads |-> quads, defaultGraph |-> Undefined, restricted |-> FALSE, indexed |-> {},
     counts |-> FALSE, extensionFunctions |-> {}]
d(s, pr, o) == <<s, pr, o, DefaultGraph>>
Store == Source("rdfjs", <<d(a, p, b), d(b, p, c), d(a, q, one), <<a, p, c, g>>, d(n, p, a)>>)
Indexed == [Store EXCEPT !.indexed = {"nodes", "distinctterms"}]
declared == NamedNode("declared")
Fragments == [Source("qpf", <<<<b, q, uno, declared>>, <<b, p, a, declared>>, <<n, q, b, declared>>, <<c, p, b, g>>>>)
                EXCEPT !.restricted = TRUE, !.defaultGraph = declared]
Endpoint == [Source("sparql", <<d(a, q, b), d(c, p, a), d(n, p, one), <<b, p, c, g>>>>) EXCEPT !.counts = TRUE]

t(s, pr, o) == createPattern(s, pr, o, DefaultGraph)
e(term) == createTermExpression(term)
op2(operator, l, r) == createOperatorExpression(operator, <<l, r>>)
select(vars_, o) == createProject(o, vars_)
bgp(ps) == createBgp(ps)

Service == Source("rdfjs", <<d(a, q, b), d(b, q, one)>>)
named(name, args) == createNamedExpression(name, args)
service(o) == createService(o, NamedNode("service"))
FileA == Source("file", <<d(a, p, b), d(b, p, c)>>)
FileB == Source("file", <<d(c, p, a), d(b, q, one)>>)
Extended == [Endpoint EXCEPT !.extensionFunctions = {"known"}]

Ask(sources, names, o) ==
    [operation |-> o, querySources |-> names, sources |-> sources, options |-> {}, extensionFunctions |-> {}]
All == [store |-> Store, indexed |-> Indexed, fragments |-> Fragments, endpoint |-> Endpoint, service |-> Service,
        fileA |-> FileA, fileB |-> FileB, extended |-> Extended]
Names == <<"store", "fragments", "endpoint">>
Q(names, o) == Ask(All, names, o)

MCQueries == <<
  Q(<<"store">>, select(<<"x", "y">>, bgp(<<t(x, p, y)>>))),
  Q(Names, select(<<"x", "y", "z">>, bgp(<<t(x, p, y), t(y, p, z)>>))),
  Q(Names, select(<<"x", "y", "z">>, createLeftJoin(bgp(<<t(x, p, y)>>), bgp(<<t(y, q, z)>>), <<>>))),
  Q(Names, select(<<"x", "y">>, createMinus(bgp(<<t(x, p, y)>>), bgp(<<t(y, q, z)>>), DefaultGraph))),
  Q(Names, select(<<"x", "y", "w">>, bgp(<<t(x, p, y), t(y, p, z), t(x, q, w)>>))),
  Q(Names, select(<<"x", "y">>, createFilter(bgp(<<t(x, p, y), t(y, q, z)>>), op2("=", e(z), e(one))))),
  Q(Names, select(<<"x", "y">>, createFilter(bgp(<<t(x, p, y), t(x, q, z)>>),
      op2("&&", op2("=", e(y), e(c)), createExistenceExpression(TRUE, bgp(<<t(y, p, z)>>)))))),
  Q(Names, select(<<"x", "y", "z">>, createExtend(bgp(<<t(x, p, y)>>), "z", op2("=", e(x), e(a))))),
  Q(Names, createSingle("distinct", select(<<"x">>, bgp(<<t(x, p, y)>>)))),
  Q(<<"indexed">>, createSingle("distinct", select(<<"x">>, bgp(<<t(x, y, z)>>)))),
  Q(Names, createSingle("ask", bgp(<<t(x, p, y), t(y, q, z)>>))),
  Q(Names, createConstruct(bgp(<<t(x, p, y)>>), <<t(y, q, x), t(n, q, y)>>)),
  Q(Names, createDescribe(bgp(<<t(x, q, b)>>), <<x, c>>)),
  Q(Names, select(<<"x", "y">>, createUnion(<<bgp(<<t(x, p, y)>>), bgp(<<t(x, q, z)>>)>>, TRUE))),
  Q(Names, select(<<"x", "y">>, createJoin(<<bgp(<<t(x, p, y)>>), createValues(<<"x", "y">>,
      <<("x" :> a @@ "y" :> b), ("y" :> a)>>)>>, TRUE))),
  Q(Names, createPath(x, createSingle("OneOrMorePath", createLink(p)), y, DefaultGraph)),
  Q(<<"store", "fragments">>, createPath(x, createSingle("ZeroOrMorePath", createLink(p)), y, DefaultGraph)),
  Q(Names, createPath(a, createMulti("seq", <<createLink(p), createSingle("inv", createLink(p))>>, TRUE), y, DefaultGraph)),
  Q(Names, createPath(a, createSingle("ZeroOrOnePath", createMulti("alt", <<createLink(p), createNps(<<p>>)>>, TRUE)), y, DefaultGraph)),
  \* graphs and datasets
  Q(Names, select(<<"x", "y", "w">>, bgp(<<createPattern(x, p, y, w)>>))),
  Q(Names, select(<<"x", "y", "w">>, createJoin(<<bgp(<<createPattern(x, p, y, w)>>), bgp(<<t(y, q, z)>>)>>, TRUE))),
  Q(Names, createFrom(select(<<"x", "y", "z">>, bgp(<<t(x, p, y), t(y, p, z)>>)), <<g>>, <<>>)),
  Q(Names, createFrom(select(<<"x", "y">>, createJoin(<<bgp(<<t(x, p, y)>>), bgp(<<createPattern(y, p, z, g)>>)>>, TRUE)), <<g>>, <<g>>)),
  \* groups and modifiers of solutions
  Q(Names, createGroup(bgp(<<t(x, p, y)>>), <<"x">>, <<createCount("z")>>)),
  Q(Names, select(<<"x", "z">>, createExtend(createGroup(bgp(<<t(x, p, y), t(y, p, w)>>), <<"x">>, <<createCount("w")>>), "z", e(Variable("w"))))),
  Q(Names, createSlice(select(<<"x", "y">>, bgp(<<t(x, p, y)>>)), 1, 2)),
  Q(Names, select(<<"x", "y">>, createOrderBy(bgp(<<t(x, q, y)>>), <<e(y), createOperatorExpression("desc", <<e(x)>>)>>))),
  Q(Names, createSingle("reduced", select(<<"x">>, bgp(<<t(x, p, y)>>)))),
  \* values that may be undefined
  Q(Names, select(<<"x", "y", "z">>, createJoin(<<createLeftJoin(bgp(<<t(x, p, y)>>), bgp(<<t(y, q, z)>>), <<>>), bgp(<<t(w, q, z)>>)>>, TRUE))),
  Q(Names, select(<<"x", "y", "z">>, createLeftJoin(bgp(<<t(x, p, y)>>), bgp(<<t(y, q, z)>>), <<op2("=", e(x), e(a))>>))),
  Q(Names, select(<<"x", "y", "z">>, createLeftJoin(bgp(<<t(x, p, y)>>), bgp(<<t(y, q, z)>>), <<op2("=", e(z), e(one))>>))),
  Q(<<"store">>, select(<<"x", "y", "z">>, createLeftJoin(bgp(<<t(x, p, y)>>), bgp(<<t(y, c, z)>>), <<>>))),
  Q(<<"store", "fragments">>, createJoin(<<bgp(<<t(x, p, y)>>), createLeftJoin(bgp(<<t(x, p, w)>>), bgp(<<t(w, c, z)>>), <<>>)>>, TRUE)),
  Q(Names, select(<<"x", "z">>, createJoin(<<createUnion(<<bgp(<<t(x, p, y)>>), bgp(<<t(x, q, z)>>)>>, TRUE),
      createUnion(<<bgp(<<t(y, q, z)>>), bgp(<<t(x, p, w)>>)>>, TRUE)>>, TRUE))),
  \* expressions
  Q(Names, select(<<"x", "y">>, createFilter(bgp(<<t(x, p, y)>>), createExistenceExpression(FALSE, bgp(<<t(y, q, z)>>))))),
  Q(Names, select(<<"x", "y">>, createFilter(bgp(<<t(x, p, y)>>), op2("||", op2("=", e(x), e(z)), op2("=", e(y), e(b)))))),
  Q(Names, select(<<"x", "y">>, createFilter(createFilter(bgp(<<t(x, p, y)>>), op2("=", e(y), e(a))), op2("=", e(x), e(c))))),
  \* services, files and functions
  Q(<<"store">>, select(<<"x", "y", "z">>, createJoin(<<bgp(<<t(x, p, y)>>), service(bgp(<<t(y, q, z)>>))>>, TRUE))),
  Q(<<"fileA", "store", "fileB">>, select(<<"x", "y", "z">>, bgp(<<t(x, p, y), t(y, p, z)>>))),
  [Q(<<"store", "extended">>, select(<<"x", "y">>, createFilter(bgp(<<t(x, p, y)>>), named("unknown", <<e(x)>>))))
     EXCEPT !.extensionFunctions = {"unknown"}],
  [Q(<<"extended">>, select(<<"x", "y">>, createFilter(bgp(<<t(x, q, y)>>), named("known", <<e(x)>>)))) EXCEPT !.extensionFunctions = {"unknown"}],
  [Q(<<"extended">>, select(<<"x", "y">>, createFilter(bgp(<<t(x, q, y)>>), named("unknown", <<e(x)>>))))
     EXCEPT !.extensionFunctions = {"unknown"}],
  [Q(Names, createConstruct(bgp(<<t(x, p, y)>>), <<t(a, q, y)>>)) EXCEPT !.options = {"distinctConstruct"}]
 >>
MCOrders ==
    {<<"describe", "constructDistinct", "identify", "groupFiles", "skolemize", "assign", "joinBgp", "bgpToJoin",
       "joinConnected", "prune", "leftjoin", "filter", "distinctTerms", "groupSources">>,
     <<"leftjoin", "describe", "identify", "groupFiles", "skolemize", "assign", "distinctTerms", "joinBgp",
       "bgpToJoin", "joinConnected", "prune", "filter", "groupSources", "constructDistinct">>}
MCPreferences == {[inner |-> InnerActors[i], minus |-> ActorsFor.minus[1 + (i % 2)], optional |-> ActorsFor.optional[1 + (i % 4)]]
                    : i \in DOMAIN InnerActors}
=============================================================================
