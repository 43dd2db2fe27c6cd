----------------------------- MODULE SourceTree -----------------------------
(***************************************************************************)
(* What the source says: for a program given as a tree, the reductions in  *)
(* the order in which the grammar of src/src/parser.y makes bison perform  *)
(* them, each with what the language says about it.  Names are resolved to *)
(* the declaration whose scope they are in, and the elements of an array   *)
(* initialiser are put where the rules for braces put them; Parser.tla is  *)
(* compared with both.                                                     *)
(***************************************************************************)
EXTENDS SyntaxTree, Integers, Sequences, SequencesExt

Scalar(n, init) == [name |-> n, dims |-> << >>, init |-> init]
Array(n, dims, init) == [name |-> n, dims |-> dims, init |-> init]
Expr(e) == [st |-> "expr", of |-> e]
Declare(ds) == [st |-> "decl", of |-> ds]
Block(ss) == [st |-> "block", of |-> ss]
Function(f, params, ss) == [st |-> "func", name |-> f, params |-> params, of |-> ss]

Concat(ss) == FlattenSeq(ss)
Do(what) == [do |-> what]

RECURSIVE Expression(_, _)
Expression(e, scope) ==
  CASE e.op = "num" -> <<[do |-> "integer", of |-> e]>>
    [] e.op = "var" -> <<[do |-> "lval", of |-> e, ref |-> scope[e.name]]>>
    [] e.op = "sum" -> Expression(e.l, scope) \o Expression(e.r, scope) \o <<Do("sum")>>
    [] e.op = "call" ->
         <<Do("open call")>>
         \o Concat([k \in DOMAIN e.args |-> Append(Expression(e.args[k], scope), Do("param"))])
         \o <<[do |-> IF e.args = << >> THEN "empty call" ELSE "call",
               name |-> e.name, ref |-> scope[e.name]]>>
    [] e.op = "item" ->
         Concat([k \in DOMAIN e.idx |->
                   Append(Expression(e.idx[k], scope),
                          IF k = 1 THEN [do |-> "subscript", name |-> e.name]
                          ELSE Do("next subscript"))])
         \o <<[do |-> "item", ref |-> scope[e.name]]>>

RECURSIVE Initialiser(_, _)
Initialiser(t, scope) ==
  IF t.op # "braces" THEN Append(Expression(t, scope), Do("init exp"))
  ELSE IF t.items = << >> THEN <<Do("open empty"), Do("close empty")>>
  ELSE <<Do("open")>>
       \o Concat([k \in DOMAIN t.items |-> Initialiser(t.items[k], scope)])
       \o <<Do("close")>>

\* The elements an initialiser in braces gives an array with these extents:
\* a nested brace fills the sub-array it begins.
RECURSIVE Elements(_, _)
Elements(t, dims) ==
  LET size == FoldLeft(LAMBDA a, b : a * b, 1, dims)
      given == Concat([k \in DOMAIN t.items |->
                 IF t.items[k].op = "braces" THEN Elements(t.items[k], Tail(dims))
                 ELSE <<t.items[k]>>])
  IN [p \in 1 .. size |-> IF p <= Len(given) THEN given[p] ELSE Null]

Declarator(d, id) ==
  [name |-> d.name, id |-> id,
   init |-> IF d.dims = << >> \/ d.init = << >> THEN d.init ELSE Elements(d.init[1], d.dims)]

\* The subscripts of a declared array; an array parameter leaves out the first.
Subscripts(d) ==
  Concat([k \in DOMAIN d.dims |->
    IF d.dims[k] = 0 THEN <<[do |-> "no subscript", name |-> d.name]>>
    ELSE <<[do |-> "integer", of |-> Num(d.dims[k])],
           IF k = 1 THEN [do |-> "subscript", name |-> d.name] ELSE Do("next subscript")>>])

InitialValue(d, scope) ==
  IF d.init = << >> THEN << >>
  ELSE IF d.dims = << >> THEN Expression(d.init[1], scope) ELSE Initialiser(d.init[1], scope)

\* A declaration of one name, and of a list of names.
DeclareOne(d, id, scope) ==
  Subscripts(d) \o InitialValue(d, scope)
  \o <<[do |-> IF d.dims = << >> THEN "declare id" ELSE "declare array",
        of |-> <<Declarator(d, id)>>, init |-> d.init # << >>]>>

InScope(scope, ds, n) ==
  [x \in DOMAIN scope |->
     LET ks == {k \in DOMAIN ds : ds[k].name = x} IN
     IF ks = {} THEN scope[x] ELSE n + (CHOOSE k \in ks : TRUE)]

DeclareMany(ds, n, scope) ==
  Concat([k \in DOMAIN ds |->
    Subscripts(ds[k]) \o InitialValue(ds[k], InScope(scope, SubSeq(ds, 1, k - 1), n))
    \o (IF ds[k].dims = << >>
        THEN <<[do |-> "declarator", name |-> ds[k].name, init |-> ds[k].init # << >>]>>
        ELSE << >>)])
  \o <<[do |-> "declare list", of |-> [k \in DOMAIN ds |-> Declarator(ds[k], n + k)]]>>

Parameters(ds) ==
  Concat([k \in DOMAIN ds |->
    IF ds[k].dims = << >> THEN <<[do |-> "param def", name |-> ds[k].name]>>
    ELSE Append(Subscripts(ds[k]), Do("array param def"))])

\* The reductions of a statement, the scope after it and the number of
\* declarations so far.
RECURSIVE Statement(_, _, _), Statements(_, _, _)
Statement(s, scope, n) ==
  CASE s.st = "expr" ->
         [steps |-> Append(Expression(s.of, scope), [do |-> "statement", of |-> s.of]),
          scope |-> scope, n |-> n]
    [] s.st = "decl" ->
         [steps |-> IF Len(s.of) = 1 THEN DeclareOne(s.of[1], n + 1, scope)
                    ELSE DeclareMany(s.of, n, scope),
          scope |-> InScope(scope, s.of, n), n |-> n + Len(s.of)]
    [] s.st = "block" ->
         LET inner == Statements(s.of, scope, n) IN
         [steps |-> <<Do("open block")>> \o inner.steps \o <<Do("close block")>>,
          scope |-> scope, n |-> inner.n]
    [] s.st = "func" ->
         LET known == [scope EXCEPT ![s.name] = n + 1]
             m == n + 1 + Len(s.params)
             body == Statement(Block(s.of), InScope(known, s.params, n + 1), m)
         IN [steps |-> Parameters(s.params)
                       \o <<[do |-> "open func", id |-> n + 1, name |-> s.name,
                             of |-> [k \in DOMAIN s.params |-> Declarator(s.params[k], n + 1 + k)]]>>
                       \o body.steps \o <<Do("close func")>>,
             scope |-> known, n |-> body.n]

Statements(ss, scope, n) ==
  IF ss = << >> THEN [steps |-> << >>, scope |-> scope, n |-> n]
  ELSE LET first == Statement(Head(ss), scope, n)
           rest == Statements(Tail(ss), first.scope, first.n)
       IN [rest EXCEPT !.steps = first.steps \o @]

Reductions(program, names) == Statements(program, [x \in names |-> 0], 0).steps
=============================================================================
