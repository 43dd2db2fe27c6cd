------------------------------ MODULE MCParser ------------------------------
(***************************************************************************)
(* The programs the parser is checked on, in three families.               *)
(***************************************************************************)
EXTENDS Parser, SourceTree

CONSTANT NullaryAnywhere  \* also calls like f(1, g())?

A == 1  B == 2  X == 3  Y == 4  Z == 5  F == 6  G == 7
MCNames == {A, B, X, Y, Z, F, G}

IntFunction(f, params) == Function(f, params, <<Expr(Num(0))>>)

-----------------------------------------------------------------------------
(* Expressions over int x, a[2][2], b[2], f() with two parameters, g().     *)
Built(es) ==
  es \cup {Item(B, <<e>>) : e \in es} \cup {Call(F, <<e>>) : e \in es}
     \cup {Item(A, <<e, d>>) : e, d \in es} \cup {Call(F, <<e, d>>) : e, d \in es}
     \cup {Sum(e, d) : e, d \in es}

Simple == {Num(1), Var(X), Call(G, << >>)}

RECURSIVE Nullary(_), NetNames(_), Mentions(_, _), Handled(_)
Parts(e) ==
  CASE e.op = "call" -> e.args [] e.op = "item" -> e.idx [] e.op = "sum" -> <<e.l, e.r>>
    [] OTHER -> << >>

\* Is there a call without arguments in e?
Nullary(e) == e = Call(G, << >>) \/ \E d \in Range(Parts(e)) : Nullary(d)

\* How many more names than before e are in curr_array after it?
NetNames(e) ==
  LET below == FoldLeft(LAMBDA k, d : k + NetNames(d), 0, Parts(e))
      dropped == IF e.op = "item" THEN {k \in DOMAIN e.idx : k > 1 /\ e.idx[k].arr} ELSE {}
  IN below + (IF e.op = "item" THEN 1 ELSE 0) - Cardinality(dropped)

Mentions(e, a) == (e.op = "item" /\ e.name = a) \/ \E d \in Range(Parts(e)) : Mentions(d, a)

\* The expressions the parser's lists are good for: see README.md.
Handled(e) ==
  /\ \A d \in Range(Parts(e)) : Handled(d)
  /\ e.op = "call" /\ ~NullaryAnywhere => \A k \in DOMAIN e.args : k > 1 => ~Nullary(e.args[k])
  /\ e.op = "item" => \A k \in DOMAIN e.idx : k > 1 =>
       /\ ~Mentions(e.idx[k], e.name)
       /\ NetNames(e.idx[k]) = IF e.idx[k].arr THEN 1 ELSE 0

Expressions == {e \in Built(Built(Simple)) : Handled(e)}

WithExpression(e) ==
  <<Declare(<<Scalar(X, <<Num(1)>>)>>), IntFunction(G, << >>),
    Function(F, <<Array(A, <<0, 2>>, << >>), Array(B, <<0>>, << >>)>>, <<Expr(e)>>)>>
-----------------------------------------------------------------------------
(* Array initialisers in which a brace stands for a whole sub-array.  Every *)
(* element is the number of its place.                                     *)
Scalars(base, n) == [k \in 1 .. n |-> Num(base + k)]

RECURSIVE Lists(_, _)
Initialisers(shape, base) == {Braces(items) : items \in Lists(shape, base)}
Lists(shape, base) ==
  IF shape[1] = 0 THEN {<< >>}
  ELSE LET part == FoldLeft(LAMBDA a, b : a * b, 1, Tail(shape))
           whole == {Scalars(base, part)}
                    \cup (IF Len(shape) = 1 THEN {}
                          ELSE {<<t>> : t \in Initialisers(Tail(shape), base)})
           after == Lists([shape EXCEPT ![1] = @ - 1], base + part)
       IN {<< >>} \cup {w \o l : w \in whole, l \in after}
          \cup {Scalars(base, n) : n \in 1 .. part - 1}

Shapes == {<<2>>, <<3>>, <<2, 2>>, <<3, 2>>, <<2, 3>>, <<2, 1, 2>>, <<2, 2, 2>>}

WithInitialiser ==
  {<<Declare(<<Array(A, <<2, 2, 2>>, <<t>>)>>)>> : t \in Initialisers(<<2, 2, 2>>, 0)}
  \cup UNION {{<<Declare(<<Array(A, <<2>>, <<Braces(Scalars(0, 1))>>), Scalar(X, <<Num(3)>>),
                           Array(B, shape, <<t>>)>>),
                 Declare(<<Array(Y, <<2>>, << >>)>>)>> : t \in Initialisers(shape, 0)} :
              shape \in Shapes \ {<<2, 2, 2>>}}
-----------------------------------------------------------------------------
(* Declarations and uses of the same names in nested blocks.               *)
One(n, init) == Declare(<<Scalar(n, init)>>)

Plain ==
  {One(X, << >>), One(Y, <<Num(2)>>), One(Z, <<Sum(Var(Y), Var(X))>>),
   Declare(<<Array(X, <<2>>, <<Braces(Scalars(0, 1))>>)>>),
   Declare(<<Array(A, <<2>>, <<Braces(<<Var(X), Var(X)>>)>>), Scalar(B, <<Num(1)>>),
             Scalar(Z, <<Var(B)>>)>>),
   Expr(Call(F, <<Var(X), Var(Y)>>)), Expr(Var(Z))}

Nested == Plain \cup {Block(<<s>>) : s \in Plain} \cup {Block(<<s, t>>) : s, t \in Plain}

ParameterLists ==
  {<<Scalar(X, << >>), Scalar(Y, << >>)>>, <<Array(X, <<0, 2>>, << >>), Array(Y, <<0>>, << >>)>>}

\* Does every name stand for something, and does a list only declare new names?
RECURSIVE Known(_, _)
UsesKnown(e, names) ==
  LET RECURSIVE In(_)
      In(d) == (d.op \in {"var", "call", "item"} => d.name \in names)
               /\ \A p \in Range(Parts(d)) : In(p)
  IN In(e)
DeclaredBy(s) ==
  CASE s.st = "decl" -> {d.name : d \in Range(s.of)} [] s.st = "func" -> {s.name} [] OTHER -> {}
Known(ss, names) ==
  ss # << >> =>
    /\ CASE Head(ss).st = "expr" -> UsesKnown(Head(ss).of, names)
         [] Head(ss).st = "block" -> Known(Head(ss).of, names)
         [] Head(ss).st = "decl" ->
              /\ Len(Head(ss).of) > 1 => DeclaredBy(Head(ss)) \cap names = {}
              /\ \A k \in DOMAIN Head(ss).of : LET d == Head(ss).of[k] IN
                   d.init = << >> \/ \A e \in IF d.dims = << >> THEN {d.init[1]}
                                              ELSE Range(d.init[1].items) :
                     UsesKnown(e, (names \cup {Head(ss).of[j].name : j \in 1 .. k - 1}))
    /\ Known(Tail(ss), names \cup DeclaredBy(Head(ss)))

\* No scope declares a name twice.
Distinct(ss) ==
  /\ \A i, j \in DOMAIN ss : i # j => DeclaredBy(ss[i]) \cap DeclaredBy(ss[j]) = {}
  /\ \A s \in Range(ss) : s.st = "block" => \A i, j \in DOMAIN s.of :
       i # j => DeclaredBy(s.of[i]) \cap DeclaredBy(s.of[j]) = {}

WithScopes ==
  {<<Function(F, ps, ss)>> : ps \in ParameterLists,
     ss \in {ss \in {<<s, t>> : s, t \in Nested} \cup {<<s, t, Expr(Var(X))>> : s, t \in Plain} :
               Known(ss, {F, X, Y}) /\ Distinct(ss)}}
-----------------------------------------------------------------------------
Programs ==
  IF NullaryAnywhere THEN {WithExpression(e) : e \in Expressions}
  ELSE {WithExpression(e) : e \in Expressions} \cup WithInitialiser \cup WithScopes

MCInputs == {Reductions(p, MCNames) : p \in Programs}
=============================================================================
