--------------------------- MODULE MCLiteralPools ---------------------------
(***************************************************************************)
(* Eleven programs printed with the limits of the source.  They cross each *)
(* limit and stop just below it, alone and together; the loads are where a *)
(* pool is furthest away and on both sides of a pool.  Two programs come   *)
(* to more than ten pools, where the numbers have two digits.              *)
(***************************************************************************)
EXTENDS LiteralPools

a == <<"a", << >>>>
a1 == <<"a", <<1>>>>
b == <<"b", << >>>>

\* A block of m instructions that loads w at the places P.
B(m, P, w) == [size |-> m, loads |-> [k \in P |-> w]]
Plain(m) == B(m, {}, 0)
F(blocks) == [frame |-> FALSE, vpushes |-> 0, blocks |-> blocks]
Framed(blocks) == [frame |-> TRUE, vpushes |-> 2, blocks |-> blocks]
U(globals, functions) == [globals |-> globals, functions |-> functions]
Times(m, x) == [k \in 1 .. m |-> x]

Edges == {1, 499, 500, 501}

MCUnits == {
  U(<< >>, << >>),
  U(<<a>>, <<Framed(<<B(1, {1}, 1)>>), F(<<Plain(160)>>), F(<<Plain(160), B(1, {1}, 1)>>)>>),
  U(<<a, b>>, <<F(<<B(500, Edges \ {501}, 2), Plain(2)>>), Framed(<<B(1, {1}, 1)>>)>>),
  U(<<a, b>>, <<Framed(<<B(1100, Edges \cup {1000, 1001}, 1)>>), F(<<B(501, Edges, 2)>>)>>),
  \* 600 of the unit, 160 of the function, then a block of 200, and of 499.
  U(<<a, b>>, <<Framed(<<B(75, {1}, 0), B(75, {1, 75}, 1)>>)>>
                \o Times(3, F(<<Plain(150)>>)) \o <<F(<<Plain(80), Plain(80), B(200, {1, 200}, 2)>>)>>),
  U(<<a>>, <<F(<<B(150, {1}, 1)>>)>> \o Times(3, Framed(<<Plain(150)>>))
             \o <<F(<<Plain(160), B(499, {499}, 1), Plain(3)>>)>>),
  \* The pools of a function and of the unit on top of each other.
  U(<<a>>, Times(4, F(<<Plain(100), B(60, {1}, 1)>>)) \o <<Framed(<<B(2, {2}, 0)>>)>>),
  U(<<a>>, Times(2, F(<<B(150, {1}, 1), Plain(11), Plain(161), B(30, {30}, 1)>>))),
  \* A block that its own pools alone must serve.
  U(<<a>>, <<F(<<B(2300, {1, 501, 1001}, 1)>>)>>),
  U(<<a, a1>>, <<F(Times(12, B(161, {1}, 2)))>>),
  U(<<a, b>>, <<F(Times(12, B(161, {161}, 2)))>>)}
=============================================================================
