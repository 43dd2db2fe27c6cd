--------------------------- MODULE MCArrayAccess ---------------------------
(***************************************************************************)
(* Globals g[2][3] and n[2], locals l[2][2], k[2][1][2] and m[2], the      *)
(* parameters p[][3], called with g, and q[], called with its second row.  *)
(***************************************************************************)
EXTENDS ArrayAccess

MCArrays == {"g", "n", "l", "k", "m", "p", "q"}
MCDims == [g |-> <<2, 3>>, n |-> <<2>>, l |-> <<2, 2>>, k |-> <<2, 1, 2>>, m |-> <<2>>,
           p |-> <<0, 3>>, q |-> <<0>>]
MCGlobalAt == [g |-> 0, n |-> 6]
MCEntry == <<"k", "l", "m", "q", "p">>
MCRefers == [p |-> [array |-> "g", place |-> 0], q |-> [array |-> "g", place |-> 3]]

Zero == Num(0)  One == Num(1)
Assign(to, of) == [st |-> "assign", to |-> to, of |-> of]
Argue(item) == [st |-> "argument", of |-> item]
Declare(a, init) == [st |-> "declare", name |-> a, init |-> init]

\* Subscripts, array items among them.
Subs == {Zero, One, Item("m", <<One>>), Item("n", <<Item("m", <<Zero>>)>>), Item("q", <<Zero>>)}

\* The second subscript of a parameter is no array item: see README.md.
Items ==
  {Item(a, <<i, j>>) : a \in {"g", "l"}, i, j \in Subs}
  \cup {Item("p", <<i, j>>) : i \in Subs, j \in {Zero, One, Num(2)}}
  \cup {Item(a, <<i>>) : a \in {"q", "m", "n"}, i \in Subs}
  \cup {Item("k", <<i, Zero, j>>) : i, j \in Subs}

\* Parts of arrays, as arguments.
Wholes == {Item(a, << >>) : a \in MCArrays} \cup {Item(a, <<i>>) : a \in {"g", "l", "k", "p"}, i \in Subs}

Given == <<Declare("m", <<One, Null>>), Declare("l", <<Null, One, Null, Null>>), Declare("k", << >>)>>

Targets == {Item("m", <<One>>), Item("n", <<One>>), Item("q", <<Zero>>), Item("p", <<One, Num(2)>>),
            Item("l", <<One, Item("m", <<Zero>>)>>)}

Uses ==
  {Given \o <<Assign(t, One), Assign(u, e)>> : t \in Targets, u \in Targets, e \in Items}
  \cup {Given \o <<Assign(e, One), Assign(t, Item("m", <<One>>))>> : t \in Targets, e \in Items}
  \cup {Given \o <<Argue(w)>> : w \in Wholes}

\* Initialisers of l and k, also longer than the array: see Parser.tla.
Inits ==
  {<<Declare("m", <<Null, One>>), Declare(a, [x \in 1 .. n |-> IF x > 4 THEN Null ELSE f[x]]), Argue(Item(a, << >>))>> :
     a \in {"l", "k"}, n \in {4, 8}, f \in [1 .. 4 -> {Null, Num(2), Item("m", <<One>>)}]}

MCPrograms == Uses \cup Inits
=============================================================================
