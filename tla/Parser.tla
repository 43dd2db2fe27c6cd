------------------------------- MODULE Parser -------------------------------
(***************************************************************************)
(* The semantic actions of the parser (src/src/parser.y).  The grammar     *)
(* nests, but the actions keep what they collect in global variables: the  *)
(* arguments of the calls being parsed, the subscripts of the array items, *)
(* the declarators of a declaration, the place an initialiser goes to.     *)
(* Each action of this module is one production; the parser performs them  *)
(* in the order in which bison reduces the source (SourceTree.tla).        *)
(***************************************************************************)
EXTENDS SyntaxTree, Integers, Sequences, SequencesExt, FiniteSetsExt

\* Definitions marked "For P" are wrong variants of the definition below
\* them, each a slip the property P exists to catch.  Nothing uses them.

CONSTANTS
  Inputs,       \* sequences of reductions, each a translation unit
  Names,        \* identifiers, as numbers: the maps are ordered by name
  MaxCallLevel  \* bound of the map globle_tmp_paramcalls

ASSUME NamesAssumption == Names \subseteq Nat

VARIABLES
  input,        \* the reductions to come
  vals,         \* the semantic values on bison's stack
  curr_array, arraylist, idlist, globle_tmp_paramcalls, call_level,
  l_br, dims, dc_record, init_, init_array, paramsymbols,
  identifiers,  \* the symbol tables, from the global one to the current one
  made,         \* the number of symbol entries created
  out           \* what went into the syntax tree, in order

globals == <<curr_array, arraylist, idlist, globle_tmp_paramcalls, call_level,
             l_br, dims, dc_record, init_, init_array, paramsymbols>>
vars == <<input, vals, globals, identifiers, made, out>>

\* One turn of the parser: the next reduction is of kind do.
Reduce(do) == input # << >> /\ Head(input).do = do /\ input' = Tail(input)
It == Head(input)

Top == vals[Len(vals)]
Pop(n) == SubSeq(vals, 1, Len(vals) - n)
BackOf(s) == s[Len(s)]
-----------------------------------------------------------------------------
(***************************************************************************)
(* Symbol tables (src/src/SymbolTable.cpp).                                *)
(***************************************************************************)
NoEntry == [no |-> 0, scope |-> 0]
EmptyTable == [n \in Names |-> NoEntry]
Level == Len(identifiers) - 1

\* For NamesResolved: only the current table and the global one are searched.
LookupNear(n) ==
  IF identifiers[Len(identifiers)][n] # NoEntry
  THEN identifiers[Len(identifiers)][n] ELSE identifiers[1][n]

\* SymbolTable::lookup: the innermost entry of the name.
Lookup(n) ==
  LET found == {k \in 1 .. Len(identifiers) : identifiers[k][n] # NoEntry} IN
  IF found = {} THEN NoEntry
  ELSE identifiers[CHOOSE k \in found : \A j \in found : j <= k][n]

\* Is the array name still to be installed in the current scope?
Fresh(n) == Lookup(n) = NoEntry \/ Lookup(n).scope # Level

Entry(no) == [no |-> no, scope |-> Level]
Installed(table, n, e) == [table EXCEPT ![Len(table)][n] = e]

Init ==
  /\ input \in Inputs
  /\ vals = << >>
  /\ curr_array = << >>
  /\ arraylist = [n \in Names |-> << >>]
  /\ idlist = [n \in Names |-> << >>]
  /\ globle_tmp_paramcalls = [k \in 0 .. MaxCallLevel |-> << >>]
  /\ call_level = 0
  /\ l_br = -1
  /\ dims = << >> /\ dc_record = << >>
  /\ init_ = [n \in Names |-> << >>]
  /\ init_array = 0
  /\ paramsymbols = << >>
  /\ identifiers = <<EmptyTable>>
  /\ made = 0
  /\ out = << >>
-----------------------------------------------------------------------------
(***************************************************************************)
(* Expressions.                                                            *)
(***************************************************************************)
\* INTEGER: the constant is the whole node.
Integer ==
  /\ Reduce("integer")
  /\ vals' = Append(vals, It.of)
  /\ UNCHANGED <<globals, identifiers, made, out>>

\* AddExp ADD MulExp
AddExp ==
  /\ Reduce("sum")
  /\ vals' = Append(Pop(2), Sum(vals[Len(vals) - 1], Top))
  /\ UNCHANGED <<globals, identifiers, made, out>>

\* ID LPAREN, the action before the parameters.
OpenCall ==
  /\ Reduce("open call")
  /\ call_level < MaxCallLevel
  /\ call_level' = call_level + 1
  /\ UNCHANGED <<vals, curr_array, arraylist, idlist, globle_tmp_paramcalls, l_br, dims,
                 dc_record, init_, init_array, paramsymbols, identifiers, made, out>>

\* Params
Params ==
  /\ Reduce("param")
  /\ globle_tmp_paramcalls' =
       [globle_tmp_paramcalls EXCEPT ![call_level] = Append(@, Top)]
  /\ vals' = Pop(1)
  /\ UNCHANGED <<curr_array, arraylist, idlist, call_level, l_br, dims, dc_record, init_,
                 init_array, paramsymbols, identifiers, made, out>>

\* The arguments are moved into the node, not copied.
Swapped(calls) == [calls EXCEPT ![call_level] = << >>]

Use(no, ref) == [is |-> "use", entry |-> no, decl |-> ref]

\* FuncCall with and without parameters.  The second does not go back to
\* the level of the call around it.
FuncCall ==
  /\ \/ Reduce("call") /\ call_level' = call_level - 1
     \/ Reduce("empty call") /\ UNCHANGED call_level
  /\ vals' = Append(vals, Call(It.name, globle_tmp_paramcalls[call_level]))
  /\ globle_tmp_paramcalls' = Swapped(globle_tmp_paramcalls)
  /\ out' = Append(out, Use(Lookup(It.name).no, It.ref))
  /\ UNCHANGED <<curr_array, arraylist, idlist, l_br, dims, dc_record, init_, init_array,
                 paramsymbols, identifiers, made>>

\* ARRAY: ID LBRACKET Exp RBRACKET, and ID LBRACKET RBRACKET of a parameter.
FirstSubscript ==
  /\ \/ Reduce("subscript") /\ vals' = Pop(1)
     \/ Reduce("no subscript") /\ UNCHANGED vals
  /\ curr_array' = Append(curr_array, It.name)
  /\ arraylist' = [arraylist EXCEPT
                     ![It.name] = Append(@, IF It.do = "subscript" THEN Top ELSE Null)]
  /\ UNCHANGED <<idlist, globle_tmp_paramcalls, call_level, l_br, dims, dc_record, init_,
                 init_array, paramsymbols, identifiers, made, out>>

\* For TreesBuilt: the array the subscript itself named stays in front.
NameKept(exp) == curr_array

NameDropped(exp) == IF exp.arr THEN Front(curr_array) ELSE curr_array

\* ARRAY: ARRAY LBRACKET Exp RBRACKET
NextSubscript ==
  /\ Reduce("next subscript")
  /\ curr_array' = NameDropped(Top)
  /\ arraylist' = [arraylist EXCEPT ![BackOf(curr_array')] = Append(@, Top)]
  /\ vals' = Pop(1)
  /\ UNCHANGED <<idlist, globle_tmp_paramcalls, call_level, l_br, dims, dc_record, init_,
                 init_array, paramsymbols, identifiers, made, out>>

\* LVal: ARRAY
ArrayItem ==
  /\ Reduce("item")
  /\ LET a == BackOf(curr_array) IN
       /\ vals' = Append(vals, Item(a, arraylist[a]))
       /\ arraylist' = [arraylist EXCEPT ![a] = << >>]
       /\ out' = Append(out, Use(Lookup(a).no, It.ref))
  /\ UNCHANGED <<curr_array, idlist, globle_tmp_paramcalls, call_level, l_br, dims,
                 dc_record, init_, init_array, paramsymbols, identifiers, made>>

\* LVal: ID.  A name that has no entry yet is one of the declaration being
\* parsed; the entry made here is the one its declarator will find.
LVal ==
  /\ Reduce("lval")
  /\ vals' = Append(vals, It.of)
  /\ IF Lookup(It.of.name) = NoEntry
     THEN /\ made' = made + 1
          /\ identifiers' = Installed(identifiers, It.of.name, Entry(made'))
          /\ out' = Append(out, Use(made', It.ref))
     ELSE /\ out' = Append(out, Use(Lookup(It.of.name).no, It.ref))
          /\ UNCHANGED <<identifiers, made>>
  /\ UNCHANGED globals

\* ExprStmt
ExprStmt ==
  /\ Reduce("statement")
  /\ out' = Append(out, [is |-> "tree", got |-> Top, want |-> It.of])
  /\ vals' = Pop(1)
  /\ UNCHANGED <<globals, identifiers, made>>
-----------------------------------------------------------------------------
(***************************************************************************)
(* Initialisers in braces: dc_record counts through the array.             *)
(***************************************************************************)
Product(s) == FoldLeft(LAMBDA a, b : a * b, 1, s)
Position(dc) == FoldLeft(LAMBDA p, i : p * dims[i] + dc[i], 0, [i \in 1 .. Len(dc) |-> i])

\* One step of the counter, with carries; after the last element it is 0.
Carry(dc) ==
  LET free == {i \in 1 .. Len(dc) : dc[i] + 1 # dims[i]} IN
  IF free = {} THEN [i \in 1 .. Len(dc) |-> 0]
  ELSE LET k == CHOOSE i \in free : \A j \in free : j <= i IN
       [i \in 1 .. Len(dc) |-> IF i < k THEN dc[i] ELSE IF i = k THEN dc[i] + 1 ELSE 0]

\* BRACEUnit: Exp.  A place outside the vector is not one of the array.
InitExp ==
  /\ Reduce("init exp")
  /\ LET p == Position(dc_record) + 1 IN
       init_' = [init_ EXCEPT ![init_array] =
                   IF p \in 1 .. Len(@) THEN [@ EXCEPT ![p] = Top] ELSE @]
  /\ dc_record' = Carry(dc_record)
  /\ vals' = Pop(1)
  /\ UNCHANGED <<curr_array, arraylist, idlist, globle_tmp_paramcalls, call_level, l_br,
                 dims, init_array, paramsymbols, identifiers, made, out>>

(***************************************************************************)
(* The actions after LBRACE.  The outermost brace looks in arraylist for   *)
(* the array it initialises: the last one that is not installed.  Before   *)
(* an empty list ("{}") an outer array of the same name hides it.          *)
(***************************************************************************)
Candidates(empty) ==
  {n \in Names : arraylist[n] # << >>
                 /\ IF empty THEN Lookup(n) = NoEntry ELSE Fresh(n)}
Extents(n) == [i \in 1 .. Len(arraylist[n]) |-> Value(arraylist[n][i])]

OpenBrace ==
  /\ \/ Reduce("open")
     \/ Reduce("open empty")
  /\ IF l_br = -1
     THEN LET cs == Candidates(It.do = "open empty")
              total == Product([i \in 1 .. Cardinality(cs) |->
                                  Product(Extents(SetToSortSeq(cs, <)[i]))])
          IN IF cs = {}
             THEN /\ init_' = [init_ EXCEPT ![init_array] = <<Null>>]
                  /\ UNCHANGED <<dims, dc_record, init_array>>
             ELSE /\ init_array' = CHOOSE n \in cs : \A m \in cs : m <= n
                  /\ dims' = Extents(init_array')
                  /\ dc_record' = [i \in 1 .. Len(dims') |-> 0]
                  /\ init_' = [init_ EXCEPT ![init_array'] = [i \in 1 .. total |-> Null]]
     ELSE UNCHANGED <<dims, dc_record, init_, init_array>>
  /\ l_br' = l_br + 1
  /\ UNCHANGED <<vals, curr_array, arraylist, idlist, globle_tmp_paramcalls, call_level,
                 paramsymbols, identifiers, made, out>>

\* For InitialisersKept: a list that filled its sub-array counts it again.
AlwaysNext(dc, b) ==
  [i \in 1 .. Len(dc) |-> IF i = b + 1 THEN dc[i] + 1 ELSE IF i > b + 1 THEN 0 ELSE dc[i]]

\* After a list of elements the counter moves on to the next sub-array,
\* unless the list was full and the carry has done so.
NextSubarray(dc, b) ==
  LET begun == b >= 0 /\ \E i \in b + 2 .. Len(dc) : dc[i] # 0 IN
  [i \in 1 .. Len(dc) |->
     IF i = b + 1 THEN dc[i] + (IF begun THEN 1 ELSE 0) ELSE IF i > b + 1 THEN 0 ELSE dc[i]]

\* After an empty list it always does.
SkipSubarray(dc, b) ==
  [i \in 1 .. Len(dc) |-> IF i = b + 1 THEN dc[i] + 1 ELSE IF i > b + 1 THEN 0 ELSE dc[i]]

\* The actions of RBRACE.
CloseBrace ==
  /\ l_br' = l_br - 1
  /\ \/ /\ Reduce("close")
        /\ dc_record' = IF l_br' = -1 THEN << >> ELSE NextSubarray(dc_record, l_br')
     \/ /\ Reduce("close empty")
        /\ dc_record' = IF l_br' = -1 THEN << >> ELSE SkipSubarray(dc_record, l_br')
  /\ UNCHANGED <<vals, curr_array, arraylist, idlist, globle_tmp_paramcalls, call_level,
                 dims, init_, init_array, paramsymbols, identifiers, made, out>>
-----------------------------------------------------------------------------
(***************************************************************************)
(* Declarations.  The reduction carries the declarators of the source:     *)
(* out records which entry and which initialiser each of them was given.   *)
(***************************************************************************)
Declared(n, no, init) ==
  LET d == CHOOSE d \in Range(It.of) : d.name = n IN
  [is |-> "decl", decl |-> d.id, entry |-> no, got |-> init, want |-> d.init]

\* A global scalar keeps the value of its initialiser instead of the node.
Stored(e) == IF Level = 0 /\ e # Null THEN Num(Value(e)) ELSE e

InAscendingOrder(S) == SetToSortSeq(S, <)

\* IDList: an ordinary declarator of a list, with or without initialiser.
IdDeclarator ==
  /\ Reduce("declarator")
  /\ idlist' = [idlist EXCEPT ![It.name] = <<IF It.init THEN Top ELSE Null>>]
  /\ vals' = IF It.init THEN Pop(1) ELSE vals
  /\ UNCHANGED <<curr_array, arraylist, globle_tmp_paramcalls, call_level, l_br, dims,
                 dc_record, init_, init_array, paramsymbols, identifiers, made, out>>

\* DeclStmt: Type ID SEMICOLON and Type ID ASSIGN Exp SEMICOLON
DeclareId ==
  /\ Reduce("declare id")
  /\ LET d == It.of[1] IN
       /\ made' = made + 1
       /\ identifiers' = Installed(identifiers, d.name, Entry(made'))
       /\ out' = Append(out, Declared(d.name, made', IF It.init THEN <<Stored(Top)>> ELSE << >>))
  /\ vals' = IF It.init THEN Pop(1) ELSE vals
  /\ UNCHANGED globals

(***************************************************************************)
(* The loops over idlist and arraylist, in the order of the names: the     *)
(* k-th of the new names gets the k-th new entry.                          *)
(***************************************************************************)
InstallAll(table, ns) ==
  [table EXCEPT ![Len(table)] =
     [n \in Names |-> IF n \in Range(ns)
                      THEN Entry(made + (CHOOSE k \in DOMAIN ns : ns[k] = n)) ELSE @[n]]]

\* For TypeOK: the initialisers of this declaration stay.
ListsKept ==
  /\ arraylist' = [n \in Names |-> << >>]
  /\ UNCHANGED init_

ListsCleared ==
  /\ arraylist' = [n \in Names |-> << >>]
  /\ init_' = [n \in Names |-> << >>]

\* DeclStmt: Type ARRAY SEMICOLON and Type ARRAY ASSIGN BRACEUnit SEMICOLON
DeclareArray ==
  /\ Reduce("declare array")
  /\ LET ns == InAscendingOrder({n \in Names : arraylist[n] # << >> /\ Fresh(n)}) IN
       /\ made' = made + Len(ns)
       /\ identifiers' = InstallAll(identifiers, ns)
       /\ out' = out \o [k \in DOMAIN ns |->
                           Declared(ns[k], made + k, IF It.init THEN init_[ns[k]] ELSE << >>)]
  /\ ListsCleared
  /\ dims' = Extents(BackOf(InAscendingOrder({n \in Names : arraylist[n] # << >>})))
  /\ IF It.init THEN dc_record' = << >> /\ l_br' = -1 ELSE UNCHANGED <<dc_record, l_br>>
  /\ UNCHANGED <<vals, curr_array, idlist, globle_tmp_paramcalls, call_level, init_array,
                 paramsymbols>>

\* DeclStmt: Type IDList SEMICOLON.  A name that has an entry anywhere
\* keeps it, and an array that has one is not installed at all.
DeclareList ==
  /\ Reduce("declare list")
  /\ LET ids == InAscendingOrder({n \in Names : idlist[n] # << >>})
         new == InAscendingOrder({n \in Range(ids) : Lookup(n) = NoEntry})
         arrays == InAscendingOrder({n \in Names : arraylist[n] # << >>
                                                   /\ n \notin Range(ids) /\ Lookup(n) = NoEntry})
         numbered == InstallAll(identifiers, new \o arrays)
         EntryOf(n) == IF Lookup(n) = NoEntry THEN numbered[Len(numbered)][n] ELSE Lookup(n)
     IN /\ made' = made + Len(new) + Len(arrays)
        /\ identifiers' = [numbered EXCEPT ![Len(numbered)] =
                             [n \in Names |-> IF n \in Range(ids) THEN EntryOf(n) ELSE @[n]]]
        /\ out' = out
             \o [k \in DOMAIN ids |->
                   Declared(ids[k], EntryOf(ids[k]).no, SelectSeq(<<Stored(Head(idlist[ids[k]]))>>, LAMBDA e : e # Null))]
             \o [k \in DOMAIN arrays |->
                   Declared(arrays[k], EntryOf(arrays[k]).no, init_[arrays[k]])]
  /\ idlist' = [n \in Names |-> << >>]
  /\ ListsCleared
  /\ dims' = LET as == {n \in Names : arraylist[n] # << >>}
             IN IF as = {} THEN dims ELSE Extents(BackOf(InAscendingOrder(as)))
  /\ UNCHANGED <<vals, curr_array, globle_tmp_paramcalls, call_level, l_br, dc_record,
                 init_array, paramsymbols>>
-----------------------------------------------------------------------------
(***************************************************************************)
(* Blocks and functions.                                                   *)
(***************************************************************************)
Left(tables) == Front(tables)

OpenBlock ==
  /\ Reduce("open block")
  /\ identifiers' = Append(identifiers, EmptyTable)
  /\ UNCHANGED <<vals, globals, made, out>>

CloseBlock ==
  /\ Reduce("close block")
  /\ identifiers' = Left(identifiers)
  /\ UNCHANGED <<vals, globals, made, out>>

\* ParamDefs: an array parameter takes its name and leaves arraylist.
ParamDef ==
  /\ \/ /\ Reduce("param def")
        /\ paramsymbols' = Append(paramsymbols, It.name)
        /\ UNCHANGED arraylist
     \/ /\ Reduce("array param def")
        /\ paramsymbols' = Append(paramsymbols, BackOf(curr_array))
        /\ arraylist' = [arraylist EXCEPT ![BackOf(curr_array)] = << >>]
  /\ UNCHANGED <<vals, curr_array, idlist, globle_tmp_paramcalls, call_level, l_br, dims,
                 dc_record, init_, init_array, identifiers, made, out>>

\* FuncDef, the action before the body: the function goes into the current
\* table, its parameters into a new one.
OpenFunc ==
  /\ Reduce("open func")
  /\ LET table == Append(Installed(identifiers, It.name, Entry(made + 1)), EmptyTable) IN
     identifiers' =
       [table EXCEPT ![Len(table)] =
          [n \in Names |->
             LET ks == {k \in DOMAIN paramsymbols : paramsymbols[k] = n} IN
             IF ks = {} THEN NoEntry
             ELSE [no |-> made + 1 + (CHOOSE k \in ks : TRUE), scope |-> Level + 1]]]
  /\ made' = made + 1 + Len(paramsymbols)
  /\ out' = out
       \o <<[is |-> "decl", decl |-> It.id, entry |-> made + 1, got |-> << >>, want |-> << >>]>>
       \o [k \in DOMAIN paramsymbols |-> Declared(paramsymbols[k], made + 1 + k, << >>)]
  /\ UNCHANGED <<vals, globals>>

CloseFunc ==
  /\ Reduce("close func")
  /\ identifiers' = Left(identifiers)
  /\ paramsymbols' = << >>
  /\ UNCHANGED <<vals, curr_array, arraylist, idlist, globle_tmp_paramcalls, call_level,
                 l_br, dims, dc_record, init_, init_array, made, out>>

Parse ==
  \/ Integer \/ AddExp \/ OpenCall \/ Params \/ FuncCall
  \/ FirstSubscript \/ NextSubscript \/ ArrayItem \/ LVal \/ ExprStmt
  \/ InitExp \/ OpenBrace \/ CloseBrace
  \/ IdDeclarator \/ DeclareId \/ DeclareArray \/ DeclareList
  \/ OpenBlock \/ CloseBlock \/ ParamDef \/ OpenFunc \/ CloseFunc

Parsed == input = << >> /\ UNCHANGED vars

Next == Parse \/ Parsed

Spec == Init /\ [][Next]_vars /\ WF_vars(Parse)
-----------------------------------------------------------------------------
\* Nothing that was collected for a statement is left over where a block
\* begins or ends, or at the end of the program: it would be taken for a
\* part of the next one.
NothingPending ==
  input = << >> \/ Head(input).do \in {"open block", "close block"} =>
    /\ vals = << >> /\ dc_record = << >> /\ l_br = -1
    /\ \A n \in Names : arraylist[n] = << >> /\ idlist[n] = << >> /\ init_[n] = << >>
    /\ \A k \in DOMAIN globle_tmp_paramcalls : globle_tmp_paramcalls[k] = << >>

\* The globals of the parser have their types and the productions leave them
\* in order: names are names of the program, the counters are in range, a
\* table is always open, entries have been made, and nothing stays pending.
TypeOK ==
  /\ call_level \in 0 .. MaxCallLevel
  /\ Range(curr_array) \cup Range(paramsymbols) \subseteq Names
  /\ l_br \in -1 .. Len(dims)
  /\ Len(dc_record) \in {0, Len(dims)}
  /\ init_array \in Names \cup {0}
  /\ Len(identifiers) >= 1
  /\ \A k \in DOMAIN identifiers : \A n \in Names : identifiers[k][n].no \in 0 .. made
  /\ NothingPending

\* Every expression statement becomes the tree its source is: no call takes
\* an argument, and no array item a subscript, that belongs to another one,
\* although all of them are collected in the same global lists.
TreesBuilt ==
  \A o \in Range(out) : o.is = "tree" => o.got = o.want

\* Every declared name gets the initialiser its source gives it, element by
\* element, whatever braces are left out.  The vector of an array declared
\* in a list may be longer, with nothing in the part after the array.
InitialisersKept ==
  \A o \in Range(out) : o.is = "decl" =>
    /\ Len(o.got) >= Len(o.want)
    /\ \A p \in DOMAIN o.got : o.got[p] = IF p <= Len(o.want) THEN o.want[p] ELSE Null

\* A use gets the entry of the declaration whose scope it is in, and two
\* declarations never share an entry.
NamesResolved ==
  \A o, d \in Range(out) :
    o.is \in {"use", "decl"} /\ d.is = "decl" => (o.entry = d.entry <=> o.decl = d.decl)
=============================================================================
