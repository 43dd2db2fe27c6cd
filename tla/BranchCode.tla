----------------------------- MODULE BranchCode -----------------------------
(***************************************************************************)
(* The branches the compiler makes of a function: the genCode methods of   *)
(* src/src/Ast.cpp for conditions and statements, with their backpatching, *)
(* and the lists by which src/src/parser.y ties a break to its loop.       *)
(* RECURSIVE operators follow the tree, so this module is for TLC only.    *)
(***************************************************************************)
EXTENDS Integers, Sequences, SequencesExt, FiniteSets

\* Definitions marked "For P" are wrong variants, as in LinearScan.

(***************************************************************************)
(* The tree.  A condition is a record                                      *)
(*   [op |-> "test", id], [op |-> "not", arg],                             *)
(*   [op |-> "and", l, r], [op |-> "or", l, r]                             *)
(* and a statement one of                                                  *)
(*   [op |-> "do", id], [op |-> "empty"], [op |-> "seq", first, second],   *)
(*   [op |-> "if", cond, then], [op |-> "ifelse", cond, then, else],       *)
(*   [op |-> "while", cond, body],                                         *)
(*   [op |-> "break"], [op |-> "continue"], [op |-> "return"].             *)
(* A test is a comparison and a do an assignment, for what they compute.   *)
(* A node is known by its path from the root.                              *)
(***************************************************************************)

(***************************************************************************)
(* The parser.  It reduces the body of a loop before the loop; a break or  *)
(* a continue waits in the list of the current level, and the loop that    *)
(* ends at that level becomes its parent.                                  *)
(***************************************************************************)
Enter(p) == [p EXCEPT !.level = @ + 1, !.lists[p.level + 2] = {}]

Close(p, loop) ==
  [p EXCEPT !.level = @ - 1,
            !.parent = [x \in DOMAIN p.parent \cup p.lists[p.level + 1] |->
                          IF x \in p.lists[p.level + 1] THEN loop ELSE p.parent[x]]]

RECURSIVE Parse(_, _, _)
Parse(p, s, path) ==
  CASE s.op \in {"break", "continue"} -> [p EXCEPT !.lists[p.level + 1] = @ \cup {path}]
    [] s.op = "while"  -> Close(Parse(Enter(p), s.body, Append(path, 1)), path)
    [] s.op = "if"     -> Parse(p, s.then, Append(path, 1))
    [] s.op = "ifelse" -> Parse(Parse(p, s.then, Append(path, 1)), s.else, Append(path, 2))
    [] s.op = "seq"    -> Parse(Parse(p, s.first, Append(path, 1)), s.second, Append(path, 2))
    [] OTHER           -> p

MaxLevel == 4

Parents(s) ==
  Parse([level |-> 0, lists |-> [n \in 1 .. MaxLevel |-> {}], parent |-> << >>], s, << >>).parent
-----------------------------------------------------------------------------
(***************************************************************************)
(* The code under construction: the blocks in the order they were made     *)
(* (and will be laid out in), and the insertion point.  An instruction has *)
(* a position, its block and its place there; a branch of block 0 is still *)
(* to be filled in.                                                        *)
(***************************************************************************)
Entry == 1
RetBlock == 2

Instr(op, x, t, f) == [op |-> op, x |-> x, t |-> t, f |-> f]
Br(t) == Instr("br", <<0, 0>>, t, 0)
CondBr(x, t, f) == Instr("condbr", x, t, f)

NewBlock(g) == [g EXCEPT !.blocks = Append(@, << >>)]
Newest(g) == Len(g.blocks)
SetInsert(g, b) == [g EXCEPT !.bb = b]
Put(g, b, inst) == [g EXCEPT !.blocks[b] = Append(@, inst)]
Emit(g, inst) == Put(g, g.bb, inst)
LastPos(g, b) == <<b, Len(g.blocks[b])>>
Pos(g) == <<g.bb, Len(g.blocks[g.bb]) + 1>>

BackPatch(g, list, b, branch) ==
  [g EXCEPT !.blocks =
     [n \in DOMAIN g.blocks |->
        [k \in DOMAIN g.blocks[n] |->
           IF <<n, k>> \notin list THEN g.blocks[n][k]
           ELSE IF branch THEN [g.blocks[n][k] EXCEPT !.t = b]
           ELSE [g.blocks[n][k] EXCEPT !.f = b]]]]

(***************************************************************************)
(* Conditions: the code with the operand that holds the value and the      *)
(* branches that leave when it is known to be true (yes) or false (no).    *)
(***************************************************************************)
Value(g, x, yes, no) == [g |-> g, x |-> x, yes |-> yes, no |-> no]

\* For Agrees: the block is the one current before the left side was generated.
BlockBefore(g, left) == g.bb

BlockAfter(g, left) == left.g.bb

AllExits(own, left, right) == left \cup {own} \cup right

\* For FlagsFresh: the right side is compared in the block it starts in.
BlockOpened(opened, right) == opened

BlockEnded(opened, right) == right.g.bb

\* The last comparison of "and" and "or", on the right side.
Joined(opened, right, yes, no) ==
  LET last == Put(right.g, BlockEnded(opened, right), Instr("ne", right.x, 0, 0))
  IN  Value(last, LastPos(last, BlockEnded(opened, right)), yes, no)

RECURSIVE GenCond(_, _)

GenTest(g, c) == Value(Emit(g, Instr("test", <<c.id, 0>>, 0, 0)), Pos(g), {}, {})

GenNot(g, c) ==
  LET arg == GenCond(g, c.arg)
  IN  Value(Emit(arg.g, Instr("eq", arg.x, 0, 0)), Pos(arg.g), arg.yes, arg.no)

GenAnd(g, c) ==
  LET trueBB == Newest(g) + 1
      left   == GenCond(NewBlock(g), c.l)
      now    == BlockAfter(g, left)
      own    == Put(left.g, now, CondBr(left.x, trueBB, 0))
      right  == GenCond(SetInsert(BackPatch(own, left.yes, trueBB, TRUE), trueBB), c.r)
  IN  Joined(trueBB, right, right.yes, AllExits(LastPos(own, now), left.no, right.no))

GenOr(g, c) ==
  LET falseBB == Newest(g) + 1
      left    == GenCond(NewBlock(g), c.l)
      now     == BlockAfter(g, left)
      own     == Put(left.g, now, CondBr(left.x, 0, falseBB))
      right   == GenCond(SetInsert(BackPatch(own, left.no, falseBB, FALSE), falseBB), c.r)
  IN  Joined(falseBB, right, AllExits(LastPos(own, now), left.yes, right.yes), right.no)

GenCond(g, c) ==
  CASE c.op = "test" -> GenTest(g, c)
    [] c.op = "not"  -> GenNot(g, c)
    [] c.op = "and"  -> GenAnd(g, c)
    [] c.op = "or"   -> GenOr(g, c)

\* What the statements do with a condition they have generated.
Branch(e, t, f) ==
  LET patched == BackPatch(BackPatch(e.g, e.yes, t, TRUE), e.no, f, FALSE)
  IN  Emit(patched, CondBr(e.x, t, f))
-----------------------------------------------------------------------------
\* For Answers: a loop goes back to its body and not to its condition.
BackToBody(cond, body) == body

BackTo(cond, body) == cond

(***************************************************************************)
(* Statements.  parent gives the loop of a break; the loops g has met are  *)
(* known by their path, with their end_bb and cond_bb.                     *)
(***************************************************************************)
RECURSIVE Gen(_, _, _, _)

GenSeq(g, s, path, parent) ==
  Gen(Gen(g, s.first, Append(path, 1), parent), s.second, Append(path, 2), parent)

GenIf(g, s, path, parent) ==
  LET then_bb == Newest(g) + 1
      end_bb  == Newest(g) + 2
      test    == Branch(GenCond(NewBlock(NewBlock(g)), s.cond), then_bb, end_bb)
      then    == Gen(SetInsert(test, then_bb), s.then, Append(path, 1), parent)
  IN  SetInsert(Emit(then, Br(end_bb)), end_bb)

GenIfElse(g, s, path, parent) ==
  LET then_bb == Newest(g) + 1
      end_bb  == Newest(g) + 2
      else_bb == Newest(g) + 3
      test    == Branch(GenCond(NewBlock(NewBlock(NewBlock(g))), s.cond), then_bb, else_bb)
      then    == Emit(Gen(SetInsert(test, then_bb), s.then, Append(path, 1), parent), Br(end_bb))
      else    == Emit(Gen(SetInsert(then, else_bb), s.else, Append(path, 2), parent), Br(end_bb))
  IN  SetInsert(else, end_bb)

GenWhile(g, s, path, parent) ==
  LET then_bb == Newest(g) + 1
      end_bb  == Newest(g) + 2
      cond_bb == Newest(g) + 3
      entered == SetInsert(Emit(NewBlock(NewBlock(NewBlock(g))), Br(cond_bb)), cond_bb)
      known   == [entered EXCEPT !.loops = @ \cup {[path |-> path, end |-> end_bb, cond |-> cond_bb]}]
      test    == Branch(GenCond(known, s.cond), then_bb, end_bb)
      body    == Gen(SetInsert(test, then_bb), s.body, Append(path, 1), parent)
  IN  SetInsert(Emit(body, Br(BackTo(cond_bb, then_bb))), end_bb)

LoopOf(g, path, parent) == CHOOSE loop \in g.loops : loop.path = parent[path]
GenBreak(g, path, parent) == Emit(g, Br(LoopOf(g, path, parent).end))
GenContinue(g, path, parent) == Emit(g, Br(LoopOf(g, path, parent).cond))

GenReturn(g) == Emit(g, Br(RetBlock))

Gen(g, s, path, parent) ==
  CASE s.op = "empty"    -> g
    [] s.op = "do"       -> Emit(g, Instr("do", <<s.id, 0>>, 0, 0))
    [] s.op = "seq"      -> GenSeq(g, s, path, parent)
    [] s.op = "if"       -> GenIf(g, s, path, parent)
    [] s.op = "ifelse"   -> GenIfElse(g, s, path, parent)
    [] s.op = "while"    -> GenWhile(g, s, path, parent)
    [] s.op = "break"    -> GenBreak(g, path, parent)
    [] s.op = "continue" -> GenContinue(g, path, parent)
    [] s.op = "return"   -> GenReturn(g)

\* entry and ret_bb exist before the body is generated.
Body(s) ==
  Gen([blocks |-> << << >>, << >> >>, bb |-> Entry, loops |-> {}], s, << >>, Parents(s))

(***************************************************************************)
(* The edges FunctionDef records, before it ends the function: those of    *)
(* the last instruction of a block, to blocks that are not empty.          *)
(***************************************************************************)
Targets(inst) ==
  CASE inst.op = "br"     -> {inst.t}
    [] inst.op = "condbr" -> {inst.t, inst.f}
    [] OTHER              -> {}

Edges(g) ==
  {<<b, to>> \in (DOMAIN g.blocks) \X (DOMAIN g.blocks) :
     /\ g.blocks[b] # << >> /\ g.blocks[to] # << >>
     /\ to \in Targets(g.blocks[b][Len(g.blocks[b])])}

(***************************************************************************)
(* The end of FunctionDef: the last block that does not end in a branch    *)
(* gets one to ret_bb, unless it is ret_bb.                                *)
(***************************************************************************)
Open(g) == {b \in DOMAIN g.blocks : g.blocks[b] = << >> \/ Targets(g.blocks[b][Len(g.blocks[b])]) = {}}

\* For TypeOK: the block gets its branch only when it is empty.
FinishIfEmpty(g) ==
  LET b == CHOOSE x \in Open(g) : \A y \in Open(g) : y <= x
  IN  IF b = RetBlock \/ g.blocks[b] # << >> THEN g ELSE Put(g, b, Br(RetBlock))

Finish(g) ==
  LET b == CHOOSE x \in Open(g) : \A y \in Open(g) : y <= x
  IN  IF b = RetBlock THEN g ELSE Put(g, b, Br(RetBlock))

Return(g, isvoid) ==
  LET early == IF isvoid /\ Newest(g) = RetBlock THEN Put(g, Entry, Instr("ret", <<0, 0>>, 0, 0)) ELSE g
  IN  Put(Finish(early), RetBlock, Instr("ret", <<0, 0>>, 0, 0))

Compile(s, isvoid) == Return(Body(s), isvoid).blocks
=============================================================================
