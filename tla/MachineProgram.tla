--------------------------- MODULE MachineProgram ---------------------------
(***************************************************************************)
(* The part of a MachineFunction (src/include/MachineCode.h) that register *)
(* allocation reads and changes.  A program is a record                    *)
(*   code    the blocks in order, each a sequence of instructions          *)
(*   succ    the successors of each block                                  *)
(*   reg     the virtual register of each MachineOperand object            *)
(*   parent  the instruction an operand object points to as its parent     *)
(*   fp      the virtual registers that hold floats                        *)
(* An instruction is a record: its identity, the operand objects it        *)
(* defines and uses, and, for the code a spill inserts, the stack slot it  *)
(* loads or stores.  Operand objects and identities are numbers in order   *)
(* of creation; an object used by two instructions is one number.          *)
(***************************************************************************)
EXTENDS Integers, Sequences

Blocks(p) == DOMAIN p.code
Insts(p, b) == DOMAIN p.code[b]

\* Instruction k of block b defines virtual register r.
Defines(p, b, k, r) == \E d \in p.code[b][k].def : p.reg[d] = r
UsesIn(p, b) == UNION {p.code[b][k].use : k \in Insts(p, b)}
AllUses(p) == UNION {UsesIn(p, b) : b \in Blocks(p)}

\* No instruction of block b strictly between i and j defines r.
Transparent(p, b, i, j, r) ==
  \A k \in Insts(p, b) : i < k /\ k < j => ~Defines(p, b, k, r)
=============================================================================
