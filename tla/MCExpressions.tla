--------------------------- MODULE MCExpressions ---------------------------
(***************************************************************************)
(* Programs of up to three literals, names, calls and items, with one      *)
(* name.  The literals are an int, an int with one bit more than a float   *)
(* keeps, the float 0 and a float that an int conversion cuts to 0; signs, *)
(* fractions of ints and other zeros come of the operators.                *)
(***************************************************************************)
EXTENDS Expressions

Long == (2^24 + 1) * Whole

MCInts == {2 * Whole, Long}
MCFloats == {0, 2}     \* .0 and .5
MCCalls == {[type |-> "float", v |-> 2]}
MCItems == {[type |-> "i32", v |-> Long], [type |-> "float", v |-> 2]}
=============================================================================
