-------------------------------- MODULE Eager --------------------------------
(***************************************************************************)
(* Application and folds that TLC evaluates once: an argument of an        *)
(* operator is evaluated anew wherever the operator mentions it, the       *)
(* element of a set is not.                                                *)
(***************************************************************************)
EXTENDS Sequences, SequencesExt

\* op(value), with the value bound by a set.
With(value, op(_)) == CHOOSE r \in {op(x) : x \in {value}} : TRUE

\* FoldLeft, likewise.
FoldValues(op(_, _), base, seq) ==
    With(seq, LAMBDA elements :
      FoldLeft(LAMBDA acc, x : With(acc, LAMBDA a : With(x, LAMBDA y : op(a, y))),
               base, elements))
===============================================================================
