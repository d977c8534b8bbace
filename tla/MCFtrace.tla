------------------------------ MODULE MCFtrace ------------------------------
(* Instances of Ftrace for model checking                                  *)
EXTENDS Ftrace

TwoFuncs == {5, 6}
JustOne == {1}
Args == {<<7>>, <<32>>}     \* one with a blank among its bytes
OneOrMany == {1, 9}

(* What tells states apart: of a whole buffer, where it starts and what is *)
(* in it; of a broken one, nothing.                                        *)
Used ==
  <<machine, lists, wild, broken, IF buffer = NULL \/ broken THEN <<>> ELSE <<Contents(buffer), buffer.rear>>>>
=============================================================================
