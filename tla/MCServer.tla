------------------------------ MODULE MCServer ------------------------------
(* Ports 0 to 3, no option, several, one without a value, one whose value  *)
(* is an option or too large; two CPUs and one peer that is unruly.        *)
EXTENDS Server

Text == -2
SomeArguments ==
  {<<>>, <<Text, Flag>>, <<Flag, 3>>, <<Flag, 1, Flag, 2>>, <<Flag, Text>>,
   <<Flag, Flag, 1>>, <<Text, Flag, 5>>, <<Flag, 0>>}

ASSUME Cardinality(Unruly) < Workers /\ MaxOthers < MaxPort
=============================================================================
