----------------------------- MODULE MCRdbCodec -----------------------------
(* A key that is spelled like a type and one of the 64 bytes where the       *)
(* length takes the long form, an empty text and an empty list, and a        *)
(* deadline beyond the range of the format.                                  *)
EXTENDS RdbCodec

CONSTANTS k1, k2, empty, long

Sizes ==
  [t \in Keys \cup Items \cup {"string", "list"} |->
     CASE t = k1       -> 6
       [] t = k2       -> 64
       [] t = empty    -> 0
       [] t = long     -> 300
       [] t = "string" -> 6
       [] t = "list"   -> 4]

InUpper   == [k \in Keys |-> IF k = k1 THEN "STRING" ELSE "OTHER"]
SomeLists == {<<>>, <<empty>>, <<long, empty>>}
=============================================================================
