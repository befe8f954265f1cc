------------------------------ MODULE MCParser ------------------------------
(* Instances of Parser for TLC: the numbers around each change of width. *)
EXTENDS Parser

Edges == {0, 127, 128, 16383, 16384, 65535, 65536, 2097151, 2097152,
          16777216, 268435455, 268435456, 2147483647}
=============================================================================
