--------------------------- MODULE MCSessionStore ---------------------------
(* Small instances of SessionStore for TLC. *)
EXTENDS SessionStore, TLC

CONSTANTS p1, p2

(* Two pairs with no participant in the same role; both are of the same two. *)
Pairs == {<<p1, p2>>, <<p2, p1>>}

Symmetry == Permutations(Request) \cup Permutations(Player) \cup Permutations(Port)
=============================================================================
