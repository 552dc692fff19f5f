----------------------------- MODULE MCJobGraph -----------------------------
(***************************************************************************)
(* JobGraph on the smallest graph where two parents share a child, and on  *)
(* the smallest one where one of them has another child besides.           *)
(***************************************************************************)
EXTENDS JobGraph, TLC

CONSTANTS a, b, c, d

TwoParents  == (a :> {}) @@ (b :> {}) @@ (c :> {a, b})
SharedChild == (a :> {}) @@ (b :> {}) @@ (c :> {a, b}) @@ (d :> {a})

\* The parents are alike in TwoParents, and so are the users.
Symmetry == Permutations(Users) \cup Permutations({a, b})
=============================================================================
