---------------------------- MODULE MCOrderSync ----------------------------
(***************************************************************************)
(* OrderSync on small instances.                                           *)
(***************************************************************************)
EXTENDS OrderSync, TLC

CONSTANT retailer

OneBuyer == [o \in Orders |-> retailer]

Symmetry == Permutations(Pullers) \cup Permutations(Workers)
=============================================================================
