---------------------------- MODULE MCAllocator ----------------------------
(* Small instances of Allocator for TLC.                                   *)
EXTENDS Allocator, TLC

CONSTANTS t1, t2, h1, h2, w1, w2, v1, v2, v3

(* All rows of one team ...                                                *)
SameTeam == [r \in Requests |-> t1]

(* ... or the first row and the others of different teams.                 *)
FirstApart == [r \in Requests |-> IF r = 1 THEN t1 ELSE t2]

Symmetry == Permutations(Handlers) \cup Permutations(Workers) \cup Permutations(VMs)
=============================================================================
