------------------------- MODULE MCManagedReconciler -------------------------
(***************************************************************************)
(* Small instances of ManagedReconciler for TLC.                             *)
(***************************************************************************)
EXTENDS ManagedReconciler, TLC

(* metadata.name and spec.forProvider.name agree. *)
SameNames == [c \in CRs |-> c]

(* They do not: all nodes have the metadata.name of one resource. *)
OneName == [c \in CRs |-> CHOOSE d \in CRs : d \notin OrphanPolicy]

(* What TLC may permute: nothing in the specification tells them apart. *)
Symmetry == Permutations(Uuids) \cup Permutations(Targets)

=============================================================================
