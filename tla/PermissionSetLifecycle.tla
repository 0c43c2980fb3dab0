------------------------ MODULE PermissionSetLifecycle ------------------------
(***************************************************************************)
(* The PermissionSet controller as an implementation of ExternalLifecycle.   *)
(* Its node is made by one transaction and granted what it delegates to by a *)
(* later one; accounts and roles, which belong to nobody, are referents.     *)
(***************************************************************************)
EXTENDS PermissionSetReconciler

CONSTANT Uuids  \* the numbers that nodes can have

ASSUME UuidsAssumption == Uuids \subseteq Nat \ {0}

(* A node stays in flight unless its resource comes to name it: nothing in the *)
(* graph or in the API server tells a failed creation from a forgotten one,    *)
(* and the node of either may delegate for ever.                              *)
StatusOf(n) ==
  IF n \notin DOMAIN sets THEN "none"
  ELSE IF ~sets[n].live THEN "destroyed"
  ELSE IF \E c \in CRs : objects[c].ext = n THEN "recorded" ELSE "inflight"

(* The accounts, by their ids, which updates leave alone, and their roles. *)
Delegation(n) == {<<accounts[r[1]].id, r[2]>> : r \in Rows(n)}

Phase == [c \in CRs |-> objects[c].phase]
Name == [c \in CRs |-> objects[c].ext]
Status == [n \in Uuids |-> StatusOf(n)]
Owner == [n \in Uuids |-> IF n \in DOMAIN sets THEN sets[n].owner ELSE NoCR]
Delegations == [n \in Uuids |-> Delegation(n)]

Lifecycle == INSTANCE ExternalLifecycle WITH
  Resources <- CRs, Keepers <- {}, Nodes <- Uuids, Referents <- AccountIds \X RoleNames,
  NoNode <- 0, Nobody <- NoCR,
  phase <- Phase, name <- Name, status <- Status, owner <- Owner, grants <- Delegations

(* The controller keeps the promises of ExternalLifecycle: an object goes, and  *)
(* names another node, only when the node it names delegates to nothing, and a   *)
(* node is deleted only for a deleted resource that names it, however edits,     *)
(* refused writes, lost answers and crashes interleave with the four             *)
(* transactions of a creation.                                                  *)
ImplementsLifecycle == Lifecycle!Spec

=============================================================================
