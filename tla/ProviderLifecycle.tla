-------------------------- MODULE ProviderLifecycle --------------------------
(***************************************************************************)
(* The User and the Persona controller, each as an implementation of         *)
(* ExternalLifecycle while the other controllers work on the same graph:     *)
(* what a node grants are nodes of another kind, which come and go there.    *)
(***************************************************************************)
EXTENDS Provider

CONSTANT Kind  \* of the resources that are looked at

ASSUME KindAssumption == Kind \in Kinds

Own == IF Kind = "User" THEN Users ELSE Personas

(* The nodes with the label of this kind. *)
Mine(n) == n \in DOMAIN nodes /\ nodes[n].owner \in Own

StatusOf(n) ==
  IF ~Mine(n) THEN "none"
  ELSE IF ~nodes[n].live THEN "destroyed"
  ELSE IF nodes[n].fate \in {"unknown", "hidden"} THEN "inflight"
  ELSE nodes[n].fate

(* What GetUser or GetPersona returns. *)
GrantsOf(n) ==
  IF ~Mine(n) THEN {}
  ELSE IF Kind = "User" THEN G!GetUserRefs(edges, n, Labelled("Persona"))
                        ELSE G!GetPersonaRefs(edges, n, Labelled("PermissionSet"))

Phase == [c \in Own |-> objects[c].phase]
Name == [c \in Own |-> objects[c].ext]
Status == [n \in Uuids |-> StatusOf(n)]
Owner == [n \in Uuids |-> IF Mine(n) THEN nodes[n].owner ELSE NoCR]
Grants == [n \in Uuids |-> GrantsOf(n)]

Lifecycle == INSTANCE ExternalLifecycle WITH
  Resources <- Own, Keepers <- {}, Nodes <- Uuids, Referents <- Uuids,
  NoNode <- 0, Nobody <- NoCR,
  phase <- Phase, name <- Name, status <- Status, owner <- Owner, grants <- Grants

(* The controller keeps the promises of ExternalLifecycle among the others, all  *)
(* of whose doings are steps that take a reference away, or none: no controller   *)
(* gives a node of another kind anything, or a resource of another kind a node.  *)
ImplementsLifecycle == Lifecycle!Spec

=============================================================================
