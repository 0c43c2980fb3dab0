------------------------------ MODULE MCProvider ------------------------------
(***************************************************************************)
(* A small instance for TLC, with both controllers that ProviderLifecycle is *)
(* about: Kind is the User's in the configuration, and the Persona's here.   *)
(***************************************************************************)
EXTENDS ProviderLifecycle

(* metadata.name and spec.forProvider.name agree. *)
SameNames == [c \in Managed |-> c]

OfPersonas == INSTANCE ProviderLifecycle WITH Kind <- "Persona"

(* ImplementsLifecycle of the Persona controller: among Users, Teams and       *)
(* PermissionSets that come and go, and panics that end all of them, a Persona  *)
(* goes, and names another node, only when its node delegates to nothing.       *)
PersonasImplementLifecycle == OfPersonas!ImplementsLifecycle

=============================================================================
