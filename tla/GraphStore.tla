----------------------------- MODULE GraphStore -----------------------------
(***************************************************************************)
(* The Neo4j transactions of internal/storage/neo4j/transaction that create *)
(* and rewire the relationships of a User or of a Persona.  Each operator is *)
(* the effect of one committed transaction on a set of relationships, so     *)
(* that a state machine may decide whether the transaction commits, fails,   *)
(* or commits without its caller hearing of it.                              *)
(*                                                                          *)
(* A relationship is [from, type, to].  `live' is the set of uuids of the    *)
(* nodes of the other label that exist: a MATCH on a uuid that no such node  *)
(* has yields no row, and the statement silently does less.  Lists of uuids  *)
(* are sets: MERGE makes a repeated uuid a no-op.                            *)
(***************************************************************************)

Relationships(N) == [from: N, type: {"GRANTED", "DESIGNATED", "ATTACHED_TO"}, to: N]

-----------------------------------------------------------------------------
(* What the second transaction of CreateUser and CreatePersona adds. *)

AddUserPersonaRelation(E, userUuid, personaRefs, live) ==
  E \cup [from: {userUuid}, type: {"GRANTED"}, to: personaRefs \cap live]

AddPersonaPermissionSetRelation(E, personaUuid, permissionSetRefs, live) ==
  E \cup [from: permissionSetRefs \cap live, type: {"ATTACHED_TO"}, to: {personaUuid}]

-----------------------------------------------------------------------------
(* What GetUser and GetPersona collect: any relationship type will do, the *)
(* label of the other end decides.                                         *)

GetUserRefs(E, userUuid, live) ==
  {e.to : e \in {x \in E : x.from = userUuid /\ x.to \in live}}

GetPersonaRefs(E, personaUuid, live) ==
  {e.from : e \in {x \in E : x.to = personaUuid /\ x.from \in live}}

-----------------------------------------------------------------------------
(* UpdateUser and UpdatePersona find nodes by NAME, among those that have at *)
(* least one relationship of the type they replace; `named' is the set of    *)
(* uuids of the nodes with that name.                                       *)

UpdateUser(E, named, personaRefs, live) ==
  LET old     == {e \in E : e.from \in named /\ e.type = "DESIGNATED" /\ e.to \in live}
      matched == {e.from : e \in old}
  IN  (E \ old) \cup [from: matched, type: {"DESIGNATED"}, to: personaRefs \cap live]

(* Mutant of UpdatePersona: the old relationships stay. *)
ExtendPersona(E, named, permissionSetRefs, live) ==
  E \cup [from: permissionSetRefs \cap live, type: {"ATTACHED_TO"},
          to: {e.to : e \in {x \in E : x.to \in named /\ x.from \in live}}]

UpdatePersona(E, named, permissionSetRefs, live) ==
  LET old     == {e \in E : e.to \in named /\ e.type = "ATTACHED_TO" /\ e.from \in live}
      matched == {e.to : e \in old}
  IN  (E \ old) \cup [from: permissionSetRefs \cap live, type: {"ATTACHED_TO"}, to: matched]

-----------------------------------------------------------------------------
(* DETACH DELETE of a node takes its relationships with it. *)

DetachDelete(E, uuid) == {e \in E : e.from # uuid /\ e.to # uuid}

=============================================================================
