-------------------------- MODULE ExternalLifecycle --------------------------
(***************************************************************************)
(* What a controller of powerbroker promises about the nodes it makes for    *)
(* its custom resources, whatever its worker, its cache, the clock and the    *)
(* process do: no worker, no cache and no finalizer here, only resources,     *)
(* nodes, and what the nodes grant.                                          *)
(*                                                                          *)
(* A node is made for one resource.  Either it is named by that resource, in  *)
(* one step with the record of its creation, or it is given up as failed, or  *)
(* its outcome stays unknown.  A node that grants nothing never grants        *)
(* anything again.  The resource goes, or names another node, only when the   *)
(* node it names grants nothing (or is left behind on purpose), and nodes are *)
(* destroyed only for a resource that names them and is being deleted.        *)
(***************************************************************************)
CONSTANTS
  Resources,  \* the custom resources of one kind
  Keepers,    \* those whose nodes are to be left behind
  Nodes,      \* the nodes that can ever be made for them
  NoNode,     \* the name of a resource that names no node; not in Nodes
  Nobody,     \* the owner of a node that was never made
  Referents   \* what a node can grant

VARIABLES
  phase,   \* of a resource: "absent", "present", "deleting", "gone"
  name,    \* the node a resource names
  status,  \* of a node: "none", "inflight", "recorded", "failed", "destroyed"
  owner,   \* the resource a node was made for
  grants   \* what a node grants

lifecycle == <<phase, name, status, owner, grants>>

Init ==
  /\ phase = [r \in Resources |-> "absent"]
  /\ name = [r \in Resources |-> NoNode]
  /\ status = [n \in Nodes |-> "none"]
  /\ owner = [n \in Nodes |-> Nobody]
  /\ grants = [n \in Nodes |-> {}]

(* The node r names, if any, grants nothing. *)
Harmless(r) == name[r] \in Nodes => grants[name[r]] = {}

-----------------------------------------------------------------------------
Apply(r) ==
  /\ phase[r] = "absent"
  /\ phase' = [phase EXCEPT ![r] = "present"]
  /\ UNCHANGED <<name, status, owner, grants>>

RequestDeletion(r) ==
  /\ phase[r] = "present"
  /\ phase' = [phase EXCEPT ![r] = "deleting"]
  /\ UNCHANGED <<name, status, owner, grants>>

Vanish(r) ==
  /\ phase[r] \in {"present", "deleting"}
  /\ Harmless(r) \/ (phase[r] = "deleting" /\ r \in Keepers)
  /\ phase' = [phase EXCEPT ![r] = "gone"]
  /\ UNCHANGED <<name, status, owner, grants>>

Make(r, n) ==
  /\ phase[r] \in {"present", "deleting"} /\ Harmless(r)
  /\ status[n] = "none"
  /\ status' = [status EXCEPT ![n] = "inflight"]
  /\ owner' = [owner EXCEPT ![n] = r]
  /\ UNCHANGED <<phase, name, grants>>

Grant(n, refs) ==
  /\ status[n] = "inflight" /\ grants[n] = {}
  /\ grants' = [grants EXCEPT ![n] = refs]
  /\ UNCHANGED <<phase, name, status, owner>>

Name(r, n) ==
  /\ phase[r] \in {"present", "deleting"} /\ Harmless(r)
  /\ status[n] = "inflight" /\ owner[n] = r
  /\ status' = [status EXCEPT ![n] = "recorded"]
  /\ name' = [name EXCEPT ![r] = n]
  /\ UNCHANGED <<phase, owner, grants>>

Abandon(n) ==
  /\ status[n] = "inflight"
  /\ status' = [status EXCEPT ![n] = "failed"]
  /\ UNCHANGED <<phase, name, owner, grants>>

(* An update gives the same references to all the nodes it finds, and it    *)
(* finds none that grants nothing.                                         *)
Rewire(N, refs) ==
  /\ \A n \in N : grants[n] # {}
  /\ grants' = [n \in Nodes |-> IF n \in N THEN refs ELSE grants[n]]
  /\ UNCHANGED <<phase, name, status, owner>>

LoseReferent(x) ==
  /\ grants' = [n \in Nodes |-> grants[n] \ {x}]
  /\ UNCHANGED <<phase, name, status, owner>>

Destroy(r) ==
  /\ phase[r] = "deleting"
  /\ name[r] \in Nodes
  /\ status[name[r]] = "recorded"
  /\ status' = [status EXCEPT ![name[r]] = "destroyed"]
  /\ grants' = [grants EXCEPT ![name[r]] = {}]
  /\ UNCHANGED <<phase, name, owner>>

Next ==
  \/ \E r \in Resources :
       \/ Apply(r) \/ RequestDeletion(r) \/ Vanish(r) \/ Destroy(r)
       \/ \E n \in Nodes : Make(r, n) \/ Name(r, n)
  \/ \E n \in Nodes : Abandon(n) \/ \E refs \in SUBSET Referents : Grant(n, refs)
  \/ \E N \in SUBSET Nodes, refs \in SUBSET Referents : Rewire(N, refs)
  \/ \E x \in Referents : LoseReferent(x)

Spec == Init /\ [][Next]_lifecycle

=============================================================================
