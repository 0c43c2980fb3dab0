------------------------ MODULE ReferenceResolution ------------------------
(***************************************************************************)
(* How a resource that names other resources comes to hold the uuids of     *)
(* their nodes.  Each field that refers to nodes (personas of a User,       *)
(* permission sets of a Persona, members, manager and personas of a Team)   *)
(* has a list of values, and a list of references or a selector from which  *)
(* the values are filled in: with the external names the referenced         *)
(* resources have in the informer cache, one Get at a time.  Only when all   *)
(* fields are resolved is the object written, if it changed.                 *)
(*                                                                          *)
(* The referring resource is `from'.  Those it may refer to are reconciled   *)
(* by another controller, here just as far as their external names change.  *)
(* An external name is the resource that has or had it and a number: 0 for   *)
(* the provisional one of a User (its metadata.name), 1 and up for the nodes *)
(* made for it, each of which replaces the one before.                       *)
(***************************************************************************)
EXTENDS Naturals, FiniteSets, Sequences

CONSTANTS
  Names,        \* names of the resources that can be referred to
  Fields,       \* the fields of the referring resource
  Single,       \* those that refer to one resource only
  Provisional,  \* whether the referred resources are Users
  Policies,     \* what a field may say of its references: see PolicyAssumption
  MaxRefs,      \* bound: references a user gives in all fields together
  MaxNodes,     \* bound: nodes made for a resource referred to
  MaxFaults,    \* bound: failed calls
  MaxEdits      \* bound: edits of the referring resource

ASSUME NamesAssumption == IsFiniteSet(Names)
ASSUME ProvisionalAssumption == Provisional \in BOOLEAN
ASSUME FieldsAssumption == Fields # {} /\ Single \subseteq Fields
\* A field has a selector or references, with the policies Always and Optional or not.
ASSUME PolicyAssumption == Policies \subseteq SUBSET {"Always", "Optional", "Selector"}
ASSUME BoundsAssumption ==
  MaxRefs \in Nat /\ MaxNodes \in Nat /\ MaxFaults \in Nat /\ MaxEdits \in Nat

VARIABLES
  policy,   \* of each field: what its references or its selector say
  from,     \* the referring object in the API server
  edited,   \* history: fields whose references were edited and whose values were not cleared since
  worker,   \* its reconcile
  targets,  \* the resources referred to, in the API server
  cache,    \* ... in the informer
  faults,   \* faults so far
  edits     \* edits so far

vars == <<policy, from, edited, worker, targets, cache, faults, edits>>

-----------------------------------------------------------------------------
None == <<>>
ExtNames == {None} \cup (Names \X (0 .. MaxNodes))

Lists(S) == UNION {[1 .. n -> S] : n \in 0 .. Cardinality(Names)}

(* What users give: references in fields without a selector, within the bound. *)
Given(o) ==
  LET fields == {f \in Fields : "Selector" \notin policy[f]} IN
  /\ \A f \in Single : Len(o[f].refs) <= 1
  /\ Cardinality(UNION {{f} \X DOMAIN o[f].refs : f \in fields}) <= MaxRefs

Field == [refs: Lists(Names), values: Lists(ExtNames)]

(* A deleted object is not resolved any more: it is of no interest here. *)
Object == [Fields -> Field]

Target == [phase: {"absent", "present", "gone"}, ext: ExtNames]

(* todo: the fields still to be resolved; got: the values read so far. *)
Worker == [pc: {"idle", "resolve", "update"}, mg: Object, fresh: BOOLEAN,
           todo: SUBSET Fields, got: Lists(ExtNames)]

Idle == [pc |-> "idle", fresh |-> FALSE, todo |-> {}, got |-> <<>>,
         mg |-> [f \in Fields |-> [refs |-> <<>>, values |-> <<>>]]]

Init ==
  /\ policy \in [Fields -> Policies]
  /\ from \in [Fields -> [refs: Lists(Names), values: {<<>>}]]
  /\ \A f \in Fields : "Selector" \in policy[f] => from[f].refs = <<>>
  /\ Given(from)
  /\ edited = {}
  /\ worker = Idle
  /\ targets = [t \in Names |-> [phase |-> "absent", ext |-> None]]
  /\ cache = targets
  /\ faults = 0 /\ edits = 0

NoFault == UNCHANGED faults
Fault == faults < MaxFaults /\ faults' = faults + 1

-----------------------------------------------------------------------------
(* One field after another. *)

Quit == worker' = Idle

StartReconcile ==
  /\ worker.pc = "idle"
  /\ worker' = [Idle EXCEPT !.pc = "resolve", !.mg = from, !.fresh = TRUE, !.todo = Fields]
  /\ UNCHANGED <<policy, from, edited, targets, cache, faults, edits>>

(* The fields are taken in a fixed order. *)
Current == CHOOSE f \in worker.todo : TRUE
CurrentField == worker.mg[Current]

(* The current field is done. *)
Resolved(o) ==
  worker' = [worker EXCEPT !.mg[Current] = o, !.todo = @ \ {Current}, !.got = <<>>,
                           !.pc = IF worker.todo = {Current} THEN "update" ELSE "resolve"]

(* A selector to be resolved always forgets what it selected before. *)
ToResolve(f, o) == IF {"Selector", "Always"} \subseteq policy[f] THEN <<>> ELSE o.refs

(* Mutant: values that are set are never looked up again. *)
NoOpOnceSet(f, o) == o.values # <<>> \/ (o.refs = <<>> /\ "Selector" \notin policy[f])

IsNoOp(f, o) ==
  \/ o.values # <<>> /\ "Always" \notin policy[f]
  \/ ToResolve(f, o) = <<>> /\ "Selector" \notin policy[f]

KeepField ==
  /\ worker.pc = "resolve"
  /\ IsNoOp(Current, CurrentField)
  /\ Resolved(CurrentField)
  /\ UNCHANGED <<policy, from, edited, targets, cache, faults, edits>>

(* Mutant: only a list without values is invalid. *)
ValidIfAny(values, optional) == optional \/ values # <<>>

(* Validate, and what its error comes to under the policy. *)
Valid(values, optional) ==
  optional \/ (values # <<>> /\ \A i \in DOMAIN values : values[i] # None)

(* In a field of one value an empty string is no value; in a list it is one. *)
Stored(o) == IF Current \in Single /\ o.values = <<None>> THEN [o EXCEPT !.values = <<>>] ELSE o

Finish(o, optional) == IF Valid(o.values, optional) THEN Resolved(Stored(o)) ELSE Quit

(* References a selector has filled in are without policy. *)
OptionalReferences(f) == "Optional" \in policy[f] /\ "Selector" \notin policy[f]

(* The next reference.  One that is not there is an error; where references *)
(* are optional the empty response goes into the field, references and all. *)
GetReference ==
  LET refs == ToResolve(Current, CurrentField)
      t    == refs[Len(worker.got) + 1]
      got  == Append(worker.got, cache[t].ext)
  IN
  /\ worker.pc = "resolve"
  /\ ~IsNoOp(Current, CurrentField) /\ refs # <<>>
  /\ \/ /\ cache[t].phase = "present" /\ NoFault
        /\ IF Len(got) < Len(refs) THEN worker' = [worker EXCEPT !.got = got]
                                   ELSE Finish([refs |-> refs, values |-> got],
                                               OptionalReferences(Current))
     \/ /\ cache[t].phase # "present" /\ NoFault
        /\ IF OptionalReferences(Current) THEN Resolved([refs |-> <<>>, values |-> <<>>])
                                          ELSE Quit
     \/ Quit /\ Fault
  /\ UNCHANGED <<policy, from, edited, targets, cache, edits>>

ValuesOf(refs) == [i \in DOMAIN refs |-> cache[refs[i]].ext]

(* Mutant: what was selected before stays. *)
SelectedAdded(refs) ==
  [refs |-> CurrentField.refs \o refs, values |-> ValuesOf(CurrentField.refs \o refs)]

Selected(refs) == [refs |-> refs, values |-> ValuesOf(refs)]

(* A selector: the resources there are (they all have the labels), in no     *)
(* particular order, or one of them.                                         *)
ListSelected ==
  LET there == {t \in Names : cache[t].phase = "present"}
      n     == IF Current \in Single /\ there # {} THEN 1 ELSE Cardinality(there)
  IN
  /\ worker.pc = "resolve"
  /\ ~IsNoOp(Current, CurrentField) /\ ToResolve(Current, CurrentField) = <<>>
  /\ \/ /\ NoFault
        /\ \E refs \in [1 .. n -> there] :
             /\ Cardinality({refs[i] : i \in 1 .. n}) = n
             /\ Finish(Selected(refs), "Optional" \in policy[Current])
     \/ Quit /\ Fault
  /\ UNCHANGED <<policy, from, edited, targets, cache, edits>>

(* Mutant: written whatever has been written since. *)
OverwriteResolved ==
  /\ worker.pc = "update"
  /\ Quit
  /\ from' = worker.mg
  /\ UNCHANGED <<policy, edited, targets, cache, faults, edits>>

(* The object is updated, if it changed; a stale copy is refused. *)
UpdateResolved ==
  /\ worker.pc = "update"
  /\ Quit
  /\ \/ from' = (IF worker.fresh THEN worker.mg ELSE from) /\ NoFault
     \/ Fault /\ UNCHANGED from
  /\ UNCHANGED <<policy, edited, targets, cache, edits>>

-----------------------------------------------------------------------------
(* The users of the referring resource. *)

WriteFrom(o) ==
  /\ from' = o
  /\ worker' = [worker EXCEPT !.fresh = FALSE]
  /\ UNCHANGED <<policy, targets, cache, faults>>

EditReferences(f) ==
  /\ "Selector" \notin policy[f]
  /\ edits < MaxEdits /\ edits' = edits + 1
  /\ \E refs \in Lists(Names) \ {from[f].refs} :
       LET o == [from EXCEPT ![f].refs = refs] IN
       Given(o) /\ WriteFrom(o)
  /\ edited' = edited \cup {f}

(* "The CR author can invalidate the cache by clearing the resolved values." *)
ClearValues(f) ==
  /\ from[f].values # <<>>
  /\ edits < MaxEdits /\ edits' = edits + 1
  /\ WriteFrom([from EXCEPT ![f].values = <<>>])
  /\ edited' = edited \ {f}

(* The resources referred to. *)

WriteTarget(t, o) ==
  /\ targets' = [targets EXCEPT ![t] = o]
  /\ UNCHANGED <<policy, from, edited, worker, cache, faults, edits>>

Named(t) == targets[t].ext # None

ApplyTarget(t) ==
  /\ targets[t].phase = "absent"
  /\ WriteTarget(t, [phase |-> "present", ext |-> None])

NameProvisionally(t) ==
  /\ Provisional
  /\ targets[t].phase = "present" /\ ~Named(t)
  /\ WriteTarget(t, [phase |-> "present", ext |-> <<t, 0>>])

(* A node is made, or made again where the one there was is taken for deleted. *)
NameNode(t) ==
  /\ targets[t].phase = "present" /\ (Provisional => Named(t))
  /\ LET n == IF Named(t) THEN targets[t].ext[2] + 1 ELSE 1
     IN  n <= MaxNodes /\ WriteTarget(t, [phase |-> "present", ext |-> <<t, n>>])

RemoveTarget(t) ==
  /\ targets[t].phase = "present"
  /\ WriteTarget(t, [phase |-> "gone", ext |-> None])

CacheSync(t) ==
  /\ cache[t] # targets[t]
  /\ cache' = [cache EXCEPT ![t] = targets[t]]
  /\ UNCHANGED <<policy, from, edited, worker, targets, faults, edits>>

-----------------------------------------------------------------------------
WorkerStep == KeepField \/ GetReference \/ ListSelected \/ UpdateResolved

Next ==
  \/ StartReconcile
  \/ WorkerStep
  \/ \E f \in Fields : EditReferences(f) \/ ClearValues(f)
  \/ \E t \in Names : \/ ApplyTarget(t) \/ NameProvisionally(t) \/ NameNode(t)
                      \/ RemoveTarget(t) \/ CacheSync(t)

Spec == Init /\ [][Next]_vars

(* The referring resource is polled, its worker goes on, the informer catches up. *)
Fairness ==
  /\ WF_vars(StartReconcile) /\ WF_vars(WorkerStep)
  /\ \A t \in Names : WF_vars(CacheSync(t))

FairSpec == Spec /\ Fairness

-----------------------------------------------------------------------------
(* Properties. *)

(* Every variable holds what the code can put there. *)
TypeOK ==
  /\ policy \in [Fields -> Policies]
  /\ from \in Object
  /\ edited \subseteq Fields
  /\ worker \in Worker
  /\ targets \in [Names -> Target] /\ cache \in [Names -> Target]
  /\ faults \in 0 .. MaxFaults /\ edits \in 0 .. MaxEdits

(* Unless a user has edited the references and left the values, each value is *)
(* an external name of the resource referred to at its place, and it is empty *)
(* only where references are optional.                                       *)
ValuesAreOfReferences ==
  \A f \in Fields \ edited :
    LET o == from[f] IN
    o.values # <<>> =>
      /\ Len(o.values) = Len(o.refs)
      /\ \A i \in DOMAIN o.values :
           IF o.values[i] = None THEN "Optional" \in policy[f]
                                 ELSE o.values[i][1] = o.refs[i]

(* The resolver never takes back an edit: references change by a user, by a  *)
(* selector, or go where they are optional and one of them is not to be seen. *)
ReferencesAsAsked ==
  [][\A f \in Fields :
       LET old == from[f].refs
           new == from'[f].refs
       IN  \/ new = old \/ edits' # edits \/ "Selector" \in policy[f]
           \/ "Optional" \in policy[f] /\ new = <<>> ]_vars

(* A required field that can not be resolved as things are. *)
Unresolvable(f) ==
  LET o    == from[f]
      refs == ToResolve(f, o)
      used == IF refs = <<>> THEN {t \in Names : targets[t].phase = "present"}
                             ELSE {refs[i] : i \in DOMAIN refs}
  IN  /\ ~IsNoOp(f, o)
      /\ ~IF refs = <<>> THEN "Optional" \in policy[f] ELSE OptionalReferences(f)
      /\ used = {} \/ \E t \in used : ~Named(t)

(* Resolution ends: unless some field of the resource can not be resolved, a  *)
(* field whose references all have names has values, and they are the present *)
(* ones if they are to be looked up always.                                   *)
ResolutionSettles ==
  \A f \in Fields :
    <>[](LET o == from[f] IN
         /\ \A g \in Fields : ~Unresolvable(g)
         /\ o.refs # <<>>
         /\ \A i \in DOMAIN o.refs : Named(o.refs[i])
         => /\ o.values # <<>>
            /\ "Always" \in policy[f] =>
                 o.values = [i \in DOMAIN o.refs |-> targets[o.refs[i]].ext])

=============================================================================
