----------------------- MODULE ManagedReconcilerProofs -----------------------
(***************************************************************************)
(* Theorems about ManagedReconciler, for every value of its constants.       *)
(***************************************************************************)
EXTENDS ManagedReconciler, TLAPS

-----------------------------------------------------------------------------
(* The transactions keep relationships between known nodes. *)

LEMMA AddedRelationships ==
  ASSUME NEW N, NEW E, E \subseteq Relationships(N), NEW u \in N, NEW refs, NEW live,
         live \subseteq N
  PROVE  /\ AddUserPersonaRelation(E, u, refs, live) \subseteq Relationships(N)
         /\ AddPersonaPermissionSetRelation(E, u, refs, live) \subseteq Relationships(N)
BY DEF AddUserPersonaRelation, AddPersonaPermissionSetRelation, Relationships

LEMMA UpdatedRelationships ==
  ASSUME NEW N, NEW E, E \subseteq Relationships(N), NEW named, NEW refs, NEW live,
         live \subseteq N
  PROVE  /\ UpdateUser(E, named, refs, live) \subseteq Relationships(N)
         /\ UpdatePersona(E, named, refs, live) \subseteq Relationships(N)
BY DEF UpdateUser, UpdatePersona, Relationships

LEMMA DetachedRelationships ==
  ASSUME NEW N, NEW E, E \subseteq Relationships(N), NEW u
  PROVE  DetachDelete(E, u) \subseteq Relationships(N)
BY DEF DetachDelete

-----------------------------------------------------------------------------
(* Type correctness.  Beyond TypeOK, the worker has a resource whenever it is *)
(* busy, its copy is of an object that existed, and it knows the uuid of the  *)
(* node whose relationships it is about to create or to record.              *)

WorkerOK ==
  /\ w.pc # "idle" => w.cr \in CRs /\ w.mg.phase = "present"
  /\ w.pc \in {"createEdges", "recordSucceeded"} => w.made \in Uuids

TypeInv == TypeOK /\ WorkerOK

USE KindAssumption, NamesAssumption, BoundsAssumption

LEMMA BlankType == Blank \in Object
BY DEF Blank, Object, Times, ExtNames

LEMMA IdleType == Idle \in Worker /\ Idle.pc = "idle"
BY BlankType DEF Idle, Worker, PastCheck, CreateSection

LEMMA InitType == Init => TypeInv
BY BlankType, IdleType
   DEF Init, TypeInv, TypeOK, WorkerOK, Times, Attempt, Relationships

(* client.Update keeps the types if what it writes and where it goes have them. *)
LEMMA UpdateType ==
  ASSUME TypeInv, NEW o \in Object, NEW next \in Worker, Update(o, next)
  PROVE  /\ api' \in [CRs -> Object]
         /\ synced' \subseteq CRs
         /\ w' \in Worker
         /\ faults' \in 0 .. MaxFaults
         /\ w' \in {Idle, next}
BY IdleType DEF Update, Stored, NoFault, Fault, Quit, Return, TypeInv, TypeOK

LEMMA FaultType ==
  ASSUME TypeOK, Fault
  PROVE  faults' \in 0 .. MaxFaults
BY DEF TypeOK, Fault

LEMMA ReturnType ==
  ASSUME TypeOK, Return \/ Quit
  PROVE  synced' \subseteq CRs /\ w' = Idle
BY DEF TypeOK, Return, Quit

LEMMA CriticalType ==
  ASSUME TypeOK, NEW m \in Object, NEW settled \in {"recorded", "failed"},
         UpdateCriticalAnnotations(m, settled)
  PROVE  /\ api' \in [CRs -> Object]
         /\ synced' \subseteq CRs
         /\ w' = Idle
         /\ faults' \in 0 .. MaxFaults
         /\ attempt' \in [Uuids -> Attempt]
<1>1. CASE w.cr \in synced /\ NoFault
           /\ api' = [api EXCEPT ![w.cr] = AddAnnotations(api[w.cr], m)]
           /\ synced' = synced \ {w.cr}
           /\ attempt' = [u \in Uuids |-> IF u = w.made THEN [attempt[u] EXCEPT !.fate = settled]
                                                        ELSE attempt[u]]
           /\ w' = Idle
  <2>1. w.cr \in CRs
    BY <1>1 DEF TypeOK
  <2>2. AddAnnotations(api[w.cr], m) \in Object
    BY <2>1 DEF TypeOK, AddAnnotations, Object
  <2>3. attempt' \in [Uuids -> Attempt]
    BY <1>1 DEF TypeOK, Attempt
  <2> QED
    BY <1>1, <2>1, <2>2, <2>3 DEF TypeOK, NoFault
<1>2. CASE Fault /\ w' = Idle /\ UNCHANGED <<api, attempt>> /\ synced' \in {synced, synced \ {w.cr}}
  BY <1>2, FaultType DEF TypeOK
<1> QED
  BY <1>1, <1>2 DEF UpdateCriticalAnnotations

LEMMA OtherWriteType ==
  ASSUME TypeInv, NEW c \in CRs, NEW o \in Object, WrittenByOther(c, o)
  PROVE  /\ api' \in [CRs -> Object]
         /\ synced' \subseteq CRs
         /\ w' \in Worker
         /\ WorkerOK'
BY DEF TypeInv, TypeOK, WorkerOK, WrittenByOther, Worker

(* What the state machine does to the relationships keeps their type. *)
LEMMA RelationsType ==
  ASSUME TypeOK
  PROVE  /\ \A u \in Uuids : \A refs : RelationsAdded(u, refs) \subseteq Relationships(Uuids \cup Targets)
         /\ \A c, refs : RelationsUpdated(c, refs) \subseteq Relationships(Uuids \cup Targets)
         /\ \A u : DetachDelete(edges, u) \subseteq Relationships(Uuids \cup Targets)
<1> DEFINE N == Uuids \cup Targets
<1>1. edges \subseteq Relationships(N) /\ targets \subseteq N
  BY DEF TypeOK
<1> HIDE DEF N
<1>2. ASSUME NEW u \in N, NEW refs
      PROVE  RelationsAdded(u, refs) \subseteq Relationships(N)
  BY <1>1, AddedRelationships DEF RelationsAdded
<1>3. ASSUME NEW c, NEW refs
      PROVE  RelationsUpdated(c, refs) \subseteq Relationships(N)
  <2> DEFINE named == {u \in Uuids : attempt[u].owner \in {d \in CRs : NodeName[d] = c}}
  <2>1. /\ UpdateUser(edges, named, refs, targets) \subseteq Relationships(N)
        /\ UpdatePersona(edges, named, refs, targets) \subseteq Relationships(N)
    <3> HIDE DEF named
    <3> QED
      BY <1>1, UpdatedRelationships
  <2> QED
    BY <2>1 DEF RelationsUpdated
<1>4. ASSUME NEW u
      PROVE  DetachDelete(edges, u) \subseteq Relationships(N)
  BY <1>1, DetachedRelationships
<1> QED
  BY <1>2, <1>3, <1>4 DEF N

LEMMA StepType == TypeInv /\ [Next]_vars => TypeInv'
<1> SUFFICES ASSUME TypeInv, [Next]_vars
             PROVE  TypeInv'
  OBVIOUS
<1> USE DEF TypeInv
<1>w. /\ w \in Worker /\ w.mg \in Object 
      /\ w = [pc |-> w.pc, cr |-> w.cr, mg |-> w.mg, fresh |-> w.fresh,
              obs |-> w.obs, made |-> w.made]
  BY DEF TypeOK, Worker
<1>i. Idle \in Worker /\ Idle.pc = "idle"
  BY IdleType
<1>1. ASSUME NEW c \in CRs, Start(c)
      PROVE  TypeInv'
  <2>1. w' \in Worker /\ w'.cr = c /\ w'.mg = cache[c] /\ w'.pc \in {"orphan", "initialize"}
    <3>1. cache[c] \in Object
      BY DEF TypeOK
    <3> DEFINE pc == IF cache[c].deleting /\ c \in OrphanPolicy THEN "orphan" ELSE "initialize"
               fresh == c \in synced
    <3>2. fresh \in BOOLEAN /\ pc \in {"orphan", "initialize"}
      OBVIOUS
    <3>3. w' = [Idle EXCEPT !.cr = c, !.mg = cache[c], !.fresh = fresh, !.pc = pc]
      BY <1>1 DEF Start
    <3> HIDE DEF fresh, pc
    <3> QED
      BY <1>i, <3>1, <3>2, <3>3 DEF Worker
  <2> QED
    BY <1>1, <2>1 DEF Start, TypeOK, WorkerOK
<1>2. ASSUME NEW c \in CRs, CacheSync(c)
      PROVE  TypeInv'
  BY <1>2 DEF CacheSync, TypeOK, WorkerOK
<1>3. ASSUME NEW c \in CRs, UserStep(c)
      PROVE  TypeInv'
  <2>1. CASE ApplyResource(c)
    <3>1. PICK refs \in SUBSET Targets :
            WrittenByOther(c, [Blank EXCEPT !.phase = "present", !.refs = refs])
      BY <2>1 DEF ApplyResource
    <3>2. [Blank EXCEPT !.phase = "present", !.refs = refs] \in Object
      BY BlankType DEF Object
    <3> QED
      BY <2>1, <3>1, <3>2, OtherWriteType DEF ApplyResource, TypeOK
  <2>2. CASE EditSpec(c)
    <3>1. PICK refs \in SUBSET Targets : WrittenByOther(c, [api[c] EXCEPT !.refs = refs])
      BY <2>2 DEF EditSpec
    <3>2. [api[c] EXCEPT !.refs = refs] \in Object
      BY DEF Object, TypeOK
    <3>3. edits' \in 0 .. MaxEdits
      BY <2>2 DEF EditSpec, TypeOK
    <3> QED
      BY <2>2, <3>1, <3>2, <3>3, OtherWriteType DEF EditSpec, TypeOK
  <2>3. CASE DeleteResource(c)
    <3> DEFINE o == IF api[c].finalizer THEN [api[c] EXCEPT !.deleting = TRUE]
                                        ELSE [api[c] EXCEPT !.phase = "gone"]
    <3>1. o \in Object
      <4>1. api[c] \in Object
        BY DEF TypeOK
      <4> QED
        BY <4>1 DEF Object
    <3>2. WrittenByOther(c, o)
      BY <2>3 DEF DeleteResource
    <3> HIDE DEF o
    <3> QED
      BY <2>3, <3>1, <3>2, OtherWriteType DEF DeleteResource, TypeOK
  <2> QED
    BY <1>3, <2>1, <2>2, <2>3 DEF UserStep
<1>4. CASE Initialize
  <2> DEFINE o == [w.mg EXCEPT !.ext = OwnName]
             next == [w EXCEPT !.mg = o, !.pc = "check"]
  <2>1. o \in Object /\ o.phase = w.mg.phase
    BY <1>w DEF Object, ExtNames
  <2>2. next \in Worker /\ next.cr = w.cr /\ next.pc = "check" /\ next.mg = o
    BY <2>1, <1>w DEF Worker
  <2>3. CASE Update(o, next)
    <3> HIDE DEF o, next
    <3> QED
      BY <1>4, <2>1, <2>2, <2>3, <1>i, UpdateType DEF Initialize, TypeOK, WorkerOK
  <2>4. CASE Goto("check") /\ UNCHANGED <<api, synced, faults>>
    BY <1>4, <2>4, <1>w DEF Initialize, Goto, TypeOK, WorkerOK, Worker
  <2> QED
    BY <1>4, <2>3, <2>4 DEF Initialize
<1>5. CASE RefuseIncomplete
  BY <1>5, <1>i, ReturnType DEF RefuseIncomplete, TypeOK, WorkerOK
<1>6. CASE ResolveReferences
  BY <1>6, <1>w DEF ResolveReferences, Goto, TypeOK, WorkerOK, Worker, PastCheck
<1>7. CASE Observe
  <2>1. ASSUME NEW obs \in Observations(w.mg), w' = [w EXCEPT !.obs = obs, !.pc = "decide"],
               NoFault, UNCHANGED synced
        PROVE  TypeInv'
    <3>1. obs \in {"absent", "current", "outdated"}
      BY <2>1 DEF Observations
    <3> QED
      BY <1>7, <2>1, <3>1, <1>w DEF Observe, NoFault, TypeOK, WorkerOK, Worker, PastCheck
  <2>2. CASE Fault /\ Return
    BY <1>7, <2>2, <1>i, ReturnType, FaultType DEF Observe, TypeOK, WorkerOK
  <2> QED
    BY <1>7, <2>1, <2>2 DEF Observe
<1>8. CASE AwaitGrace
  BY <1>8, <1>i, ReturnType DEF AwaitGrace, TypeOK, WorkerOK
<1>9. CASE Decide
  BY <1>9, <1>w DEF Decide, Goto, TypeOK, WorkerOK, Worker, PastCheck
<1>10. CASE Delete
  <2>1. edges' \subseteq Relationships(Uuids \cup Targets)
    <3>1. DetachDelete(edges, w.mg.ext) \subseteq Relationships(Uuids \cup Targets)
      BY RelationsType
    <3>2. edges' = DetachDelete(edges, w.mg.ext) \/ edges' = edges
      BY <1>10 DEF Delete
    <3> QED
      BY <3>1, <3>2 DEF TypeOK
  <2>2. faults' \in 0 .. MaxFaults
    BY <1>10, FaultType DEF Delete, TypeOK, NoFault
  <2>3. nodes' \in [Uuids -> {"unused", "live", "deleted"}]
    BY <1>10 DEF Delete, TypeOK
  <2> QED
    BY <1>10, <2>1, <2>2, <2>3, <1>i, ReturnType DEF Delete, TypeOK, WorkerOK
<1>11. CASE RemoveFinalizer
  <2> DEFINE o == [w.mg EXCEPT !.finalizer = FALSE, !.phase = "gone"]
  <2>1. o \in Object
    BY <1>w DEF Object
  <2>2. CASE Update(o, Idle)
    <3> HIDE DEF o
    <3> QED
      BY <1>11, <2>1, <2>2, <1>i, UpdateType DEF RemoveFinalizer, TypeOK, WorkerOK
  <2>3. CASE Quit /\ UNCHANGED <<api, faults>>
    BY <1>11, <2>3, <1>i, ReturnType DEF RemoveFinalizer, TypeOK, WorkerOK
  <2> QED
    BY <1>11, <2>2, <2>3 DEF RemoveFinalizer
<1>12. CASE AddFinalizer
  <2> DEFINE o == [w.mg EXCEPT !.finalizer = TRUE]
  <2>1. o \in Object /\ o.phase = w.mg.phase
    BY <1>w DEF Object
  <2>2. ASSUME NEW m \in Object, m.phase = w.mg.phase
        PROVE  /\ AfterFinalizer(m) \in Worker /\ AfterFinalizer(m).cr = w.cr
               /\ AfterFinalizer(m).pc \in {"pending", "update"} /\ AfterFinalizer(m).mg = m
    BY <2>2, <1>w DEF AfterFinalizer, Worker, PastCheck
  <2>3. CASE w' = AfterFinalizer(w.mg) /\ UNCHANGED <<api, synced, faults>>
    BY <1>12, <2>2, <2>3, <1>w DEF AddFinalizer, TypeOK, WorkerOK
  <2>4. CASE Update(o, AfterFinalizer(o))
    <3> HIDE DEF o
    <3> DEFINE next == AfterFinalizer(o)
    <3>1. /\ next \in Worker /\ next.cr = w.cr
          /\ next.pc \in {"pending", "update"} /\ next.mg.phase = w.mg.phase
      BY <2>1, <2>2
    <3>2. Update(o, next)
      BY <2>4
    <3> HIDE DEF next
    <3>3. /\ api' \in [CRs -> Object] /\ synced' \subseteq CRs /\ faults' \in 0 .. MaxFaults
          /\ w' \in Worker /\ w' \in {Idle, next}
      BY <2>1, <3>1, <3>2, UpdateType
    <3>4. WorkerOK'
      BY <1>12, <1>i, <3>1, <3>3 DEF AddFinalizer, WorkerOK
    <3> QED
      BY <1>12, <3>3, <3>4 DEF AddFinalizer, TypeOK
  <2> QED
    BY <1>12, <2>3, <2>4 DEF AddFinalizer
<1>13. CASE WritePending
  <2> DEFINE o == [w.mg EXCEPT !.pending = now]
             next == [w EXCEPT !.mg = o, !.pc = "createNode"]
  <2>1. o \in Object /\ o.phase = w.mg.phase
    BY <1>w DEF Object, TypeOK
  <2>2. next \in Worker /\ next.cr = w.cr /\ next.pc = "createNode" /\ next.mg = o
    BY <2>1, <1>w DEF Worker, PastCheck, CreateSection
  <2>3. Update(o, next)
    BY <1>13 DEF WritePending
  <2> HIDE DEF o, next
  <2> QED
    BY <1>13, <2>1, <2>2, <2>3, <1>i, UpdateType DEF WritePending, TypeOK, WorkerOK
<1>14. CASE CreateNode
  <2>1. ASSUME NEW u \in Uuids,
               nodes' = [nodes EXCEPT ![u] = "live"],
               attempt' = [attempt EXCEPT ![u] =
                             [owner |-> w.cr, at |-> w.mg.pending, fate |-> "inflight"]],
               \/ w' = [w EXCEPT !.made = u, !.pc = "createEdges"] /\ NoFault
               \/ w' = [w EXCEPT !.made = u, !.pc = "recordFailed"] /\ Fault
        PROVE  TypeInv'
    <3>1. attempt' \in [Uuids -> Attempt]
      BY <2>1, <1>w DEF TypeOK, Attempt, Worker, Object
    <3>2. nodes' \in [Uuids -> {"unused", "live", "deleted"}]
      BY <2>1 DEF TypeOK
    <3>3. faults' \in 0 .. MaxFaults
      BY <2>1, FaultType DEF NoFault, TypeOK
    <3>4. w' \in Worker /\ WorkerOK'
      BY <1>14, <2>1, <1>w DEF CreateNode, WorkerOK, Worker, PastCheck, CreateSection
    <3> QED
      BY <1>14, <3>1, <3>2, <3>3, <3>4 DEF CreateNode, TypeOK
  <2>2. CASE Fault /\ Goto("recordFailed") /\ UNCHANGED <<nodes, attempt>>
    BY <1>14, <2>2, <1>w, FaultType
       DEF CreateNode, Goto, TypeOK, WorkerOK, Worker, PastCheck, CreateSection
  <2> QED
    BY <1>14, <2>1, <2>2 DEF CreateNode
<1>15. CASE CreateEdges
  <2>1. edges' \subseteq Relationships(Uuids \cup Targets)
    <3>1. edges' = RelationsAdded(w.made, w.mg.refs) \/ edges' = edges
      BY <1>15 DEF CreateEdges
    <3>2. w.made \in Uuids
      BY <1>15 DEF CreateEdges, WorkerOK
    <3> QED
      BY <3>1, <3>2, RelationsType DEF TypeOK
  <2>2. faults' \in 0 .. MaxFaults
    BY <1>15, FaultType DEF CreateEdges, NoFault, TypeOK
  <2>3. w' \in Worker /\ WorkerOK'
    <3>1. [w.mg EXCEPT !.ext = w.made] \in Object
      BY <1>w DEF Worker, Object, ExtNames
    <3> QED
      BY <1>15, <3>1, <1>w
         DEF CreateEdges, Goto, WorkerOK, Worker, Object, PastCheck, CreateSection
  <2> QED
    BY <1>15, <2>1, <2>2, <2>3 DEF CreateEdges, TypeOK
<1>16. CASE RecordFailed
  <2>1. [w.mg EXCEPT !.failed = now] \in Object
    BY <1>w DEF Object, TypeOK
  <2> QED
    BY <1>16, <2>1, <1>i, CriticalType DEF RecordFailed, TypeOK, WorkerOK
<1>17. CASE RecordSucceeded
  <2>1. [w.mg EXCEPT !.succeeded = now] \in Object
    BY <1>w DEF Object, TypeOK
  <2> QED
    BY <1>17, <2>1, <1>i, CriticalType DEF RecordSucceeded, TypeOK, WorkerOK
<1>18. CASE UpToDate
  BY <1>18, <1>i, ReturnType DEF UpToDate, TypeOK, WorkerOK
<1>19. CASE UpdateExternal
  <2>1. edges' \subseteq Relationships(Uuids \cup Targets)
    <3>1. RelationsUpdated(w.cr, w.mg.refs) \subseteq Relationships(Uuids \cup Targets)
      BY RelationsType
    <3>2. edges' = RelationsUpdated(w.cr, w.mg.refs) \/ edges' = edges
      BY <1>19 DEF UpdateExternal
    <3> QED
      BY <3>1, <3>2 DEF TypeOK
  <2>2. faults' \in 0 .. MaxFaults
    BY <1>19, FaultType DEF UpdateExternal, TypeOK, NoFault
  <2> QED
    BY <1>19, <2>1, <2>2, <1>i, ReturnType DEF UpdateExternal, TypeOK, WorkerOK
<1>20. CASE CrashRestart
  BY <1>20, <1>i, FaultType DEF CrashRestart, TypeOK, WorkerOK
<1>21. ASSUME NEW t \in Targets, DeleteTarget(t)
       PROVE  TypeInv'
  BY <1>21, RelationsType DEF DeleteTarget, TypeOK, WorkerOK
<1>22. CASE Tick
  BY <1>22 DEF Tick, TypeOK, WorkerOK, Times
<1>23. CASE UNCHANGED vars
  BY <1>23 DEF vars, TypeOK, WorkerOK
<1> QED
  BY <1>1, <1>2, <1>3, <1>4, <1>5, <1>6, <1>7, <1>8, <1>9, <1>10, <1>11, <1>12, <1>13,
     <1>14, <1>15, <1>16, <1>17, <1>18, <1>19, <1>20, <1>21, <1>22, <1>23
     DEF Next, WorkerStep

(* The types hold in every reachable state, whatever the sets and the bounds. *)
THEOREM TypeCorrect == Spec => []TypeOK
<1>1. TypeInv => TypeOK
  BY DEF TypeInv
<1> QED
  BY InitType, StepType, <1>1, PTL DEF Spec

-----------------------------------------------------------------------------
(* Write-ahead.  The two properties proved here are not inductive: that a     *)
(* creation starts only over a settled past follows from what the worker      *)
(* checked on its copy, which is the object of the API server only if the     *)
(* version is still the latest one.                                           *)

Busy == w.pc \notin CreateSection \cup {"idle"}

(* A copy said to be of the latest version is equal to the object. *)
CopiesCurrent ==
  /\ \A c \in synced : cache[c] = api[c]
  /\ w.fresh /\ Busy => w.mg = api[w.cr]

(* What the worker has established about its copy. *)
CheckedCopy ==
  /\ w.pc \in PastCheck \ CreateSection => ~ExternalCreateIncomplete(w.mg)
  /\ w.pc = "pending" => w.mg.finalizer

(* No create-pending time lies in the future, and a creation of unknown *)
(* outcome is not later than the create-pending time of its resource.   *)
PendingCovers ==
  /\ \A c \in CRs : /\ api[c].pending <= now
                    /\ api[c].phase = "absent" => api[c].pending = 0
  /\ \A u \in Uuids :
       attempt[u].fate = "inflight" =>
         attempt[u].owner \in CRs /\ attempt[u].at <= api[attempt[u].owner].pending

WriteAheadInv ==
  /\ CopiesCurrent
  /\ CheckedCopy
  /\ PendingCovers
  /\ CreatedUnderDurableMark
  /\ UnrecordedCreateBlocks

LEMMA InitWriteAhead == Init => WriteAheadInv
BY DEF Init, WriteAheadInv, CopiesCurrent, CheckedCopy, PendingCovers,
       CreatedUnderDurableMark, UnrecordedCreateBlocks, Idle, Blank, Busy,
       PastCheck, CreateSection

(* A reconcile that ends without writing the object. *)
LEMMA EndKeeps ==
  ASSUME TypeInv, WriteAheadInv, w' = Idle, synced' \subseteq synced,
         UNCHANGED <<now, api, cache, attempt>>
  PROVE  WriteAheadInv'
BY DEF WriteAheadInv, CopiesCurrent, CheckedCopy, PendingCovers,
       CreatedUnderDurableMark, UnrecordedCreateBlocks, Idle, Busy,
       PastCheck, CreateSection

(* A step that neither writes the object nor enters a creation. *)
LEMMA MoveKeeps ==
  ASSUME TypeInv, WriteAheadInv, Busy, w'.pc \notin CreateSection, CheckedCopy',
         w'.mg = w.mg, w'.cr = w.cr, w'.fresh = w.fresh,
         UNCHANGED <<now, api, cache, synced, attempt>>
  PROVE  WriteAheadInv'
BY DEF WriteAheadInv, CopiesCurrent, PendingCovers,
       CreatedUnderDurableMark, UnrecordedCreateBlocks, Busy, CreateSection

(* client.Update of anything but the creation annotations. *)
LEMMA UpdateKeeps ==
  ASSUME TypeInv, WriteAheadInv, Busy, w.pc # "idle",
         NEW o \in Object, NEW next \in Worker, Update(o, next),
         o.pending = w.mg.pending, o.phase # "absent",
         \/ next = Idle
         \/ next.mg = o /\ next.cr = w.cr /\ next.pc \notin CreateSection,
         next.pc \in PastCheck \ CreateSection => ~ExternalCreateIncomplete(next.mg),
         next.pc = "pending" => next.mg.finalizer,
         UNCHANGED <<now, cache, attempt>>
  PROVE  WriteAheadInv'
<1>c. w.cr \in CRs /\ api \in [CRs -> Object]
  BY DEF TypeInv, TypeOK, WorkerOK
<1>1. CASE Stored(o) /\ w' \in {Idle, next}
  <2>1. w.mg = api[w.cr]
    BY <1>1 DEF Stored, WriteAheadInv, CopiesCurrent
  <2>2. /\ api'[w.cr] = o /\ \A c \in CRs \ {w.cr} : api'[c] = api[c]
        /\ w.cr \notin synced' /\ synced' \subseteq synced
    BY <1>1, <1>c DEF Stored
  <2>3. w'.pc \notin CreateSection
    BY <1>1 DEF Idle, CreateSection
  <2>4. CopiesCurrent'
    BY <1>1, <1>c, <2>2, <2>3
       DEF WriteAheadInv, CopiesCurrent, Busy, Idle, TypeInv, TypeOK
  <2>5. CheckedCopy'
    BY <1>1 DEF CheckedCopy, Idle, PastCheck, CreateSection
  <2>6. PendingCovers'
    BY <1>c, <2>1, <2>2 DEF WriteAheadInv, PendingCovers, TypeInv, TypeOK
  <2>7. CreatedUnderDurableMark' /\ UnrecordedCreateBlocks'
    BY <2>3 DEF CreatedUnderDurableMark, UnrecordedCreateBlocks, CreateSection
  <2> QED
    BY <2>4, <2>5, <2>6, <2>7 DEF WriteAheadInv
<1>2. CASE w' = Idle /\ synced' \subseteq synced /\ UNCHANGED api
  BY <1>2, EndKeeps
<1> QED
  BY <1>1, <1>2 DEF Update, Quit, Return

(* A write by a user, which leaves the creation annotations alone. *)
LEMMA OtherWriteKeeps ==
  ASSUME TypeInv, WriteAheadInv, NEW c \in CRs, NEW o \in Object, WrittenByOther(c, o),
         o.pending = api[c].pending, o.phase # "absent",
         api[c].phase = "present" =>
           o.succeeded = api[c].succeeded /\ o.failed = api[c].failed,
         api[c].phase = "present" /\ api[c].finalizer =>
           o.phase = "present" /\ o.finalizer,
         UNCHANGED <<now, cache, attempt>>
  PROVE  WriteAheadInv'
<1>1. /\ api \in [CRs -> Object] /\ w \in Worker /\ synced \subseteq CRs
  BY DEF TypeInv, TypeOK
<1>2. /\ api'[c] = o /\ \A d \in CRs \ {c} : api'[d] = api[d]
      /\ synced' = synced \ {c}
  BY <1>1 DEF WrittenByOther
<1>3. /\ w'.pc = w.pc /\ w'.mg = w.mg /\ w'.cr = w.cr
      /\ w'.fresh => w.fresh /\ w.cr # c
  BY <1>1 DEF WrittenByOther, Worker
<1>4. CopiesCurrent'
  <2>1. \A d \in synced' : cache'[d] = api'[d]
    BY <1>1, <1>2 DEF WriteAheadInv, CopiesCurrent
  <2>2. w'.fresh /\ Busy' => w'.mg = api'[w'.cr]
    BY <1>2, <1>3 DEF WriteAheadInv, CopiesCurrent, Busy, TypeInv, WorkerOK
  <2> QED
    BY <2>1, <2>2 DEF CopiesCurrent
<1>5. CheckedCopy'
  BY <1>3 DEF WriteAheadInv, CheckedCopy, ExternalCreateIncomplete, LatestOutcome
<1>6. PendingCovers'
  BY <1>1, <1>2 DEF WriteAheadInv, PendingCovers
<1>7. CreatedUnderDurableMark'
  BY <1>2, <1>3 DEF WriteAheadInv, CreatedUnderDurableMark, TypeInv, WorkerOK, CreateSection
<1>8. UnrecordedCreateBlocks'
  BY <1>2, <1>3
     DEF WriteAheadInv, CreatedUnderDurableMark, UnrecordedCreateBlocks, TypeInv, WorkerOK,
         CreateSection, LatestOutcome
<1> QED
  BY <1>4, <1>5, <1>6, <1>7, <1>8 DEF WriteAheadInv

LEMMA StepWriteAhead == TypeInv /\ WriteAheadInv /\ [Next]_vars => WriteAheadInv'
<1> SUFFICES ASSUME TypeInv, WriteAheadInv, [Next]_vars
             PROVE  WriteAheadInv'
  OBVIOUS
<1>t. /\ w \in Worker /\ w.mg \in Object /\ now \in Nat \ {0}
      /\ api \in [CRs -> Object] /\ cache \in [CRs -> Object] /\ synced \subseteq CRs
      /\ attempt \in [Uuids -> Attempt]
      /\ w = [pc |-> w.pc, cr |-> w.cr, mg |-> w.mg, fresh |-> w.fresh,
              obs |-> w.obs, made |-> w.made]
  BY DEF TypeInv, TypeOK, Worker, Times
<1>i. Idle \in Worker /\ Idle.pc = "idle"
  BY IdleType
<1>1. ASSUME NEW c \in CRs, Start(c)
      PROVE  WriteAheadInv'
  <2>1. /\ w'.cr = c /\ w'.mg = cache[c] /\ (w'.fresh <=> c \in synced)
        /\ w'.pc \in {"orphan", "initialize"}
    BY <1>1 DEF Start, Idle
  <2>2. CopiesCurrent'
    BY <1>1, <2>1 DEF Start, WriteAheadInv, CopiesCurrent
  <2> QED
    BY <1>1, <2>1, <2>2
       DEF Start, WriteAheadInv, CheckedCopy, PendingCovers, CreatedUnderDurableMark,
           UnrecordedCreateBlocks, PastCheck, CreateSection
<1>2. ASSUME NEW c \in CRs, CacheSync(c)
      PROVE  WriteAheadInv'
  BY <1>2, <1>t
     DEF CacheSync, WriteAheadInv, CopiesCurrent, CheckedCopy, PendingCovers, Busy,
         CreatedUnderDurableMark, UnrecordedCreateBlocks
<1>3. ASSUME NEW c \in CRs, ApplyResource(c)
      PROVE  WriteAheadInv'
  <2>1. PICK refs \in SUBSET Targets :
          WrittenByOther(c, [Blank EXCEPT !.phase = "present", !.refs = refs])
    BY <1>3 DEF ApplyResource
  <2> DEFINE o == [Blank EXCEPT !.phase = "present", !.refs = refs]
  <2>2. o \in Object /\ o.pending = 0 /\ o.phase = "present"
    BY BlankType DEF Object, Blank
  <2>3. api[c].phase = "absent" /\ api[c].pending = 0 /\ UNCHANGED <<now, cache, attempt>>
    BY <1>3 DEF ApplyResource, WriteAheadInv, PendingCovers
  <2> HIDE DEF o
  <2> QED
    BY <2>1, <2>2, <2>3, OtherWriteKeeps DEF o
<1>4. ASSUME NEW c \in CRs, EditSpec(c)
      PROVE  WriteAheadInv'
  <2>1. PICK refs \in SUBSET Targets : WrittenByOther(c, [api[c] EXCEPT !.refs = refs])
    BY <1>4 DEF EditSpec
  <2> DEFINE o == [api[c] EXCEPT !.refs = refs]
  <2>2. /\ o \in Object /\ o.pending = api[c].pending /\ o.phase = api[c].phase
        /\ o.succeeded = api[c].succeeded /\ o.failed = api[c].failed
        /\ o.finalizer = api[c].finalizer
    BY <1>t DEF Object
  <2>3. api[c].phase = "present" /\ UNCHANGED <<now, cache, attempt>>
    BY <1>4 DEF EditSpec
  <2>4. WrittenByOther(c, o)
    BY <2>1
  <2> HIDE DEF o
  <2> QED
    BY <2>2, <2>3, <2>4, OtherWriteKeeps
<1>5. ASSUME NEW c \in CRs, DeleteResource(c)
      PROVE  WriteAheadInv'
  <2> DEFINE o == IF api[c].finalizer THEN [api[c] EXCEPT !.deleting = TRUE]
                                      ELSE [api[c] EXCEPT !.phase = "gone"]
  <2>0. api[c] \in Object
    BY <1>t
  <2>1. /\ o \in Object /\ o.pending = api[c].pending
        /\ o.succeeded = api[c].succeeded /\ o.failed = api[c].failed
        /\ o.phase \in {api[c].phase, "gone"}
        /\ api[c].finalizer => o.phase = api[c].phase /\ o.finalizer
    BY <2>0 DEF Object
  <2>2. WrittenByOther(c, o) /\ api[c].phase = "present" /\ UNCHANGED <<now, cache, attempt>>
    BY <1>5 DEF DeleteResource
  <2> HIDE DEF o
  <2> QED
    BY <2>1, <2>2, OtherWriteKeeps
<1>6. CASE Initialize
  <2> DEFINE o == [w.mg EXCEPT !.ext = OwnName]
             next == [w EXCEPT !.mg = o, !.pc = "check"]
  <2>0. Busy /\ w.pc # "idle" /\ w.cr \in CRs /\ w.mg.phase = "present"
        /\ UNCHANGED <<now, cache, attempt>>
    BY <1>6 DEF Initialize, Busy, CreateSection, TypeInv, WorkerOK
  <2>1. o \in Object /\ o.phase = w.mg.phase /\ o.pending = w.mg.pending
    BY <1>t DEF Object, ExtNames
  <2>2. next \in Worker /\ next.cr = w.cr /\ next.pc = "check" /\ next.mg = o
    BY <2>1, <1>t DEF Worker
  <2>3. "check" \notin PastCheck /\ "check" \notin CreateSection
    BY DEF PastCheck, CreateSection
  <2>4. CASE Update(o, next)
    <3> HIDE DEF o, next
    <3> QED
      BY <2>0, <2>1, <2>2, <2>3, <2>4, UpdateKeeps
  <2>5. CASE Goto("check") /\ UNCHANGED <<api, synced, faults>>
    <3>1. w'.pc = "check" /\ w'.mg = w.mg /\ w'.cr = w.cr /\ w'.fresh = w.fresh
      BY <2>5, <1>t DEF Goto
    <3> QED
      BY <2>0, <2>3, <2>5, <3>1, MoveKeeps DEF CheckedCopy
  <2> QED
    BY <1>6, <2>4, <2>5 DEF Initialize
<1>7. CASE ResolveReferences
  <2>1. /\ w'.pc = "observe" /\ w'.mg = w.mg /\ w'.cr = w.cr /\ w'.fresh = w.fresh
        /\ Busy /\ ~ExternalCreateIncomplete(w.mg)
        /\ UNCHANGED <<now, api, cache, synced, attempt>>
    BY <1>7, <1>t DEF ResolveReferences, Goto, Busy, CreateSection
  <2>2. CheckedCopy' /\ w'.pc \notin CreateSection
    BY <2>1 DEF CheckedCopy, ExternalCreateIncomplete, LatestOutcome, CreateSection
  <2> QED
    BY <2>1, <2>2, MoveKeeps
<1>8. CASE Observe
  <2>1. CASE w'.pc = "decide" /\ w'.mg = w.mg /\ w'.cr = w.cr /\ w'.fresh = w.fresh
             /\ UNCHANGED <<now, api, cache, synced, attempt>>
    <3>1. CheckedCopy' /\ w'.pc \notin CreateSection /\ Busy
      BY <1>8, <2>1
         DEF Observe, WriteAheadInv, CheckedCopy, ExternalCreateIncomplete, LatestOutcome,
             PastCheck, CreateSection, Busy
    <3> QED
      BY <2>1, <3>1, MoveKeeps
  <2>2. CASE Return /\ UNCHANGED <<now, api, cache, attempt>>
    BY <2>2, EndKeeps DEF Return
  <2> QED
    BY <1>8, <2>1, <2>2, <1>t DEF Observe
<1>9. CASE Decide
  <2>1. /\ w'.pc \in {"addFinalizer", "finalize", "delete"}
        /\ w'.mg = w.mg /\ w'.cr = w.cr /\ w'.fresh = w.fresh
        /\ UNCHANGED <<now, api, cache, synced, attempt>>
    BY <1>9, <1>t DEF Decide, Goto
  <2>2. CheckedCopy' /\ w'.pc \notin CreateSection /\ Busy
    BY <1>9, <2>1
       DEF Decide, WriteAheadInv, CheckedCopy, ExternalCreateIncomplete, LatestOutcome,
           PastCheck, CreateSection, Busy
  <2> QED
    BY <2>1, <2>2, MoveKeeps
<1>10. CASE RefuseIncomplete \/ AwaitGrace \/ Delete \/ UpToDate \/ UpdateExternal
  BY <1>10, EndKeeps
     DEF RefuseIncomplete, AwaitGrace, Delete, UpToDate, UpdateExternal, Return, Quit
<1>11. CASE RemoveFinalizer
  <2> DEFINE o == [w.mg EXCEPT !.finalizer = FALSE, !.phase = "gone"]
  <2>0. Busy /\ w.pc # "idle" /\ UNCHANGED <<now, cache, attempt>>
    BY <1>11 DEF RemoveFinalizer, Busy, CreateSection
  <2>1. o \in Object /\ o.pending = w.mg.pending /\ o.phase = "gone"
    BY <1>t DEF Object
  <2>2. Idle.pc \notin PastCheck
    BY <1>i DEF PastCheck, CreateSection
  <2>3. CASE Update(o, Idle)
    <3> HIDE DEF o
    <3> QED
      BY <2>0, <2>1, <2>2, <2>3, <1>i, UpdateKeeps
  <2>4. CASE Quit /\ UNCHANGED <<api, faults>>
    BY <2>0, <2>4, EndKeeps DEF Quit
  <2> QED
    BY <1>11, <2>3, <2>4 DEF RemoveFinalizer
<1>12. CASE AddFinalizer
  <2> DEFINE o == [w.mg EXCEPT !.finalizer = TRUE]
  <2>0. /\ Busy /\ w.pc # "idle" /\ ~ExternalCreateIncomplete(w.mg)
        /\ w.mg.phase = "present" /\ UNCHANGED <<now, cache, attempt>>
    BY <1>12 DEF AddFinalizer, Busy, PastCheck, CreateSection, WriteAheadInv, CheckedCopy,
                 TypeInv, WorkerOK
  <2>1. o \in Object /\ o.pending = w.mg.pending /\ o.phase = "present" /\ o.finalizer
        /\ ~ExternalCreateIncomplete(o)
    BY <1>t, <2>0 DEF Object, ExternalCreateIncomplete, LatestOutcome
  <2>2. ASSUME NEW m \in Object
        PROVE  /\ AfterFinalizer(m) \in Worker /\ AfterFinalizer(m).cr = w.cr
               /\ AfterFinalizer(m).pc \in {"pending", "update"} /\ AfterFinalizer(m).mg = m
               /\ AfterFinalizer(m).fresh = w.fresh
    BY <2>2, <1>t DEF AfterFinalizer, Worker, PastCheck
  <2>3. {"pending", "update"} \cap CreateSection = {}
    BY DEF CreateSection
  <2>4. CASE w.mg.finalizer /\ w' = AfterFinalizer(w.mg) /\ UNCHANGED <<api, synced, faults>>
    <3>1. /\ w'.pc \in {"pending", "update"} /\ w'.mg = w.mg /\ w'.cr = w.cr
          /\ w'.fresh = w.fresh
      BY <2>2, <2>4, <1>t
    <3>2. CheckedCopy'
      BY <2>0, <2>4, <3>1 DEF CheckedCopy, ExternalCreateIncomplete, LatestOutcome
    <3> QED
      BY <2>0, <2>3, <2>4, <3>1, <3>2, MoveKeeps
  <2>5. CASE Update(o, AfterFinalizer(o))
    <3> HIDE DEF o
    <3> QED
      BY <2>0, <2>1, <2>2, <2>3, <2>5, UpdateKeeps
  <2> QED
    BY <1>12, <2>4, <2>5 DEF AddFinalizer
<1>13. CASE WritePending
  <2> DEFINE o == [w.mg EXCEPT !.pending = now]
             next == [w EXCEPT !.mg = o, !.pc = "createNode"]
  <2>0. /\ w.pc = "pending" /\ w.cr \in CRs /\ w.mg.phase = "present" /\ w.mg.finalizer
        /\ ~ExternalCreateIncomplete(w.mg) /\ Update(o, next)
        /\ UNCHANGED <<now, cache, attempt>>
    BY <1>13 DEF WritePending, PastCheck, CreateSection, WriteAheadInv, CheckedCopy,
                 TypeInv, WorkerOK
  <2>1. /\ o \in Object /\ o.phase = "present" /\ o.finalizer /\ o.pending = now
        /\ LatestOutcome(o) = LatestOutcome(w.mg)
    BY <1>t, <2>0 DEF Object, LatestOutcome, TypeInv, TypeOK
  <2>2. next \in Worker /\ next.cr = w.cr /\ next.pc = "createNode" /\ next.mg = o
    BY <2>1, <1>t DEF Worker, PastCheck, CreateSection
  <2>3. CASE w' = Idle /\ synced' \subseteq synced /\ UNCHANGED api
    BY <2>0, <2>3, EndKeeps
  <2>4. CASE Stored(o) /\ w' \in {next, Idle}
    <3>1. w.mg = api[w.cr] /\ w.mg.pending <= now
      BY <2>0, <2>4
         DEF Stored, WriteAheadInv, CopiesCurrent, PendingCovers, Busy, CreateSection
    <3>2. /\ api'[w.cr] = o /\ \A c \in CRs \ {w.cr} : api'[c] = api[c]
          /\ synced' = synced \ {w.cr}
      BY <1>t, <2>0, <2>4 DEF Stored
    <3>3. \A u \in Uuids : attempt[u].owner = w.cr /\ attempt[u].fate = "inflight"
                             => attempt[u].at <= LatestOutcome(w.mg)
      <4> SUFFICES ASSUME NEW u \in Uuids,
                          attempt[u].owner = w.cr /\ attempt[u].fate = "inflight"
                   PROVE  attempt[u].at <= LatestOutcome(w.mg)
        OBVIOUS
      <4>1. attempt[u].at <= w.mg.pending
        BY <3>1 DEF WriteAheadInv, PendingCovers
      <4>2. w.mg.pending = 0 \/ w.mg.pending <= LatestOutcome(w.mg)
        BY <1>t, <2>0 DEF ExternalCreateIncomplete, LatestOutcome, Object, Times
      <4>3. /\ attempt[u].at \in Nat /\ w.mg.pending \in Nat /\ LatestOutcome(w.mg) \in Nat
        BY <1>t DEF Attempt, Object, Times, LatestOutcome
      <4> QED
        BY <4>1, <4>2, <4>3
    <3> HIDE DEF o, next
    <3>4. CopiesCurrent'
      BY <1>t, <2>0, <2>2, <2>4, <3>2
         DEF WriteAheadInv, CopiesCurrent, Busy, Idle, CreateSection
    <3>5. CheckedCopy'
      BY <2>2, <2>4 DEF CheckedCopy, Idle, PastCheck, CreateSection
    <3>6. PendingCovers'
      BY SMTT(60), <1>t, <2>0, <2>1, <3>1, <3>2
         DEF WriteAheadInv, PendingCovers, Attempt, Object, Times
    <3>7. CreatedUnderDurableMark'
      BY <1>t, <1>i, <2>1, <2>2, <2>4, <3>2 DEF CreatedUnderDurableMark, CreateSection
    <3>8. UnrecordedCreateBlocks'
      BY <1>i, <2>0, <2>1, <2>2, <2>4, <3>2, <3>3 DEF UnrecordedCreateBlocks, LatestOutcome
    <3> QED
      BY <3>4, <3>5, <3>6, <3>7, <3>8 DEF WriteAheadInv
  <2> QED
    BY <2>0, <2>3, <2>4 DEF Update, Quit, Return
<1>14. CASE CreateNode
  <2>1. /\ w'.pc \in {"createEdges", "recordFailed"} /\ w'.mg = w.mg /\ w'.cr = w.cr
        /\ w.pc = "createNode" /\ w.cr \in CRs
        /\ UNCHANGED <<now, api, cache, synced>>
    BY <1>14, <1>t DEF CreateNode, Goto, TypeInv, WorkerOK
  <2>2. api[w.cr].pending = w.mg.pending
    BY <2>1 DEF WriteAheadInv, CreatedUnderDurableMark, CreateSection
  <2>3. \A u \in Uuids : \/ attempt'[u] = attempt[u]
                         \/ attempt'[u] = [owner |-> w.cr, at |-> w.mg.pending,
                                           fate |-> "inflight"]
    BY <1>14, <1>t DEF CreateNode
  <2>4. PendingCovers'
    <3>1. \A c \in CRs : /\ api'[c].pending <= now'
                         /\ api'[c].phase = "absent" => api'[c].pending = 0
      BY <2>1 DEF WriteAheadInv, PendingCovers
    <3>2. ASSUME NEW u \in Uuids, attempt'[u].fate = "inflight"
          PROVE  attempt'[u].owner \in CRs
                 /\ attempt'[u].at <= api'[attempt'[u].owner].pending
      <4>1. CASE attempt'[u] = attempt[u]
        BY <2>1, <3>2, <4>1 DEF WriteAheadInv, PendingCovers
      <4>2. CASE attempt'[u] = [owner |-> w.cr, at |-> w.mg.pending, fate |-> "inflight"]
        BY <1>t, <2>1, <2>2, <4>2 DEF Object, Times
      <4> QED
        BY <2>3, <4>1, <4>2
    <3> QED
      BY <3>1, <3>2 DEF PendingCovers
  <2> QED
    BY <2>1, <2>4
       DEF WriteAheadInv, CopiesCurrent, CheckedCopy, CreatedUnderDurableMark,
           UnrecordedCreateBlocks, Busy, PastCheck, CreateSection
<1>15. CASE CreateEdges
  <2>1. /\ w'.pc \in {"recordFailed", "recordSucceeded"} /\ w'.mg.pending = w.mg.pending
        /\ w'.cr = w.cr /\ w.pc = "createEdges"
        /\ UNCHANGED <<now, api, cache, synced, attempt>>
    <3>1. /\ \/ w' = [w EXCEPT !.mg.ext = w.made, !.pc = "recordSucceeded"]
             \/ w' = [w EXCEPT !.pc = "recordFailed"]
          /\ w.pc = "createEdges" /\ UNCHANGED <<now, api, cache, synced, attempt>>
      BY <1>15 DEF CreateEdges, Goto
    <3>2. CASE w' = [w EXCEPT !.mg.ext = w.made, !.pc = "recordSucceeded"]
      <4>1. [w.mg EXCEPT !.ext = w.made].pending = w.mg.pending
        BY <1>t DEF Object
      <4>2. /\ w'.mg = [w.mg EXCEPT !.ext = w.made]
            /\ w'.pc = "recordSucceeded" /\ w'.cr = w.cr
        BY <1>t, <3>2 DEF Worker
      <4> QED
        BY <3>1, <4>1, <4>2
    <3>3. CASE w' = [w EXCEPT !.pc = "recordFailed"]
      BY <1>t, <3>1, <3>3 DEF Worker
    <3> QED
      BY <3>1, <3>2, <3>3
  <2> QED
    BY <2>1
       DEF WriteAheadInv, CopiesCurrent, CheckedCopy, PendingCovers, CreatedUnderDurableMark,
           UnrecordedCreateBlocks, Busy, PastCheck, CreateSection
<1>16. ASSUME NEW m, NEW settled \in {"recorded", "failed"},
              UpdateCriticalAnnotations(m, settled), m.pending = w.mg.pending,
              w.pc \in CreateSection, UNCHANGED <<now, cache>>
       PROVE  WriteAheadInv'
  <2>1. CASE w' = Idle /\ UNCHANGED <<api, attempt>> /\ synced' \subseteq synced
    BY <1>16, <2>1, EndKeeps
  <2>2. CASE /\ api' = [api EXCEPT ![w.cr] = AddAnnotations(api[w.cr], m)]
             /\ synced' = synced \ {w.cr} /\ w' = Idle
             /\ attempt' = [u \in Uuids |-> IF u = w.made
                                            THEN [attempt[u] EXCEPT !.fate = settled]
                                            ELSE attempt[u]]
    <3>1. w.cr \in CRs /\ api[w.cr].pending = w.mg.pending
      BY <1>16 DEF WriteAheadInv, CreatedUnderDurableMark, TypeInv, WorkerOK, CreateSection
    <3>2. /\ \A c \in CRs : api'[c].pending = api[c].pending /\ api'[c].phase = api[c].phase
          /\ \A c \in synced' : api'[c] = api[c]
      BY <1>16, <1>t, <2>2, <3>1 DEF AddAnnotations, Object
    <3>3. \A u \in Uuids : /\ attempt'[u].owner = attempt[u].owner
                           /\ attempt'[u].at = attempt[u].at
                           /\ attempt'[u].fate = "inflight" => attempt[u].fate = "inflight"
      BY <1>t, <2>2 DEF Attempt
    <3>4. CopiesCurrent'
      BY <1>16, <1>i, <2>2, <3>2 DEF WriteAheadInv, CopiesCurrent, Busy
    <3>5. PendingCovers'
      BY <1>16, <3>2, <3>3 DEF WriteAheadInv, PendingCovers
    <3> QED
      BY <1>i, <2>2, <3>4, <3>5
         DEF WriteAheadInv, CheckedCopy, CreatedUnderDurableMark, UnrecordedCreateBlocks,
             PastCheck, CreateSection
  <2> QED
    BY <1>16, <2>1, <2>2 DEF UpdateCriticalAnnotations
<1>17. CASE RecordFailed
  <2>1. [w.mg EXCEPT !.failed = now].pending = w.mg.pending
    BY <1>t DEF Object
  <2> QED
    BY <1>16, <1>17, <2>1 DEF RecordFailed, CreateSection
<1>18. CASE RecordSucceeded
  <2>1. [w.mg EXCEPT !.succeeded = now].pending = w.mg.pending
    BY <1>t DEF Object
  <2> QED
    BY <1>16, <1>18, <2>1 DEF RecordSucceeded, CreateSection
<1>19. CASE CrashRestart
  BY <1>19, <1>i
     DEF CrashRestart, WriteAheadInv, CopiesCurrent, CheckedCopy, PendingCovers, Busy,
         CreatedUnderDurableMark, UnrecordedCreateBlocks, PastCheck, CreateSection
<1>20. ASSUME NEW t \in Targets, DeleteTarget(t)
       PROVE  WriteAheadInv'
  BY <1>20
     DEF DeleteTarget, WriteAheadInv, CopiesCurrent, CheckedCopy, PendingCovers, Busy,
         CreatedUnderDurableMark, UnrecordedCreateBlocks, ExternalCreateIncomplete, LatestOutcome
<1>21. CASE Tick
  <2>1. PendingCovers'
    BY <1>21, <1>t DEF Tick, WriteAheadInv, PendingCovers, Object, Times
  <2> QED
    BY <1>21, <2>1
       DEF Tick, WriteAheadInv, CopiesCurrent, CheckedCopy, Busy,
           CreatedUnderDurableMark, UnrecordedCreateBlocks, ExternalCreateIncomplete, LatestOutcome
<1>22. CASE UNCHANGED vars
  BY <1>22
     DEF vars, WriteAheadInv, CopiesCurrent, CheckedCopy, PendingCovers, Busy,
         CreatedUnderDurableMark, UnrecordedCreateBlocks, ExternalCreateIncomplete, LatestOutcome
<1> QED
  BY <1>1, <1>2, <1>3, <1>4, <1>5, <1>6, <1>7, <1>8, <1>9, <1>10, <1>11, <1>12, <1>13,
     <1>14, <1>15, <1>17, <1>18, <1>19, <1>20, <1>21, <1>22
     DEF Next, WorkerStep, UserStep

(* While a node is being created, the API server holds the finalizer and the *)
(* create-pending time of that creation: nothing is created unannounced.     *)
THEOREM WriteAhead == Spec => []CreatedUnderDurableMark
<1>1. WriteAheadInv => CreatedUnderDurableMark
  BY DEF WriteAheadInv
<1> QED
  BY InitType, StepType, InitWriteAhead, StepWriteAhead, <1>1, PTL DEF Spec

(* A creation of unknown outcome stops every later one, unless an outcome that *)
(* was recorded in the same second or later hides it.                          *)
THEOREM NoCreationOverUnknown == Spec => []UnrecordedCreateBlocks
<1>1. WriteAheadInv => UnrecordedCreateBlocks
  BY DEF WriteAheadInv
<1> QED
  BY InitType, StepType, InitWriteAhead, StepWriteAhead, <1>1, PTL DEF Spec

=============================================================================
