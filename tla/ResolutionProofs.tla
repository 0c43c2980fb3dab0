-------------------------- MODULE ResolutionProofs --------------------------
(***************************************************************************)
(* Proofs about ReferenceResolution: type correctness, that values are those *)
(* of the references beside them, and that the resolver takes back no edit.   *)
(***************************************************************************)
EXTENDS ReferenceResolution, FiniteSetTheorems, SequenceTheorems, TLAPS

-----------------------------------------------------------------------------
(* Lists that are no longer than there are names. *)

LEMMA NamesCounted == Cardinality(Names) \in Nat
BY NamesAssumption, FS_CardinalityType

LEMMA ListsAreSequences ==
  ASSUME NEW S, NEW s
  PROVE  s \in Lists(S) <=> s \in Seq(S) /\ Len(s) <= Cardinality(Names)
<1>1. ASSUME s \in Lists(S)
      PROVE  s \in Seq(S) /\ Len(s) <= Cardinality(Names)
  <2>1. PICK n \in 0 .. Cardinality(Names) : s \in [1 .. n -> S]
    BY <1>1 DEF Lists
  <2>2. n \in Nat /\ s \in Seq(S) /\ Len(s) = n
    BY <2>1, NamesCounted
  <2> QED
    BY <2>1, <2>2, NamesCounted
<1>2. ASSUME s \in Seq(S), Len(s) <= Cardinality(Names)
      PROVE  s \in Lists(S)
  <2>1. Len(s) \in 0 .. Cardinality(Names) /\ s \in [1 .. Len(s) -> S]
    BY <1>2, NamesCounted
  <2> QED
    BY <2>1 DEF Lists
<1> QED
  BY <1>1, <1>2

LEMMA EmptyList ==
  ASSUME NEW S
  PROVE  <<>> \in Lists(S)
<1>1. <<>> \in Seq(S) /\ Len(<<>>) <= Cardinality(Names)
  BY NamesCounted, EmptySeq
<1> QED
  BY <1>1, ListsAreSequences

-----------------------------------------------------------------------------
(* Type correctness. *)

(* The worker has a field to do, and a place in it. *)
ReadingOK ==
  /\ worker.pc = "resolve" => worker.todo # {}
  /\ worker.got # <<>> =>
       worker.pc = "resolve" /\ Len(worker.got) < Len(worker.mg[Current].refs)

TypeInv == TypeOK /\ ReadingOK

LEMMA IdleOK == Idle \in Worker /\ Idle.pc = "idle" /\ Idle.got = <<>> /\ ~Idle.fresh
BY EmptyList DEF Idle, Worker, Object, Field

(* What becomes of the worker when the current field is done. *)
LEMMA ResolvedOK ==
  ASSUME TypeInv, worker.pc = "resolve", NEW o \in Field, Resolved(o)
  PROVE  /\ Current \in Fields /\ worker' \in Worker /\ ReadingOK'
         /\ worker'.mg = [worker.mg EXCEPT ![Current] = o]
         /\ worker'.fresh = worker.fresh /\ worker'.got = <<>>
<1>1. Current \in worker.todo
  BY DEF TypeInv, ReadingOK, Current
<1>2. Current \in Fields
  BY <1>1 DEF TypeInv, TypeOK, Worker
<1>3. /\ worker'.mg = [worker.mg EXCEPT ![Current] = o]
      /\ worker'.fresh = worker.fresh /\ worker'.got = <<>>
      /\ worker'.todo = worker.todo \ {Current}
      /\ worker'.pc = IF worker.todo = {Current} THEN "update" ELSE "resolve"
      /\ worker' = [pc |-> worker'.pc, mg |-> worker'.mg, fresh |-> worker'.fresh,
                    todo |-> worker'.todo, got |-> worker'.got]
  BY DEF TypeInv, TypeOK, Worker, Resolved
<1>4. worker'.mg \in Object
  BY <1>2, <1>3 DEF TypeInv, TypeOK, Worker, Object
<1>5. worker' \in Worker
  BY <1>3, <1>4, EmptyList DEF TypeInv, TypeOK, Worker
<1>6. ReadingOK'
  BY <1>1, <1>3 DEF ReadingOK
<1> QED
  BY <1>2, <1>3, <1>5, <1>6

(* The references that are followed are those of the field. *)
LEMMA Followed ==
  ASSUME TypeInv, worker.pc = "resolve"
  PROVE  /\ Current \in Fields /\ CurrentField \in Field
         /\ ToResolve(Current, CurrentField) # <<>> =>
              ToResolve(Current, CurrentField) = CurrentField.refs
<1>1. Current \in Fields
  BY DEF TypeInv, TypeOK, Worker, ReadingOK, Current
<1> QED
  BY <1>1 DEF TypeInv, TypeOK, Worker, Object, CurrentField, ToResolve

(* The next reference, and the values read with that of it. *)
LEMMA NextReference ==
  ASSUME TypeInv, worker.pc = "resolve", ToResolve(Current, CurrentField) # <<>>
  PROVE  LET refs == CurrentField.refs
             n    == Len(worker.got) + 1
             got  == Append(worker.got, cache[refs[n]].ext)
         IN  /\ refs \in Seq(Names) /\ n \in 1 .. Len(refs) /\ refs[n] \in Names
             /\ cache[refs[n]].ext \in ExtNames
             /\ got \in Lists(ExtNames) /\ Len(got) = n
             /\ \A i \in 1 .. n : got[i] = IF i = n THEN cache[refs[n]].ext ELSE worker.got[i]
<1> DEFINE refs == CurrentField.refs
           n    == Len(worker.got) + 1
           got  == Append(worker.got, cache[refs[n]].ext)
<1>1. refs \in Seq(Names) /\ Len(refs) <= Cardinality(Names) /\ refs # <<>>
  BY Followed, ListsAreSequences DEF Field
<1>2. worker.got \in Seq(ExtNames)
  BY ListsAreSequences DEF TypeInv, TypeOK, Worker
<1>3. n \in 1 .. Len(refs)
  <2>1. CASE worker.got = <<>>
    BY <1>1, <2>1
  <2>2. CASE worker.got # <<>>
    BY <1>1, <1>2, <2>2 DEF TypeInv, ReadingOK, CurrentField
  <2> QED
    BY <2>1, <2>2
<1>4. refs[n] \in Names
  BY <1>1, <1>3
<1>5. cache[refs[n]].ext \in ExtNames
  BY <1>4 DEF TypeInv, TypeOK, Target
<1>6. /\ got \in Seq(ExtNames) /\ Len(got) = n
      /\ \A i \in 1 .. n : got[i] = IF i = n THEN cache[refs[n]].ext ELSE worker.got[i]
  BY <1>2, <1>5, AppendProperties
<1>7. got \in Lists(ExtNames)
  <2>1. Len(got) <= Cardinality(Names)
    BY <1>1, <1>3, <1>6, NamesCounted
  <2> QED
    BY <1>6, <2>1, ListsAreSequences
<1> QED
  BY <1>1, <1>3, <1>4, <1>5, <1>6, <1>7

-----------------------------------------------------------------------------
(* The inductive invariant. *)

(* An external name is none, or one that t has or had. *)
NameOf(t, ext) == ext = None \/ ext[1] = t

(* What ValuesAreOfReferences says of a field. *)
Matching(f, o) ==
  o.values # <<>> =>
    /\ Len(o.values) = Len(o.refs)
    /\ \A i \in DOMAIN o.values :
         IF o.values[i] = None THEN "Optional" \in policy[f] ELSE o.values[i][1] = o.refs[i]

(* References as a resolver may leave them. *)
Kept(f, old, new) ==
  new = old \/ "Selector" \in policy[f] \/ ("Optional" \in policy[f] /\ new = <<>>)

(* Resources carry their own names, in the informer too. *)
NamesSound == \A t \in Names : NameOf(t, targets[t].ext) /\ NameOf(t, cache[t].ext)

(* What has been read so far of the current field. *)
ReadingSound ==
  \A i \in DOMAIN worker.got : NameOf(worker.mg[Current].refs[i], worker.got[i])

(* A copy that is not stale differs from the object in what it has resolved. *)
CopySound ==
  worker.fresh =>
    \A f \in Fields : /\ f \notin edited => Matching(f, worker.mg[f])
                      /\ Kept(f, from[f].refs, worker.mg[f].refs)

ResolutionInv ==
  TypeInv /\ NamesSound /\ ReadingSound /\ CopySound /\ ValuesAreOfReferences

-----------------------------------------------------------------------------
(* The steps of the worker. *)

(* Done means written, or dropped as invalid. *)
LEMMA FinishDoes ==
  ASSUME NEW o \in Field, NEW optional \in BOOLEAN, Finish(o, optional)
  PROVE  \/ worker' = Idle
         \/ \E p \in Field : /\ Resolved(p) /\ Valid(o.values, optional)
                             /\ p.refs = o.refs /\ p.values \in {<<>>, o.values}
<1>1. CASE ~Valid(o.values, optional)
  BY <1>1 DEF Finish, Quit
<1>2. CASE Valid(o.values, optional)
  <2>1. Stored(o) \in Field /\ Stored(o).refs = o.refs /\ Stored(o).values \in {<<>>, o.values}
    BY EmptyList DEF Stored, Field
  <2> QED
    BY <1>2, <2>1 DEF Finish
<1> QED
  BY <1>1, <1>2

(* A field whose values were read, one for each reference, matches. *)
LEMMA ReadMatches ==
  ASSUME NEW f, NEW refs, NEW values, NEW optional \in BOOLEAN, NEW p \in Field,
         Len(values) = Len(refs), \A i \in DOMAIN values : NameOf(refs[i], values[i]),
         optional => "Optional" \in policy[f], Valid(values, optional),
         p.refs = refs, p.values \in {<<>>, values}
  PROVE  Matching(f, p)
BY DEF Matching, Valid, NameOf

(* The worker gives up, or it reads one more value, or it is done with the field. *)
LEMMA GetReferenceDoes ==
  ASSUME TypeInv, NamesSound, ReadingSound, GetReference
  PROVE  \/ worker' = Idle
         \/ /\ worker' \in Worker /\ ReadingOK' /\ ReadingSound'
            /\ worker'.mg = worker.mg /\ worker'.fresh = worker.fresh
         \/ \E p \in Field : /\ Resolved(p) /\ Matching(Current, p)
                             /\ Kept(Current, worker.mg[Current].refs, p.refs)
<1> DEFINE refs == CurrentField.refs
           n    == Len(worker.got) + 1
           t    == refs[n]
           got  == Append(worker.got, cache[t].ext)
<1>1. worker.pc = "resolve" /\ ToResolve(Current, CurrentField) # <<>>
  BY DEF GetReference
<1>2. /\ Current \in Fields /\ CurrentField \in Field
      /\ ToResolve(Current, CurrentField) = refs
  BY <1>1, Followed
<1>3. /\ refs \in Seq(Names) /\ n \in 1 .. Len(refs) /\ t \in Names
      /\ got \in Lists(ExtNames) /\ Len(got) = n /\ got \in Seq(ExtNames)
      /\ \A i \in 1 .. n : got[i] = IF i = n THEN cache[t].ext ELSE worker.got[i]
  BY <1>1, NextReference, ListsAreSequences
<1>4. \A i \in DOMAIN got : NameOf(refs[i], got[i])
  <2>1. worker.got \in Seq(ExtNames)
    BY ListsAreSequences DEF TypeInv, TypeOK, Worker
  <2>2. \A i \in 1 .. Len(worker.got) : NameOf(refs[i], worker.got[i])
    BY <2>1 DEF ReadingSound, CurrentField
  <2>3. NameOf(t, cache[t].ext)
    BY <1>3 DEF NamesSound
  <2> QED
    BY <1>3, <2>1, <2>2, <2>3
<1>5. \/ worker' = Idle
      \/ Len(got) < Len(refs) /\ worker' = [worker EXCEPT !.got = got]
      \/ Len(got) = Len(refs)
           /\ Finish([refs |-> refs, values |-> got], OptionalReferences(Current))
      \/ OptionalReferences(Current) /\ Resolved([refs |-> <<>>, values |-> <<>>])
  BY <1>2, <1>3 DEF GetReference, Quit
<1> HIDE DEF got, t, n
<1>6. CASE Len(got) < Len(refs) /\ worker' = [worker EXCEPT !.got = got]
  <2>1. /\ worker'.got = got /\ worker'.pc = "resolve" /\ worker'.mg = worker.mg
        /\ worker'.todo = worker.todo /\ worker'.fresh = worker.fresh /\ worker' \in Worker
    BY <1>1, <1>3, <1>6 DEF TypeInv, TypeOK, Worker
  <2>2. Current' = Current
    BY <2>1 DEF Current
  <2>3. ReadingOK'
    BY <1>6, <2>1, <2>2 DEF TypeInv, ReadingOK, CurrentField
  <2>4. ReadingSound'
    BY <1>4, <2>1, <2>2 DEF ReadingSound, CurrentField
  <2> QED
    BY <2>1, <2>3, <2>4
<1>7. CASE Len(got) = Len(refs)
             /\ Finish([refs |-> refs, values |-> got], OptionalReferences(Current))
  <2>1. [refs |-> refs, values |-> got] \in Field /\ OptionalReferences(Current) \in BOOLEAN
    BY <1>2, <1>3 DEF Field, OptionalReferences
  <2>2. \/ worker' = Idle
        \/ \E p \in Field : /\ Resolved(p) /\ Valid(got, OptionalReferences(Current))
                            /\ p.refs = refs /\ p.values \in {<<>>, got}
    BY <1>7, <2>1, FinishDoes
  <2>3. OptionalReferences(Current) => "Optional" \in policy[Current]
    BY DEF OptionalReferences
  <2>4. \A p \in Field : Valid(got, OptionalReferences(Current))
                           /\ p.refs = refs /\ p.values \in {<<>>, got} => Matching(Current, p)
    BY <1>4, <1>7, <2>1, <2>3, ReadMatches
  <2> QED
    BY <2>2, <2>4 DEF Kept, CurrentField
<1>8. CASE OptionalReferences(Current) /\ Resolved([refs |-> <<>>, values |-> <<>>])
  <2>1. [refs |-> <<>>, values |-> <<>>] \in Field
    BY EmptyList DEF Field
  <2> QED
    BY <1>8, <2>1 DEF OptionalReferences, Matching, Kept
<1> QED
  BY <1>5, <1>6, <1>7, <1>8

OptionalSelector(f) == "Optional" \in policy[f]

LEMMA ListSelectedDoes ==
  ASSUME TypeInv, NamesSound, ListSelected
  PROVE  \/ worker' = Idle
         \/ \E p \in Field : /\ Resolved(p) /\ Matching(Current, p)
                             /\ Kept(Current, worker.mg[Current].refs, p.refs)
<1> DEFINE there == {t \in Names : cache[t].phase = "present"}
           n     == IF Current \in Single /\ there # {} THEN 1 ELSE Cardinality(there)
<1>1. /\ worker.pc = "resolve" /\ ToResolve(Current, CurrentField) = <<>>
      /\ ~IsNoOp(Current, CurrentField)
  BY DEF ListSelected
<1>2. Current \in Fields /\ "Selector" \in policy[Current]
  BY <1>1, Followed DEF IsNoOp
<1>3. n \in 0 .. Cardinality(Names)
  <2>1. IsFiniteSet(there) /\ Cardinality(there) <= Cardinality(Names)
    BY NamesAssumption, FS_Subset
  <2>2. Cardinality(there) \in Nat /\ (Cardinality(there) = 0 <=> there = {})
    BY <2>1, FS_CardinalityType, FS_EmptySet
  <2> QED
    BY <2>1, <2>2, NamesCounted
<1>4. CASE worker' = Idle
  BY <1>4
<1>5. ASSUME NEW refs \in [1 .. n -> there], Finish(Selected(refs), "Optional" \in policy[Current])
      PROVE  \/ worker' = Idle
             \/ \E p \in Field : /\ Resolved(p) /\ Matching(Current, p)
                                 /\ Kept(Current, worker.mg[Current].refs, p.refs)
  <2> DEFINE values == ValuesOf(refs)
  <2>1. /\ refs \in [1 .. n -> Names] /\ values \in [1 .. n -> ExtNames]
        /\ \A i \in 1 .. n : values[i] = cache[refs[i]].ext
    BY DEF ValuesOf, TypeInv, TypeOK, Target
  <2>2. /\ refs \in Lists(Names) /\ values \in Lists(ExtNames)
        /\ Len(refs) = n /\ Len(values) = n /\ DOMAIN values = 1 .. n
    <3> HIDE DEF n, values
    <3> QED
      BY <1>3, <2>1, NamesCounted DEF Lists
  <2>3. Selected(refs) \in Field /\ Selected(refs).refs = refs /\ Selected(refs).values = values
    BY <2>2 DEF Selected, Field
  <2>4. \A i \in DOMAIN values : NameOf(refs[i], values[i])
    BY <2>1, <2>2 DEF NamesSound
  <2>5. /\ OptionalSelector(Current) \in BOOLEAN
        /\ OptionalSelector(Current) => "Optional" \in policy[Current]
        /\ Finish(Selected(refs), OptionalSelector(Current))
    BY <1>5 DEF OptionalSelector
  <2> HIDE DEF values, n
  <2>6. \/ worker' = Idle
        \/ \E p \in Field : /\ Resolved(p) /\ Valid(values, OptionalSelector(Current))
                            /\ p.refs = refs /\ p.values \in {<<>>, values}
    BY <2>3, <2>5, FinishDoes
  <2>7. Len(values) = Len(refs)
    BY <2>2
  <2>8. ASSUME NEW p \in Field, Valid(values, OptionalSelector(Current)),
               p.refs = refs, p.values \in {<<>>, values}
        PROVE  Matching(Current, p)
    BY <2>4, <2>5, <2>7, <2>8, ReadMatches
  <2> QED
    BY <1>2, <2>6, <2>8 DEF Kept
<1> QED
  BY <1>4, <1>5 DEF ListSelected, Quit

-----------------------------------------------------------------------------
(* Init and the steps. *)

LEMMA InitResolution == Init => ResolutionInv
<1> SUFFICES ASSUME Init
             PROVE  ResolutionInv
  OBVIOUS
<1>1. TypeOK
  <2>1. from \in Object
    BY EmptyList DEF Init, Object, Field
  <2>2. targets \in [Names -> Target]
    BY DEF Init, Target, ExtNames
  <2> QED
    BY <2>1, <2>2, IdleOK, BoundsAssumption DEF Init, TypeOK
<1>2. ReadingOK /\ ReadingSound /\ CopySound
  BY IdleOK DEF Init, ReadingOK, ReadingSound, CopySound
<1>3. NamesSound /\ ValuesAreOfReferences
  BY DEF Init, NamesSound, NameOf, ValuesAreOfReferences
<1> QED
  BY <1>1, <1>2, <1>3 DEF ResolutionInv, TypeInv

LEMMA ValuesMatch == ValuesAreOfReferences <=> \A f \in Fields \ edited : Matching(f, from[f])
BY DEF ValuesAreOfReferences, Matching

(* A step of the worker that does not write. *)
LEMMA WorkerKeeps ==
  ASSUME ResolutionInv, UNCHANGED <<policy, from, edited, targets, cache, edits>>,
         faults' \in 0 .. MaxFaults, worker' \in Worker, ReadingOK', ReadingSound', CopySound'
  PROVE  ResolutionInv'
<1>1. TypeOK'
  BY DEF ResolutionInv, TypeInv, TypeOK
<1>2. NamesSound' /\ ValuesAreOfReferences'
  BY DEF ResolutionInv, NamesSound, ValuesAreOfReferences
<1> QED
  BY <1>1, <1>2 DEF ResolutionInv, TypeInv

LEMMA IdleKeeps ==
  ASSUME worker' = Idle
  PROVE  worker' \in Worker /\ ReadingOK' /\ ReadingSound' /\ CopySound'
BY IdleOK DEF ReadingOK, ReadingSound, CopySound

LEMMA ResolvedKeeps ==
  ASSUME ResolutionInv, UNCHANGED <<policy, from, edited>>, worker.pc = "resolve",
         NEW p \in Field, Resolved(p), worker.fresh /\ Current \notin edited => Matching(Current, p),
         Kept(Current, worker.mg[Current].refs, p.refs)
  PROVE  worker' \in Worker /\ ReadingOK' /\ ReadingSound' /\ CopySound'
<1>1. /\ Current \in Fields /\ worker' \in Worker /\ ReadingOK'
      /\ worker'.mg = [worker.mg EXCEPT ![Current] = p]
      /\ worker'.fresh = worker.fresh /\ worker'.got = <<>>
  BY ResolvedOK DEF ResolutionInv
<1>2. ReadingSound'
  BY <1>1 DEF ReadingSound
<1>3. CopySound'
  <2> SUFFICES ASSUME worker.fresh, NEW f \in Fields
               PROVE  /\ f \notin edited => Matching(f, worker.mg[f])'
                      /\ Kept(f, from[f].refs, worker.mg[f].refs)'
    BY <1>1 DEF CopySound
  <2>1. /\ f \notin edited => Matching(f, worker.mg[f])
        /\ Kept(f, from[f].refs, worker.mg[f].refs)
    BY DEF ResolutionInv, CopySound
  <2>2. worker'.mg[f] = IF f = Current THEN p ELSE worker.mg[f]
    BY <1>1 DEF ResolutionInv, TypeInv, TypeOK, Worker, Object
  <2> QED
    BY <2>1, <2>2 DEF Matching, Kept
<1> QED
  BY <1>1, <1>2, <1>3

(* A user writes field f of the referring object. *)
LEMMA WriteFromKeeps ==
  ASSUME ResolutionInv, NEW f \in Fields, NEW o \in Field, WriteFrom([from EXCEPT ![f] = o]),
         edits' \in 0 .. MaxEdits, edited' \subseteq Fields, edited \ {f} \subseteq edited',
         f \notin edited' => Matching(f, o)
  PROVE  ResolutionInv'
<1>1. /\ worker'.pc = worker.pc /\ worker'.mg = worker.mg /\ worker'.todo = worker.todo
      /\ worker'.got = worker.got /\ ~worker'.fresh /\ worker' \in Worker
  BY DEF WriteFrom, ResolutionInv, TypeInv, TypeOK, Worker
<1>2. /\ from' = [from EXCEPT ![f] = o] /\ from' \in Object
      /\ UNCHANGED <<policy, targets, cache, faults>>
  BY DEF WriteFrom, ResolutionInv, TypeInv, TypeOK, Object
<1>3. TypeOK'
  BY <1>1, <1>2 DEF ResolutionInv, TypeInv, TypeOK
<1>4. Current' = Current
  BY <1>1 DEF Current
<1>5. ReadingOK' /\ ReadingSound' /\ CopySound'
  BY <1>1, <1>4 DEF ResolutionInv, TypeInv, ReadingOK, ReadingSound, CopySound
<1>6. NamesSound'
  BY <1>2 DEF ResolutionInv, NamesSound
<1>7. ASSUME NEW g \in Fields, g \notin edited'
      PROVE  Matching(g, from[g])'
  <2>1. CASE g = f
    BY <1>2, <1>7, <2>1 DEF ResolutionInv, TypeInv, TypeOK, Object, Matching
  <2>2. CASE g # f
    <3>1. g \notin edited /\ from'[g] = from[g]
      BY <1>2, <1>7, <2>2 DEF ResolutionInv, TypeInv, TypeOK, Object
    <3> QED
      BY <1>2, <1>7, <3>1, ValuesMatch DEF ResolutionInv, Matching
  <2> QED
    BY <2>1, <2>2
<1>8. ValuesAreOfReferences'
  BY <1>7 DEF ValuesAreOfReferences, Matching
<1> QED
  BY <1>3, <1>5, <1>6, <1>8 DEF ResolutionInv, TypeInv

(* Another controller, or the informer, writes the copy o of t. *)
LEMMA TargetsKeep ==
  ASSUME ResolutionInv, UNCHANGED <<policy, from, edited, worker, faults, edits>>,
         targets' \in [Names -> Target], cache' \in [Names -> Target], NamesSound'
  PROVE  ResolutionInv'
<1>1. TypeOK' /\ ReadingOK'
  BY DEF ResolutionInv, TypeInv, TypeOK, ReadingOK, Current
<1>2. ReadingSound' /\ CopySound' /\ ValuesAreOfReferences'
  BY DEF ResolutionInv, ReadingSound, CopySound, ValuesAreOfReferences, Current, Matching, Kept, NameOf
<1> QED
  BY <1>1, <1>2 DEF ResolutionInv, TypeInv

LEMMA WriteTargetKeeps ==
  ASSUME ResolutionInv, NEW t \in Names, NEW o \in Target, WriteTarget(t, o), NameOf(t, o.ext)
  PROVE  ResolutionInv'
<1>1. targets' = [targets EXCEPT ![t] = o] /\ UNCHANGED <<policy, from, edited, worker, cache, faults, edits>>
  BY DEF WriteTarget
<1>2. targets' \in [Names -> Target] /\ cache' \in [Names -> Target] /\ NamesSound'
  BY <1>1 DEF ResolutionInv, TypeInv, TypeOK, NamesSound, NameOf
<1> QED
  BY <1>1, <1>2, TargetsKeep

LEMMA StepResolution == ResolutionInv /\ [Next]_vars => ResolutionInv'
<1> SUFFICES ASSUME ResolutionInv, [Next]_vars
             PROVE  ResolutionInv'
  OBVIOUS
<1>t. TypeInv /\ TypeOK /\ NamesSound /\ ReadingSound
  BY DEF ResolutionInv, TypeInv
<1>f. faults \in 0 .. MaxFaults /\ (Fault => faults' \in 0 .. MaxFaults)
  BY <1>t, BoundsAssumption DEF TypeOK, Fault
<1>1. CASE StartReconcile
  <2>1. /\ worker'.pc = "resolve" /\ worker'.mg = from /\ worker'.todo = Fields
        /\ worker'.got = <<>> /\ worker' \in Worker
    BY <1>1, <1>t, EmptyList DEF StartReconcile, Idle, Worker, TypeOK
  <2>2. ReadingOK' /\ ReadingSound'
    BY <2>1, FieldsAssumption DEF ReadingOK, ReadingSound
  <2>3. CopySound'
    BY <1>1, <2>1, ValuesMatch DEF StartReconcile, ResolutionInv, CopySound, Matching, Kept
  <2> QED
    BY <1>1, <1>f, <2>1, <2>2, <2>3, WorkerKeeps DEF StartReconcile
<1>2. CASE KeepField
  <2>1. /\ worker.pc = "resolve" /\ CurrentField \in Field /\ Resolved(CurrentField)
        /\ UNCHANGED <<policy, from, edited, targets, cache, faults, edits>> /\ Current \in Fields
    BY <1>2, <1>t, Followed DEF KeepField
  <2>2. /\ worker.fresh /\ Current \notin edited => Matching(Current, CurrentField)
        /\ Kept(Current, worker.mg[Current].refs, CurrentField.refs)
    BY <2>1 DEF ResolutionInv, CopySound, CurrentField, Kept
  <2>3. worker' \in Worker /\ ReadingOK' /\ ReadingSound' /\ CopySound'
    BY <2>1, <2>2, ResolvedKeeps
  <2> QED
    BY <1>f, <2>1, <2>3, WorkerKeeps
<1>3. CASE GetReference
  <2>1. /\ worker.pc = "resolve" /\ faults' \in 0 .. MaxFaults
        /\ UNCHANGED <<policy, from, edited, targets, cache, edits>>
    BY <1>3, <1>f DEF GetReference, NoFault
  <2>2. CASE /\ worker' \in Worker /\ ReadingOK' /\ ReadingSound'
             /\ worker'.mg = worker.mg /\ worker'.fresh = worker.fresh
    <3>1. CopySound'
      BY <2>1, <2>2 DEF ResolutionInv, CopySound, Matching, Kept
    <3> QED
      BY <2>1, <2>2, <3>1, WorkerKeeps
  <2>3. ASSUME NEW p \in Field, Resolved(p), Matching(Current, p),
               Kept(Current, worker.mg[Current].refs, p.refs)
        PROVE  ResolutionInv'
    <3>1. worker' \in Worker /\ ReadingOK' /\ ReadingSound' /\ CopySound'
      BY <2>1, <2>3, ResolvedKeeps
    <3> QED
      BY <2>1, <3>1, WorkerKeeps
  <2> QED
    BY <1>3, <1>t, <2>1, <2>2, <2>3, GetReferenceDoes, IdleKeeps, WorkerKeeps
<1>4. CASE ListSelected
  <2>1. /\ worker.pc = "resolve" /\ faults' \in 0 .. MaxFaults
        /\ UNCHANGED <<policy, from, edited, targets, cache, edits>>
    BY <1>4, <1>f DEF ListSelected, NoFault
  <2>2. ASSUME NEW p \in Field, Resolved(p), Matching(Current, p),
               Kept(Current, worker.mg[Current].refs, p.refs)
        PROVE  ResolutionInv'
    <3>1. worker' \in Worker /\ ReadingOK' /\ ReadingSound' /\ CopySound'
      BY <2>1, <2>2, ResolvedKeeps
    <3> QED
      BY <2>1, <3>1, WorkerKeeps
  <2> QED
    BY <1>4, <1>t, <2>1, <2>2, ListSelectedDoes, IdleKeeps, WorkerKeeps
<1>5. CASE UpdateResolved
  <2>1. /\ worker' = Idle /\ faults' \in 0 .. MaxFaults
        /\ UNCHANGED <<policy, edited, targets, cache, edits>>
        /\ from' = from \/ (worker.fresh /\ from' = worker.mg)
    BY <1>5, <1>f DEF UpdateResolved, Quit, NoFault
  <2>2. from' \in Object
    BY <1>t, <2>1 DEF TypeOK, Worker
  <2>3. TypeOK' /\ ReadingOK' /\ ReadingSound' /\ CopySound'
    BY <1>t, <2>1, <2>2, IdleKeeps DEF TypeOK
  <2>4. NamesSound'
    BY <1>t, <2>1 DEF NamesSound
  <2>5. ValuesAreOfReferences'
    <3>1. CASE from' = from
      BY <2>1, <3>1 DEF ResolutionInv, ValuesAreOfReferences
    <3>2. CASE worker.fresh /\ from' = worker.mg
      BY <2>1, <3>2 DEF ResolutionInv, CopySound, ValuesAreOfReferences, Matching
    <3> QED
      BY <2>1, <3>1, <3>2
  <2> QED
    BY <2>3, <2>4, <2>5 DEF ResolutionInv, TypeInv
<1>6. ASSUME NEW f \in Fields, EditReferences(f)
      PROVE  ResolutionInv'
  <2>1. PICK refs \in Lists(Names) : WriteFrom([from EXCEPT ![f].refs = refs])
    BY <1>6 DEF EditReferences
  <2>2. /\ [from[f] EXCEPT !.refs = refs] \in Field
        /\ [from EXCEPT ![f].refs = refs] = [from EXCEPT ![f] = [from[f] EXCEPT !.refs = refs]]
    BY <1>t DEF TypeOK, Object, Field
  <2>3. edits' \in 0 .. MaxEdits /\ edited' = edited \cup {f}
    BY <1>6, <1>t, BoundsAssumption DEF EditReferences, TypeOK
  <2>4. edited' \subseteq Fields /\ edited \ {f} \subseteq edited' /\ f \in edited'
    BY <1>t, <2>3 DEF TypeOK
  <2>5. WriteFrom([from EXCEPT ![f] = [from[f] EXCEPT !.refs = refs]])
    BY <2>1, <2>2
  <2> QED
    BY <2>2, <2>3, <2>4, <2>5, WriteFromKeeps
<1>7. ASSUME NEW f \in Fields, ClearValues(f)
      PROVE  ResolutionInv'
  <2> DEFINE o == [from[f] EXCEPT !.values = <<>>]
  <2>1. /\ o \in Field /\ o.values = <<>>
        /\ [from EXCEPT ![f].values = <<>>] = [from EXCEPT ![f] = o]
    BY <1>t, EmptyList DEF TypeOK, Object, Field
  <2>2. edits' \in 0 .. MaxEdits /\ edited' = edited \ {f}
    BY <1>7, <1>t, BoundsAssumption DEF ClearValues, TypeOK
  <2>3. Matching(f, o)
    BY <2>1 DEF Matching
  <2>4. edited' \subseteq Fields /\ edited \ {f} \subseteq edited'
    BY <1>t, <2>2 DEF TypeOK
  <2>5. WriteFrom([from EXCEPT ![f] = o])
    BY <1>7, <2>1 DEF ClearValues
  <2> HIDE DEF o
  <2> QED
    BY <2>1, <2>2, <2>3, <2>4, <2>5, WriteFromKeeps
<1>8. ASSUME NEW t \in Names,
             ApplyTarget(t) \/ NameProvisionally(t) \/ NameNode(t) \/ RemoveTarget(t)
      PROVE  ResolutionInv'
  <2>1. CASE ApplyTarget(t) \/ RemoveTarget(t)
    <3>1. /\ [phase |-> "present", ext |-> None] \in Target
          /\ [phase |-> "gone", ext |-> None] \in Target
      BY DEF Target, ExtNames
    <3> QED
      BY <2>1, <3>1, WriteTargetKeeps DEF ApplyTarget, RemoveTarget, NameOf
  <2>2. CASE NameProvisionally(t)
    <3>1. [phase |-> "present", ext |-> <<t, 0>>] \in Target
      BY BoundsAssumption DEF Target, ExtNames
    <3> QED
      BY <2>2, <3>1, WriteTargetKeeps DEF NameProvisionally, NameOf
  <2>3. CASE NameNode(t)
    <3>1. PICK n : n = IF Named(t) THEN targets[t].ext[2] + 1 ELSE 1
      OBVIOUS
    <3>2. n <= MaxNodes /\ WriteTarget(t, [phase |-> "present", ext |-> <<t, n>>])
      BY <2>3, <3>1 DEF NameNode
    <3>3. Named(t) => targets[t].ext \in Names \X (0 .. MaxNodes)
      BY <1>t DEF TypeOK, Target, ExtNames, Named
    <3>4. n \in 0 .. MaxNodes
      BY <3>1, <3>2, <3>3, BoundsAssumption
    <3>5. [phase |-> "present", ext |-> <<t, n>>] \in Target
      BY <3>4 DEF Target, ExtNames
    <3> QED
      BY <3>2, <3>5, WriteTargetKeeps DEF NameOf
  <2> QED
    BY <1>8, <2>1, <2>2, <2>3
<1>9. ASSUME NEW t \in Names, CacheSync(t)
      PROVE  ResolutionInv'
  <2>1. targets' \in [Names -> Target] /\ cache' \in [Names -> Target] /\ NamesSound'
    BY <1>9, <1>t DEF CacheSync, TypeOK, NamesSound, NameOf
  <2> QED
    BY <1>9, <2>1, TargetsKeep DEF CacheSync
<1>10. CASE UNCHANGED vars
  BY <1>10, <1>t, TargetsKeep DEF vars, TypeOK, NamesSound, NameOf
<1> QED
  BY <1>1, <1>2, <1>3, <1>4, <1>5, <1>6, <1>7, <1>8, <1>9, <1>10 DEF Next, WorkerStep

-----------------------------------------------------------------------------
(* The theorems. *)

LEMMA ResolutionInductive == Spec => []ResolutionInv
BY InitResolution, StepResolution, PTL DEF Spec

(* Every variable of the resolver's model holds what the code can put there; in *)
(* particular it never follows a reference that is not in the field.            *)
THEOREM TypeCorrect == Spec => []TypeOK
<1>1. ResolutionInv => TypeOK
  BY DEF ResolutionInv, TypeInv
<1> QED
  BY <1>1, ResolutionInductive, PTL

(* ResolveReferences never writes the uuid of another resource beside a       *)
(* reference, though it reads one reference at a time from a cache that lags,  *)
(* of resources whose names change, and writes all of them at the end.        *)
THEOREM ValuesOfReferences == Spec => []ValuesAreOfReferences
<1>1. ResolutionInv => ValuesAreOfReferences
  BY DEF ResolutionInv
<1> QED
  BY <1>1, ResolutionInductive, PTL

(* The write at the end of ResolveReferences takes back no edit of the         *)
(* references: a stale copy is refused, and a fresh one differs where a        *)
(* selector or the empty response of an optional reference has changed it.     *)
THEOREM NoEditTakenBack == Spec => ReferencesAsAsked
<1>1. ASSUME ResolutionInv, [Next]_vars, NEW f \in Fields
      PROVE  \/ from'[f].refs = from[f].refs \/ edits' # edits \/ "Selector" \in policy[f]
             \/ "Optional" \in policy[f] /\ from'[f].refs = <<>>
  <2>1. CASE UpdateResolved
    <3>1. from' = from \/ (worker.fresh /\ from' = worker.mg)
      BY <2>1 DEF UpdateResolved, NoFault
    <3> QED
      BY <1>1, <3>1 DEF ResolutionInv, CopySound, Kept
  <2>2. ASSUME NEW g \in Fields, EditReferences(g) \/ ClearValues(g)
        PROVE  edits' # edits
    BY <1>1, <2>2 DEF EditReferences, ClearValues, ResolutionInv, TypeInv, TypeOK
  <2>3. CASE UNCHANGED from
    BY <2>3
  <2> QED
    BY <1>1, <2>1, <2>2, <2>3
       DEF Next, WorkerStep, StartReconcile, KeepField, GetReference, ListSelected, ApplyTarget,
           NameProvisionally, NameNode, RemoveTarget, CacheSync, WriteTarget, vars
<1>2. ResolutionInv /\ [Next]_vars =>
        [\A f \in Fields :
           LET old == from[f].refs
               new == from'[f].refs
           IN  \/ new = old \/ edits' # edits \/ "Selector" \in policy[f]
               \/ "Optional" \in policy[f] /\ new = <<>> ]_vars
  BY <1>1
<1> QED
  BY <1>2, ResolutionInductive, PTL DEF Spec, ReferencesAsAsked

=============================================================================
