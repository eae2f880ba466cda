---------------------------- MODULE ProjectReady ----------------------------
(***************************************************************************)
(* A Project that reports Ready for its newest generation has a project in *)
(* Vikunja with the contents and the parent that this generation asks for. *)
(*                                                                         *)
(* What could break it is a worker whose copy is of an older generation:   *)
(* its request overwrites what a newer one stored.  ReadyIsNewest says     *)
(* that this cannot be once the newest generation is reported, because the *)
(* report was written by a worker whose copy was the only one left.  What  *)
(* the request contains is right because a recorded id is that of a        *)
(* project with the Project's name (Named), of whichever incarnation.      *)
(***************************************************************************)
EXTENDS ProjectPromise

RT == INSTANCE RuntimeProofs WITH Specs <- ParentRefs, NoSpec <- None

USE BoundsAssumption DEF world

\* Project p in Vikunja is the parent that ref asks for.
HangsBelow(p, ref) ==
  IF ref = None THEN p = 0
  ELSE p \in 1..(nextId - 1) /\ remote[p].name = ref

\* Project i in Vikunja is what o asks for, unless somebody interfered.
Applied(o, i) ==
  LET r == remote[i] IN
  r.live /\ r.gen # 0 => r.gen = o.gen /\ HangsBelow(r.parent, o.spec)

\* The ids that versions of a Project show are those of projects of its name.
Named == \A n \in Names : \A c \in Object :
           Copy(n, c) /\ c.status.id # 0 => remote[c.status.id].name = n

\* What the handler knows.
HandlerApplies ==
  /\ work.pc \in {"create", "update"} => HangsBelow(work.parent, job.obj.spec)
  /\ work.pc = "setReady" => /\ remote[work.id].name = job.key
                             /\ Applied(job.obj, work.id)
  /\ work.pc = "setNotReady" => work.reason # "ReconcileSuccess"

\* A stored status is of the object's generation or an older one.
NotAhead == \A n \in Names : api[n].status.observed <= api[n].gen

\* Once a Project reports Ready for its generation, no older one is around.
ReadyIsNewest ==
  \A n \in Names : \A c \in Object :
    Ready(api[n]) /\ Copy(n, c) /\ c.uid = api[n].uid => c.gen = api[n].gen

ReadyIsApplied ==
  \A n \in Names : Ready(api[n]) =>
    api[n].status.id # 0 /\ Applied(api[n], api[n].status.id)

AInv == /\ PInv
        /\ RT!RInv
        /\ Named
        /\ HandlerApplies
        /\ NotAhead
        /\ ReadyIsNewest
        /\ ReadyIsApplied

-----------------------------------------------------------------------------
(* The controller runs on the runtime that RuntimeProofs is about.         *)

LEMMA SaneConstants == RT!Sane
BY NoneAssumption DEF RT!Sane, Status, NoStatus, Reasons, ParentRefs

\* The operators of the two instances of ControllerRuntime are the same.
LEMMA SameData ==
  /\ RT!Absent = Absent /\ RT!Idle = Idle
  /\ RT!Object = Object /\ RT!Job = Job
  /\ \A c : RT!Exists(c) <=> Exists(c)
  /\ RT!RuntimeInit <=> RuntimeInit
  /\ RT!RuntimeTypeOK <=> RuntimeTypeOK
BY DEF RT!Absent, Absent, RT!Idle, Idle, RT!Object, Object, RT!Job, Job, RT!Exists, Exists,
   RT!RuntimeInit, RuntimeInit, RT!RuntimeTypeOK, RuntimeTypeOK

LEMMA SameWrites ==
  ASSUME NEW n, NEW o
  PROVE  /\ RT!Store(n, o) <=> Store(n, o)
         /\ RT!UserCreates(n, o) <=> UserCreates(n, o)
         /\ RT!UserEdits(n, o) <=> UserEdits(n, o)
         /\ RT!UserDeletes(n) <=> UserDeletes(n)
<1>1. ASSUME NEW p PROVE /\ RT!Store(n, p) <=> Store(n, p)
                         /\ RT!UserWrites(n, p) <=> UserWrites(n, p)
  BY DEF RT!Store, Store, RT!UserWrites, UserWrites
<1> QED
  BY <1>1, SameData DEF RT!UserCreates, UserCreates, RT!UserEdits, UserEdits,
     RT!UserDeletes, UserDeletes

LEMMA SameSteps ==
  /\ \A n : /\ RT!Deliver(n) <=> Deliver(n)
            /\ RT!TimerFires(n) <=> TimerFires(n)
            /\ RT!Skip(n) <=> Skip(n)
            /\ RT!Begin(n) <=> Begin(n)
            /\ RT!BeginFails(n) <=> BeginFails(n)
  /\ \A o, again : RT!Commit(o, again) <=> Commit(o, again)
  /\ \A again : RT!Return(again) <=> Return(again)
  /\ RT!Restart <=> Restart
  /\ RT!Fault <=> Fault
BY SameData, SameWrites DEF RT!Deliver, Deliver, RT!TimerFires, TimerFires, RT!Skip, Skip,
   RT!Begin, Begin, RT!BeginFails, BeginFails, RT!Commit, Commit, RT!Return, Return,
   RT!Restart, Restart, RT!Fault, Fault

LEMMA SameTypes == ASSUME RT!RuntimeTypeOK' PROVE RuntimeTypeOK'
BY DEF RT!RuntimeTypeOK, RuntimeTypeOK, RT!Object, Object, RT!Job, Job


LEMMA SameVersions ==
  ASSUME NEW n, NEW c PROVE RT!Copy(n, c) <=> Copy(n, c)
BY DEF RT!Copy, Copy

-----------------------------------------------------------------------------
(* Every step is one that the runtime allows.                              *)

\* The worker's copy.
LEMMA WorkersCopy ==
  ASSUME AInv, work.pc # "idle"
  PROVE  /\ job.key \in Names /\ job.obj \in Object /\ Copy(job.key, job.obj)
         /\ Exists(job.obj) /\ Honest(job.obj)
         /\ job.obj.spec \in ParentRefs /\ job.obj.status \in Status
         /\ job.obj.gen \in 0..MaxGen /\ job.obj.status.id \in 0..MaxId
<1>1. job.key \in Names /\ job.obj \in Object
  BY DEF AInv, PInv, IInv, TypeOK, RuntimeTypeOK, Job
<1>2. Copy(job.key, job.obj) /\ Honest(job.obj)
  BY <1>1 DEF Copy, AInv, PInv, IInv, CopiesHonest
<1>3. Exists(job.obj)
  BY <1>1, SameData DEF AInv, RT!RInv, RT!Follows
<1> QED
  BY <1>1, <1>2, <1>3 DEF Object, Status

\* What is stored.
LEMMA StoredCopy ==
  ASSUME AInv, NEW n \in Names
  PROVE  /\ api[n] \in Object /\ Copy(n, api[n]) /\ Honest(api[n])
         /\ api[n].gen \in 0..MaxGen /\ api[n].spec \in ParentRefs
         /\ api[n].status \in Status /\ api[n].status.id \in 0..MaxId
         /\ api[n].status.observed \in 0..MaxGen
<1>1. api[n] \in Object /\ Copy(n, api[n])
  BY CopyOf DEF AInv, PInv, IInv
<1> QED
  BY <1>1 DEF AInv, PInv, IInv, CopiesHonest, Object, Status

\* What the handler writes at the end.
Outcome(o) ==
  \/ work.pc = "addFinalizer" /\ o = [job.obj EXCEPT !.finalizer = TRUE]
  \/ work.pc = "release" /\ o = Absent
  \/ work.pc = "setReady" /\ o = [job.obj EXCEPT !.status = ReadyStatus(work.id)]
  \/ /\ work.pc = "setNotReady"
     /\ o = [job.obj EXCEPT !.status.reason = work.reason,
                            !.status.observed = job.obj.gen]

Finishes(o) == Outcome(o) /\ \E again \in BOOLEAN : Ends(o, again)

\* What the handler writes is of its own copy.
LEMMA OutcomeFields ==
  ASSUME AInv, NEW o, Outcome(o)
  PROVE  \/ o = Absent
         \/ /\ o.uid = job.obj.uid /\ o.gen = job.obj.gen /\ o.spec = job.obj.spec
            /\ \/ o.status = job.obj.status
               \/ work.pc = "setReady" /\ o.status = ReadyStatus(work.id)
               \/ /\ work.pc = "setNotReady"
                  /\ o.status.id = job.obj.status.id
                  /\ o.status.reason = work.reason
                  /\ o.status.observed = job.obj.gen
<1>1. job.obj \in Object /\ job.obj.status \in Status
  BY WorkersCopy DEF Outcome
<1>2. CASE work.pc = "addFinalizer" /\ o = [job.obj EXCEPT !.finalizer = TRUE]
  BY <1>1, <1>2 DEF Object
<1>3. CASE work.pc = "setReady" /\ o = [job.obj EXCEPT !.status = ReadyStatus(work.id)]
  BY <1>1, <1>3 DEF Object
<1>4. CASE /\ work.pc = "setNotReady"
           /\ o = [job.obj EXCEPT !.status.reason = work.reason,
                                  !.status.observed = job.obj.gen]
  BY <1>1, <1>4 DEF Object, Status
<1> QED
  BY <1>2, <1>3, <1>4 DEF Outcome

LEMMA OutcomeAllowed ==
  ASSUME AInv, NEW o, Outcome(o)
  PROVE  o \in Object /\ RT!MayWrite(o) /\ job.key \in Names
<1>1. /\ job.key \in Names /\ job.obj \in Object
      /\ job.obj.gen \in 0..MaxGen /\ job.obj.status \in Status
  BY WorkersCopy DEF Outcome
<1>2. CASE work.pc = "addFinalizer" /\ o = [job.obj EXCEPT !.finalizer = TRUE]
  BY <1>1, <1>2 DEF Object, RT!MayWrite
<1>3. CASE work.pc = "release" /\ o = Absent
  BY <1>1, <1>3, SameData, AbsentTyped DEF RT!MayWrite, AInv, PInv, Handled
<1>4. ASSUME NEW s \in Status, o = [job.obj EXCEPT !.status = s]
      PROVE  o \in Object /\ RT!MayWrite(o)
  BY <1>1, <1>4 DEF Object, RT!MayWrite
<1>5. ReadyStatus(work.id) \in Status
  BY <1>1 DEF ReadyStatus, Status, Reasons, AInv, PInv, IInv, TypeOK, Work
<1>6. [job.obj.status EXCEPT !.reason = work.reason, !.observed = job.obj.gen] \in Status
  BY <1>1 DEF Status, AInv, PInv, IInv, TypeOK, Work
<1>7. [job.obj EXCEPT !.status.reason = work.reason, !.status.observed = job.obj.gen]
        = [job.obj EXCEPT !.status =
             [job.obj.status EXCEPT !.reason = work.reason, !.observed = job.obj.gen]]
  BY <1>1 DEF Object, Status
<1> QED
  BY <1>1, <1>2, <1>3, <1>4, <1>5, <1>6, <1>7 DEF Outcome

LEMMA StepFinishes ==
  ASSUME AddFinalizer \/ RemoveFinalizer \/ SetReady \/ SetNotReady
  PROVE  \E o : Finishes(o)
BY DEF AddFinalizer, RemoveFinalizer, SetReady, SetNotReady, Finishes, Outcome

LEMMA StepMoves == ASSUME AInv, Next PROVE RT!Move
<1> USE DEF RT!Move
<1>1. ASSUME NEW n \in Names, NEW s \in ParentRefs, Create(n, s) \/ Edit(n, s) \/ Delete(n)
      PROVE  RT!User
  BY <1>1, SameWrites DEF Create, Edit, Delete, RT!User
<1>2. ASSUME NEW n \in Names,
             Sync(n) \/ Requeue(n) \/ ReconcileNothing(n) \/ ReconcileFails(n)
      PROVE  RT!Plumbing
  BY <1>2, SameSteps DEF Sync, Requeue, ReconcileNothing, ReconcileFails, RT!Plumbing
<1>3. ASSUME NEW n \in Names,
             ReconcileAddsFinalizer(n) \/ ReconcileUpserts(n) \/ ReconcileDeletes(n)
      PROVE  RT!Starts
  BY <1>3, SameSteps, SameData
     DEF ReconcileAddsFinalizer, ReconcileUpserts, ReconcileDeletes, Finalized, RT!Starts
<1>4. ASSUME NEW o, Finishes(o)
      PROVE  RT!Writes
  BY <1>4, OutcomeAllowed, SameSteps, SameData DEF Finishes, Ends, RT!Writes
<1>5. ASSUME UNCHANGED <<api, cache, events, timers, job, lastUid>>,
             queue' \in SUBSET Names, Fault \/ UNCHANGED faults
      PROVE  RT!Elsewhere
  BY <1>5 DEF Fault, AInv, PInv, IInv, TypeOK, RuntimeTypeOK, RT!Elsewhere
<1>6. queue \in SUBSET Names
  BY DEF AInv, PInv, IInv, TypeOK, RuntimeTypeOK
<1>7. CASE CreateProject \/ UpdateProject
  BY <1>5, <1>6, <1>7 DEF CreateProject, UpdateProject
<1>8. CASE DeleteProject
  <2>1. job.key \in Names
    BY <1>8, WorkersCopy DEF DeleteProject
  <2> QED
    BY <1>5, <1>6, <1>8, <2>1, SameSteps DEF DeleteProject, RT!GivesUp
<1>9. ASSUME NEW i, InstanceChanges(i)
      PROVE  RT!Elsewhere
  BY <1>5, <1>6, <1>9 DEF InstanceChanges
<1>10. ASSUME NEW i, SecretChanges \/ ExternalDelete(i) \/ ExternalEdit(i)
       PROVE  RT!Elsewhere
  BY <1>5, <1>6, <1>10 DEF SecretChanges, ExternalDelete, ExternalEdit
<1>11. CASE Crash
  BY <1>11, SameSteps DEF Crash
<1>12. ASSUME NEW n \in Names, Delete(n)
       PROVE  RT!User
  BY <1>1, <1>12 DEF ParentRefs
<1> QED
  BY <1>1, <1>2, <1>3, <1>4, <1>7, <1>8, <1>9, <1>10, <1>11, <1>12, StepFinishes
     DEF Next, Step, Environment, Reconcile

\* What a step does to the stored objects.
LEMMA ObjectStep ==
  ASSUME AInv, Next
  PROVE  \/ UNCHANGED <<api, lastUid>>
         \/ \E n \in Names : /\ RT!OnlyTouches(n) /\ RT!ByUser(n)
                             /\ UNCHANGED <<remote, nextId, work>>
         \/ /\ RT!OnlyTouches(job.key) /\ RT!Committed(job.key)
            /\ Outcome(api'[job.key]) /\ UNCHANGED <<remote, nextId>>
<1>1. ASSUME NEW n \in Names, NEW s \in ParentRefs, Create(n, s) \/ Edit(n, s) \/ Delete(n)
      PROVE  /\ RT!OnlyTouches(n) /\ RT!ByUser(n)
             /\ UNCHANGED <<remote, nextId, work>>
  BY <1>1, SameWrites, SameData, RT!UserChanges
     DEF Create, Edit, Delete, AInv, PInv, IInv, TypeOK
<1>2. ASSUME NEW o, Finishes(o)
      PROVE  \/ UNCHANGED <<api, lastUid>>
             \/ /\ RT!OnlyTouches(job.key) /\ RT!Committed(job.key)
                /\ Outcome(api'[job.key]) /\ UNCHANGED <<remote, nextId>>
  <2>1. Outcome(o) /\ UNCHANGED <<remote, nextId>> /\ \E again : RT!Commit(o, again)
    BY <1>2, SameSteps DEF Finishes, Ends
  <2>2. RT!MayWrite(o) /\ job.key \in Names
    BY <2>1, OutcomeAllowed
  <2>3. \/ UNCHANGED <<api, lastUid>>
        \/ RT!Changes(job.key) /\ RT!Committed(job.key) /\ api'[job.key] = o
    BY <2>1, <2>2, RT!CommitChanges DEF AInv, RT!RInv
  <2> QED
    BY <2>1, <2>3 DEF RT!Changes
<1>3. ASSUME NEW n \in Names, Sync(n) \/ Requeue(n) \/ Reconcile(n)
      PROVE  UNCHANGED <<api, lastUid>>
  BY <1>3 DEF Sync, Deliver, Requeue, TimerFires, Reconcile, ReconcileNothing, Skip,
     ReconcileAddsFinalizer, ReconcileUpserts, ReconcileDeletes, Begin, ReconcileFails,
     BeginFails
<1>4. CASE CreateProject \/ UpdateProject \/ DeleteProject \/ Crash
  BY <1>4 DEF CreateProject, UpdateProject, DeleteProject, Return, Crash, Restart
<1>5. ASSUME NEW i, \/ InstanceChanges(i) \/ SecretChanges
                    \/ ExternalDelete(i) \/ ExternalEdit(i)
      PROVE  UNCHANGED <<api, lastUid>>
  BY <1>5 DEF InstanceChanges, SecretChanges, ExternalDelete, ExternalEdit
<1>6. ASSUME NEW n \in Names, Delete(n)
      PROVE  RT!OnlyTouches(n) /\ RT!ByUser(n) /\ UNCHANGED <<remote, nextId, work>>
  BY <1>1, <1>6 DEF ParentRefs
<1> QED
  BY <1>1, <1>2, <1>3, <1>4, <1>5, <1>6, StepFinishes DEF Next, Step, Environment

-----------------------------------------------------------------------------
(* Vikunja's side.                                                         *)

\* The handler's update of project i.
Overwrites(i) ==
  /\ work.pc = "update" /\ i = job.obj.status.id
  /\ remote'[i].gen = job.obj.gen
  /\ remote'[i].parent = work.parent

\* A project keeps its name; it keeps its contents, loses them, or gets those of
\* the handler's object.
Becomes(i) ==
  /\ remote'[i].name = remote[i].name
  /\ remote'[i] = remote[i] \/ remote'[i].gen = 0 \/ Overwrites(i)

LEMMA GoneBecomes ==
  ASSUME TypeOK, NEW j \in 0..MaxId, Gone(j), NEW i \in 1..(nextId - 1)
  PROVE  Becomes(i)
BY DEF Gone, Becomes, TypeOK, Remote

LEMMA ProjectStep ==
  ASSUME AInv, Next, NEW i \in 1..(nextId - 1)
  PROVE  Becomes(i)
<1> USE DEF AInv, PInv, IInv
<1>0. TypeOK /\ i \in 1..MaxId
  BY DEF TypeOK
<1>1. CASE UNCHANGED remote
  BY <1>1 DEF Becomes
<1>2. CASE CreateProject
  <2>1. CASE Stored(nextId, job.key, job.obj.uid)
    <3>1. i # nextId
      BY DEF TypeOK
    <3>2. remote'[i] = remote[i]
      BY <1>0, <2>1, <3>1 DEF Stored, TypeOK
    <3> QED
      BY <3>2 DEF Becomes
  <2> QED
    BY <1>1, <1>2, <2>1 DEF CreateProject
<1>3. CASE UpdateProject
  <2> DEFINE j == job.obj.status.id
  <2>1. CASE Stored(j, remote[j].name, remote[j].uid)
    <3>1. CASE i = j
      <4>1. /\ remote'[i].name = remote[i].name
            /\ remote'[i].gen = job.obj.gen /\ remote'[i].parent = work.parent
        BY <1>0, <2>1, <3>1 DEF Stored, TypeOK
      <4> QED
        BY <1>3, <3>1, <4>1 DEF Becomes, Overwrites, UpdateProject
    <3>2. CASE i # j
      BY <1>0, <2>1, <3>2 DEF Stored, TypeOK, Becomes
    <3> QED
      BY <3>1, <3>2
  <2> QED
    BY <1>1, <1>3, <2>1 DEF UpdateProject
<1>4. CASE DeleteProject
  <2>1. job.obj.status.id \in 0..MaxId
    BY <1>4, WorkersCopy DEF DeleteProject
  <2> QED
    BY <1>0, <1>1, <1>4, <2>1, GoneBecomes DEF DeleteProject
<1>5. ASSUME NEW j \in 1..MaxId, ExternalDelete(j)
      PROVE  Becomes(i)
  BY <1>0, <1>5, GoneBecomes DEF ExternalDelete
<1>6. ASSUME NEW j \in 1..MaxId, ExternalEdit(j)
      PROVE  Becomes(i)
  BY <1>0, <1>6 DEF ExternalEdit, Becomes, TypeOK, Remote
<1>7. CASE AddFinalizer \/ RemoveFinalizer \/ SetReady \/ SetNotReady
  BY <1>1, <1>7 DEF AddFinalizer, RemoveFinalizer, SetReady, SetNotReady, Ends
<1>8. ASSUME NEW n \in Names, Sync(n) \/ Requeue(n) \/ Reconcile(n) \/ Delete(n)
      PROVE  UNCHANGED remote
  BY <1>8 DEF Sync, Requeue, Reconcile, ReconcileNothing, ReconcileFails,
     ReconcileAddsFinalizer, ReconcileUpserts, ReconcileDeletes, Delete
<1>9. ASSUME NEW n, NEW s, Create(n, s) \/ Edit(n, s)
      PROVE  UNCHANGED remote
  BY <1>9 DEF Create, Edit
<1>10. ASSUME NEW j, InstanceChanges(j) \/ SecretChanges \/ Crash
       PROVE  UNCHANGED remote
  BY <1>10 DEF InstanceChanges, SecretChanges, Crash
<1> QED
  BY <1>1, <1>2, <1>3, <1>4, <1>5, <1>6, <1>7, <1>8, <1>9, <1>10
     DEF Next, Step, Environment

LEMMA HangsStays ==
  ASSUME AInv, Next, NEW p, NEW ref, HangsBelow(p, ref)
  PROVE  HangsBelow(p, ref)'
<1>1. nextId \in Nat /\ nextId' \in Nat /\ nextId <= nextId'
  BY StepKeeps DEF RemoteKeeps, AInv, PInv, IInv, TypeOK
<1> QED
  BY <1>1, ProjectStep DEF HangsBelow, Becomes

LEMMA AppliedStays ==
  ASSUME AInv, Next, NEW o, NEW i \in 1..(nextId - 1), Applied(o, i), ~Overwrites(i)
  PROVE  Applied(o, i)'
<1>1. remote'[i] = remote[i] \/ remote'[i].gen = 0
  BY ProjectStep DEF Becomes
<1>3. CASE remote'[i].gen = 0
  BY <1>3 DEF Applied
<1>4. CASE remote'[i] = remote[i]
  <2>1. PICK p : p = remote[i].parent
    OBVIOUS
  <2>2. HangsBelow(p, o.spec) => HangsBelow(p, o.spec)'
    BY HangsStays
  <2> QED
    BY <1>4, <2>1, <2>2 DEF Applied, HangsBelow
<1> QED
  BY <1>1, <1>3, <1>4

-----------------------------------------------------------------------------
(* The handler.                                                            *)

LEMMA HandlerGoesOn ==
  ASSUME AInv, Next, job'.key = job.key, job'.obj = job.obj, work' = work
  PROVE  HandlerApplies'
<1>1. CASE work.pc = "setReady"
  <2>1. work.id \in 1..(nextId - 1)
    BY <1>1 DEF AInv, PInv, IInv, HandlerOK
  <2>2. remote'[work.id].name = remote[work.id].name
    BY <2>1, ProjectStep DEF Becomes
  <2>3. Applied(job.obj, work.id)'
    <3>1. PICK o, i : o = job.obj /\ i = work.id
      OBVIOUS
    <3>2. Applied(o, i)'
      BY <1>1, <2>1, <3>1, AppliedStays DEF AInv, HandlerApplies, Overwrites
    <3> QED
      BY <3>1, <3>2 DEF Applied, HangsBelow
  <2> QED
    BY <1>1, <2>2, <2>3 DEF AInv, HandlerApplies
<1>2. CASE work.pc \in {"create", "update"}
  <2>1. PICK p, ref : p = work.parent /\ ref = job.obj.spec
    OBVIOUS
  <2>2. HangsBelow(p, ref)'
    BY <1>2, <2>1, HangsStays DEF AInv, HandlerApplies
  <2> QED
    BY <1>2, <2>1, <2>2 DEF HandlerApplies, HangsBelow
<1>3. CASE work.pc \notin {"setReady", "create", "update"}
  BY <1>3 DEF AInv, HandlerApplies
<1> QED
  BY <1>1, <1>2, <1>3

\* A reconcile finds the parent's id in the cache.
LEMMA StartApplies ==
  ASSUME AInv, NEW n \in Names, ReconcileUpserts(n)
  PROVE  HandlerApplies'
<1> DEFINE ref == cache[n].spec
           p == ParentId(ref)
<1>1. cache[n] \in Object /\ job'.obj = cache[n] /\ UNCHANGED <<remote, nextId>>
  BY CopyOf DEF ReconcileUpserts, Begin, AInv, PInv, IInv
<1>2. CASE work'.pc = "setNotReady" /\ work'.reason # "ReconcileSuccess"
  BY <1>2 DEF HandlerApplies
<1>3. CASE /\ ~ParentMissing(ref)
           /\ work'.pc \in {"create", "update"} /\ work'.parent = p
  <2>1. CASE ref = None
    BY <1>1, <1>3, <2>1 DEF HandlerApplies, HangsBelow, ParentId
  <2>2. CASE ref # None
    <3>1. ref \in Names
      BY <1>1, <2>2 DEF Object, ParentRefs
    <3>2. cache[ref] \in Object /\ Copy(ref, cache[ref]) /\ Honest(cache[ref])
      BY <3>1, CopyOf DEF AInv, PInv, IInv, CopiesHonest
    <3>3. p = cache[ref].status.id /\ p \in 0..MaxId /\ p # 0
      BY <1>3, <2>2, <3>2 DEF ParentId, ParentMissing, Object, Status
    <3>4. p \in 1..(nextId - 1) /\ remote[p].name = ref
      BY <3>1, <3>2, <3>3 DEF Honest, AInv, PInv, IInv, TypeOK, Named
    <3> QED
      BY <1>1, <1>3, <2>2, <3>4 DEF HandlerApplies, HangsBelow
  <2> QED
    BY <2>1, <2>2
<1> QED
  BY <1>2, <1>3 DEF ReconcileUpserts, InstanceReason, NoWork

LEMMA CreateApplies ==
  ASSUME AInv, Next, CreateProject
  PROVE  HandlerApplies'
<1>1. /\ job' = job /\ work.pc = "create" /\ HangsBelow(work.parent, job.obj.spec)
      /\ job.obj.gen \in 0..MaxGen
  BY WorkersCopy DEF CreateProject, AInv, HandlerApplies
<1>2. CASE ToError
  BY <1>2 DEF ToError, NoWork, HandlerApplies
<1>3. CASE /\ Stored(nextId, job.key, job.obj.uid) /\ nextId <= MaxId
           /\ ToReady(nextId)
  <2>1. PICK i, p, ref : i = nextId /\ p = work.parent /\ ref = job.obj.spec
    OBVIOUS
  <2>2. HangsBelow(p, ref)'
    BY <1>1, <2>1, HangsStays
  <2>3. /\ remote'[i].name = job.key /\ remote'[i].gen = job.obj.gen
        /\ remote'[i].parent = p
    BY <1>3, <2>1 DEF Stored, AInv, PInv, IInv, TypeOK
  <2>4. work'.pc = "setReady" /\ work'.id = i
    BY <1>3, <2>1 DEF ToReady, NoWork
  <2>5. Applied(job.obj, i)'
    BY <1>1, <2>1, <2>2, <2>3 DEF Applied, HangsBelow
  <2> QED
    BY <1>1, <2>3, <2>4, <2>5 DEF HandlerApplies, Applied, HangsBelow
<1> QED
  BY <1>2, <1>3 DEF CreateProject

LEMMA UpdateApplies ==
  ASSUME AInv, Next, UpdateProject
  PROVE  HandlerApplies'
<1>1. /\ job' = job /\ work.pc = "update" /\ HangsBelow(work.parent, job.obj.spec)
      /\ job.key \in Names /\ job.obj \in Object /\ Copy(job.key, job.obj)
      /\ job.obj.gen \in 0..MaxGen /\ job.obj.status.id \in 1..MaxId
  BY WorkersCopy DEF UpdateProject, AInv, PInv, IInv, HandlerOK, HandlerApplies
<1>2. PICK i, p, ref : i = job.obj.status.id /\ p = work.parent /\ ref = job.obj.spec
  OBVIOUS
<1>3. HangsBelow(p, ref)'
  BY <1>1, <1>2, HangsStays
<1>4. CASE ToError
  BY <1>4 DEF ToError, NoWork, HandlerApplies
<1>5. CASE work' = [work EXCEPT !.pc = "create"]
  <2>1. work'.pc = "create" /\ work'.parent = p
    BY <1>2, <1>5 DEF AInv, PInv, IInv, TypeOK, Work
  <2> QED
    BY <1>1, <1>2, <1>3, <2>1 DEF HandlerApplies, HangsBelow
<1>6. CASE Stored(i, remote[i].name, remote[i].uid) /\ ToReady(i)
  <2>1. remote[i].name = job.key
    BY <1>1, <1>2 DEF AInv, Named
  <2>2. /\ remote'[i].name = job.key /\ remote'[i].gen = job.obj.gen
        /\ remote'[i].parent = p
    BY <1>1, <1>2, <1>6, <2>1 DEF Stored, AInv, PInv, IInv, TypeOK
  <2>3. work'.pc = "setReady" /\ work'.id = i
    BY <1>6 DEF ToReady, NoWork
  <2> QED
    BY <1>1, <1>2, <1>3, <2>2, <2>3 DEF HandlerApplies, Applied, HangsBelow
<1> QED
  BY <1>2, <1>4, <1>5, <1>6 DEF UpdateProject

LEMMA HandlerAppliesStep == ASSUME AInv, Next PROVE HandlerApplies'
<1>1. ASSUME work'.pc \in {"idle", "addFinalizer", "delete", "release"}
      PROVE  HandlerApplies'
  BY <1>1 DEF HandlerApplies
<1>2. ASSUME NEW n \in Names, NEW s \in ParentRefs,
             Create(n, s) \/ Edit(n, s) \/ Delete(n)
      PROVE  HandlerApplies'
  <2>1. work' = work /\ \E o : UserWrites(n, o)
    BY <1>2 DEF Create, Edit, Delete, UserCreates, UserEdits, UserDeletes
  <2>2. job'.key = job.key /\ job'.obj = job.obj
    BY <2>1 DEF UserWrites, AInv, PInv, IInv, TypeOK, RuntimeTypeOK, Job
  <2> QED
    BY <2>1, <2>2, HandlerGoesOn
<1>3. ASSUME NEW n \in Names,
             Sync(n) \/ Requeue(n) \/ ReconcileNothing(n) \/ ReconcileFails(n)
      PROVE  HandlerApplies'
  BY <1>3, HandlerGoesOn DEF Sync, Deliver, Requeue, TimerFires, ReconcileNothing, Skip,
     ReconcileFails, BeginFails
<1>4. ASSUME NEW n \in Names, ReconcileAddsFinalizer(n) \/ ReconcileDeletes(n)
      PROVE  HandlerApplies'
  BY <1>1, <1>4 DEF ReconcileAddsFinalizer, ReconcileDeletes, NoWork
<1>5. CASE DeleteProject
  <2>1. work \in Work
    BY DEF AInv, PInv, IInv, TypeOK
  <2>2. work' = NoWork \/ work' = [work EXCEPT !.pc = "release"]
    BY <1>5 DEF DeleteProject
  <2>3. work'.pc \in {"idle", "release"}
    BY <2>1, <2>2 DEF NoWork, Work
  <2> QED
    BY <1>1, <2>3
<1>6. CASE Crash \/ \E o : Finishes(o)
  BY <1>1, <1>6 DEF Crash, Finishes, Ends, NoWork
<1>7. ASSUME NEW i, \/ InstanceChanges(i) \/ SecretChanges
                    \/ ExternalDelete(i) \/ ExternalEdit(i)
      PROVE  HandlerApplies'
  BY <1>7, HandlerGoesOn DEF InstanceChanges, SecretChanges, ExternalDelete, ExternalEdit
<1>8. ASSUME NEW n \in Names, Delete(n)
      PROVE  HandlerApplies'
  BY <1>2, <1>8 DEF ParentRefs
<1> QED
  BY <1>2, <1>3, <1>4, <1>5, <1>6, <1>7, <1>8, StartApplies, CreateApplies,
     UpdateApplies, StepFinishes DEF Next, Step, Environment, Reconcile

-----------------------------------------------------------------------------
(* What versions show.                                                     *)

LEMMA StepCopies ==
  ASSUME AInv, Next, NEW n \in Names, NEW c, Copy(n, c)'
  PROVE  Copy(n, c) \/ c = api'[n]
BY CopyStep DEF AInv, PInv

LEMMA CopyHonest ==
  ASSUME AInv, NEW n \in Names, NEW c, Copy(n, c)
  PROVE  Honest(c)
BY DEF Copy, AInv, PInv, IInv, CopiesHonest

\* What a user leaves alone.
LEMMA UserChangesFields ==
  ASSUME AInv, NEW n \in Names, RT!ByUser(n)
  PROVE  \/ api'[n] = Absent
         \/ /\ api'[n].gen = 1 /\ api'[n].status = NoStatus
         \/ /\ api'[n].uid = api[n].uid /\ api'[n].gen = api[n].gen + 1
            /\ api'[n].status = api[n].status
         \/ /\ api'[n].uid = api[n].uid /\ api'[n].gen = api[n].gen
            /\ api'[n].spec = api[n].spec /\ api'[n].status = api[n].status
<1>1. RT!RuntimeTypeOK
  BY DEF AInv, RT!RInv
<1> QED
  BY <1>1, SameData, RT!UserFields

LEMMA NamedStep == ASSUME AInv, Next PROVE Named'
<1> SUFFICES ASSUME NEW n \in Names, NEW c \in Object, Copy(n, c)', c.status.id # 0
             PROVE  remote'[c.status.id].name = n
  BY DEF Named
<1>1. c.status.id \in 1..MaxId /\ nextId \in Nat
  BY DEF Object, Status, AInv, PInv, IInv, TypeOK
<1>2. ASSUME NEW d \in Object, Copy(n, d), d.status.id = c.status.id
      PROVE  remote'[c.status.id].name = n
  <2>1. Honest(d)
    BY <1>2, CopyHonest
  <2>2. c.status.id \in 1..(nextId - 1) /\ remote[c.status.id].name = n
    BY <1>1, <1>2, <2>1 DEF Honest, AInv, Named
  <2> QED
    BY <2>2, ProjectStep DEF Becomes
<1>3. CASE Copy(n, c)
  BY <1>2, <1>3
<1>4. CASE c = api'[n]
  <2>1. CASE UNCHANGED api
    BY <1>2, <1>4, <2>1, StoredCopy
  <2>2. CASE RT!ByUser(n)
    <3>1. c.status = NoStatus \/ c.status = api[n].status
      BY <1>4, <2>2, UserChangesFields DEF Absent
    <3> QED
      BY <1>2, <3>1, StoredCopy DEF NoStatus
  <2>3. CASE Outcome(c) /\ n = job.key /\ UNCHANGED remote
    <3>1. work.pc # "idle" /\ job.obj \in Object /\ Copy(n, job.obj)
      BY <2>3, WorkersCopy DEF Outcome
    <3>2. CASE c.status.id = job.obj.status.id
      BY <1>2, <3>1, <3>2
    <3>3. CASE work.pc = "setReady" /\ c.status = ReadyStatus(work.id)
      BY <2>3, <3>3 DEF ReadyStatus, AInv, HandlerApplies
    <3> QED
      BY <2>3, <3>2, <3>3, OutcomeFields DEF Absent, NoStatus
  <2>4. CASE api'[n] = api[n]
    BY <1>2, <1>4, <2>4, StoredCopy
  <2> QED
    BY <1>4, <2>1, <2>2, <2>3, <2>4, ObjectStep DEF RT!OnlyTouches
<1> QED
  BY <1>3, <1>4, StepCopies

LEMMA NotAheadStep == ASSUME AInv, Next PROVE NotAhead'
<1> SUFFICES ASSUME NEW n \in Names PROVE api'[n].status.observed <= api'[n].gen
  BY DEF NotAhead
<1>1. api[n].gen \in Nat /\ api[n].status.observed \in Nat
      /\ api[n].status.observed <= api[n].gen
  BY StoredCopy DEF AInv, NotAhead
<1>2. CASE RT!ByUser(n)
  BY <1>1, <1>2, UserChangesFields DEF Absent, NoStatus
<1>3. CASE Outcome(api'[n]) /\ RT!Committed(n)
  <2>1. job.obj.gen \in Nat
    BY <1>3, WorkersCopy DEF Outcome
  <2> QED
    BY <1>1, <1>3, <2>1, OutcomeFields DEF RT!Committed, ReadyStatus, Absent, NoStatus
<1> QED
  BY <1>1, <1>2, <1>3, ObjectStep DEF RT!OnlyTouches

-----------------------------------------------------------------------------
(* Ready means applied.                                                    *)

\* What becomes Ready, or stays so, in a step.
LEMMA ReadyStep ==
  ASSUME AInv, Next, NEW n \in Names, Ready(api'[n])
  PROVE  \/ /\ Ready(api[n]) /\ api'[n].uid = api[n].uid /\ api'[n].gen = api[n].gen
            /\ api'[n].spec = api[n].spec /\ api'[n].status = api[n].status
         \/ /\ n = job.key /\ RT!Committed(n) /\ UNCHANGED <<remote, nextId>>
            /\ api'[n].uid = job.obj.uid /\ api'[n].gen = job.obj.gen
            /\ api'[n].spec = job.obj.spec
            /\ work.pc = "setReady" /\ api'[n].status = ReadyStatus(work.id)
<1>1. /\ api[n].gen \in Nat /\ api[n].status.observed \in Nat
      /\ api[n].status.observed <= api[n].gen
  BY StoredCopy DEF AInv, NotAhead
<1>2. CASE api'[n] = api[n]
  BY <1>2
<1>3. CASE RT!ByUser(n)
  BY <1>1, <1>3, UserChangesFields DEF Ready, Absent, NoStatus
<1>4. CASE n = job.key /\ RT!Committed(n) /\ Outcome(api'[n]) /\ UNCHANGED <<remote, nextId>>
  BY <1>4, OutcomeFields
     DEF RT!Committed, Ready, ReadyStatus, Absent, NoStatus, AInv, HandlerApplies
<1> QED
  BY <1>2, <1>3, <1>4, ObjectStep DEF RT!OnlyTouches

LEMMA ReadyIsNewestStep == ASSUME AInv, Next PROVE ReadyIsNewest'
<1> SUFFICES ASSUME NEW n \in Names, NEW c \in Object, Ready(api'[n]), Copy(n, c)',
                    c.uid = api'[n].uid
             PROVE  c.gen = api'[n].gen
  BY DEF ReadyIsNewest, Ready
<1>1. Copy(n, c) \/ c = api'[n]
  BY StepCopies
<1>2. CASE RT!Committed(n) /\ api'[n].gen = job.obj.gen
  BY <1>1, <1>2, SameVersions DEF RT!Committed
<1> QED
  BY <1>1, <1>2, ReadyStep DEF AInv, ReadyIsNewest

\* No step takes what was applied from a Project that stays Ready.
LEMMA ReadyStays ==
  ASSUME AInv, Next, NEW n \in Names, Ready(api[n]),
         NEW o, o = api[n], NEW i, i = o.status.id
  PROVE  i # 0 /\ Applied(o, i)'
<1>1. i # 0 /\ Applied(o, i)
  BY DEF AInv, ReadyIsApplied
<1>2. o \in Object /\ Copy(n, o) /\ Honest(o) /\ i \in 1..MaxId
  BY <1>1, StoredCopy
<1>3. o.uid # 0 /\ i \in 1..(nextId - 1) /\ remote[i].uid = o.uid
  BY <1>1, <1>2 DEF Honest, AInv, PInv, IInv, TypeOK
<1>4. CASE Overwrites(i)
  <2>1. /\ job.key \in Names /\ job.obj \in Object /\ Copy(job.key, job.obj)
        /\ Exists(job.obj) /\ Honest(job.obj)
    BY <1>4, WorkersCopy DEF Overwrites
  <2>2. job.obj.uid = o.uid
    BY <1>1, <1>3, <1>4, <2>1 DEF Overwrites, Honest
  <2>3. job.key = n
    BY <1>2, <2>1, <2>2, SameData, SameVersions DEF AInv, RT!RInv, RT!OneName
  <2>4. job.obj.gen = o.gen
    BY <2>1, <2>2, <2>3 DEF AInv, ReadyIsNewest
  <2>5. job.obj.spec = o.spec
    BY <2>1, <2>2, <2>3, <2>4, SameData, SameVersions
       DEF AInv, RT!RInv, RT!Versions, RT!Version
  <2>6. PICK p, ref : p = work.parent /\ ref = o.spec
    OBVIOUS
  <2>7. HangsBelow(p, ref)'
    BY <1>4, <2>5, <2>6, HangsStays DEF Overwrites, AInv, HandlerApplies
  <2> QED
    BY <1>1, <1>4, <2>4, <2>6, <2>7 DEF Overwrites, Applied, HangsBelow
<1> QED
  BY <1>1, <1>3, <1>4, AppliedStays

LEMMA ReadyIsAppliedStep == ASSUME AInv, Next PROVE ReadyIsApplied'
<1> SUFFICES ASSUME NEW n \in Names, Ready(api'[n])
             PROVE  (api[n].status.id # 0 /\ Applied(api[n], api[n].status.id))'
  BY DEF ReadyIsApplied, Ready
<1>1. CASE /\ Ready(api[n]) /\ api'[n].uid = api[n].uid /\ api'[n].gen = api[n].gen
           /\ api'[n].spec = api[n].spec /\ api'[n].status = api[n].status
  <2>1. PICK o, i : o = api[n] /\ i = o.status.id
    OBVIOUS
  <2>2. i # 0 /\ Applied(o, i)'
    BY <1>1, <2>1, ReadyStays
  <2> QED
    BY <1>1, <2>1, <2>2 DEF Applied, HangsBelow
<1>2. CASE /\ UNCHANGED <<remote, nextId>>
           /\ api'[n].gen = job.obj.gen /\ api'[n].spec = job.obj.spec
           /\ work.pc = "setReady" /\ api'[n].status = ReadyStatus(work.id)
  <2>1. Applied(job.obj, work.id) /\ work.id \in 1..(nextId - 1)
    BY <1>2 DEF AInv, HandlerApplies, PInv, IInv, HandlerOK
  <2>2. api'[n].status.id = work.id
    BY <1>2 DEF ReadyStatus
  <2> QED
    BY <1>2, <2>1, <2>2 DEF Applied, HangsBelow
<1> QED
  BY <1>1, <1>2, ReadyStep

-----------------------------------------------------------------------------
(* The theorem.                                                            *)

LEMMA AInvInit == Init => AInv
<1> SUFFICES ASSUME Init PROVE AInv
  OBVIOUS
<1>1. PInv
  BY InitPInv
<1>2. RT!RInv
  BY SaneConstants, SameData, RT!RInvInit DEF Init
<1>3. ASSUME NEW n \in Names, NEW c, Copy(n, c)
      PROVE  c = Absent
  BY <1>3, NoneAssumption DEF Copy, Init, RuntimeInit, Idle
<1>4. Named
  BY <1>3 DEF Named, Absent, NoStatus
<1>5. HandlerApplies
  BY DEF Init, RuntimeInit, HandlerApplies, NoWork
<1>6. NotAhead /\ ReadyIsNewest /\ ReadyIsApplied
  BY DEF Init, RuntimeInit, NotAhead, ReadyIsNewest, ReadyIsApplied, Ready, Absent, NoStatus
<1> QED
  BY <1>1, <1>2, <1>4, <1>5, <1>6 DEF AInv

LEMMA AInvStep == ASSUME AInv, Next PROVE AInv'
<1>1. RT!RInv'
  BY SaneConstants, StepMoves, RT!RInvStep DEF AInv
<1>2. PInv'
  BY StepPInv DEF AInv
<1> QED
  BY <1>1, <1>2, NamedStep, HandlerAppliesStep, NotAheadStep, ReadyIsNewestStep,
     ReadyIsAppliedStep DEF AInv

LEMMA AInvStutters == ASSUME AInv, UNCHANGED vars PROVE AInv'
<1>1. /\ UNCHANGED <<api, cache, events, queue, timers, job, lastUid, faults>>
      /\ UNCHANGED <<work, remote, nextId, inst>>
  BY DEF vars
<1>2. RT!RInv'
  <2>1. RT!Elsewhere
    BY <1>1 DEF RT!Elsewhere, AInv, PInv, IInv, TypeOK, RuntimeTypeOK
  <2> QED
    BY <2>1, SaneConstants, RT!RInvStep DEF RT!Move, AInv
<1>3. PInv'
  BY StepPInv DEF AInv
<1>4. Named' /\ ReadyIsNewest'
  <2>1. \A n, c : Copy(n, c)' <=> Copy(n, c)
    BY <1>1 DEF Copy
  <2> QED
    BY <1>1, <2>1 DEF AInv, Named, ReadyIsNewest, Ready
<1>5. HandlerApplies' /\ NotAhead' /\ ReadyIsApplied'
  BY <1>1 DEF AInv, HandlerApplies, NotAhead, ReadyIsApplied, Applied, HangsBelow, Ready
<1> QED
  BY <1>2, <1>3, <1>4, <1>5 DEF AInv

\* A Project that reports Ready for its newest generation has, unless somebody
\* interfered in Vikunja, a project there with the contents of that generation,
\* below a project created for the parent that the generation names.
THEOREM ReadyProjectIsApplied == Spec => []ReadyMeansApplied
<1>1. AInv /\ [Next]_vars => AInv'
  BY AInvStep, AInvStutters
<1>2. AInv => ReadyMeansApplied
  <2> SUFFICES ASSUME AInv, NEW n \in Names, Ready(api[n])
               PROVE  LET o == api[n]
                          r == remote[o.status.id]
                      IN /\ o.status.id # 0
                         /\ r.live /\ r.gen # 0 =>
                              /\ r.gen = o.gen
                              /\ IF o.spec = None THEN r.parent = 0
                                 ELSE r.parent # 0 /\ remote[r.parent].name = o.spec
    BY DEF ReadyMeansApplied
  <2> QED
    BY DEF AInv, ReadyIsApplied, Applied, HangsBelow
<1> QED
  BY <1>1, <1>2, AInvInit, PTL DEF Spec
=============================================================================
