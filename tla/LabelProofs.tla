----------------------------- MODULE LabelProofs -----------------------------
(***************************************************************************)
(* Theorems about the Label controller: types, that it touches no label    *)
(* but its own, and that Ready means applied, as long as instanceRefs are  *)
(* left alone.                                                             *)
(***************************************************************************)
EXTENDS Label, TLAPS

RT == INSTANCE RuntimeProofs WITH Specs <- Instances \cup {None}, NoSpec <- None

-----------------------------------------------------------------------------
(* The controller runs on the runtime that RuntimeProofs is about.         *)

LEMMA SaneConstants == RT!Sane
BY NoneAssumption, BoundsAssumption
   DEF RT!Sane, Status, NoStatus, Reasons

\* The operators of the two instances of ControllerRuntime are the same.
LEMMA SameData ==
  /\ RT!Absent = Absent /\ RT!Idle = Idle
  /\ RT!Object = Object /\ RT!Job = Job
  /\ \A c : RT!Exists(c) <=> Exists(c)
  /\ RT!RuntimeInit <=> RuntimeInit
  /\ RT!RuntimeTypeOK <=> RuntimeTypeOK
BY DEF RT!Absent, Absent, RT!Idle, Idle, RT!Object, Object, RT!Job, Job, RT!Exists, Exists,
   RT!RuntimeInit, RuntimeInit, RT!RuntimeTypeOK, RuntimeTypeOK

LEMMA SameWrites ==
  ASSUME NEW n, NEW o
  PROVE  /\ RT!Store(n, o) <=> Store(n, o)
         /\ RT!UserCreates(n, o) <=> UserCreates(n, o)
         /\ RT!UserEdits(n, o) <=> UserEdits(n, o)
         /\ RT!UserDeletes(n) <=> UserDeletes(n)
<1>1. ASSUME NEW p PROVE /\ RT!Store(n, p) <=> Store(n, p)
                         /\ RT!UserWrites(n, p) <=> UserWrites(n, p)
  BY DEF RT!Store, Store, RT!UserWrites, UserWrites
<1> QED
  BY <1>1, SameData DEF RT!UserCreates, UserCreates, RT!UserEdits, UserEdits,
     RT!UserDeletes, UserDeletes

LEMMA SameSteps ==
  /\ \A n : /\ RT!Deliver(n) <=> Deliver(n)
            /\ RT!TimerFires(n) <=> TimerFires(n)
            /\ RT!Skip(n) <=> Skip(n)
            /\ RT!Begin(n) <=> Begin(n)
            /\ RT!BeginFails(n) <=> BeginFails(n)
  /\ \A o, again : RT!Commit(o, again) <=> Commit(o, again)
  /\ \A again : RT!Return(again) <=> Return(again)
  /\ RT!Restart <=> Restart
  /\ RT!Fault <=> Fault
BY SameData, SameWrites DEF RT!Deliver, Deliver, RT!TimerFires, TimerFires, RT!Skip, Skip,
   RT!Begin, Begin, RT!BeginFails, BeginFails, RT!Commit, Commit, RT!Return, Return,
   RT!Restart, Restart, RT!Fault, Fault

LEMMA SameTypes == ASSUME RT!RuntimeTypeOK' PROVE RuntimeTypeOK'
BY DEF RT!RuntimeTypeOK, RuntimeTypeOK, RT!Object, Object, RT!Job, Job

-----------------------------------------------------------------------------
(* The inductive invariant.                                                *)

\* Label i of instance s was created for the Label with uid u.
Backs(s, i, u) == i < nextId[s] /\ remote[s][i].uid = u

\* Every version of a Label refers to an instance, and the id it shows is that
\* of its own label there, unless the Label was moved.
Placed(c) == Exists(c) => c.spec \in Instances

Owns(c) == c.status.id # 0 => c.uid \in moved \/ Backs(c.spec, c.status.id, c.uid)

CopiesOwn ==
  \A n \in Names : \A c \in Object : RT!Copy(n, c) => Placed(c) /\ Owns(c)

\* What the handler knows.
Handler ==
  /\ work.pc \in {"delete", "release"} => job.obj.deleting
  /\ work.pc \in {"update", "delete"} => work.id = job.obj.status.id /\ work.id # 0
  /\ work.pc = "setNotReady" => work.reason # "ReconcileSuccess"
  /\ work.pc # "idle" /\ work.id # 0 =>
       job.obj.uid \in moved \/ Backs(Here, work.id, job.obj.uid)
  /\ work.pc = "setReady" /\ moved = {} =>
       LET r == remote[Here][work.id] IN r.live /\ r.gen # 0 => r.gen = job.obj.gen

\* A stored status is of the object's generation or an older one.
NotAhead == \A n \in Names : api[n].status.observed <= api[n].gen

\* Once a Label reports Ready for its generation, no older one is around.
ReadyIsNewest ==
  \A n \in Names : \A c \in Object :
    Ready(api[n]) /\ RT!Copy(n, c) /\ c.uid = api[n].uid => c.gen = api[n].gen

LInv == /\ TypeOK
        /\ RT!RInv
        /\ CopiesOwn
        /\ Handler
        /\ NotAhead
        /\ ReadyIsNewest
        /\ ReadyMeansApplied

LEMMA InitHolds == Init => LInv
<1> SUFFICES ASSUME Init PROVE LInv
  OBVIOUS
<1>1. RT!RInv
  BY SaneConstants, SameData, RT!RInvInit DEF Init
<1>2. RuntimeTypeOK
  BY <1>1, SameData DEF RT!RInv
<1>3. TypeOK
  BY <1>2, BoundsAssumption
     DEF Init, TypeOK, RuntimeInit, NoWork, NoLabel, Reasons, Outcomes
<1>4. ASSUME NEW n \in Names, NEW c, RT!Copy(n, c)
      PROVE  c = Absent
  BY <1>4, NoneAssumption DEF RT!Copy, Init, RuntimeInit, Idle
<1>5. CopiesOwn
  BY <1>4 DEF CopiesOwn, Placed, Owns, Exists, Absent, NoStatus
<1>6. Handler
  BY DEF Init, RuntimeInit, Handler, NoWork
<1>7. NotAhead /\ ReadyIsNewest /\ ReadyMeansApplied
  BY DEF Init, RuntimeInit, NotAhead, ReadyIsNewest, ReadyMeansApplied, Ready, Absent, NoStatus
<1> QED
  BY <1>1, <1>3, <1>5, <1>6, <1>7 DEF LInv

\* The worker's copy.
LEMMA WorkersCopy ==
  ASSUME LInv, work.pc # "idle"
  PROVE  /\ job.key \in Names /\ job.obj \in Object /\ RT!Copy(job.key, job.obj)
         /\ Exists(job.obj) /\ Here \in Instances /\ Owns(job.obj)
         /\ job.obj.gen \in 0..MaxGen /\ job.obj.uid \in 1..MaxUid
         /\ job.obj.status.id \in 0..MaxId /\ job.obj.status \in Status
<1>1. job.key \in Names /\ job.obj \in Object
  BY DEF LInv, TypeOK, RuntimeTypeOK, Job
<1>2. RT!Copy(job.key, job.obj)
  BY <1>1, SameData, RT!CopyOf DEF LInv, TypeOK
<1>3. Exists(job.obj)
  BY <1>1, SameData DEF LInv, RT!RInv, RT!Follows
<1> QED
  BY <1>1, <1>2, <1>3, BoundsAssumption
     DEF LInv, CopiesOwn, Placed, Here, Object, Status, Exists

\* The copy that a reconcile starts with.
LEMMA CachedCopy ==
  ASSUME LInv, NEW n \in Names
  PROVE  /\ cache[n] \in Object /\ Placed(cache[n]) /\ Owns(cache[n])
         /\ cache[n].status \in Status /\ cache[n].status.id \in 0..MaxId
<1>1. cache[n] \in Object /\ RT!Copy(n, cache[n])
  BY SameData, RT!CopyOf DEF LInv, TypeOK
<1> QED
  BY <1>1 DEF LInv, CopiesOwn, Object, Status

-----------------------------------------------------------------------------
(* Every step is one that the runtime allows.                              *)

\* What the handler writes at the end.
Written(o) ==
  \/ work.pc = "addFinalizer" /\ o = [job.obj EXCEPT !.finalizer = TRUE]
  \/ work.pc = "release" /\ o = Absent
  \/ /\ work.pc = "setReady"
     /\ o = [job.obj EXCEPT !.status = Reported("ReconcileSuccess")]
  \/ /\ work.pc = "setNotReady"
     /\ o = [job.obj EXCEPT !.status = Reported(work.reason)]

Finishes(o) == Written(o) /\ \E again \in BOOLEAN : Ends(o, again)

LEMMA WrittenTyped ==
  ASSUME LInv, NEW o, Written(o)
  PROVE  o \in Object /\ RT!MayWrite(o) /\ job.key \in Names
<1>1. work.pc # "idle"
  BY DEF Written
<1>2. job.key \in Names /\ job.obj \in Object /\ job.obj.gen \in 0..MaxGen
  BY <1>1, WorkersCopy
<1>3. CASE work.pc = "addFinalizer" /\ o = [job.obj EXCEPT !.finalizer = TRUE]
  BY <1>2, <1>3 DEF Object, RT!MayWrite
<1>4. CASE work.pc = "release" /\ o = Absent
  BY <1>2, <1>4, SameData, SaneConstants, RT!AbsentTyped DEF RT!MayWrite, LInv, Handler
<1>5. ASSUME NEW reason \in Reasons, o = [job.obj EXCEPT !.status = Reported(reason)]
      PROVE  o \in Object /\ RT!MayWrite(o)
  <2>1. Reported(reason) \in Status
    BY <1>2 DEF Reported, Status, LInv, TypeOK
  <2> HIDE DEF Reported
  <2> QED
    BY <1>2, <1>5, <2>1 DEF Object, RT!MayWrite
<1>6. "ReconcileSuccess" \in Reasons /\ work.reason \in Reasons
  BY DEF Reasons, LInv, TypeOK
<1> QED
  BY <1>2, <1>3, <1>4, <1>5, <1>6 DEF Written

LEMMA StepFinishes ==
  ASSUME AddFinalizer \/ RemoveFinalizer \/ SetReady \/ SetNotReady
  PROVE  \E o : Finishes(o)
BY DEF AddFinalizer, RemoveFinalizer, SetReady, SetNotReady, Finishes, Written

LEMMA StepMoves == ASSUME LInv, Next PROVE RT!Move
<1> USE DEF RT!Move
<1>1. ASSUME NEW n \in Names, NEW s \in Instances \cup {None},
             Create(n, s) \/ EditLabel(n, s) \/ Delete(n)
      PROVE  RT!User
  BY <1>1, SameWrites DEF Create, EditLabel, Delete, RT!User
<1>2. ASSUME NEW n \in Names,
             Sync(n) \/ Requeue(n) \/ ReconcileNothing(n) \/ ReconcileFails(n)
      PROVE  RT!Plumbing
  BY <1>2, SameSteps DEF Sync, Requeue, ReconcileNothing, ReconcileFails, RT!Plumbing
<1>3. ASSUME NEW n \in Names,
             ReconcileAddsFinalizer(n) \/ ReconcileUpserts(n) \/ ReconcileDeletes(n)
      PROVE  RT!Starts
  BY <1>3, SameSteps, SameData
     DEF ReconcileAddsFinalizer, ReconcileUpserts, ReconcileDeletes, Finalized, RT!Starts
<1>4. ASSUME NEW o, Finishes(o)
      PROVE  RT!Writes
  BY <1>4, WrittenTyped, SameSteps, SameData DEF Finishes, Ends, RT!Writes
<1>5. ASSUME UNCHANGED <<api, cache, events, timers, job, lastUid>>,
             queue' \in SUBSET Names, Fault \/ UNCHANGED faults
      PROVE  RT!Elsewhere
  BY <1>5, BoundsAssumption DEF Fault, LInv, TypeOK, RuntimeTypeOK, RT!Elsewhere
<1>6. queue \in SUBSET Names
  BY DEF LInv, TypeOK, RuntimeTypeOK
<1>7. CASE CreateLabel \/ UpdateLabel
  BY <1>5, <1>6, <1>7 DEF CreateLabel, UpdateLabel, kubernetes
<1>8. CASE DeleteLabel
  <2>1. job.key \in Names
    BY <1>8, WorkersCopy DEF DeleteLabel
  <2> QED
    BY <1>5, <1>6, <1>8, <2>1, SameSteps DEF DeleteLabel, RT!GivesUp
<1>9. ASSUME NEW s, NEW r, InstanceChanges(s, r)
      PROVE  RT!Elsewhere
  BY <1>5, <1>6, <1>9 DEF InstanceChanges
<1>10. ASSUME NEW s, NEW i,
              ExternalDelete(s, i) \/ ExternalEdit(s, i) \/ ExternalCreate(s)
       PROVE  RT!Elsewhere
  BY <1>5, <1>6, <1>10 DEF ExternalDelete, ExternalEdit, ExternalCreate, kubernetes
<1>11. CASE Crash
  BY <1>11, SameSteps DEF Crash
<1> QED
  BY <1>1, <1>2, <1>3, <1>4, <1>7, <1>8, <1>9, <1>10, <1>11, StepFinishes
     DEF Next, Step, Environment, Reconcile

\* What a step does to the stored objects.
UserActs(n) == Delete(n) \/ \E s \in Instances : Create(n, s) \/ EditLabel(n, s)

LEMMA ObjectStep ==
  ASSUME LInv, Next
  PROVE  \/ UNCHANGED <<api, lastUid>>
         \/ \E n \in Names : UserActs(n) /\ RT!OnlyTouches(n) /\ RT!ByUser(n)
         \/ /\ RT!OnlyTouches(job.key) /\ RT!Committed(job.key)
            /\ Written(api'[job.key]) /\ UNCHANGED world
<1>1. ASSUME NEW n \in Names, NEW s \in Instances \cup {None},
             Create(n, s) \/ EditLabel(n, s) \/ Delete(n)
      PROVE  RT!OnlyTouches(n) /\ RT!ByUser(n)
  BY <1>1, SameWrites, SameData, RT!UserChanges DEF Create, EditLabel, Delete, LInv, TypeOK
<1>2. ASSUME NEW o, Finishes(o)
      PROVE  \/ UNCHANGED <<api, lastUid>>
             \/ /\ RT!OnlyTouches(job.key) /\ RT!Committed(job.key)
                /\ Written(api'[job.key]) /\ UNCHANGED world
  <2>1. Written(o) /\ UNCHANGED world /\ \E again : RT!Commit(o, again)
    BY <1>2, SameSteps DEF Finishes, Ends
  <2>2. RT!MayWrite(o) /\ job.key \in Names
    BY <2>1, WrittenTyped
  <2>3. \/ UNCHANGED <<api, lastUid>>
        \/ RT!Changes(job.key) /\ RT!Committed(job.key) /\ api'[job.key] = o
    BY <2>1, <2>2, SameData, RT!CommitChanges DEF LInv, TypeOK, RT!RInv
  <2> QED
    BY <2>1, <2>3 DEF RT!Changes
<1>3. ASSUME NEW n \in Names, Sync(n) \/ Requeue(n) \/ Reconcile(n)
      PROVE  UNCHANGED <<api, lastUid>>
  BY <1>3 DEF Sync, Deliver, Requeue, TimerFires, Reconcile, ReconcileNothing, Skip,
     ReconcileAddsFinalizer, ReconcileUpserts, ReconcileDeletes, Begin, ReconcileFails,
     BeginFails
<1>4. CASE CreateLabel \/ UpdateLabel \/ DeleteLabel \/ Crash
  BY <1>4 DEF CreateLabel, UpdateLabel, DeleteLabel, Return, Crash, Restart, kubernetes
<1>5. ASSUME NEW s, NEW r, NEW i,
             \/ InstanceChanges(s, r) \/ ExternalDelete(s, i) \/ ExternalEdit(s, i)
             \/ ExternalCreate(s)
      PROVE  UNCHANGED <<api, lastUid>>
  BY <1>5 DEF InstanceChanges, ExternalDelete, ExternalEdit, ExternalCreate, kubernetes
<1> QED
  BY <1>1, <1>2, <1>3, <1>4, <1>5, StepFinishes DEF Next, Step, Environment, UserActs
-----------------------------------------------------------------------------
(* What happens to labels that were created.                               *)

\* Label j of instance z becomes r, or gets the contents g.
Put(z, j, r) == remote' = [remote EXCEPT ![z][j] = r]
PutGen(z, j, g) == remote' = [remote EXCEPT ![z][j].gen = g]

LabelRecord == [live : BOOLEAN, uid : 0..MaxUid, gen : 0..MaxGen]

\* A write of one label is a write of one label.
LEMMA Rewritten ==
  ASSUME remote \in [Instances -> [1..MaxId -> LabelRecord]], NEW z \in Instances, NEW j \in 1..MaxId,
         NEW r, Put(z, j, r)
  PROVE  /\ \A s \in Instances, i \in 1..MaxId :
              remote'[s][i] = IF s = z /\ i = j THEN r ELSE remote[s][i]
         /\ r \in LabelRecord => remote' \in [Instances -> [1..MaxId -> LabelRecord]]
BY DEF Put

\* The two partial writes are such writes.
LEMMA RewrittenGen ==
  ASSUME remote \in [Instances -> [1..MaxId -> LabelRecord]], NEW z \in Instances, NEW j \in 1..MaxId,
         NEW g \in 0..MaxGen, PutGen(z, j, g)
  PROVE  \E r \in LabelRecord :
           /\ r.uid = remote[z][j].uid /\ r.live = remote[z][j].live /\ r.gen = g
           /\ Put(z, j, r)
<1> DEFINE r == [remote[z][j] EXCEPT !.gen = g]
<1>1. remote[z][j] \in LabelRecord
  OBVIOUS
<1>2. r \in LabelRecord /\ r.uid = remote[z][j].uid /\ r.live = remote[z][j].live /\ r.gen = g
  BY <1>1 DEF LabelRecord
<1>3. Put(z, j, r)
  BY DEF Put, PutGen
<1> QED
  BY <1>2, <1>3

LEMMA RewrittenGone ==
  ASSUME remote \in [Instances -> [1..MaxId -> LabelRecord]], NEW z \in Instances, NEW j \in 1..MaxId,
         Gone(z, j)
  PROVE  \E r \in LabelRecord :
           /\ r.uid = remote[z][j].uid /\ ~r.live /\ r.gen = 0
           /\ Put(z, j, r)
<1> DEFINE r == [remote[z][j] EXCEPT !.live = FALSE, !.gen = 0]
<1>1. remote[z][j] \in LabelRecord /\ 0 \in 0..MaxGen
  BY BoundsAssumption
<1>2. r \in LabelRecord /\ r.uid = remote[z][j].uid /\ ~r.live /\ r.gen = 0
  BY <1>1 DEF LabelRecord
<1>3. Put(z, j, r)
  BY DEF Put, Gone
<1> QED
  BY <1>2, <1>3

\* What a step may do to label j of instance z by making it r: add it, take away
\* the contents it had, or write those of the object that the handler updates.
Adds(z, j) == j = nextId[z] /\ nextId' = [nextId EXCEPT ![z] = j + 1]

Keeps(z, j, r) == UNCHANGED nextId /\ r.uid = remote[z][j].uid

Spoils(z, j, r) == Keeps(z, j, r) /\ r.gen = 0

Updates(z, j, r) ==
  /\ Keeps(z, j, r)
  /\ work.pc = "update" /\ z = Here /\ j = job.obj.status.id
  /\ r.gen = job.obj.gen

Changes ==
  \E z \in Instances, j \in 1..MaxId, r \in LabelRecord :
    /\ Put(z, j, r)
    /\ Adds(z, j) \/ Spoils(z, j, r) \/ Updates(z, j, r)
    /\ \/ UNCHANGED <<job, work>>
       \/ r.uid = job.obj.uid \/ job.obj.uid \in moved

\* A step adds a label, or changes one that keeps its creator and whose
\* contents become nobody's, or those of the object that the handler updates.
\* What the handler writes is its object's own label.
LEMMA RemoteStep ==
  ASSUME LInv, Next
  PROVE  UNCHANGED <<remote, nextId>> \/ Changes
<1>0. /\ remote \in [Instances -> [1..MaxId -> LabelRecord]]
      /\ nextId \in [Instances -> 1..(MaxId + 1)] /\ MaxId \in Nat
  BY BoundsAssumption DEF LInv, TypeOK, LabelRecord
<1>1. CASE UNCHANGED <<remote, nextId>>
  BY <1>1
<1>2. CASE CreateLabel
  <2> DEFINE r == [live |-> TRUE, uid |-> job.obj.uid, gen |-> job.obj.gen]
             j == nextId[Here]
  <2>1. Here \in Instances /\ r \in LabelRecord /\ r.uid = job.obj.uid
    BY <1>2, WorkersCopy, BoundsAssumption DEF CreateLabel, LabelRecord
  <2>2. CASE ~UNCHANGED <<remote, nextId>>
    <3>1. /\ j \in 1..MaxId /\ Put(Here, j, r)
          /\ nextId' = [nextId EXCEPT ![Here] = j + 1]
      BY <1>0, <1>2, <2>1, <2>2 DEF CreateLabel, Put
    <3>2. Adds(Here, j)
      BY <3>1 DEF Adds
    <3> HIDE DEF r, j
    <3> QED
      BY <2>1, <3>1, <3>2 DEF Changes
  <2> QED
    BY <2>2
<1>3. CASE /\ UNCHANGED nextId
           /\ \/ /\ work.pc = "update"
                 /\ PutGen(Here, job.obj.status.id, job.obj.gen)
              \/ work.pc = "delete" /\ Gone(Here, job.obj.status.id)
  <2> DEFINE j == job.obj.status.id
  <2>1. /\ Here \in Instances /\ j \in 1..MaxId /\ job.obj.gen \in 0..MaxGen
        /\ job.obj.uid \in moved \/ remote[Here][j].uid = job.obj.uid
    BY <1>0, <1>3, WorkersCopy DEF LInv, Handler, Backs
  <2>2. CASE work.pc = "update" /\ PutGen(Here, j, job.obj.gen)
    <3>1. PICK r \in LabelRecord : /\ r.uid = remote[Here][j].uid /\ r.gen = job.obj.gen
                                  /\ Put(Here, j, r)
      BY <1>0, <2>1, <2>2, RewrittenGen
    <3> QED
      BY <1>3, <2>1, <2>2, <3>1 DEF Changes, Updates, Keeps
  <2>3. CASE Gone(Here, j)
    <3>1. PICK r \in LabelRecord : /\ r.uid = remote[Here][j].uid /\ r.gen = 0
                                  /\ Put(Here, j, r)
      BY <1>0, <2>1, <2>3, RewrittenGone
    <3> QED
      BY <1>3, <2>1, <3>1 DEF Changes, Spoils, Keeps
  <2> QED
    BY <1>3, <2>2, <2>3
<1>5. ASSUME NEW z \in Instances, NEW j \in 1..MaxId,
             ExternalDelete(z, j) \/ ExternalEdit(z, j)
      PROVE  Changes
  <2>1. 0 \in 0..MaxGen
    BY BoundsAssumption
  <2>2. CASE ExternalDelete(z, j)
    <3>1. \E r \in LabelRecord : /\ r.uid = remote[z][j].uid /\ r.gen = 0
                                 /\ Put(z, j, r)
      BY <1>0, <2>2, RewrittenGone DEF ExternalDelete
    <3> QED
      BY <2>2, <3>1 DEF ExternalDelete, kubernetes, Changes, Spoils, Keeps
  <2>3. CASE ExternalEdit(z, j)
    <3>1. \E r \in LabelRecord : /\ r.uid = remote[z][j].uid /\ r.gen = 0
                                 /\ Put(z, j, r)
      BY <1>0, <2>1, <2>3, RewrittenGen DEF ExternalEdit, PutGen
    <3> QED
      BY <2>3, <3>1 DEF ExternalEdit, kubernetes, Changes, Spoils, Keeps
  <2> QED
    BY <1>5, <2>2, <2>3
<1>6. ASSUME NEW z \in Instances, ExternalCreate(z)
      PROVE  Changes
  <2>1. 0 \in 0..MaxGen /\ 0 \in 0..MaxUid
    BY BoundsAssumption
  <2>2. [NoLabel EXCEPT !.live = TRUE] \in LabelRecord
    BY <2>1 DEF NoLabel, LabelRecord
  <2>3. nextId[z] \in 1..MaxId
    BY <1>0, <1>6 DEF ExternalCreate
  <2> QED
    BY <1>6, <2>2, <2>3 DEF ExternalCreate, Put, kubernetes, Changes, Adds
<1>7. ASSUME NEW n \in Names, NEW z,
             \/ Sync(n) \/ Requeue(n) \/ Reconcile(n)
             \/ Create(n, z) \/ EditLabel(n, z) \/ Delete(n)
      PROVE  UNCHANGED <<remote, nextId>>
  BY <1>7 DEF Sync, Requeue, Reconcile, ReconcileNothing, ReconcileAddsFinalizer,
     ReconcileUpserts, ReconcileDeletes, ReconcileFails, Create, EditLabel, Delete, world
<1>8. CASE \/ \E o : Finishes(o)
           \/ Crash
           \/ \E z \in Instances, r \in Outcomes : InstanceChanges(z, r)
  BY <1>8 DEF Finishes, Ends, Crash, InstanceChanges, world
<1>9. CASE UpdateLabel \/ DeleteLabel
  BY <1>1, <1>3, <1>9 DEF UpdateLabel, DeleteLabel, PutGen
<1> QED
  BY <1>1, <1>2, <1>5, <1>6, <1>7, <1>8, <1>9, StepFinishes DEF Next, Step, Environment

LEMMA LabelStep ==
  ASSUME LInv, Next, NEW s \in Instances, NEW i \in 1..MaxId, i < nextId[s]
  PROVE  /\ i < nextId'[s] /\ remote'[s][i].uid = remote[s][i].uid
         /\ \/ remote'[s][i] = remote[s][i]
            \/ remote'[s][i].gen = 0
            \/ /\ work.pc = "update" /\ s = Here /\ i = job.obj.status.id
               /\ remote'[s][i].gen = job.obj.gen
<1>1. /\ remote \in [Instances -> [1..MaxId -> LabelRecord]]
      /\ nextId \in [Instances -> 1..(MaxId + 1)] /\ MaxId \in Nat
  BY BoundsAssumption DEF LInv, TypeOK, LabelRecord
<1>2. CASE UNCHANGED <<remote, nextId>>
  BY <1>2
<1>3. ASSUME NEW z \in Instances, NEW j \in 1..MaxId, NEW r \in LabelRecord,
             Put(z, j, r),
             Adds(z, j) \/ Spoils(z, j, r) \/ Updates(z, j, r)
      PROVE  /\ i < nextId'[s] /\ remote'[s][i].uid = remote[s][i].uid
             /\ \/ remote'[s][i] = remote[s][i]
                \/ remote'[s][i].gen = 0
                \/ /\ work.pc = "update" /\ s = Here /\ i = job.obj.status.id
                   /\ remote'[s][i].gen = job.obj.gen
  <2>1. remote'[s][i] = IF s = z /\ i = j THEN r ELSE remote[s][i]
    BY <1>1, <1>3, Rewritten
  <2>2. Adds(z, j) => ~(s = z /\ i = j)
    BY <1>1 DEF Adds
  <2>3. i < nextId'[s]
    BY <1>1, <1>3 DEF Adds, Spoils, Updates, Keeps
  <2> QED
    BY <1>3, <2>1, <2>2, <2>3 DEF Spoils, Updates, Keeps
<1> QED
  BY <1>2, <1>3, RemoteStep DEF Changes, Adds, Spoils, Updates, Keeps

\* A Label once moved is remembered.
LEMMA MovedGrows ==
  ASSUME LInv, Next
  PROVE  /\ moved \subseteq moved'
         /\ moved' # moved => \E n \in Names, s \in Instances :
              /\ EditLabel(n, s) /\ moved' = moved \cup {api[n].uid}
<1>1. ASSUME NEW n \in Names, NEW z,
             \/ Sync(n) \/ Requeue(n) \/ Reconcile(n) \/ Create(n, z) \/ Delete(n)
      PROVE  UNCHANGED moved
  BY <1>1 DEF Sync, Requeue, Reconcile, ReconcileNothing, ReconcileAddsFinalizer,
     ReconcileUpserts, ReconcileDeletes, ReconcileFails, Create, Delete, world
<1>2. CASE \/ \E o : Finishes(o)
           \/ CreateLabel \/ UpdateLabel \/ DeleteLabel \/ Crash
           \/ \E z \in Instances, r \in Outcomes : InstanceChanges(z, r)
           \/ \E z \in Instances, j \in 1..MaxId : ExternalDelete(z, j) \/ ExternalEdit(z, j)
           \/ \E z \in Instances : ExternalCreate(z)
  BY <1>2 DEF Finishes, Ends, CreateLabel, UpdateLabel, DeleteLabel, Crash, InstanceChanges,
     ExternalDelete, ExternalEdit, ExternalCreate, world
<1>3. ASSUME NEW n \in Names, NEW s \in Instances, EditLabel(n, s)
      PROVE  moved' = moved \/ moved' = moved \cup {api[n].uid}
  BY <1>3 DEF EditLabel
<1> QED
  BY <1>1, <1>2, <1>3, StepFinishes DEF Next, Step, Environment

LEMMA BacksStays ==
  ASSUME LInv, Next, NEW s \in Instances, NEW i \in 1..MaxId, NEW u, Backs(s, i, u)
  PROVE  Backs(s, i, u)'
BY LabelStep DEF Backs

LEMMA OwnsStays ==
  ASSUME LInv, Next, NEW c \in Object, Placed(c), Exists(c), Owns(c)
  PROVE  Owns(c)'
<1>1. c.spec \in Instances /\ (c.status.id # 0 => c.status.id \in 1..MaxId)
  BY DEF Placed, Object, Status
<1> QED
  BY <1>1, BacksStays, MovedGrows DEF Owns

-----------------------------------------------------------------------------
(* Types.                                                                  *)

Steps == {"idle", "addFinalizer", "create", "update", "setReady", "setNotReady", "delete",
          "release"}

\* The handler's locals and the instances.
WorldOK ==
  /\ work \in [pc : Steps, id : 0..MaxId, reason : Reasons]
  /\ work.pc # "idle" => job.key # None
  /\ work.pc = "setReady" => work.id # 0
  /\ inst \in [Instances -> Outcomes]

LEMMA RemoteTyped ==
  ASSUME LInv, Next
  PROVE  /\ remote' \in [Instances -> [1..MaxId -> LabelRecord]]
         /\ nextId' \in [Instances -> 1..(MaxId + 1)]
<1>1. /\ remote \in [Instances -> [1..MaxId -> LabelRecord]]
      /\ nextId \in [Instances -> 1..(MaxId + 1)] /\ MaxId \in Nat
  BY BoundsAssumption DEF LInv, TypeOK, LabelRecord
<1>2. CASE UNCHANGED <<remote, nextId>>
  BY <1>1, <1>2
<1>3. ASSUME NEW z \in Instances, NEW j \in 1..MaxId, NEW r \in LabelRecord,
             Put(z, j, r),
             nextId' = [nextId EXCEPT ![z] = j + 1] \/ UNCHANGED nextId
      PROVE  /\ remote' \in [Instances -> [1..MaxId -> LabelRecord]]
             /\ nextId' \in [Instances -> 1..(MaxId + 1)]
  <2>1. j + 1 \in 1..(MaxId + 1)
    BY <1>1
  <2>2. nextId' \in [Instances -> 1..(MaxId + 1)]
    BY <1>1, <1>3, <2>1
  <2> QED
    BY <1>1, <1>3, <2>2, Rewritten
<1> QED
  BY <1>2, <1>3, RemoteStep DEF Changes, Adds, Spoils, Updates, Keeps

LEMMA WorldStep == ASSUME LInv, Next PROVE WorldOK'
<1> USE DEF WorldOK
<1>1. LInv => WorldOK
  BY DEF LInv, TypeOK, Steps
<1>2. ASSUME UNCHANGED <<work, inst>>, job'.key = job.key
      PROVE  WorldOK'
  BY <1>1, <1>2
<1>3. ASSUME work' = NoWork, UNCHANGED inst
      PROVE  WorldOK'
  BY <1>1, <1>3, BoundsAssumption DEF NoWork, Steps, Reasons
<1>4. ASSUME NEW n \in Names, NEW s, Create(n, s) \/ EditLabel(n, s) \/ Delete(n)
      PROVE  WorldOK'
  <2>1. job'.key = job.key
    BY <1>4 DEF Create, EditLabel, Delete, UserCreates, UserEdits, UserDeletes, UserWrites,
       LInv, TypeOK, RuntimeTypeOK, Job
  <2> QED
    BY <1>2, <1>4, <2>1 DEF Create, EditLabel, Delete, world
<1>5. ASSUME NEW n \in Names,
             Sync(n) \/ Requeue(n) \/ ReconcileNothing(n) \/ ReconcileFails(n)
      PROVE  WorldOK'
  BY <1>2, <1>5 DEF Sync, Requeue, ReconcileNothing, ReconcileFails, Deliver, TimerFires,
     Skip, BeginFails, world
<1>6. ASSUME NEW n \in Names, Begin(n), UNCHANGED world,
             work' \in [pc : Steps \ {"setReady"}, id : 0..MaxId, reason : Reasons]
      PROVE  WorldOK'
  <2>1. job'.key # None /\ work'.pc # "setReady"
    BY <1>6, NoneAssumption DEF Begin
  <2> QED
    BY <1>1, <1>6, <2>1 DEF world
<1>7. ASSUME NEW n \in Names, ReconcileAddsFinalizer(n)
      PROVE  WorldOK'
  BY <1>6, <1>7, BoundsAssumption DEF ReconcileAddsFinalizer, NoWork, Steps, Reasons
<1>8. ASSUME NEW n \in Names, ReconcileUpserts(n)
      PROVE  WorldOK'
  <2>1. cache[n].spec \in Instances /\ inst[cache[n].spec] \in Reasons
    BY <1>1, <1>8, CachedCopy DEF ReconcileUpserts, Finalized, Placed, Outcomes, Reasons
  <2> QED
    BY <1>6, <1>8, <2>1, CachedCopy DEF ReconcileUpserts, Started, NoWork, Steps, Reasons
<1>9. ASSUME NEW n \in Names, ReconcileDeletes(n)
      PROVE  WorldOK'
  BY <1>6, <1>9, CachedCopy DEF ReconcileDeletes, Started, NoWork, Steps, Reasons
<1>17. ASSUME work.pc # "idle", UNCHANGED <<job, inst>>,
              ToError \/ Missing \/ \E i \in 1..MaxId : ToReady(i)
       PROVE  WorldOK'
  <2>1. work.id \in 0..MaxId /\ job'.key # None
    BY <1>1, <1>17
  <2>2. CASE ToError
    BY <1>1, <1>17, <2>1, <2>2 DEF ToError, Steps, Reasons
  <2>3. CASE Missing
    BY <1>1, <1>17, <2>1, <2>3 DEF Missing, Steps
  <2>4. ASSUME NEW i \in 1..MaxId, ToReady(i)
        PROVE  WorldOK'
    <3>1. i \in 0..MaxId /\ i # 0
      BY BoundsAssumption
    <3> QED
      BY <1>1, <1>17, <2>1, <2>4, <3>1 DEF ToReady, Steps
  <2> QED
    BY <1>17, <2>2, <2>3, <2>4
<1>10. CASE CreateLabel
  <2>1. ToError \/ \E i \in 1..MaxId : ToReady(i)
    <3>1. nextId[Here] \in 1..(MaxId + 1)
      BY <1>10, WorkersCopy DEF CreateLabel, LInv, TypeOK
    <3> QED
      BY <1>10, <3>1, BoundsAssumption DEF CreateLabel
  <2> QED
    BY <1>1, <1>17, <1>10, <2>1 DEF CreateLabel, kubernetes
<1>11. CASE UpdateLabel
  <2>1. job.obj.status.id \in 1..MaxId
    BY <1>11, WorkersCopy DEF UpdateLabel, LInv, Handler
  <2> QED
    BY <1>1, <1>17, <1>11, <2>1 DEF UpdateLabel, kubernetes
<1>12. CASE DeleteLabel
  <2>1. work' = NoWork \/ (work' = [work EXCEPT !.pc = "release"] /\ job' = job)
    BY <1>12 DEF DeleteLabel
  <2> QED
    BY <1>1, <1>3, <1>12, <2>1 DEF DeleteLabel, Steps
<1>13. CASE Crash \/ \E o : Finishes(o)
  BY <1>3, <1>13 DEF Crash, Finishes, Ends, world
<1>14. ASSUME NEW s \in Instances, NEW r \in Outcomes, InstanceChanges(s, r)
       PROVE  WorldOK'
  BY <1>1, <1>14 DEF InstanceChanges
<1>15. ASSUME NEW s, NEW i,
              ExternalDelete(s, i) \/ ExternalEdit(s, i) \/ ExternalCreate(s)
       PROVE  WorldOK'
  BY <1>2, <1>15 DEF ExternalDelete, ExternalEdit, ExternalCreate, kubernetes
<1> QED
  BY <1>4, <1>5, <1>7, <1>8, <1>9, <1>10, <1>11, <1>12, <1>13, <1>14, <1>15,
     StepFinishes DEF Next, Step, Environment, Reconcile
LEMMA UidsGrow == ASSUME LInv, Next PROVE lastUid' \in {lastUid, lastUid + 1}
BY ObjectStep DEF RT!ByUser, RT!Appears, RT!Edited, RT!Marked, RT!Dropped, RT!Committed

LEMMA TypeStep == ASSUME LInv, Next PROVE TypeOK'
<1>1. RuntimeTypeOK'
  BY SaneConstants, SameData, SameTypes, StepMoves, RT!MoveTyped DEF LInv, TypeOK
<1>2. lastUid \in Nat /\ lastUid <= lastUid' /\ lastUid' \in Nat
  BY UidsGrow, BoundsAssumption DEF LInv, TypeOK, RuntimeTypeOK
<1>3. ASSUME NEW n \in Names, Exists(api[n])
      PROVE  api[n].uid \in 1..lastUid
  <2>1. api[n] \in Object /\ RT!Copy(n, api[n])
    BY SameData, RT!CopyOf DEF LInv, TypeOK
  <2> QED
    BY <1>2, <1>3, <2>1, SameData, BoundsAssumption
       DEF LInv, RT!RInv, RT!Versions, RT!Version, Object, Exists
<1>4. moved' \subseteq 1..lastUid'
  <2>1. 1..lastUid \subseteq 1..lastUid' /\ moved \subseteq 1..lastUid
    BY <1>2 DEF LInv, TypeOK
  <2>2. ASSUME NEW n \in Names, NEW s, EditLabel(n, s)
        PROVE  api[n].uid \in 1..lastUid
    BY <1>3, <2>2 DEF EditLabel, UserEdits
  <2> QED
    BY <2>1, <2>2, MovedGrows
<1> QED
  BY <1>1, <1>4, WorldStep, RemoteTyped DEF TypeOK, WorldOK, LabelRecord, Steps

-----------------------------------------------------------------------------
(* What the handler knows.                                                 *)

\* What is known of the label behind the id stays so.
LEMMA BackedStays ==
  ASSUME LInv, Next, work.pc # "idle", work.id # 0,
         NEW h, h = Here, NEW i, i = work.id, NEW u, u = job.obj.uid
  PROVE  u \in moved' \/ Backs(h, i, u)'
<1>1. h \in Instances /\ i \in 1..MaxId
  BY WorkersCopy DEF LInv, TypeOK
<1> QED
  BY <1>1, BacksStays, MovedGrows DEF LInv, Handler

LEMMA HandlerQuiet ==
  ASSUME LInv, Next, work.pc # "idle" => job'.obj = job.obj,
         \/ UNCHANGED work
         \/ /\ work.pc # "idle" /\ work'.id = work.id /\ work'.pc = "create"
         \/ /\ work.pc # "idle" /\ work'.id = work.id /\ work'.pc = "setNotReady"
            /\ work'.reason = "ReconcileError"
         \/ /\ work.pc = "delete" /\ work'.id = work.id /\ work'.pc = "release"
  PROVE  Handler'
<1>1. CASE work.pc = "idle"
  BY <1>1 DEF Handler
<1>2. CASE work.pc # "idle"
  <2>1. job'.obj = job.obj /\ work'.id = work.id /\ work'.pc # "idle"
    BY <1>2
  <2>2. work.id # 0 => job'.obj.uid \in moved' \/ Backs(Here, work.id, job.obj.uid)'
    BY <1>2, <2>1, BackedStays DEF Here
  <2>3. ASSUME work'.pc = "setReady", moved' = {}
        PROVE  LET r == remote'[Here][work.id]
               IN r.live /\ r.gen # 0 => r.gen = job.obj.gen
    <3>1. /\ work.pc = "setReady" /\ moved = {}
          /\ Here \in Instances /\ work.id \in 1..MaxId /\ work.id < nextId[Here]
      BY <1>2, <2>3, MovedGrows, WorkersCopy DEF LInv, TypeOK, Handler, Backs
    <3> QED
      BY <3>1, LabelStep DEF LInv, Handler
  <2> QED
    BY <2>1, <2>2, <2>3 DEF LInv, Handler, Here
<1> QED
  BY <1>1, <1>2

LEMMA HandlerStarts ==
  ASSUME LInv, NEW n \in Names, Begin(n), UNCHANGED world, Exists(cache[n]),
         NEW pc, work'.pc = pc, work'.id = cache[n].status.id,
         pc \in {"create", "update", "setNotReady", "delete", "release"},
         pc \in {"delete", "release"} => cache[n].deleting,
         pc \in {"update", "delete"} => cache[n].status.id # 0,
         pc = "setNotReady" => work'.reason # "ReconcileSuccess"
  PROVE  Handler'
<1>1. job'.obj = cache[n] /\ UNCHANGED <<remote, nextId, moved>>
  BY DEF Begin, world
<1>2. Owns(cache[n])
  BY CachedCopy
<1> QED
  BY <1>1, <1>2 DEF Handler, Owns, Backs, Here

LEMMA HandlerStep == ASSUME LInv, Next PROVE Handler'
<1>1. ASSUME work'.pc \in {"idle", "addFinalizer"}, work'.id = 0
      PROVE  Handler'
  BY <1>1 DEF Handler
<1>2. ASSUME NEW n \in Names, NEW s, Create(n, s) \/ EditLabel(n, s) \/ Delete(n)
      PROVE  Handler'
  <2>1. job'.obj = job.obj /\ UNCHANGED work
    BY <1>2 DEF Create, EditLabel, Delete, UserCreates, UserEdits, UserDeletes, UserWrites,
       LInv, TypeOK, RuntimeTypeOK, Job
  <2> QED
    BY <2>1, HandlerQuiet
<1>3. ASSUME NEW n \in Names,
             Sync(n) \/ Requeue(n) \/ ReconcileNothing(n) \/ ReconcileFails(n)
      PROVE  Handler'
  BY <1>3, HandlerQuiet DEF Sync, Requeue, ReconcileNothing, ReconcileFails, Deliver,
     TimerFires, Skip, BeginFails
<1>4. ASSUME NEW n \in Names, ReconcileAddsFinalizer(n)
      PROVE  Handler'
  BY <1>1, <1>4 DEF ReconcileAddsFinalizer, NoWork
<1>5. ASSUME NEW n \in Names, ReconcileUpserts(n)
      PROVE  Handler'
  <2>1. Begin(n) /\ UNCHANGED world /\ Exists(cache[n]) /\ cache[n].spec \in Instances
    BY <1>5, CachedCopy DEF ReconcileUpserts, Finalized, Placed
  <2>2. inst[cache[n].spec] # "ReconcileSuccess"
    BY <2>1 DEF LInv, TypeOK, Outcomes
  <2>3. /\ work'.id = cache[n].status.id
        /\ \/ work'.pc = "setNotReady" /\ work'.reason = inst[cache[n].spec]
           \/ work'.pc = "create"
           \/ work'.pc = "update" /\ cache[n].status.id # 0
    BY <1>5 DEF ReconcileUpserts, Started, NoWork
  <2> QED
    BY <2>1, <2>2, <2>3, HandlerStarts
<1>6. ASSUME NEW n \in Names, ReconcileDeletes(n)
      PROVE  Handler'
  <2>1. Begin(n) /\ UNCHANGED world /\ Exists(cache[n]) /\ cache[n].deleting
    BY <1>6 DEF ReconcileDeletes
  <2>2. /\ work'.id = cache[n].status.id
        /\ \/ work'.pc = "release"
           \/ work'.pc = "delete" /\ cache[n].status.id # 0
    BY <1>6 DEF ReconcileDeletes, Started, NoWork
  <2> QED
    BY <2>1, <2>2, HandlerStarts
<1>7. CASE CreateLabel
  <2>1. job' = job /\ work.pc = "create" /\ Here \in Instances
    BY <1>7, WorkersCopy DEF CreateLabel, kubernetes
  <2>2. CASE ToError
    BY <2>1, <2>2, HandlerQuiet DEF ToError, LInv, TypeOK
  <2>3. CASE ~ToError
    <3> DEFINE i == nextId[Here]
               r == [live |-> TRUE, uid |-> job.obj.uid, gen |-> job.obj.gen]
    <3>1. /\ i \in 1..MaxId /\ Put(Here, i, r) /\ ToReady(i)
          /\ nextId' = [nextId EXCEPT ![Here] = i + 1]
      BY <1>7, <2>1, <2>3, BoundsAssumption DEF CreateLabel, Put, LInv, TypeOK
    <3>2. remote'[Here][i] = r
      BY <2>1, <3>1, Rewritten DEF LInv, TypeOK, LabelRecord
    <3>3. i < nextId'[Here]
      BY <2>1, <3>1 DEF LInv, TypeOK
    <3>4. work'.id = i /\ work'.pc = "setReady" /\ job'.obj = job.obj
      BY <2>1, <3>1 DEF ToReady, LInv, TypeOK
    <3>5. Here' = Here
      BY <2>1 DEF Here
    <3> QED
      BY <3>2, <3>3, <3>4, <3>5 DEF Handler, Backs
  <2> QED
    BY <2>2, <2>3
<1>8. CASE UpdateLabel
  <2> DEFINE i == job.obj.status.id
  <2>1. /\ job' = job /\ work.pc = "update" /\ Here \in Instances
        /\ i = work.id /\ i \in 1..MaxId /\ job.obj.gen \in 0..MaxGen
    BY <1>8, WorkersCopy DEF UpdateLabel, kubernetes, LInv, Handler
  <2>2. CASE ToError \/ Missing
    BY <2>1, <2>2, HandlerQuiet DEF ToError, Missing, LInv, TypeOK
  <2>3. CASE ~(ToError \/ Missing)
    <3>1. PutGen(Here, i, job.obj.gen) /\ ToReady(i)
      BY <1>8, <2>3 DEF UpdateLabel, PutGen
    <3>2. PICK r \in LabelRecord : r.gen = job.obj.gen /\ Put(Here, i, r)
      BY <2>1, <3>1, RewrittenGen DEF LInv, TypeOK, LabelRecord
    <3>3. remote'[Here][i].gen = job.obj.gen
      BY <2>1, <3>2, Rewritten DEF LInv, TypeOK, LabelRecord
    <3>4. work'.id = i /\ work'.pc = "setReady" /\ job'.obj = job.obj
      BY <2>1, <3>1 DEF ToReady, LInv, TypeOK
    <3>5. Here' = Here
      BY <2>1 DEF Here
    <3>6. job.obj.uid \in moved' \/ Backs(Here, i, job.obj.uid)'
      BY <2>1, <3>5, BackedStays
    <3> QED
      BY <3>3, <3>4, <3>5, <3>6 DEF Handler
  <2> QED
    BY <2>2, <2>3
<1>9. CASE DeleteLabel
  <2>1. CASE work' = NoWork
    BY <1>1, <2>1 DEF NoWork
  <2>2. CASE work' # NoWork
    <3>1. job' = job /\ work.pc = "delete" /\ work' = [work EXCEPT !.pc = "release"]
      BY <1>9, <2>2 DEF DeleteLabel
    <3> QED
      BY <3>1, HandlerQuiet DEF LInv, TypeOK
  <2> QED
    BY <2>1, <2>2
<1>10. CASE Crash \/ \E o : Finishes(o)
  BY <1>1, <1>10 DEF Crash, Finishes, Ends, NoWork
<1>11. ASSUME NEW s, NEW i, NEW r,
              \/ InstanceChanges(s, r) \/ ExternalDelete(s, i) \/ ExternalEdit(s, i)
              \/ ExternalCreate(s)
       PROVE  Handler'
  BY <1>11, HandlerQuiet
     DEF InstanceChanges, ExternalDelete, ExternalEdit, ExternalCreate, kubernetes
<1> QED
  BY <1>2, <1>3, <1>4, <1>5, <1>6, <1>7, <1>8, <1>9, <1>10, <1>11,
     StepFinishes DEF Next, Step, Environment, Reconcile
-----------------------------------------------------------------------------
(* What versions show.                                                     *)

LEMMA StoredCopy ==
  ASSUME LInv, NEW n \in Names
  PROVE  /\ api[n] \in Object /\ RT!Copy(n, api[n]) /\ Placed(api[n]) /\ Owns(api[n])
         /\ api[n].gen \in Nat /\ api[n].status.observed \in Nat
         /\ api[n].status.id \in 0..MaxId
<1>1. api[n] \in Object /\ RT!Copy(n, api[n])
  BY SameData, RT!CopyOf DEF LInv, TypeOK
<1> QED
  BY <1>1, BoundsAssumption DEF LInv, CopiesOwn, Object, Status

LEMMA UserOwns ==
  ASSUME LInv, NEW n \in Names, UserActs(n)
  PROVE  Placed(api'[n]) /\ Owns(api[n])'
<1>1. api[n] \in Object /\ Placed(api[n]) /\ Owns(api[n])
  BY StoredCopy
<1>2. api \in [Names -> Object]
  BY DEF LInv, TypeOK, RuntimeTypeOK
<1>3. ASSUME NEW s \in Instances, Create(n, s)
      PROVE  Placed(api'[n]) /\ Owns(api[n])'
  <2>1. api'[n].spec = s /\ api'[n].status.id = 0
    BY <1>2, <1>3 DEF Create, UserCreates, UserWrites, Store, Absent, NoStatus
  <2> QED
    BY <2>1 DEF Placed, Owns
<1>4. ASSUME NEW s \in Instances, EditLabel(n, s)
      PROVE  Placed(api'[n]) /\ Owns(api[n])'
  <2>1. /\ api'[n].spec = s /\ api'[n].status = api[n].status /\ api'[n].uid = api[n].uid
        /\ UNCHANGED <<remote, nextId>>
        /\ moved' = IF s = api[n].spec THEN moved ELSE moved \cup {api[n].uid}
    BY <1>1, <1>2, <1>4 DEF EditLabel, UserEdits, UserWrites, Store, Object
  <2> QED
    BY <1>1, <2>1 DEF Placed, Owns, Backs
<1>5. CASE Delete(n)
  <2>1. UNCHANGED <<remote, nextId, moved>>
    BY <1>5 DEF Delete, world
  <2>2. \/ /\ api'[n].spec = api[n].spec /\ api'[n].status = api[n].status
           /\ api'[n].uid = api[n].uid
        \/ api'[n] = Absent
    BY <1>1, <1>2, <1>5 DEF Delete, UserDeletes, UserWrites, Store, Object
  <2> QED
    BY <1>1, <2>1, <2>2 DEF Placed, Owns, Backs, Absent, NoStatus, Exists
<1> QED
  BY <1>3, <1>4, <1>5 DEF UserActs

\* What the handler writes is of its own copy.
LEMMA WrittenFields ==
  ASSUME LInv, NEW o, Written(o)
  PROVE  \/ o = Absent
         \/ /\ o.uid = job.obj.uid /\ o.gen = job.obj.gen /\ o.spec = job.obj.spec
            /\ \/ o.status = job.obj.status
               \/ work.pc = "setReady" /\ o.status = Reported("ReconcileSuccess")
               \/ work.pc = "setNotReady" /\ o.status = Reported(work.reason)
<1>1. job.obj \in Object
  BY WorkersCopy DEF Written
<1> QED
  BY <1>1 DEF Written, Object

LEMMA WrittenOwns ==
  ASSUME LInv, NEW o, Written(o), UNCHANGED world
  PROVE  Placed(o) /\ (o.status.id # 0 =>
                         o.uid \in moved' \/ Backs(o.spec, o.status.id, o.uid))
<1>1. Owns(job.obj) /\ Here \in Instances /\ work.pc # "idle"
  BY WorkersCopy DEF Written
<1>2. UNCHANGED moved
  BY DEF world
<1> QED
  BY <1>1, <1>2, WrittenFields
     DEF Placed, Owns, Reported, LInv, Handler, Absent, NoStatus, Exists, Here

LEMMA CopiesStep == ASSUME LInv, Next PROVE CopiesOwn'
<1> SUFFICES ASSUME NEW n \in Names, NEW c \in Object, RT!Copy(n, c)'
             PROVE  Placed(c) /\ Owns(c)'
  BY DEF CopiesOwn, Placed, Exists
<1>1. RT!Copy(n, c) \/ c = api'[n]
  BY SaneConstants, SameData, StepMoves, RT!CopyStep DEF LInv, TypeOK
<1>2. ASSUME RT!Copy(n, c)
      PROVE  Placed(c) /\ Owns(c)'
  <2>1. Placed(c) /\ Owns(c)
    BY <1>2 DEF LInv, CopiesOwn
  <2>2. ~Exists(c) => c = Absent
    BY <1>2, SameData DEF LInv, RT!RInv, RT!Versions, RT!Version
  <2> QED
    BY <2>1, <2>2, OwnsStays DEF Owns, Absent, NoStatus
<1>3. ASSUME c = api'[n]
      PROVE  Placed(c) /\ Owns(c)'
  <2>1. CASE api'[n] = api[n]
    BY <1>2, <1>3, <2>1, StoredCopy
  <2>2. CASE UserActs(n)
    BY <1>3, <2>2, UserOwns DEF Owns
  <2>3. CASE Written(api'[n]) /\ UNCHANGED world
    <3>1. UNCHANGED <<remote, nextId>>
      BY <2>3 DEF world
    <3> QED
      BY <1>3, <2>3, <3>1, WrittenOwns DEF Owns, Backs
  <2> QED
    BY <2>1, <2>2, <2>3, ObjectStep DEF RT!OnlyTouches
<1> QED
  BY <1>1, <1>2, <1>3

-----------------------------------------------------------------------------
(* Ready means applied.                                                    *)

LEMMA NotAheadStep == ASSUME LInv, Next PROVE NotAhead'
<1> SUFFICES ASSUME NEW n \in Names PROVE api'[n].status.observed <= api'[n].gen
  BY DEF NotAhead
<1>1. api[n].gen \in Nat /\ api[n].status.observed \in Nat
      /\ api[n].status.observed <= api[n].gen
  BY StoredCopy DEF LInv, NotAhead
<1>2. CASE RT!ByUser(n)
  BY <1>1, <1>2, SameData, RT!UserFields DEF LInv, TypeOK, Absent, NoStatus
<1>3. CASE Written(api'[n]) /\ RT!Committed(n)
  BY <1>1, <1>3, WrittenFields DEF RT!Committed, Reported, Absent, NoStatus
<1> QED
  BY <1>1, <1>2, <1>3, ObjectStep DEF RT!OnlyTouches

\* What becomes Ready, or stays so, in a step.
LEMMA ReadyStep ==
  ASSUME LInv, Next, NEW n \in Names, Ready(api'[n])
  PROVE  \/ /\ Ready(api[n]) /\ api'[n].uid = api[n].uid /\ api'[n].gen = api[n].gen
            /\ api'[n].spec = api[n].spec /\ api'[n].status = api[n].status
         \/ /\ n = job.key /\ RT!Committed(n) /\ UNCHANGED world
            /\ api'[n].uid = job.obj.uid /\ api'[n].gen = job.obj.gen
            /\ api'[n].spec = job.obj.spec
            /\ work.pc = "setReady" /\ api'[n].status = Reported("ReconcileSuccess")
<1>1. /\ api[n].gen \in Nat /\ api[n].status.observed \in Nat
      /\ api[n].status.observed <= api[n].gen
  BY StoredCopy DEF LInv, NotAhead
<1>2. CASE api'[n] = api[n]
  BY <1>2
<1>3. CASE RT!ByUser(n)
  BY <1>1, <1>3, SameData, RT!UserFields DEF LInv, TypeOK, Ready, Absent, NoStatus
<1>4. CASE n = job.key /\ RT!Committed(n) /\ Written(api'[n]) /\ UNCHANGED world
  BY <1>4, WrittenFields DEF RT!Committed, Ready, Reported, Absent, NoStatus, LInv, Handler
<1> QED
  BY <1>2, <1>3, <1>4, ObjectStep DEF RT!OnlyTouches

LEMMA ReadyIsNewestStep == ASSUME LInv, Next PROVE ReadyIsNewest'
<1> SUFFICES ASSUME NEW n \in Names, NEW c \in Object, Ready(api'[n]), RT!Copy(n, c)',
                    c.uid = api'[n].uid
             PROVE  c.gen = api'[n].gen
  BY DEF ReadyIsNewest, Ready
<1>1. RT!Copy(n, c) \/ c = api'[n]
  BY SaneConstants, SameData, StepMoves, RT!CopyStep DEF LInv, TypeOK
<1>2. CASE RT!Committed(n) /\ api'[n].gen = job.obj.gen
  BY <1>1, <1>2 DEF RT!Committed
<1> QED
  BY <1>1, <1>2, ReadyStep DEF LInv, ReadyIsNewest

\* No step takes what was applied from a Label that stays Ready.
LEMMA AppliedStays ==
  ASSUME LInv, Next, NEW n \in Names, Ready(api[n]), moved' = {}
  PROVE  LET o == api[n]
             r == remote'[o.spec][o.status.id]
         IN r.uid = o.uid /\ (r.live /\ r.gen # 0 => r.gen = o.gen)
<1> DEFINE s == api[n].spec
           i == api[n].status.id
<1>1. moved = {}
  BY MovedGrows
<1>2. /\ i # 0 /\ remote[s][i].uid = api[n].uid
      /\ remote[s][i].live /\ remote[s][i].gen # 0 => remote[s][i].gen = api[n].gen
  BY <1>1 DEF LInv, ReadyMeansApplied
<1>3. /\ api[n] \in Object /\ RT!Copy(n, api[n]) /\ Placed(api[n]) /\ Owns(api[n])
      /\ i \in 0..MaxId
  BY StoredCopy
<1>4. Exists(api[n])
  BY <1>2, <1>3, SameData DEF LInv, RT!RInv, RT!Versions, RT!Version, Absent, NoStatus
<1>5. s \in Instances /\ i \in 1..MaxId /\ i < nextId[s]
  BY <1>1, <1>2, <1>3, <1>4 DEF Placed, Owns, Backs
<1>6. CASE work.pc = "update" /\ s = Here /\ i = job.obj.status.id
  <2>1. /\ job.key \in Names /\ job.obj \in Object /\ RT!Copy(job.key, job.obj)
        /\ Exists(job.obj)
    BY <1>6, WorkersCopy
  <2>2. job.obj.uid = api[n].uid
    BY <1>1, <1>2, <1>6 DEF LInv, Handler, Backs
  <2>3. job.key = n
    BY <1>3, <2>1, <2>2, SameData DEF LInv, RT!RInv, RT!OneName
  <2>4. job.obj.gen = api[n].gen
    BY <2>1, <2>2, <2>3 DEF LInv, ReadyIsNewest
  <2> QED
    BY <1>2, <1>5, <2>4, LabelStep
<1> QED
  BY <1>2, <1>5, <1>6, LabelStep

LEMMA AppliedStep == ASSUME LInv, Next PROVE ReadyMeansApplied'
<1> SUFFICES ASSUME NEW n \in Names, Ready(api'[n]), moved' = {}
             PROVE  LET o == api'[n]
                        r == remote'[o.spec][o.status.id]
                    IN /\ o.status.id # 0
                       /\ r.uid = o.uid
                       /\ r.live /\ r.gen # 0 => r.gen = o.gen
  BY DEF ReadyMeansApplied, Ready
<1>1. moved = {}
  BY MovedGrows
<1>2. CASE /\ Ready(api[n]) /\ api'[n].uid = api[n].uid /\ api'[n].gen = api[n].gen
           /\ api'[n].spec = api[n].spec /\ api'[n].status = api[n].status
  <2>1. api[n].status.id # 0
    BY <1>1, <1>2 DEF LInv, ReadyMeansApplied
  <2> QED
    BY <1>2, <2>1, AppliedStays
<1>3. CASE /\ UNCHANGED world
           /\ api'[n].uid = job.obj.uid /\ api'[n].gen = job.obj.gen
           /\ api'[n].spec = job.obj.spec
           /\ work.pc = "setReady" /\ api'[n].status = Reported("ReconcileSuccess")
  <2>1. work.id # 0 /\ UNCHANGED remote
    BY <1>3 DEF LInv, TypeOK, world
  <2> QED
    BY <1>1, <1>3, <2>1 DEF LInv, Handler, Backs, Here, Reported
<1> QED
  BY <1>2, <1>3, ReadyStep

-----------------------------------------------------------------------------
(* The theorems.                                                           *)

LEMMA LInvStep == ASSUME LInv, Next PROVE LInv'
<1>1. RT!RInv'
  BY SaneConstants, StepMoves, RT!RInvStep DEF LInv
<1> QED
  BY <1>1, TypeStep, HandlerStep, CopiesStep, NotAheadStep, ReadyIsNewestStep, AppliedStep
     DEF LInv

LEMMA LInvStutters == ASSUME LInv, UNCHANGED vars PROVE LInv'
<1>1. /\ UNCHANGED <<api, cache, events, queue, timers, job, lastUid, faults>>
      /\ UNCHANGED <<work, remote, nextId, inst, moved>>
  BY DEF vars, kubernetes, world
<1>2. RT!RInv'
  <2>1. RT!Elsewhere
    BY <1>1 DEF RT!Elsewhere, LInv, TypeOK, RuntimeTypeOK
  <2> QED
    BY <2>1, SaneConstants, RT!RInvStep DEF RT!Move, LInv
<1>3. TypeOK'
  BY <1>1 DEF LInv, TypeOK, RuntimeTypeOK
<1>4. CopiesOwn' /\ ReadyIsNewest'
  <2>1. \A n, c : RT!Copy(n, c)' <=> RT!Copy(n, c)
    BY <1>1 DEF RT!Copy
  <2> QED
    BY <1>1, <2>1 DEF LInv, CopiesOwn, Placed, Exists, Owns, Backs, ReadyIsNewest, Ready
<1>5. Handler' /\ NotAhead' /\ ReadyMeansApplied'
  BY <1>1 DEF LInv, Handler, Backs, Here, NotAhead, ReadyMeansApplied, Ready
<1> QED
  BY <1>2, <1>3, <1>4, <1>5 DEF LInv

\* The inductive invariant of the Label controller.
THEOREM LInvHolds == Spec => []LInv
<1>1. LInv /\ [Next]_vars => LInv'
  BY LInvStep, LInvStutters
<1> QED
  BY <1>1, InitHolds, PTL DEF Spec

\* Every variable of the Label controller keeps its type; a busy worker works for
\* a name, and reports Ready (SetReady) only with an id.
THEOREM TypeCorrect == Spec => []TypeOK
BY LInvHolds, PTL DEF LInv

\* A Label that reports Ready for its generation has, on the instance it refers
\* to, a label that was created for it and has the contents of that generation,
\* unless another client interfered or an instanceRef was changed.
THEOREM ReadyIsApplied == Spec => []ReadyMeansApplied
BY LInvHolds, PTL DEF LInv

\* What the worker creates, updates or deletes in Vikunja is the label of the
\* Label that it reconciles, unless that Label's instanceRef was changed.
THEOREM OthersAreLeftAlone == Spec => TouchesOwn
<1>1. LInv /\ [Next]_vars =>
        [<<job, work>>' # <<job, work>> =>
           \A s \in Instances, i \in 1..MaxId :
             remote'[s][i] # remote[s][i] => \/ remote'[s][i].uid = job.obj.uid
                                             \/ job.obj.uid \in moved]_vars
  <2> SUFFICES ASSUME LInv, Next, <<job, work>>' # <<job, work>>,
                      NEW s \in Instances, NEW i \in 1..MaxId,
                      remote'[s][i] # remote[s][i]
               PROVE  remote'[s][i].uid = job.obj.uid \/ job.obj.uid \in moved
    OBVIOUS
  <2>1. Changes
    BY RemoteStep
  <2>2. PICK z \in Instances, j \in 1..MaxId, r \in LabelRecord :
          Put(z, j, r) /\ (r.uid = job.obj.uid \/ job.obj.uid \in moved)
    BY <2>1 DEF Changes
  <2>3. remote'[s][i] = r
    BY <2>2, Rewritten DEF LInv, TypeOK, LabelRecord
  <2> QED
    BY <2>2, <2>3
<1> QED
  BY <1>1, LInvHolds, PTL DEF Spec, TouchesOwn
=============================================================================
