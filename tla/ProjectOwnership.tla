-------------------------- MODULE ProjectOwnership --------------------------
(***************************************************************************)
(* Types of the Project controller; whose project in Vikunja a recorded id *)
(* is, and that it is not lost.                                            *)
(*                                                                         *)
(* None of the three properties about ids is inductive: a write takes its  *)
(* contents from the worker's copy, and the copy comes from the cache,     *)
(* which is fed by undelivered events.  The invariant IInv says of every   *)
(* copy, wherever it is, what IdOwned says of the stored object (Honest),  *)
(* that the copies lead to the stored object (Follows), so that a write    *)
(* allowed by the resourceVersion starts from what is stored, and what the *)
(* handler has established when it reaches each of its steps (HandlerOK).  *)
(***************************************************************************)
EXTENDS Project, SequenceTheorems, TLAPS

USE DEF world

-----------------------------------------------------------------------------
(* Types.                                                                  *)

LEMMA AbsentTyped == Absent \in Object /\ Idle \in Job
BY BoundsAssumption DEF Absent, Idle, Job, Object, Status, ParentRefs, Reasons, NoStatus

LEMMA NoWorkTyped == NoWork \in Work
BY BoundsAssumption DEF NoWork, Work, Steps, Reasons

LEMMA InitTyped == Init => TypeOK
<1> SUFFICES ASSUME Init PROVE TypeOK
  OBVIOUS
<1>1. RuntimeTypeOK
  BY BoundsAssumption, AbsentTyped DEF Init, RuntimeInit, RuntimeTypeOK
<1>2. work \in Work /\ work.pc = "idle"
  BY NoWorkTyped DEF Init, RuntimeInit, NoWork
<1>3. remote \in [1..MaxId -> Remote]
  BY BoundsAssumption DEF Init, NoProject, Remote
<1> QED
  BY BoundsAssumption, <1>1, <1>2, <1>3 DEF Init, TypeOK, Instances

LEMMA StoreTyped ==
  ASSUME RuntimeTypeOK, NEW n \in Names, NEW o \in Object, Store(n, o)
  PROVE  api' \in [Names -> Object] /\ events' \in [Names -> Seq(Object)]
BY DEF RuntimeTypeOK, Store

LEMMA FaultTyped == ASSUME RuntimeTypeOK, Fault PROVE faults' \in 0..MaxFaults
BY BoundsAssumption DEF RuntimeTypeOK, Fault

LEMMA UserWritesTyped ==
  ASSUME RuntimeTypeOK, NEW n \in Names, NEW o \in Object, UserWrites(n, o),
         lastUid' \in 0..MaxUid
  PROVE  RuntimeTypeOK' /\ job'.key = job.key
<1>1. api' \in [Names -> Object] /\ events' \in [Names -> Seq(Object)]
  BY StoreTyped DEF UserWrites
<1>2. job' \in Job /\ job'.key = job.key
  BY DEF UserWrites, Job, RuntimeTypeOK
<1> QED
  BY <1>1, <1>2 DEF RuntimeTypeOK, UserWrites

LEMMA UserTyped ==
  ASSUME RuntimeTypeOK, NEW n \in Names, NEW s \in ParentRefs,
         UserCreates(n, s) \/ UserEdits(n, s) \/ UserDeletes(n)
  PROVE  RuntimeTypeOK' /\ job'.key = job.key
<1>1. CASE UserCreates(n, s)
  <2>1. lastUid + 1 \in 0..MaxUid /\ lastUid' = lastUid + 1
    BY BoundsAssumption, <1>1 DEF UserCreates, RuntimeTypeOK
  <2>2. [Absent EXCEPT !.uid = lastUid + 1, !.gen = 1, !.spec = s] \in Object
    <3>1. 1 \in 0..MaxGen
      BY BoundsAssumption
    <3> QED
      BY <2>1, <3>1, AbsentTyped DEF Object
  <2> QED
    BY <1>1, <2>1, <2>2, UserWritesTyped DEF UserCreates
<1>2. CASE UserEdits(n, s)
  <2>1. api[n] \in Object /\ api[n].gen + 1 \in 0..MaxGen
    BY BoundsAssumption, <1>2 DEF UserEdits, Object, RuntimeTypeOK
  <2>2. [api[n] EXCEPT !.gen = @ + 1, !.spec = s] \in Object
    BY <2>1 DEF Object
  <2> QED
    BY <1>2, <2>2, UserWritesTyped DEF UserEdits, RuntimeTypeOK
<1>3. CASE UserDeletes(n)
  <2>1. [api[n] EXCEPT !.deleting = TRUE] \in Object /\ Absent \in Object
    BY <1>3, AbsentTyped DEF UserDeletes, Object, RuntimeTypeOK
  <2> QED
    BY <1>3, <2>1, UserWritesTyped DEF UserDeletes, RuntimeTypeOK
<1> QED
  BY <1>1, <1>2, <1>3

LEMMA QueueTyped ==
  ASSUME RuntimeTypeOK, NEW n \in Names,
         Deliver(n) \/ TimerFires(n) \/ Skip(n) \/ BeginFails(n)
  PROVE  RuntimeTypeOK' /\ job' = job
<1>1. CASE Deliver(n)
  BY <1>1 DEF Deliver, RuntimeTypeOK
<1>2. CASE TimerFires(n)
  BY <1>2 DEF TimerFires, RuntimeTypeOK
<1>3. CASE Skip(n)
  BY <1>3 DEF Skip, RuntimeTypeOK
<1>4. CASE BeginFails(n)
  BY <1>4, FaultTyped DEF BeginFails, RuntimeTypeOK
<1> QED
  BY <1>1, <1>2, <1>3, <1>4

LEMMA BeginTyped ==
  ASSUME RuntimeTypeOK, NEW n \in Names, Begin(n)
  PROVE  RuntimeTypeOK' /\ job'.key = n /\ job'.obj = cache[n]
BY DEF Begin, RuntimeTypeOK, Job

LEMMA ReturnTyped ==
  ASSUME RuntimeTypeOK, job.key \in Names, NEW again \in BOOLEAN, Return(again),
         api' \in [Names -> Object], events' \in [Names -> Seq(Object)],
         faults' \in 0..MaxFaults
  PROVE  RuntimeTypeOK'
BY AbsentTyped DEF Return, RuntimeTypeOK

LEMMA CommitTyped ==
  ASSUME RuntimeTypeOK, job.key \in Names, NEW o \in Object, NEW again \in BOOLEAN,
         Commit(o, again)
  PROVE  RuntimeTypeOK'
<1>1. /\ api' \in [Names -> Object]
      /\ events' \in [Names -> Seq(Object)]
      /\ faults' \in 0..MaxFaults
  BY StoreTyped, FaultTyped DEF Commit, RuntimeTypeOK
<1> QED
  BY <1>1, ReturnTyped DEF Commit

LEMMA RestartTyped == ASSUME RuntimeTypeOK, Restart PROVE RuntimeTypeOK'
BY AbsentTyped, FaultTyped DEF Restart, RuntimeTypeOK

-----------------------------------------------------------------------------
(* The worker's local state, and what Vikunja stores.                      *)

LEMMA IdleKey == ASSUME job = Idle PROVE job.key = None
BY DEF Idle

LEMMA ParentIdTyped ==
  ASSUME RuntimeTypeOK, NEW ref \in ParentRefs
  PROVE  ParentId(ref) \in 0..MaxId
BY BoundsAssumption DEF ParentId, ParentRefs, RuntimeTypeOK, Object, Status

LEMMA ReconcileTyped ==
  ASSUME TypeOK, NEW n \in Names, Reconcile(n)
  PROVE  TypeOK'
<1>1. CASE ReconcileNothing(n)
  BY <1>1, QueueTyped DEF ReconcileNothing, TypeOK
<1>2. CASE ReconcileAddsFinalizer(n)
  <2>1. work' \in Work
    BY <1>2, NoWorkTyped DEF ReconcileAddsFinalizer, Work, Steps
  <2> QED
    BY NoneAssumption, <1>2, <2>1, BeginTyped DEF ReconcileAddsFinalizer, TypeOK
<1>3. CASE ReconcileUpserts(n)
  <2>1. ParentId(cache[n].spec) \in 0..MaxId
    BY ParentIdTyped DEF TypeOK, RuntimeTypeOK, Object
  <2>2. InstanceReason \in Reasons /\ "DependencyNotReady" \in Reasons
    BY DEF InstanceReason, Reasons
  <2>3. work' \in Work
    BY <1>3, <2>1, <2>2, NoWorkTyped DEF ReconcileUpserts, Work, Steps
  <2> QED
    BY NoneAssumption, <1>3, <2>3, BeginTyped DEF ReconcileUpserts, TypeOK
<1>4. CASE ReconcileDeletes(n)
  <2>1. work' \in Work
    BY <1>4, NoWorkTyped DEF ReconcileDeletes, Work, Steps
  <2> QED
    BY NoneAssumption, <1>4, <2>1, BeginTyped DEF ReconcileDeletes, TypeOK
<1>5. CASE ReconcileFails(n)
  BY <1>5, QueueTyped DEF ReconcileFails, TypeOK
<1> QED
  BY <1>1, <1>2, <1>3, <1>4, <1>5 DEF Reconcile

LEMMA OutcomeTyped ==
  ASSUME NEW i \in 0..MaxId, ToReady(i) \/ ToError
  PROVE  work' \in Work
BY NoWorkTyped DEF ToReady, ToError, Work, Steps, Reasons

LEMMA StoredTyped ==
  ASSUME TypeOK, NEW i \in 0..MaxId, NEW m \in Names \cup {None},
         NEW u \in 0..MaxUid, Stored(i, m, u)
  PROVE  remote' \in [1..MaxId -> Remote]
<1>1. [live |-> TRUE, name |-> m, uid |-> u, gen |-> job.obj.gen,
       parent |-> work.parent] \in Remote
  BY DEF TypeOK, RuntimeTypeOK, Job, Object, Work, Remote
<1> QED
  BY <1>1 DEF Stored, TypeOK

LEMMA GoneTyped ==
  ASSUME TypeOK, NEW i \in 0..MaxId, Gone(i)
  PROVE  remote' \in [1..MaxId -> Remote]
<1>1. 0 \in 0..MaxId /\ 0 \in 0..MaxGen
  BY BoundsAssumption
<1>2. \A r \in Remote : [r EXCEPT !.live = FALSE, !.gen = 0, !.parent = 0] \in Remote
  BY <1>1 DEF Remote
<1> QED
  BY <1>2 DEF Gone, TypeOK

LEMMA StepTyped == ASSUME TypeOK, Step PROVE TypeOK'
<1> USE DEF TypeOK
<1>1. CASE CreateProject
  <2>1. nextId <= MaxId => nextId \in 0..MaxId /\ nextId \in 1..MaxId
    OBVIOUS
  <2>2. job.key \in Names \cup {None} /\ job.obj.uid \in 0..MaxUid
    BY DEF RuntimeTypeOK, Job, Object
  <2>3. work' \in Work
    BY BoundsAssumption, <1>1, <2>1, OutcomeTyped DEF CreateProject
  <2>4. remote' \in [1..MaxId -> Remote]
    BY <1>1, <2>1, <2>2, StoredTyped DEF CreateProject
  <2>5. RuntimeTypeOK' /\ job' = job
    BY <1>1, FaultTyped DEF CreateProject, RuntimeTypeOK
  <2>6. nextId' \in 1..(MaxId + 1) /\ inst' = inst
    BY BoundsAssumption, <1>1 DEF CreateProject
  <2> QED
    BY <1>1, <2>3, <2>4, <2>5, <2>6 DEF CreateProject
<1>2. CASE UpdateProject
  <2> DEFINE i == job.obj.status.id
  <2>1. i \in 0..MaxId
    BY DEF RuntimeTypeOK, Job, Object, Status
  <2>2. work' \in Work
    BY <1>2, <2>1, OutcomeTyped DEF UpdateProject, Work, Steps
  <2>3. remote' \in [1..MaxId -> Remote]
    <3>1. CASE i \in 1..MaxId
      <4>1. remote[i].name \in Names \cup {None} /\ remote[i].uid \in 0..MaxUid
        BY <3>1 DEF Remote
      <4> QED
        BY <1>2, <2>1, <4>1, StoredTyped DEF UpdateProject
    <3>2. CASE i = 0
      BY <1>2, <3>2 DEF UpdateProject, Stored
    <3> QED
      BY <2>1, <3>1, <3>2
  <2>4. RuntimeTypeOK' /\ job' = job
    BY <1>2, FaultTyped DEF UpdateProject, RuntimeTypeOK
  <2> QED
    BY <1>2, <2>2, <2>3, <2>4 DEF UpdateProject
<1>3. CASE DeleteProject
  <2>1. remote' \in [1..MaxId -> Remote]
    BY <1>3, GoneTyped DEF DeleteProject, RuntimeTypeOK, Job, Object, Status
  <2>2. job.key \in Names
    BY <1>3 DEF DeleteProject, RuntimeTypeOK, Job
  <2>3. RuntimeTypeOK'
    BY <1>3, <2>2, FaultTyped, ReturnTyped DEF DeleteProject, RuntimeTypeOK
  <2>4. work' \in Work /\ (work'.pc = "idle" \/ job' = job)
    BY <1>3, NoWorkTyped DEF DeleteProject, Work, Steps, NoWork
  <2> QED
    BY <1>3, <2>1, <2>2, <2>3, <2>4 DEF DeleteProject
<1>4. ASSUME work.pc # "idle", NEW o \in Object, NEW again \in BOOLEAN,
             Ends(o, again)
      PROVE  TypeOK'
  <2>1. job.key \in Names
    BY <1>4 DEF RuntimeTypeOK, Job
  <2> QED
    BY <1>4, <2>1, CommitTyped, NoWorkTyped DEF Ends, NoWork
<1>5. job.obj \in Object /\ Absent \in Object
  BY AbsentTyped DEF RuntimeTypeOK, Job
<1>6. CASE AddFinalizer
  <2>1. [job.obj EXCEPT !.finalizer = TRUE] \in Object
    BY <1>5 DEF Object
  <2> QED
    BY <1>4, <1>6, <2>1 DEF AddFinalizer
<1>7. CASE RemoveFinalizer
  BY <1>4, <1>5, <1>7 DEF RemoveFinalizer
<1>8. CASE SetReady
  <2>1. ReadyStatus(work.id) \in Status
    BY <1>5 DEF ReadyStatus, Status, Reasons, Work, Object
  <2>2. [job.obj EXCEPT !.status = ReadyStatus(work.id)] \in Object
    BY <1>5, <2>1 DEF Object
  <2> QED
    BY <1>4, <1>8, <2>2 DEF SetReady
<1>9. CASE SetNotReady
  <2>1. [job.obj EXCEPT !.status.reason = work.reason,
                        !.status.observed = job.obj.gen] \in Object
    BY <1>5 DEF Object, Status, Work
  <2> QED
    BY <1>4, <1>9, <2>1 DEF SetNotReady
<1> QED
  BY <1>1, <1>2, <1>3, <1>6, <1>7, <1>8, <1>9 DEF Step

LEMMA EnvironmentTyped == ASSUME TypeOK, Environment PROVE TypeOK'
<1> USE DEF TypeOK
<1>1. ASSUME NEW n \in Names, NEW ref \in ParentRefs, Create(n, ref) \/ Edit(n, ref)
      PROVE  TypeOK'
  BY <1>1, UserTyped DEF Create, Edit
<1>2. ASSUME NEW n \in Names, Delete(n)
      PROVE  TypeOK'
  <2>1. None \in ParentRefs
    BY DEF ParentRefs
  <2> QED
    BY <1>2, <2>1, UserTyped DEF Delete
<1>3. ASSUME NEW i \in Instances, InstanceChanges(i)
      PROVE  TypeOK'
  BY <1>3, FaultTyped DEF InstanceChanges, RuntimeTypeOK
<1>4. CASE SecretChanges
  BY <1>4, FaultTyped DEF SecretChanges, RuntimeTypeOK, Instances
<1>5. ASSUME NEW i \in 1..MaxId, ExternalDelete(i) \/ ExternalEdit(i)
      PROVE  TypeOK'
  <2>1. CASE ExternalDelete(i)
    BY <2>1, GoneTyped, FaultTyped DEF ExternalDelete, RuntimeTypeOK
  <2>2. CASE ExternalEdit(i)
    <3>1. 0 \in 0..MaxGen /\ remote[i] \in Remote
      BY BoundsAssumption
    <3>2. [remote[i] EXCEPT !.gen = 0] \in Remote
      BY <3>1 DEF Remote
    <3> QED
      BY <2>2, <3>2, FaultTyped DEF ExternalEdit, RuntimeTypeOK
  <2> QED
    BY <1>5, <2>1, <2>2
<1>6. CASE Crash
  BY <1>6, RestartTyped, NoWorkTyped DEF Crash, NoWork
<1> QED
  BY <1>1, <1>2, <1>3, <1>4, <1>5, <1>6 DEF Environment

LEMMA TypeStep == ASSUME TypeOK, [Next]_vars PROVE TypeOK'
<1>1. ASSUME NEW n \in Names, Sync(n) \/ Requeue(n)
      PROVE  TypeOK'
  BY <1>1, QueueTyped DEF Sync, Requeue, TypeOK
<1>2. ASSUME NEW n \in Names, Reconcile(n)
      PROVE  TypeOK'
  BY <1>2, ReconcileTyped
<1>3. CASE Step
  BY <1>3, StepTyped
<1>4. CASE Environment
  BY <1>4, EnvironmentTyped
<1>5. CASE UNCHANGED vars
  BY <1>5 DEF vars, TypeOK, RuntimeTypeOK
<1> QED
  BY <1>1, <1>2, <1>3, <1>4, <1>5 DEF Next

\* Every variable keeps its type, for any number of names, objects, faults and
\* projects: what the handler computes is always a status, an object or a
\* project that the API server or Vikunja can hold.
THEOREM TypeCorrect == Spec => []TypeOK
BY InitTyped, TypeStep, PTL DEF Spec

-----------------------------------------------------------------------------
(* The inductive invariant.                                                *)

\* A copy of an object that records an id is a copy of a finalized object,
\* and the id is that of a project created for its incarnation.
Honest(o) ==
  o.status.id # 0 => /\ o.uid # 0
                     /\ o.finalizer
                     /\ o.status.id < nextId
                     /\ remote[o.status.id].uid = o.uid

CopiesHonest ==
  /\ \A n \in Names : /\ Honest(api[n])
                      /\ Honest(cache[n])
                      /\ \A k \in 1..Len(events[n]) : Honest(events[n][k])
  /\ Honest(job.obj)

Follows ==
  /\ \A n \in Names :
       IF events[n] = <<>> THEN cache[n] = api[n]
                           ELSE events[n][Len(events[n])] = api[n]
  /\ job.current => job.key \in Names /\ job.obj = api[job.key]

\* No project is lost when the id that o records is.
Spent(o) == o.status.id = 0 \/ ~remote[o.status.id].live

HandlerOK ==
  /\ work.pc = "create" =>
       job.obj.uid # 0 /\ job.obj.finalizer /\ Spent(job.obj)
  /\ work.pc \in {"update", "delete"} => job.obj.status.id # 0
  /\ work.pc = "setReady" =>
       /\ job.obj.uid # 0 /\ job.obj.finalizer
       /\ work.id \in 1..(nextId - 1)
       /\ remote[work.id].uid = job.obj.uid
       /\ work.id = job.obj.status.id \/ Spent(job.obj)
  /\ work.pc = "release" => work.skip \/ Spent(job.obj)

IInv == TypeOK /\ CopiesHonest /\ Follows /\ HandlerOK

-----------------------------------------------------------------------------
(* Vikunja's side: ids are never reused, owners never change.              *)

RemoteKeeps ==
  /\ nextId' \in Nat /\ nextId <= nextId'
  /\ \A i \in 1..(nextId - 1) : /\ remote'[i].uid = remote[i].uid
                                /\ remote'[i].live => remote[i].live

LEMMA IdTyped == ASSUME TypeOK
                 PROVE  /\ job \in Job /\ job.obj \in Object
                        /\ job.obj.status.id \in 0..MaxId
                        /\ nextId \in Nat /\ nextId <= MaxId + 1
BY DEF TypeOK, RuntimeTypeOK, Job, Object, Status

LEMMA UnchangedKeeps ==
  ASSUME TypeOK, UNCHANGED <<remote, nextId>>
  PROVE  RemoteKeeps
BY IdTyped DEF RemoteKeeps

LEMMA GoneKeeps ==
  ASSUME TypeOK, NEW i \in 0..MaxId, Gone(i), nextId' = nextId
  PROVE  RemoteKeeps
BY IdTyped DEF RemoteKeeps, Gone, TypeOK, Remote

LEMMA StepKeeps == ASSUME IInv, [Next]_vars PROVE RemoteKeeps
<1> USE DEF IInv
<1>1. CASE CreateProject
  <2>1. CASE UNCHANGED <<remote, nextId>>
    BY <2>1, UnchangedKeeps
  <2>2. CASE Stored(nextId, job.key, job.obj.uid) /\ nextId' = nextId + 1
    BY <2>2, IdTyped DEF Stored, RemoteKeeps, TypeOK
  <2> QED
    BY <1>1, <2>1, <2>2 DEF CreateProject
<1>2. CASE UpdateProject
  <2> DEFINE i == job.obj.status.id
  <2>1. CASE UNCHANGED remote
    BY <1>2, <2>1, UnchangedKeeps DEF UpdateProject
  <2>2. CASE remote[i].live /\ Stored(i, remote[i].name, remote[i].uid)
    <3>1. nextId' = nextId
      BY <1>2 DEF UpdateProject
    <3> QED
      BY <2>2, <3>1, IdTyped DEF Stored, RemoteKeeps, TypeOK
  <2> QED
    BY <1>2, <2>1, <2>2 DEF UpdateProject
<1>3. CASE DeleteProject
  BY <1>3, IdTyped, GoneKeeps, UnchangedKeeps DEF DeleteProject
<1>4. ASSUME NEW i \in 1..MaxId, ExternalDelete(i) \/ ExternalEdit(i)
      PROVE  RemoteKeeps
  <2>1. CASE ExternalDelete(i)
    BY <2>1, GoneKeeps DEF ExternalDelete
  <2>2. CASE ExternalEdit(i)
    BY <2>2, IdTyped DEF ExternalEdit, RemoteKeeps, TypeOK, Remote
  <2> QED
    BY <1>4, <2>1, <2>2
<1>5. CASE UNCHANGED <<remote, nextId>>
  BY <1>5, UnchangedKeeps
<1>6. CASE UNCHANGED vars
  BY <1>5, <1>6 DEF vars
<1>7. CASE AddFinalizer \/ RemoveFinalizer \/ SetReady \/ SetNotReady
  BY <1>5, <1>7 DEF AddFinalizer, RemoveFinalizer, SetReady, SetNotReady, Ends
<1>8. ASSUME NEW n \in Names, Sync(n) \/ Requeue(n) \/ Reconcile(n) \/ Delete(n)
      PROVE  RemoteKeeps
  BY <1>5, <1>8 DEF Sync, Requeue, Reconcile, ReconcileNothing, ReconcileFails,
     ReconcileAddsFinalizer, ReconcileUpserts, ReconcileDeletes, Delete
<1>9. ASSUME NEW n \in Names, NEW ref \in ParentRefs, Create(n, ref) \/ Edit(n, ref)
      PROVE  RemoteKeeps
  BY <1>5, <1>9 DEF Create, Edit
<1>10. ASSUME NEW i \in Instances, InstanceChanges(i)
       PROVE  RemoteKeeps
  BY <1>5, <1>10 DEF InstanceChanges
<1>11. CASE SecretChanges \/ Crash
  BY <1>5, <1>11 DEF SecretChanges, Crash
<1> QED
  BY <1>1, <1>2, <1>3, <1>4, <1>6, <1>7, <1>8, <1>9, <1>10, <1>11
     DEF Next, Step, Environment

\* What is true of a copy stays true of it.
LEMMA HonestKept ==
  ASSUME TypeOK, RemoteKeeps, NEW o \in Object, Honest(o)
  PROVE  Honest(o)'
<1>1. o.status.id \in Nat
  BY DEF Object, Status
<1> QED
  BY <1>1, IdTyped DEF Honest, RemoteKeeps

LEMMA SpentKept ==
  ASSUME TypeOK, RemoteKeeps, NEW o \in Object, Honest(o), Spent(o)
  PROVE  Spent(o)'
<1>1. o.status.id \in Nat
  BY DEF Object, Status
<1> QED
  BY <1>1, IdTyped DEF Honest, Spent, RemoteKeeps

-----------------------------------------------------------------------------
(* The copies stay honest.                                                 *)

LEMMA AbsentHonest == Honest(Absent) /\ Honest(Absent)'
BY DEF Honest, Absent, NoStatus

LEMMA CopyTyped ==
  ASSUME TypeOK, NEW n \in Names
  PROVE  /\ api[n] \in Object /\ cache[n] \in Object /\ events[n] \in Seq(Object)
         /\ \A k \in 1..Len(events[n]) : events[n][k] \in Object
BY DEF TypeOK, RuntimeTypeOK

\* The objects stay where they are; the worker's copy is honest.
LEMMA SameCopies ==
  ASSUME TypeOK, CopiesHonest, RemoteKeeps, UNCHANGED <<api, cache, events>>,
         Honest(job.obj)'
  PROVE  CopiesHonest'
<1> SUFFICES ASSUME NEW n \in Names
             PROVE  /\ Honest(api[n])' /\ Honest(cache[n])'
                    /\ (\A k \in 1..Len(events[n]) : Honest(events[n][k]))'
  BY DEF CopiesHonest
<1>1. Honest(api[n])' /\ Honest(cache[n])'
  BY CopyTyped, HonestKept DEF CopiesHonest
<1>2. ASSUME NEW k \in 1..Len(events[n])
      PROVE  Honest(events[n][k])'
  BY <1>2, CopyTyped, HonestKept DEF CopiesHonest
<1> QED
  BY <1>1, <1>2

LEMMA StoreCopies ==
  ASSUME TypeOK, CopiesHonest, RemoteKeeps, NEW m \in Names, NEW o \in Object,
         Store(m, o), UNCHANGED cache, Honest(o)', Honest(job.obj)'
  PROVE  CopiesHonest'
<1> SUFFICES ASSUME NEW n \in Names
             PROVE  /\ Honest(api[n])' /\ Honest(cache[n])'
                    /\ (\A k \in 1..Len(events[n]) : Honest(events[n][k]))'
  BY DEF CopiesHonest
<1>1. Honest(api[n])'
  <2>1. CASE n = m
    <3>1. api'[n] = o
      BY <2>1, CopyTyped DEF Store, TypeOK, RuntimeTypeOK
    <3> QED
      BY <3>1 DEF Honest
  <2>2. CASE n # m
    <3>1. api'[n] = api[n]
      BY <2>2 DEF Store, TypeOK, RuntimeTypeOK
    <3>2. \A x \in Object : Honest(x) => Honest(x)'
      BY HonestKept
    <3> QED
      BY <3>1, <3>2, CopyTyped DEF CopiesHonest, Honest
  <2> QED
    BY <2>1, <2>2
<1>2. Honest(cache[n])'
  BY CopyTyped, HonestKept DEF CopiesHonest
<1>3. ASSUME NEW k \in 1..Len(events'[n])
      PROVE  Honest(events[n][k])'
  <2>1. CASE k \in 1..Len(events[n])
    <3>1. events'[n][k] = events[n][k]
      BY <2>1, CopyTyped DEF Store, TypeOK, RuntimeTypeOK
    <3>2. events[n][k] \in Object /\ Honest(events[n][k])
      BY <2>1, CopyTyped DEF CopiesHonest
    <3>3. \A x \in Object : Honest(x) => Honest(x)'
      BY HonestKept
    <3> QED
      BY <3>1, <3>2, <3>3 DEF Honest
  <2>2. CASE k \notin 1..Len(events[n])
    <3>1. events'[n][k] = o
      BY <1>3, <2>2, CopyTyped DEF Store, TypeOK, RuntimeTypeOK
    <3> QED
      BY <3>1 DEF Honest
  <2> QED
    BY <2>1, <2>2
<1> QED
  BY <1>1, <1>2, <1>3

LEMMA CommitCopies ==
  ASSUME TypeOK, CopiesHonest, RemoteKeeps, NEW o \in Object, NEW again \in BOOLEAN,
         Commit(o, again), job.key \in Names, Honest(o)'
  PROVE  CopiesHonest'
<1>1. UNCHANGED cache /\ Honest(job.obj)'
  BY AbsentHonest DEF Commit, Return, Idle, Honest
<1>2. CASE Store(job.key, o)
  BY <1>1, <1>2, StoreCopies
<1>3. CASE UNCHANGED <<api, events>>
  BY <1>1, <1>3, SameCopies
<1> QED
  BY <1>2, <1>3 DEF Commit

LEMMA UserCopies ==
  ASSUME TypeOK, CopiesHonest, RemoteKeeps, NEW m \in Names, NEW o \in Object,
         UserWrites(m, o), Honest(o)
  PROVE  CopiesHonest'
<1>1. Honest(o)'
  BY HonestKept
<1>2. Honest(job.obj)'
  <2>1. job'.obj = job.obj
    BY IdTyped DEF UserWrites, Job
  <2>2. Honest(job.obj) /\ (\A x \in Object : Honest(x) => Honest(x)')
    BY HonestKept DEF CopiesHonest
  <2> QED
    BY <2>1, <2>2, IdTyped DEF Honest
<1> QED
  BY <1>1, <1>2, StoreCopies DEF UserWrites

LEMMA DeliverCopies ==
  ASSUME TypeOK, CopiesHonest, RemoteKeeps, NEW m \in Names, Deliver(m)
  PROVE  CopiesHonest'
<1>1. \A x \in Object : Honest(x) => Honest(x)'
  BY HonestKept
<1>2. Honest(job.obj)'
  BY <1>1, IdTyped DEF Deliver, CopiesHonest, Honest
<1>3. ASSUME NEW n \in Names
      PROVE  /\ Honest(api[n])' /\ Honest(cache[n])'
             /\ (\A k \in 1..Len(events[n]) : Honest(events[n][k]))'
  <2>1. Honest(api[n])'
    BY CopyTyped, HonestKept DEF CopiesHonest, Deliver, Honest
  <2>2. CASE n # m
    <3>1. cache'[n] = cache[n] /\ events'[n] = events[n]
      BY <2>2 DEF Deliver, TypeOK, RuntimeTypeOK
    <3> QED
      BY <1>1, <2>1, <3>1, CopyTyped DEF CopiesHonest, Honest
  <2>3. CASE n = m
    <3>1. cache'[n] = Head(events[n]) /\ events'[n] = Tail(events[n])
      BY <2>3 DEF Deliver, TypeOK, RuntimeTypeOK
    <3>2. events[n] # <<>> /\ events[n] \in Seq(Object)
      BY <2>3, CopyTyped DEF Deliver
    <3>3. cache'[n] = events[n][1] /\ 1 \in 1..Len(events[n])
      BY <3>1, <3>2
    <3>4. Honest(cache[n])'
      BY <1>1, <3>3, CopyTyped DEF CopiesHonest, Honest
    <3>5. ASSUME NEW k \in 1..Len(events'[n])
          PROVE  Honest(events[n][k])'
      <4>1. k + 1 \in 1..Len(events[n]) /\ events'[n][k] = events[n][k + 1]
        BY <3>1, <3>2, <3>5
      <4> QED
        BY <1>1, <4>1, CopyTyped DEF CopiesHonest, Honest
    <3> QED
      BY <2>1, <3>4, <3>5
  <2> QED
    BY <2>2, <2>3
<1> QED
  BY <1>2, <1>3 DEF CopiesHonest

LEMMA BeginCopies ==
  ASSUME TypeOK, CopiesHonest, RemoteKeeps, NEW m \in Names, Begin(m)
  PROVE  CopiesHonest'
<1>1. job'.obj = cache[m] /\ UNCHANGED <<api, cache, events>>
  BY DEF Begin
<1>2. Honest(job.obj)'
  BY <1>1, CopyTyped, HonestKept DEF CopiesHonest, Honest
<1> QED
  BY <1>1, <1>2, SameCopies

\* The worker, if it is still busy, keeps its copy.
LEMMA QuietCopies ==
  ASSUME TypeOK, CopiesHonest, RemoteKeeps, UNCHANGED <<api, cache, events>>,
         job' = job \/ job' = Idle
  PROVE  CopiesHonest'
<1>1. \A x \in Object : Honest(x) => Honest(x)'
  BY HonestKept
<1>2. Honest(job.obj)'
  BY <1>1, IdTyped, AbsentHonest DEF CopiesHonest, Honest, Idle
<1> QED
  BY <1>2, SameCopies

LEMMA RestartCopies ==
  ASSUME TypeOK, CopiesHonest, RemoteKeeps, Restart
  PROVE  CopiesHonest'
<1>1. \A x \in Object : Honest(x) => Honest(x)'
  BY HonestKept
<1>2. Honest(job.obj)'
  BY AbsentHonest DEF Restart, Idle, Honest
<1>3. ASSUME NEW n \in Names
      PROVE  /\ Honest(api[n])' /\ Honest(cache[n])'
             /\ (\A k \in 1..Len(events[n]) : Honest(events[n][k]))'
  <2>1. api'[n] = api[n] /\ cache'[n] = api[n] /\ events'[n] = <<>>
    BY DEF Restart
  <2> QED
    BY <1>1, <2>1, CopyTyped DEF CopiesHonest, Honest
<1> QED
  BY <1>2, <1>3 DEF CopiesHonest

\* Users never write an id.
LEMMA UserWritesHonest ==
  ASSUME TypeOK, CopiesHonest, NEW n \in Names, NEW s \in ParentRefs,
         UserCreates(n, s) \/ UserEdits(n, s) \/ UserDeletes(n)
  PROVE  \E o \in Object : UserWrites(n, o) /\ Honest(o)
<1>1. api[n] \in Object /\ Honest(api[n]) /\ Absent \in Object
  BY CopyTyped, AbsentTyped DEF CopiesHonest
<1>2. CASE UserCreates(n, s)
  <2>1. lastUid + 1 \in 0..MaxUid
    BY <1>2, BoundsAssumption DEF UserCreates, TypeOK, RuntimeTypeOK
  <2>2. 1 \in 0..MaxGen
    BY BoundsAssumption
  <2> DEFINE o == [Absent EXCEPT !.uid = lastUid + 1, !.gen = 1, !.spec = s]
  <2>3. o \in Object
    BY <1>1, <2>1, <2>2 DEF Object
  <2>4. Honest(o)
    BY DEF Honest, Absent, NoStatus
  <2>5. UserWrites(n, o)
    BY <1>2 DEF UserCreates
  <2> HIDE DEF o
  <2> QED
    BY <2>3, <2>4, <2>5
<1>3. CASE UserEdits(n, s)
  <2>1. api[n].gen + 1 \in 0..MaxGen
    BY <1>1, <1>3, BoundsAssumption DEF UserEdits, Object
  <2> DEFINE o == [api[n] EXCEPT !.gen = @ + 1, !.spec = s]
  <2>2. o \in Object
    BY <1>1, <2>1 DEF Object
  <2>3. Honest(o)
    BY <1>1 DEF Honest, Object
  <2>4. UserWrites(n, o)
    BY <1>3 DEF UserEdits
  <2> HIDE DEF o
  <2> QED
    BY <2>2, <2>3, <2>4
<1>4. CASE UserDeletes(n)
  <2> DEFINE o == [api[n] EXCEPT !.deleting = TRUE]
  <2>1. o \in Object /\ Honest(o)
    BY <1>1 DEF Object, Honest
  <2> QED
    BY <1>1, <1>4, <2>1, AbsentHonest DEF UserDeletes
<1> QED
  BY <1>2, <1>3, <1>4

\* What a reconcile may write back: an honest copy of the same incarnation that
\* keeps the id or loses nothing by changing it, or the object's removal.
MayWrite(o) ==
  /\ Honest(o)
  /\ \/ o.uid = job.obj.uid /\ (o.status.id = job.obj.status.id \/ Spent(job.obj))
     \/ work.pc = "release" /\ o = Absent

LEMMA EndsMayWrite ==
  ASSUME IInv, AddFinalizer \/ RemoveFinalizer \/ SetReady \/ SetNotReady
  PROVE  /\ job.key \in Names
         /\ \E o \in Object, again \in BOOLEAN : Ends(o, again) /\ MayWrite(o)
<1> USE DEF IInv
<1>1. job.key \in Names
  BY DEF AddFinalizer, RemoveFinalizer, SetReady, SetNotReady, TypeOK,
         RuntimeTypeOK, Job
<1>2. job.obj \in Object /\ Absent \in Object /\ Honest(job.obj)
  BY IdTyped, AbsentTyped DEF CopiesHonest
<1>3. CASE AddFinalizer
  <2> DEFINE o == [job.obj EXCEPT !.finalizer = TRUE]
  <2>1. o \in Object /\ MayWrite(o)
    BY <1>2 DEF Object, Honest, MayWrite
  <2>2. Ends(o, FALSE)
    BY <1>3 DEF AddFinalizer
  <2> HIDE DEF o
  <2> QED
    BY <1>1, <2>1, <2>2
<1>4. CASE RemoveFinalizer
  <2>1. MayWrite(Absent)
    BY <1>4, AbsentHonest DEF RemoveFinalizer, MayWrite
  <2> QED
    BY <1>1, <1>2, <1>4, <2>1 DEF RemoveFinalizer
<1>5. CASE SetReady
  <2> DEFINE o == [job.obj EXCEPT !.status = ReadyStatus(work.id)]
  <2>1. ReadyStatus(work.id) \in Status /\ ReadyStatus(work.id).id = work.id
    BY <1>2 DEF ReadyStatus, Status, Reasons, TypeOK, Work, Object
  <2>2. o \in Object /\ o.status.id = work.id /\ o.uid = job.obj.uid
    BY <1>2, <2>1 DEF Object
  <2>3. work.pc = "setReady"
    BY <1>5 DEF SetReady
  <2>4. o.finalizer = job.obj.finalizer
    BY <1>2 DEF Object
  <2>5. MayWrite(o)
    BY <2>2, <2>3, <2>4, IdTyped DEF Honest, MayWrite, HandlerOK
  <2>6. Ends(o, TRUE)
    BY <1>5 DEF SetReady
  <2> HIDE DEF o
  <2> QED
    BY <1>1, <2>2, <2>5, <2>6
<1>6. CASE SetNotReady
  <2> DEFINE o == [job.obj EXCEPT !.status.reason = work.reason,
                                  !.status.observed = job.obj.gen]
  <2>1. o \in Object
    BY <1>2 DEF Object, Status, TypeOK, Work
  <2>2. o.status.id = job.obj.status.id /\ o.uid = job.obj.uid
        /\ o.finalizer = job.obj.finalizer
    BY <1>2 DEF Object, Status
  <2>3. MayWrite(o)
    BY <1>2, <2>2 DEF Honest, MayWrite
  <2>4. Ends(o, TRUE)
    BY <1>6 DEF SetNotReady
  <2> HIDE DEF o
  <2> QED
    BY <1>1, <2>1, <2>3, <2>4
<1> QED
  BY <1>3, <1>4, <1>5, <1>6

LEMMA EndsCopies ==
  ASSUME IInv, RemoteKeeps,
         AddFinalizer \/ RemoveFinalizer \/ SetReady \/ SetNotReady
  PROVE  CopiesHonest'
<1>1. PICK o \in Object, again \in BOOLEAN : Ends(o, again) /\ MayWrite(o)
  BY EndsMayWrite
<1>2. job.key \in Names /\ Commit(o, again) /\ Honest(o)
  BY <1>1, EndsMayWrite DEF Ends, MayWrite
<1>3. Honest(o)'
  BY <1>2, HonestKept DEF IInv
<1> QED
  BY <1>2, <1>3, CommitCopies DEF IInv

LEMMA CopiesStep == ASSUME IInv, [Next]_vars PROVE CopiesHonest'
<1> USE DEF IInv
<1>1. RemoteKeeps
  BY StepKeeps
<1>2. CASE AddFinalizer \/ RemoveFinalizer \/ SetReady \/ SetNotReady
  BY <1>1, <1>2, EndsCopies
<1>3. CASE CreateProject \/ UpdateProject \/ DeleteProject
  <2>1. UNCHANGED <<api, cache, events>> /\ (job' = job \/ job' = Idle)
    BY <1>3 DEF CreateProject, UpdateProject, DeleteProject, Return
  <2> QED
    BY <1>1, <2>1, QuietCopies
<1>4. ASSUME NEW n \in Names, Sync(n)
      PROVE  CopiesHonest'
  BY <1>1, <1>4, DeliverCopies DEF Sync
<1>5. ASSUME NEW n \in Names, Requeue(n) \/ ReconcileNothing(n) \/ ReconcileFails(n)
      PROVE  CopiesHonest'
  <2>1. UNCHANGED <<api, cache, events, job>>
    BY <1>5 DEF Requeue, TimerFires, ReconcileNothing, Skip, ReconcileFails, BeginFails
  <2> QED
    BY <1>1, <2>1, QuietCopies
<1>6. ASSUME NEW n \in Names,
             ReconcileAddsFinalizer(n) \/ ReconcileUpserts(n) \/ ReconcileDeletes(n)
      PROVE  CopiesHonest'
  BY <1>1, <1>6, BeginCopies
     DEF ReconcileAddsFinalizer, ReconcileUpserts, ReconcileDeletes
<1>7. ASSUME NEW n \in Names, NEW s \in ParentRefs,
             UserCreates(n, s) \/ UserEdits(n, s) \/ UserDeletes(n)
      PROVE  CopiesHonest'
  <2>1. PICK o \in Object : UserWrites(n, o) /\ Honest(o)
    BY <1>7, UserWritesHonest
  <2> QED
    BY <1>1, <2>1, UserCopies
<1>8. ASSUME NEW n \in Names, NEW ref \in ParentRefs,
             Create(n, ref) \/ Edit(n, ref) \/ Delete(n)
      PROVE  CopiesHonest'
  BY <1>7, <1>8 DEF Create, Edit, Delete
<1>9. ASSUME NEW n \in Names, Delete(n)
      PROVE  CopiesHonest'
  <2>1. None \in ParentRefs
    BY DEF ParentRefs
  <2> QED
    BY <1>8, <1>9, <2>1
<1>10. CASE Environment
  <2>1. ASSUME NEW i \in Instances, InstanceChanges(i)
        PROVE  UNCHANGED <<api, cache, events, job>>
    BY <2>1 DEF InstanceChanges
  <2>2. ASSUME NEW i \in 1..MaxId, ExternalDelete(i) \/ ExternalEdit(i)
        PROVE  UNCHANGED <<api, cache, events, job>>
    BY <2>2 DEF ExternalDelete, ExternalEdit
  <2>3. ASSUME SecretChanges
        PROVE  UNCHANGED <<api, cache, events, job>>
    BY <2>3 DEF SecretChanges
  <2>4. ASSUME UNCHANGED <<api, cache, events, job>>
        PROVE  CopiesHonest'
    BY <1>1, <2>4, QuietCopies
  <2>5. CASE Crash
    BY <1>1, <2>5, RestartCopies DEF Crash
  <2> QED
    BY <1>8, <1>9, <1>10, <2>1, <2>2, <2>3, <2>4, <2>5 DEF Environment
<1>11. CASE UNCHANGED vars
  BY <1>1, <1>11, QuietCopies DEF vars
<1> QED
  BY <1>2, <1>3, <1>4, <1>5, <1>6, <1>10, <1>11 DEF Next, Step, Reconcile

-----------------------------------------------------------------------------
(* The copies lead to the stored object.                                   *)

LEMMA StoreFollows ==
  ASSUME TypeOK, Follows, NEW m \in Names, NEW o \in Object, Store(m, o),
         UNCHANGED cache, NEW n \in Names
  PROVE  IF events'[n] = <<>> THEN cache'[n] = api'[n]
                              ELSE events'[n][Len(events'[n])] = api'[n]
<1>1. CASE n = m /\ o # api[m]
  <2>1. events'[n] = Append(events[n], o) /\ api'[n] = o /\ events[n] \in Seq(Object)
    BY <1>1 DEF Store, TypeOK, RuntimeTypeOK
  <2> QED
    BY <2>1
<1>2. CASE ~(n = m /\ o # api[m])
  <2>1. events'[n] = events[n] /\ api'[n] = api[n]
    BY <1>2 DEF Store, TypeOK, RuntimeTypeOK
  <2> QED
    BY <2>1 DEF Follows
<1> QED
  BY <1>1, <1>2

LEMMA TailLast ==
  ASSUME NEW S, NEW s \in Seq(S), s # <<>>
  PROVE  IF Tail(s) = <<>> THEN Head(s) = s[Len(s)]
                           ELSE Tail(s)[Len(Tail(s))] = s[Len(s)]
<1> DEFINE t == Tail(s)
<1>1. Len(s) \in Nat \ {0} /\ Head(s) = s[1]
  BY EmptySeq
<1>2. t \in Seq(S) /\ Len(t) = Len(s) - 1 /\ (\A i \in 1..Len(t) : t[i] = s[i + 1])
  BY HeadTailProperties
<1>3. t # <<>> => Len(t) \in Nat \ {0}
  BY <1>2, EmptySeq
<1>4. t = <<>> => Len(t) = 0
  BY EmptySeq
<1> HIDE DEF t
<1>5. t = <<>> => Head(s) = s[Len(s)]
  BY <1>1, <1>2, <1>4
<1>6. t # <<>> => t[Len(t)] = s[Len(s)]
  BY <1>1, <1>2, <1>3
<1> QED
  BY <1>5, <1>6 DEF t

LEMMA DeliverFollows ==
  ASSUME TypeOK, Follows, NEW m \in Names, Deliver(m)
  PROVE  Follows'
<1>1. ASSUME NEW n \in Names
      PROVE  IF events'[n] = <<>> THEN cache'[n] = api'[n]
                                  ELSE events'[n][Len(events'[n])] = api'[n]
  <2>1. CASE n # m
    BY <2>1 DEF Deliver, TypeOK, RuntimeTypeOK, Follows
  <2>2. CASE n = m
    <3>1. /\ events[n] # <<>> /\ events[n] \in Seq(Object) /\ api'[n] = api[n]
          /\ cache'[n] = Head(events[n]) /\ events'[n] = Tail(events[n])
      BY <2>2 DEF Deliver, TypeOK, RuntimeTypeOK
    <3>2. events[n][Len(events[n])] = api[n]
      BY <3>1 DEF Follows
    <3> QED
      BY <3>1, <3>2, TailLast
  <2> QED
    BY <2>1, <2>2
<1>2. UNCHANGED <<api, job>>
  BY DEF Deliver
<1> QED
  BY <1>1, <1>2 DEF Follows

LEMMA BeginFollows ==
  ASSUME TypeOK, Follows, NEW m \in Names, Begin(m)
  PROVE  Follows'
<1>1. /\ UNCHANGED <<api, cache, events>>
      /\ job' = [key |-> m, obj |-> cache[m], current |-> events[m] = <<>>]
  BY DEF Begin
<1>2. job'.current => job'.key \in Names /\ job'.obj = api'[job'.key]
  BY <1>1 DEF Follows
<1> QED
  BY <1>1, <1>2 DEF Follows

LEMMA UserFollows ==
  ASSUME TypeOK, Follows, NEW m \in Names, NEW o \in Object, UserWrites(m, o)
  PROVE  Follows'
<1>1. \A n \in Names : IF events'[n] = <<>> THEN cache'[n] = api'[n]
                                           ELSE events'[n][Len(events'[n])] = api'[n]
  BY StoreFollows DEF UserWrites
<1>2. job'.current => job'.key \in Names /\ job'.obj = api'[job'.key]
  BY DEF UserWrites, Store, Follows, TypeOK, RuntimeTypeOK, Job
<1> QED
  BY <1>1, <1>2 DEF Follows

LEMMA CommitFollows ==
  ASSUME TypeOK, Follows, NEW o \in Object, NEW again \in BOOLEAN,
         Commit(o, again), job.key \in Names
  PROVE  Follows'
<1>1. UNCHANGED cache /\ ~job'.current
  BY DEF Commit, Return, Idle
<1>2. CASE Store(job.key, o)
  BY <1>1, <1>2, StoreFollows DEF Follows
<1>3. CASE UNCHANGED <<api, events>>
  BY <1>1, <1>3 DEF Follows
<1> QED
  BY <1>2, <1>3 DEF Commit

LEMMA FollowsStep == ASSUME IInv, [Next]_vars PROVE Follows'
<1> USE DEF IInv
<1>1. ASSUME UNCHANGED <<api, cache, events>>, job' = job \/ job' = Idle
      PROVE  Follows'
  BY <1>1 DEF Follows, Idle
<1>2. CASE AddFinalizer \/ RemoveFinalizer \/ SetReady \/ SetNotReady
  <2>1. PICK o \in Object, again \in BOOLEAN : Ends(o, again)
    BY <1>2, EndsMayWrite
  <2> QED
    BY <1>2, <2>1, EndsMayWrite, CommitFollows DEF Ends
<1>3. CASE CreateProject \/ UpdateProject \/ DeleteProject
  BY <1>1, <1>3 DEF CreateProject, UpdateProject, DeleteProject, Return
<1>4. ASSUME NEW n \in Names, Sync(n)
      PROVE  Follows'
  BY <1>4, DeliverFollows DEF Sync
<1>5. ASSUME NEW n \in Names, Requeue(n) \/ ReconcileNothing(n) \/ ReconcileFails(n)
      PROVE  Follows'
  BY <1>1, <1>5 DEF Requeue, TimerFires, ReconcileNothing, Skip, ReconcileFails,
                    BeginFails
<1>6. ASSUME NEW n \in Names,
             ReconcileAddsFinalizer(n) \/ ReconcileUpserts(n) \/ ReconcileDeletes(n)
      PROVE  Follows'
  BY <1>6, BeginFollows DEF ReconcileAddsFinalizer, ReconcileUpserts, ReconcileDeletes
<1>7. ASSUME NEW n \in Names, NEW s \in ParentRefs,
             UserCreates(n, s) \/ UserEdits(n, s) \/ UserDeletes(n)
      PROVE  Follows'
  BY <1>7, UserWritesHonest, UserFollows
<1>8. CASE Environment
  <2>1. ASSUME NEW n \in Names, NEW ref \in ParentRefs, Create(n, ref) \/ Edit(n, ref)
        PROVE  Follows'
    BY <1>7, <2>1 DEF Create, Edit
  <2>2. ASSUME NEW n \in Names, Delete(n)
        PROVE  Follows'
    <3>1. None \in ParentRefs
      BY DEF ParentRefs
    <3> QED
      BY <1>7, <2>2, <3>1 DEF Delete
  <2>3. ASSUME NEW i \in Instances, InstanceChanges(i)
        PROVE  Follows'
    BY <1>1, <2>3 DEF InstanceChanges
  <2>4. ASSUME NEW i \in 1..MaxId, ExternalDelete(i) \/ ExternalEdit(i)
        PROVE  Follows'
    BY <1>1, <2>4 DEF ExternalDelete, ExternalEdit
  <2>5. CASE SecretChanges
    BY <1>1, <2>5 DEF SecretChanges
  <2>6. CASE Crash
    BY <2>6 DEF Crash, Restart, Follows, Idle
  <2> QED
    BY <1>8, <2>1, <2>2, <2>3, <2>4, <2>5, <2>6 DEF Environment
<1>9. CASE UNCHANGED vars
  BY <1>1, <1>9 DEF vars
<1> QED
  BY <1>2, <1>3, <1>4, <1>5, <1>6, <1>8, <1>9 DEF Next, Step, Reconcile

-----------------------------------------------------------------------------
(* What the handler has established at each of its steps.                  *)

LEMMA HandlerKept ==
  ASSUME IInv, RemoteKeeps, work' = work, job'.obj = job.obj
  PROVE  HandlerOK'
<1> USE DEF IInv
<1>1. job.obj \in Object /\ Honest(job.obj)
  BY IdTyped DEF CopiesHonest
<1>2. Spent(job.obj) => Spent(job.obj)'
  <2>1. \A x \in Object : Honest(x) /\ Spent(x) => Spent(x)'
    BY SpentKept
  <2> QED
    BY <1>1, <2>1 DEF Spent
<1>3. work.pc = "setReady" =>
        /\ work.id \in 1..(nextId' - 1)
        /\ remote'[work.id].uid = job.obj.uid
  BY IdTyped DEF HandlerOK, RemoteKeeps
<1> QED
  BY <1>2, <1>3 DEF HandlerOK

LEMMA IdleHandler == ASSUME work' = NoWork PROVE HandlerOK'
BY DEF HandlerOK, NoWork

LEMMA ReconcileHandler ==
  ASSUME IInv, NEW n \in Names, Reconcile(n)
  PROVE  HandlerOK'
<1> USE DEF IInv
<1>1. RemoteKeeps
  BY StepKeeps DEF Next
<1>2. CASE ReconcileNothing(n) \/ ReconcileFails(n)
  <2>1. work' = work /\ job' = job
    BY <1>2 DEF ReconcileNothing, Skip, ReconcileFails, BeginFails
  <2> QED
    BY <1>1, <2>1, HandlerKept
<1>3. CASE ReconcileAddsFinalizer(n)
  BY <1>3 DEF ReconcileAddsFinalizer, HandlerOK, NoWork
<1>4. CASE ReconcileUpserts(n)
  <2>1. job'.obj = cache[n] /\ Finalized(cache[n])
    BY <1>4 DEF ReconcileUpserts, Begin
  <2>2. work'.pc \in {"setNotReady", "create", "update"}
    BY <1>4 DEF ReconcileUpserts, NoWork
  <2>3. work'.pc = "create" => cache[n].status.id = 0
    BY <1>4 DEF ReconcileUpserts, NoWork
  <2>4. work'.pc = "update" => cache[n].status.id # 0
    BY <1>4 DEF ReconcileUpserts, NoWork
  <2> QED
    BY <2>1, <2>2, <2>3, <2>4 DEF HandlerOK, Spent, Finalized, Exists
<1>5. CASE ReconcileDeletes(n)
  <2>1. job'.obj = cache[n]
    BY <1>5 DEF ReconcileDeletes, Begin
  <2>2. work'.pc \in {"delete", "release"}
    BY <1>5 DEF ReconcileDeletes, NoWork
  <2>3. work'.pc = "delete" => cache[n].status.id # 0
    BY <1>5 DEF ReconcileDeletes, NoWork
  <2>4. work'.pc = "release" => work'.skip \/ cache[n].status.id = 0
    BY <1>5 DEF ReconcileDeletes, NoWork
  <2> QED
    BY <2>1, <2>2, <2>3, <2>4 DEF HandlerOK, Spent
<1> QED
  BY <1>2, <1>3, <1>4, <1>5 DEF Reconcile

LEMMA RequestHandler ==
  ASSUME IInv, CreateProject \/ UpdateProject \/ DeleteProject
  PROVE  HandlerOK'
<1> USE DEF IInv
<1> DEFINE i == job.obj.status.id
<1>1. RemoteKeeps
  BY StepKeeps DEF Next, Step
<1>2. job.obj \in Object /\ Honest(job.obj) /\ i \in 0..MaxId
  BY IdTyped DEF CopiesHonest
<1>3. i # 0 => i \in 1..(nextId - 1) /\ i \in 1..MaxId
  BY <1>2, IdTyped DEF Honest
<1>4. CASE ToError \/ work' = NoWork
  <2>1. ToError => work'.pc = "setNotReady"
    BY DEF ToError, NoWork
  <2> QED
    BY <1>4, <2>1, IdleHandler DEF HandlerOK
<1>5. CASE CreateProject /\ ToReady(nextId)
  <2>1. job' = job /\ work.pc = "create" /\ Spent(job.obj)
    BY <1>5 DEF CreateProject, HandlerOK
  <2>2. ~ToError
    BY <1>5 DEF ToReady, ToError, NoWork
  <2>3. /\ nextId <= MaxId /\ nextId' = nextId + 1
        /\ Stored(nextId, job.key, job.obj.uid)
    BY <1>5, <2>2 DEF CreateProject
  <2>4. nextId \in 1..MaxId
    BY <2>3 DEF TypeOK
  <2>5. remote'[nextId].uid = job.obj.uid
    BY <2>3, <2>4 DEF Stored, TypeOK
  <2>6. Spent(job.obj)'
    BY <1>1, <1>2, <2>1, SpentKept DEF Spent
  <2>7. work'.pc = "setReady" /\ work'.id = nextId
    BY <1>5 DEF ToReady, NoWork
  <2> QED
    BY <2>1, <2>3, <2>4, <2>5, <2>6, <2>7, IdTyped DEF HandlerOK
<1>6. CASE UpdateProject /\ ToReady(i)
  <2>1. job' = job /\ work.pc = "update" /\ i # 0
    BY <1>6 DEF UpdateProject, HandlerOK
  <2>2. work'.pc = "setReady" /\ work'.id = i
    BY <1>6 DEF ToReady, NoWork
  <2>3. i \in 1..(nextId' - 1) /\ remote'[i].uid = remote[i].uid
    BY <1>1, <1>3, <2>1, IdTyped DEF RemoteKeeps
  <2> QED
    BY <1>2, <2>1, <2>2, <2>3 DEF HandlerOK, Honest
<1>7. CASE UpdateProject /\ NotFound(i) /\ work' = [work EXCEPT !.pc = "create"]
           /\ UNCHANGED remote
  <2>1. job' = job /\ i # 0
    BY <1>7 DEF UpdateProject, HandlerOK
  <2>2. work'.pc = "create"
    BY <1>7 DEF TypeOK, Work
  <2> QED
    BY <1>2, <1>7, <2>1, <2>2 DEF HandlerOK, Honest, NotFound, Spent
<1>8. CASE DeleteProject /\ Gone(i) /\ work' = [work EXCEPT !.pc = "release"]
           /\ job' = job
  <2>1. i # 0 /\ work'.pc = "release"
    BY <1>8 DEF DeleteProject, HandlerOK, TypeOK, Work
  <2>2. ~remote'[i].live
    BY <1>3, <1>8, <2>1 DEF Gone, TypeOK, Remote
  <2> QED
    BY <1>8, <2>1, <2>2 DEF HandlerOK, Spent
<1> QED
  BY <1>4, <1>5, <1>6, <1>7, <1>8 DEF CreateProject, UpdateProject, DeleteProject

LEMMA HandlerStep == ASSUME IInv, [Next]_vars PROVE HandlerOK'
<1> USE DEF IInv
<1>1. ASSUME work' = work, job'.obj = job.obj
      PROVE  HandlerOK'
  BY <1>1, StepKeeps, HandlerKept
<1>2. CASE AddFinalizer \/ RemoveFinalizer \/ SetReady \/ SetNotReady
  BY <1>2, IdleHandler DEF AddFinalizer, RemoveFinalizer, SetReady, SetNotReady, Ends
<1>3. CASE CreateProject \/ UpdateProject \/ DeleteProject
  BY <1>3, RequestHandler
<1>4. ASSUME NEW n \in Names, Sync(n) \/ Requeue(n)
      PROVE  HandlerOK'
  BY <1>1, <1>4 DEF Sync, Deliver, Requeue, TimerFires
<1>5. ASSUME NEW n \in Names, Reconcile(n)
      PROVE  HandlerOK'
  BY <1>5, ReconcileHandler
<1>6. CASE Environment
  <2>1. ASSUME NEW n \in Names, NEW o, UserWrites(n, o)
        PROVE  job'.obj = job.obj
    BY <2>1 DEF UserWrites, TypeOK, RuntimeTypeOK, Job
  <2>2. ASSUME NEW n \in Names, NEW ref \in ParentRefs, Create(n, ref) \/ Edit(n, ref)
        PROVE  HandlerOK'
    BY <1>1, <2>1, <2>2 DEF Create, UserCreates, Edit, UserEdits
  <2>3. ASSUME NEW n \in Names, Delete(n)
        PROVE  HandlerOK'
    BY <1>1, <2>1, <2>3 DEF Delete, UserDeletes
  <2>4. ASSUME NEW j \in Instances, InstanceChanges(j)
        PROVE  HandlerOK'
    BY <1>1, <2>4 DEF InstanceChanges
  <2>5. ASSUME NEW j \in 1..MaxId, ExternalDelete(j) \/ ExternalEdit(j)
        PROVE  HandlerOK'
    BY <1>1, <2>5 DEF ExternalDelete, ExternalEdit
  <2>6. CASE SecretChanges
    BY <1>1, <2>6 DEF SecretChanges
  <2>7. CASE Crash
    BY <2>7, IdleHandler DEF Crash
  <2> QED
    BY <1>6, <2>2, <2>3, <2>4, <2>5, <2>6, <2>7 DEF Environment
<1>7. CASE UNCHANGED vars
  BY <1>1, <1>7 DEF vars
<1> QED
  BY <1>2, <1>3, <1>4, <1>5, <1>6, <1>7 DEF Next, Step

-----------------------------------------------------------------------------
(* The theorems.                                                           *)

LEMMA InitInv == Init => IInv
<1> SUFFICES ASSUME Init PROVE IInv
  OBVIOUS
<1>1. TypeOK
  BY InitTyped
<1>2. CopiesHonest
  BY AbsentHonest DEF Init, RuntimeInit, CopiesHonest, Idle
<1>3. Follows
  BY DEF Init, RuntimeInit, Follows, Idle
<1>4. HandlerOK
  BY DEF Init, RuntimeInit, HandlerOK, NoWork
<1> QED
  BY <1>1, <1>2, <1>3, <1>4 DEF IInv

LEMMA StepInv == IInv /\ [Next]_vars => IInv'
<1> SUFFICES ASSUME IInv, [Next]_vars PROVE IInv'
  OBVIOUS
<1>1. TypeOK'
  BY TypeStep DEF IInv
<1> QED
  BY <1>1, CopiesStep, FollowsStep, HandlerStep DEF IInv

LEMMA AlwaysInv == Spec => []IInv
BY InitInv, StepInv, PTL DEF Spec

\* An id in a Project's status is always that of a Vikunja project created for
\* this incarnation of the Project, whatever caches, users, restarts and lost
\* answers do in between.
THEOREM IdsAreOwned == Spec => []IdOwned
<1>1. IInv => IdOwned
  BY DEF IInv, CopiesHonest, Honest, IdOwned
<1> QED
  BY <1>1, AlwaysInv, PTL

\* What one step can do to a stored object that records an id.
LEMMA StoredObjectStep ==
  ASSUME IInv, [Next]_vars, NEW n \in Names, api[n].status.id # 0
  PROVE  \/ api'[n].uid = api[n].uid /\ api'[n].status.id = api[n].status.id
         \/ api'[n].uid = api[n].uid /\ ~remote[api[n].status.id].live
         \/ /\ api'[n].uid # api[n].uid
            /\ ~remote[api[n].status.id].live \/ (job.key = n /\ work.skip)
<1> USE DEF IInv
<1> DEFINE Same == api'[n].uid = api[n].uid /\ api'[n].status.id = api[n].status.id
<1>1. api[n] \in Object /\ Honest(api[n]) /\ api[n].uid # 0 /\ api[n].finalizer
  BY CopyTyped DEF CopiesHonest, Honest
<1>2. CASE AddFinalizer \/ RemoveFinalizer \/ SetReady \/ SetNotReady
  <2>1. PICK o \in Object, again \in BOOLEAN : Ends(o, again) /\ MayWrite(o)
    BY <1>2, EndsMayWrite
  <2>2. CASE job.key = n /\ job.current /\ Store(n, o)
    <3>1. api'[n] = o /\ job.obj = api[n]
      BY <2>2 DEF Store, Follows, TypeOK, RuntimeTypeOK
    <3>2. CASE work.pc = "release" /\ o = Absent
      <4>1. Spent(api[n]) \/ work.skip
        BY <3>1, <3>2 DEF HandlerOK
      <4>2. api'[n].uid # api[n].uid
        BY <1>1, <3>1, <3>2 DEF Absent
      <4> QED
        BY <2>2, <4>1, <4>2 DEF Spent
    <3>3. CASE /\ o.uid = job.obj.uid
               /\ o.status.id = job.obj.status.id \/ Spent(job.obj)
      BY <3>1, <3>3 DEF Spent
    <3> QED
      BY <2>1, <3>2, <3>3 DEF MayWrite
  <2>3. CASE ~(job.key = n /\ job.current /\ Store(n, o))
    <3>1. api'[n] = api[n]
      BY <2>1, <2>3 DEF Ends, Commit, Store, TypeOK, RuntimeTypeOK
    <3> QED
      BY <3>1
  <2> QED
    BY <2>2, <2>3
<1>3. ASSUME NEW m \in Names, NEW s \in ParentRefs,
             UserCreates(m, s) \/ UserEdits(m, s) \/ UserDeletes(m)
      PROVE  Same
  <2>1. CASE m # n
    <3>1. api'[n] = api[n]
      BY <1>3, <2>1 DEF UserCreates, UserEdits, UserDeletes, UserWrites, Store,
                        TypeOK, RuntimeTypeOK
    <3> QED
      BY <3>1
  <2>2. CASE m = n
    <3>1. ASSUME NEW o, UserWrites(n, o)
          PROVE  api'[n] = o
      BY <3>1 DEF UserWrites, Store, TypeOK, RuntimeTypeOK
    <3>2. CASE UserCreates(n, s)
      BY <1>1, <3>2 DEF UserCreates, Exists
    <3>3. CASE UserEdits(n, s)
      <4>1. api'[n] = [api[n] EXCEPT !.gen = @ + 1, !.spec = s]
        BY <3>1, <3>3 DEF UserEdits
      <4> QED
        BY <1>1, <4>1 DEF Object
    <3>4. CASE UserDeletes(n)
      <4>1. api'[n] = [api[n] EXCEPT !.deleting = TRUE]
        BY <1>1, <3>1, <3>4 DEF UserDeletes
      <4> QED
        BY <1>1, <4>1 DEF Object
    <3> QED
      BY <1>3, <2>2, <3>2, <3>3, <3>4
  <2> QED
    BY <2>1, <2>2
<1>4. CASE UNCHANGED api
  BY <1>4
<1>5. CASE CreateProject \/ UpdateProject \/ DeleteProject
  BY <1>4, <1>5 DEF CreateProject, UpdateProject, DeleteProject
<1>6. ASSUME NEW m \in Names, Sync(m) \/ Requeue(m) \/ Reconcile(m)
      PROVE  UNCHANGED api
  BY <1>6 DEF Sync, Deliver, Requeue, TimerFires, Reconcile, ReconcileNothing, Skip,
     ReconcileAddsFinalizer, ReconcileUpserts, ReconcileDeletes, Begin,
     ReconcileFails, BeginFails
<1>7. CASE Environment
  <2>1. ASSUME NEW m \in Names, NEW ref \in ParentRefs, Create(m, ref) \/ Edit(m, ref)
        PROVE  Same
    BY <1>3, <2>1 DEF Create, Edit
  <2>2. ASSUME NEW m \in Names, Delete(m)
        PROVE  Same
    <3>1. None \in ParentRefs
      BY DEF ParentRefs
    <3> QED
      BY <1>3, <2>2, <3>1 DEF Delete
  <2>3. ASSUME NEW i \in Instances, InstanceChanges(i)
        PROVE  UNCHANGED api
    BY <2>3 DEF InstanceChanges
  <2>4. ASSUME NEW i \in 1..MaxId, ExternalDelete(i) \/ ExternalEdit(i)
        PROVE  UNCHANGED api
    BY <2>4 DEF ExternalDelete, ExternalEdit
  <2>5. CASE SecretChanges \/ Crash
    BY <1>4, <2>5 DEF SecretChanges, Crash, Restart
  <2> QED
    BY <1>4, <1>7, <2>1, <2>2, <2>3, <2>4, <2>5 DEF Environment
<1>8. CASE UNCHANGED vars
  BY <1>4, <1>8 DEF vars
<1> QED
  BY <1>2, <1>4, <1>5, <1>6, <1>7, <1>8 DEF Next, Step

\* As long as a Project exists, the id of a Vikunja project that exists is
\* neither overwritten nor forgotten by any write, of the operator or a user.
THEOREM IdsAreKept == Spec => IdNeverDropped
<1>1. IInv /\ [Next]_vars =>
        [\A n \in Names :
           LET i == api[n].status.id IN
           i # 0 /\ api'[n].uid = api[n].uid /\ api'[n].status.id # i
             => ~remote[i].live]_vars
  <2> SUFFICES ASSUME IInv, [Next]_vars, NEW n \in Names, api[n].status.id # 0,
                      api'[n].uid = api[n].uid,
                      api'[n].status.id # api[n].status.id
               PROVE  ~remote[api[n].status.id].live
    OBVIOUS
  <2> QED
    BY StoredObjectStep
<1> QED
  BY <1>1, AlwaysInv, PTL DEF Spec, IdNeverDropped

\* A Project vanishes only with its project in Vikunja gone, unless
\* reconcileDelete saw no usable instance.
THEOREM VanishingIsClean == Spec => VanishesClean
<1>1. IInv /\ [Next]_vars =>
        [\A n \in Names :
           LET i == api[n].status.id IN
           i # 0 /\ api'[n].uid # api[n].uid
             => ~remote[i].live \/ (job.key = n /\ work.skip)]_vars
  BY StoredObjectStep
<1> QED
  BY <1>1, AlwaysInv, PTL DEF Spec, VanishesClean
=============================================================================
