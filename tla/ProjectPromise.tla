--------------------------- MODULE ProjectPromise ---------------------------
(***************************************************************************)
(* Projects implement Counterpart, and nothing is in Vikunja for a Project *)
(* without the finalizer.                                                  *)
(*                                                                         *)
(* Both hinge on the moment of the create request: the Project that the    *)
(* worker's copy shows must still be stored, with its finalizer, although  *)
(* the copy may be long outdated.  CopiesStand says so of every copy that  *)
(* has the finalizer and is not being deleted: an object only goes away by *)
(* a write that needs the newest copy, marked for deletion, and by then no *)
(* older copy is left (Handled); Fresh says that uids name one object each.*)
(***************************************************************************)
EXTENDS ProjectOwnership

USE BoundsAssumption DEF world

\* c is a version of n that the controller has or will see.
Copy(n, c) ==
  \/ c \in {api[n], cache[n]}
  \/ \E k \in 1..Len(events[n]) : c = events[n][k]
  \/ job.key = n /\ c = job.obj

Live(c) == c.finalizer /\ ~c.deleting

Stands(n, c) ==
  /\ c.finalizer => c.uid # 0
  /\ Live(c) => api[n].uid = c.uid /\ api[n].finalizer

CopiesStand == \A n \in Names : \A c \in Object : Copy(n, c) => Stands(n, c)

Handled ==
  /\ job.current => events[job.key] = <<>>
  /\ work.pc = "addFinalizer" => job.obj.uid # 0
  /\ work.pc \in {"create", "update"} => job.obj.uid # 0 /\ Live(job.obj)
  /\ work.pc \in {"delete", "release"} => job.obj.deleting

Fresh ==
  /\ \A n \in Names : api[n].uid <= lastUid
  /\ \A n, m \in Names : api[n].uid = api[m].uid /\ api[n].uid # 0 => n = m
  /\ \A i \in 1..MaxId : remote[i].uid <= lastUid
  /\ \A i \in nextId..MaxId : remote[i].uid = 0

PInv == IInv /\ CopiesStand /\ Handled /\ Fresh /\ CreatedOnlyWithFinalizer

-----------------------------------------------------------------------------
(* What a step can do, as far as the promise is concerned.                 *)

Created(n) ==
  /\ api[n].uid = 0
  /\ lastUid' = lastUid + 1
  /\ api'[n].uid = lastUid + 1
  /\ ~api'[n].finalizer
  /\ api'[n].status.id = 0

Changed(n) ==
  /\ lastUid' = lastUid
  /\ api'[n].uid = api[n].uid
  /\ api[n].finalizer => api'[n].finalizer
  /\ api'[n].finalizer => api[n].uid # 0
  /\ \/ api'[n].status.id = api[n].status.id
     \/ /\ Spent(api[n])
        /\ api[n].uid # 0
        /\ api'[n].status.id \in 1..MaxId
        /\ remote[api'[n].status.id].uid = api[n].uid

Removed(n) ==
  /\ lastUid' = lastUid
  /\ api'[n] = Absent
  /\ \A c \in Object : Copy(n, c) => ~Live(c)
  /\ Spent(api[n]) \/ (job.key = n /\ work.skip)

Written(n) ==
  /\ \A m \in Names \ {n} : api'[m] = api[m]
  /\ UNCHANGED <<remote, nextId>>
  /\ Created(n) \/ Changed(n) \/ Removed(n)

Made ==
  /\ UNCHANGED <<api, lastUid>>
  /\ nextId \in 1..MaxId
  /\ nextId' = nextId + 1
  /\ job.key \in Names
  /\ job.obj.uid # 0
  /\ api[job.key].uid = job.obj.uid
  /\ api[job.key].finalizer
  /\ remote'[nextId].uid = job.obj.uid
  /\ remote'[nextId].live
  /\ \A i \in 1..MaxId \ {nextId} : remote'[i] = remote[i]

Touched(i) ==
  /\ UNCHANGED <<api, lastUid, nextId>>
  /\ remote'[i].uid = remote[i].uid
  /\ remote'[i].live => remote[i].live
  /\ \A k \in 1..MaxId \ {i} : remote'[k] = remote[k]

Quiet == UNCHANGED <<api, lastUid, remote, nextId>>

LEMMA CopyOf ==
  ASSUME TypeOK, NEW n \in Names
  PROVE  /\ api[n] \in Object /\ Copy(n, api[n])
         /\ cache[n] \in Object /\ Copy(n, cache[n])
         /\ job.obj \in Object /\ (job.key = n => Copy(n, job.obj))
BY DEF Copy, TypeOK, RuntimeTypeOK, Job

\* What the user does to an object.
LEMMA UserWritten ==
  ASSUME PInv, NEW n \in Names, NEW s \in ParentRefs,
         UserCreates(n, s) \/ UserEdits(n, s) \/ UserDeletes(n),
         UNCHANGED <<remote, nextId>>
  PROVE  Written(n)
<1> USE DEF PInv, IInv
<1>1. api[n] \in Object /\ Copy(n, api[n]) /\ Stands(n, api[n]) /\ Honest(api[n])
  BY CopyOf DEF CopiesStand, CopiesHonest
<1>2. ASSUME NEW o, UserWrites(n, o)
      PROVE  api'[n] = o /\ \A m \in Names \ {n} : api'[m] = api[m]
  BY <1>2 DEF UserWrites, Store, TypeOK, RuntimeTypeOK
<1>3. CASE UserCreates(n, s)
  <2>1. api'[n] = [Absent EXCEPT !.uid = lastUid + 1, !.gen = 1, !.spec = s]
        /\ \A m \in Names \ {n} : api'[m] = api[m]
    BY <1>2, <1>3 DEF UserCreates
  <2>2. Created(n)
    BY <1>3, <2>1 DEF UserCreates, Exists, Created, Absent, NoStatus
  <2> QED
    BY <2>1, <2>2 DEF Written
<1>4. CASE UserEdits(n, s)
  <2>1. api'[n] = [api[n] EXCEPT !.gen = @ + 1, !.spec = s]
        /\ \A m \in Names \ {n} : api'[m] = api[m]
    BY <1>2, <1>4 DEF UserEdits
  <2>2. api'[n].uid = api[n].uid /\ api'[n].finalizer = api[n].finalizer
        /\ api'[n].status = api[n].status
    BY <1>1, <2>1 DEF Object
  <2>3. Changed(n)
    BY <1>1, <1>4, <2>2 DEF UserEdits, Changed, Stands
  <2> QED
    BY <2>1, <2>3 DEF Written
<1>5. CASE UserDeletes(n) /\ api[n].finalizer
  <2>1. api'[n] = [api[n] EXCEPT !.deleting = TRUE]
        /\ \A m \in Names \ {n} : api'[m] = api[m]
    BY <1>2, <1>5 DEF UserDeletes
  <2>2. api'[n].uid = api[n].uid /\ api'[n].finalizer = api[n].finalizer
        /\ api'[n].status = api[n].status
    BY <1>1, <2>1 DEF Object
  <2>3. Changed(n)
    BY <1>1, <1>5, <2>2 DEF UserDeletes, Changed, Stands
  <2> QED
    BY <2>1, <2>3 DEF Written
<1>6. CASE UserDeletes(n) /\ ~api[n].finalizer
  <2>1. api'[n] = Absent /\ \A m \in Names \ {n} : api'[m] = api[m]
    BY <1>2, <1>6 DEF UserDeletes
  <2>2. \A c \in Object : Copy(n, c) => ~Live(c)
    BY <1>6 DEF CopiesStand, Stands
  <2>3. Spent(api[n])
    BY <1>1, <1>6 DEF Honest, Spent
  <2>4. Removed(n)
    BY <1>6, <2>1, <2>2, <2>3 DEF UserDeletes, Removed
  <2> QED
    BY <2>1, <2>4 DEF Written
<1> QED
  BY <1>3, <1>4, <1>5, <1>6

\* What a write of the controller does to an object.
LEMMA EndsWritten ==
  ASSUME PInv, AddFinalizer \/ RemoveFinalizer \/ SetReady \/ SetNotReady
  PROVE  Quiet \/ Written(job.key)
<1> USE DEF PInv, IInv
<1> DEFINE n == job.key
<1>1. n \in Names
  BY EndsMayWrite
<1>2. UNCHANGED <<remote, nextId, lastUid>>
  BY DEF AddFinalizer, RemoveFinalizer, SetReady, SetNotReady, Ends, Commit, Return
<1>3. job.obj \in Object /\ Stands(n, job.obj) /\ Honest(job.obj)
  BY <1>1, CopyOf DEF CopiesStand, CopiesHonest
<1>4. ASSUME NEW o, NEW again, Commit(o, again)
      PROVE  \/ UNCHANGED api
             \/ /\ job.current /\ job.obj = api[n] /\ api'[n] = o
                /\ \A m \in Names \ {n} : api'[m] = api[m]
  BY <1>1, <1>4 DEF Commit, Store, Follows, TypeOK, RuntimeTypeOK
<1>5. CASE AddFinalizer
  <2>1. CASE /\ job.obj = api[n] /\ api'[n] = [job.obj EXCEPT !.finalizer = TRUE]
             /\ \A m \in Names \ {n} : api'[m] = api[m]
    <3>1. api'[n].uid = api[n].uid /\ api'[n].status = api[n].status /\ api'[n].finalizer
      BY <1>3, <2>1 DEF Object
    <3>2. Changed(n)
      BY <1>2, <1>5, <2>1, <3>1 DEF AddFinalizer, Handled, Changed
    <3> QED
      BY <1>2, <2>1, <3>2 DEF Written
  <2> QED
    BY <1>2, <1>4, <1>5, <2>1 DEF AddFinalizer, Ends, Quiet
<1>6. CASE RemoveFinalizer
  <2>1. CASE /\ job.current /\ job.obj = api[n] /\ api'[n] = Absent
             /\ \A m \in Names \ {n} : api'[m] = api[m]
    <3>1. events[n] = <<>> /\ cache[n] = job.obj /\ job.obj.deleting
      BY <1>1, <1>6, <2>1 DEF RemoveFinalizer, Handled, Follows
    <3>2. Len(events[n]) = 0
      BY <3>1
    <3>3. \A c \in Object : Copy(n, c) => ~Live(c)
      BY <2>1, <3>1, <3>2 DEF Copy, Live
    <3>4. Spent(api[n]) \/ work.skip
      BY <1>6, <2>1 DEF RemoveFinalizer, HandlerOK
    <3>5. Removed(n)
      BY <1>2, <2>1, <3>3, <3>4 DEF Removed
    <3> QED
      BY <1>2, <2>1, <3>5 DEF Written
  <2> QED
    BY <1>2, <1>4, <1>6, <2>1 DEF RemoveFinalizer, Ends, Quiet
<1>7. CASE SetReady
  <2>1. CASE /\ job.obj = api[n]
             /\ api'[n] = [job.obj EXCEPT !.status = ReadyStatus(work.id)]
             /\ \A m \in Names \ {n} : api'[m] = api[m]
    <3>1. /\ api'[n].uid = api[n].uid /\ api'[n].finalizer = api[n].finalizer
          /\ api'[n].status.id = work.id
      BY <1>3, <2>1 DEF Object, ReadyStatus
    <3>2. /\ work.id \in 1..(nextId - 1) /\ remote[work.id].uid = api[n].uid
          /\ work.id = api[n].status.id \/ Spent(api[n])
          /\ api[n].uid # 0
      BY <1>7, <2>1 DEF SetReady, HandlerOK
    <3>3. work.id \in 1..MaxId
      BY <3>2 DEF TypeOK
    <3>4. Changed(n)
      BY <1>2, <3>1, <3>2, <3>3 DEF Changed
    <3> QED
      BY <1>2, <2>1, <3>4 DEF Written
  <2> QED
    BY <1>2, <1>4, <1>7, <2>1 DEF SetReady, Ends, Quiet
<1>8. CASE SetNotReady
  <2> DEFINE o == [job.obj EXCEPT !.status.reason = work.reason,
                                  !.status.observed = job.obj.gen]
  <2>1. /\ o.uid = job.obj.uid /\ o.finalizer = job.obj.finalizer
        /\ o.status.id = job.obj.status.id
    BY <1>3 DEF Object, Status
  <2>2. CASE /\ job.obj = api[n] /\ api'[n] = o
             /\ \A m \in Names \ {n} : api'[m] = api[m]
    <3>1. /\ api'[n].uid = api[n].uid /\ api'[n].finalizer = api[n].finalizer
          /\ api'[n].status.id = api[n].status.id
      BY <2>1, <2>2
    <3>2. Changed(n)
      BY <1>2, <1>3, <2>2, <3>1 DEF Stands, Changed
    <3> QED
      BY <1>2, <2>2, <3>2 DEF Written
  <2> QED
    BY <1>2, <1>4, <1>8, <2>2 DEF SetNotReady, Ends, Quiet
<1> QED
  BY <1>5, <1>6, <1>7, <1>8

LEMMA GoneTouched ==
  ASSUME TypeOK, NEW i \in 1..MaxId, Gone(i), UNCHANGED <<api, lastUid, nextId>>
  PROVE  Touched(i)
BY DEF Gone, Touched, TypeOK, Remote

\* What a request to Vikunja does.
LEMMA RequestTouched ==
  ASSUME PInv, CreateProject \/ UpdateProject \/ DeleteProject
  PROVE  Quiet \/ Made \/ \E i \in 1..MaxId : Touched(i)
<1> USE DEF PInv, IInv
<1> DEFINE i == job.obj.status.id
<1>1. UNCHANGED <<api, lastUid>> /\ job.key \in Names
  BY DEF CreateProject, UpdateProject, DeleteProject, Return, TypeOK, RuntimeTypeOK, Job
<1>2. job.obj \in Object /\ Copy(job.key, job.obj) /\ Stands(job.key, job.obj)
  BY <1>1, CopyOf DEF CopiesStand
<1>3. CASE CreateProject
  <2>1. CASE /\ nextId <= MaxId /\ nextId' = nextId + 1
             /\ Stored(nextId, job.key, job.obj.uid)
    <3>1. nextId \in 1..MaxId
      BY <2>1 DEF TypeOK
    <3>2. /\ remote'[nextId].uid = job.obj.uid /\ remote'[nextId].live
          /\ \A k \in 1..MaxId \ {nextId} : remote'[k] = remote[k]
      BY <2>1, <3>1 DEF Stored, TypeOK
    <3>3. job.obj.uid # 0 /\ Live(job.obj)
      BY <1>3 DEF CreateProject, Handled
    <3> QED
      BY <1>1, <1>2, <2>1, <3>1, <3>2, <3>3 DEF Made, Stands
  <2> QED
    BY <1>1, <1>3, <2>1 DEF CreateProject, Quiet
<1>4. CASE UpdateProject \/ DeleteProject
  <2>1. nextId' = nextId /\ i \in 1..MaxId
    <3>1. nextId' = nextId /\ work.pc \in {"update", "delete"}
      BY <1>4 DEF UpdateProject, DeleteProject
    <3>2. i # 0 /\ i \in 0..MaxId
      BY <3>1, IdTyped DEF HandlerOK
    <3> QED
      BY <3>1, <3>2
  <2>2. CASE UNCHANGED remote
    BY <1>1, <2>1, <2>2 DEF Quiet
  <2>3. CASE remote[i].live /\ Stored(i, remote[i].name, remote[i].uid)
    BY <1>1, <2>1, <2>3 DEF Stored, Touched, TypeOK
  <2>4. CASE Gone(i)
    BY <1>1, <2>1, <2>4, GoneTouched
  <2> QED
    BY <1>4, <2>2, <2>3, <2>4 DEF UpdateProject, DeleteProject
<1> QED
  BY <1>3, <1>4

LEMMA StepKinds ==
  ASSUME PInv, [Next]_vars
  PROVE  \/ Quiet
         \/ \E n \in Names : Written(n)
         \/ Made
         \/ \E i \in 1..MaxId : Touched(i)
<1> USE DEF PInv, IInv
<1>1. CASE AddFinalizer \/ RemoveFinalizer \/ SetReady \/ SetNotReady
  BY <1>1, EndsWritten, EndsMayWrite
<1>2. CASE CreateProject \/ UpdateProject \/ DeleteProject
  BY <1>2, RequestTouched
<1>3. ASSUME NEW n \in Names, Sync(n) \/ Requeue(n) \/ Reconcile(n)
      PROVE  Quiet
  BY <1>3 DEF Quiet, Sync, Deliver, Requeue, TimerFires, Reconcile, ReconcileNothing,
     Skip, ReconcileAddsFinalizer, ReconcileUpserts, ReconcileDeletes, Begin,
     ReconcileFails, BeginFails
<1>4. ASSUME NEW n \in Names, NEW ref \in ParentRefs,
             Create(n, ref) \/ Edit(n, ref) \/ Delete(n)
      PROVE  Written(n)
  BY <1>4, UserWritten DEF Create, Edit, Delete
<1>5. None \in ParentRefs
  BY DEF ParentRefs
<1>6. ASSUME NEW i \in 1..MaxId, ExternalDelete(i) \/ ExternalEdit(i)
      PROVE  Touched(i)
  <2>1. CASE ExternalDelete(i)
    BY <2>1, GoneTouched DEF ExternalDelete
  <2>2. CASE ExternalEdit(i)
    BY <2>2 DEF ExternalEdit, Touched, TypeOK, Remote
  <2> QED
    BY <1>6, <2>1, <2>2
<1>7. ASSUME NEW i \in Instances, InstanceChanges(i)
      PROVE  Quiet
  BY <1>7 DEF InstanceChanges, Quiet
<1>8. CASE SecretChanges \/ Crash
  BY <1>8 DEF SecretChanges, Crash, Restart, Quiet
<1>9. CASE UNCHANGED vars
  BY <1>9 DEF vars, Quiet
<1> QED
  BY <1>1, <1>2, <1>3, <1>4, <1>5, <1>6, <1>7, <1>8, <1>9 DEF Next, Step, Environment

-----------------------------------------------------------------------------
(* Where copies come from.                                                 *)

LEMMA StoreCopied ==
  ASSUME TypeOK, NEW m \in Names, NEW o \in Object, Store(m, o), UNCHANGED cache,
         NEW n \in Names, NEW c, Copy(n, c)',
         job'.key = n => job'.key = job.key /\ job'.obj = job.obj
  PROVE  Copy(n, c) \/ c = api'[n]
<1>1. CASE n = m /\ o # api[m]
  <2>1. events'[n] = Append(events[n], o) /\ api'[n] = o /\ events[n] \in Seq(Object)
    BY <1>1 DEF Store, TypeOK, RuntimeTypeOK
  <2>2. ASSUME NEW k \in 1..Len(events'[n])
        PROVE  \/ events'[n][k] = o
               \/ k \in 1..Len(events[n]) /\ events'[n][k] = events[n][k]
    BY <2>1, <2>2
  <2> QED
    BY <2>1, <2>2 DEF Copy
<1>2. CASE ~(n = m /\ o # api[m])
  <2>1. events'[n] = events[n] /\ api'[n] = api[n]
    BY <1>2 DEF Store, TypeOK, RuntimeTypeOK
  <2> QED
    BY <2>1 DEF Copy
<1> QED
  BY <1>1, <1>2

LEMMA SameCopied ==
  ASSUME UNCHANGED <<api, cache, events>>, NEW n, NEW c, Copy(n, c)',
         job'.key = n => job'.key = job.key /\ job'.obj = job.obj
  PROVE  Copy(n, c)
BY DEF Copy

LEMMA CommitCopied ==
  ASSUME TypeOK, NEW o \in Object, NEW again \in BOOLEAN, Commit(o, again),
         job.key \in Names, NEW n \in Names, NEW c, Copy(n, c)'
  PROVE  Copy(n, c) \/ c = api'[n]
<1>1. UNCHANGED cache /\ job'.key # n
  BY NoneAssumption DEF Commit, Return, Idle
<1>2. CASE Store(job.key, o)
  BY <1>1, <1>2, StoreCopied
<1>3. CASE UNCHANGED <<api, events>>
  BY <1>1, <1>3, SameCopied
<1> QED
  BY <1>2, <1>3 DEF Commit

LEMMA UserCopied ==
  ASSUME TypeOK, NEW m \in Names, NEW o \in Object, UserWrites(m, o),
         NEW n \in Names, NEW c, Copy(n, c)'
  PROVE  Copy(n, c) \/ c = api'[n]
<1>1. job'.key = job.key /\ job'.obj = job.obj
  BY IdTyped DEF UserWrites, Job
<1> QED
  BY <1>1, StoreCopied DEF UserWrites

LEMMA DeliverCopied ==
  ASSUME TypeOK, NEW m \in Names, Deliver(m), NEW n \in Names, NEW c, Copy(n, c)'
  PROVE  Copy(n, c)
<1>1. UNCHANGED <<api, job>>
  BY DEF Deliver
<1>2. CASE n # m
  <2>1. cache'[n] = cache[n] /\ events'[n] = events[n]
    BY <1>2 DEF Deliver, TypeOK, RuntimeTypeOK
  <2> QED
    BY <1>1, <2>1 DEF Copy
<1>3. CASE n = m
  <2>1. /\ events[n] # <<>> /\ events[n] \in Seq(Object)
        /\ cache'[n] = Head(events[n]) /\ events'[n] = Tail(events[n])
    BY <1>3 DEF Deliver, TypeOK, RuntimeTypeOK
  <2>2. cache'[n] = events[n][1] /\ 1 \in 1..Len(events[n])
    BY <2>1
  <2>3. \A k \in 1..Len(events'[n]) :
          k + 1 \in 1..Len(events[n]) /\ events'[n][k] = events[n][k + 1]
    BY <2>1
  <2> QED
    BY <1>1, <2>2, <2>3 DEF Copy
<1> QED
  BY <1>2, <1>3

\* Every version that is around after a step was around before, or is what
\* the step stored.
LEMMA CopyStep ==
  ASSUME IInv, [Next]_vars, NEW n \in Names, NEW c, Copy(n, c)'
  PROVE  Copy(n, c) \/ c = api'[n]
<1> USE DEF IInv
<1>1. ASSUME UNCHANGED <<api, cache, events>>, job' = job \/ job' = Idle
      PROVE  Copy(n, c)
  BY <1>1, NoneAssumption, SameCopied DEF Idle
<1>2. CASE AddFinalizer \/ RemoveFinalizer \/ SetReady \/ SetNotReady
  <2>1. PICK o \in Object, again \in BOOLEAN : Ends(o, again)
    BY <1>2, EndsMayWrite
  <2> QED
    BY <1>2, <2>1, EndsMayWrite, CommitCopied DEF Ends
<1>3. CASE CreateProject \/ UpdateProject \/ DeleteProject
  BY <1>1, <1>3 DEF CreateProject, UpdateProject, DeleteProject, Return
<1>4. ASSUME NEW m \in Names, Sync(m)
      PROVE  Copy(n, c)
  BY <1>4, DeliverCopied DEF Sync
<1>5. ASSUME NEW m \in Names, Requeue(m) \/ ReconcileNothing(m) \/ ReconcileFails(m)
      PROVE  Copy(n, c)
  BY <1>1, <1>5 DEF Requeue, TimerFires, ReconcileNothing, Skip, ReconcileFails,
                    BeginFails
<1>6. ASSUME NEW m \in Names,
             ReconcileAddsFinalizer(m) \/ ReconcileUpserts(m) \/ ReconcileDeletes(m)
      PROVE  Copy(n, c)
  <2>1. UNCHANGED <<api, cache, events>> /\ job'.key = m /\ job'.obj = cache[m]
    BY <1>6 DEF ReconcileAddsFinalizer, ReconcileUpserts, ReconcileDeletes, Begin
  <2> QED
    BY <2>1 DEF Copy
<1>7. ASSUME NEW m \in Names, NEW s \in ParentRefs,
             UserCreates(m, s) \/ UserEdits(m, s) \/ UserDeletes(m)
      PROVE  Copy(n, c) \/ c = api'[n]
  <2>1. PICK o \in Object : UserWrites(m, o)
    BY <1>7, UserWritesHonest
  <2> QED
    BY <2>1, UserCopied
<1>8. CASE Environment
  <2>1. ASSUME NEW m \in Names, NEW ref \in ParentRefs,
               Create(m, ref) \/ Edit(m, ref) \/ Delete(m)
        PROVE  Copy(n, c) \/ c = api'[n]
    BY <1>7, <2>1 DEF Create, Edit, Delete
  <2>2. None \in ParentRefs
    BY DEF ParentRefs
  <2>3. ASSUME NEW i \in Instances, InstanceChanges(i)
        PROVE  Copy(n, c)
    BY <1>1, <2>3 DEF InstanceChanges
  <2>4. ASSUME NEW i \in 1..MaxId, ExternalDelete(i) \/ ExternalEdit(i)
        PROVE  Copy(n, c)
    BY <1>1, <2>4 DEF ExternalDelete, ExternalEdit
  <2>5. CASE SecretChanges
    BY <1>1, <2>5 DEF SecretChanges
  <2>6. CASE Crash
    <3>1. api'[n] = api[n] /\ cache'[n] = api[n] /\ events'[n] = <<>> /\ job' = Idle
      BY <2>6 DEF Crash, Restart
    <3>2. Len(events'[n]) = 0
      BY <3>1
    <3> QED
      BY <3>1, <3>2, NoneAssumption DEF Copy, Idle
  <2> QED
    BY <1>8, <2>1, <2>2, <2>3, <2>4, <2>5, <2>6 DEF Environment
<1>9. CASE UNCHANGED vars
  BY <1>1, <1>9 DEF vars
<1> QED
  BY <1>2, <1>3, <1>4, <1>5, <1>6, <1>8, <1>9 DEF Next, Step, Reconcile

-----------------------------------------------------------------------------
(* The invariant.                                                          *)

LEMMA StandStep == ASSUME PInv, [Next]_vars PROVE CopiesStand'
<1> USE DEF PInv, IInv
<1> SUFFICES ASSUME NEW n \in Names, NEW c \in Object, Copy(n, c)'
             PROVE  Stands(n, c)'
  BY DEF CopiesStand
<1>1. api[n] \in Object /\ api'[n] \in Object /\ Stands(n, api[n])
  BY CopyOf, TypeStep DEF CopiesStand, TypeOK, RuntimeTypeOK
<1>2. CASE api'[n] = api[n]
  <2>1. Stands(n, c)
    BY <1>1, <1>2, CopyStep DEF CopiesStand
  <2> QED
    BY <1>2, <2>1 DEF Stands
<1>3. CASE Written(n)
  <2>1. CASE c = api'[n]
    <3>1. CASE Created(n)
      BY <2>1, <3>1 DEF Created, Stands, Live
    <3>2. CASE Changed(n)
      BY <2>1, <3>2 DEF Changed, Stands, Live
    <3>3. CASE Removed(n)
      BY <2>1, <3>3 DEF Removed, Stands, Live, Absent
    <3> QED
      BY <1>3, <3>1, <3>2, <3>3 DEF Written
  <2>2. CASE Copy(n, c)
    <3>1. Stands(n, c)
      BY <2>2 DEF CopiesStand
    <3>2. CASE Created(n)
      BY <3>1, <3>2 DEF Created, Stands, Live
    <3>3. CASE Changed(n)
      BY <3>1, <3>3 DEF Changed, Stands
    <3>4. CASE Removed(n)
      BY <2>2, <3>1, <3>4 DEF Removed, Stands
    <3> QED
      BY <1>3, <3>2, <3>3, <3>4 DEF Written
  <2> QED
    BY <2>1, <2>2, CopyStep
<1>4. api'[n] = api[n] \/ Written(n)
  BY StepKinds DEF Quiet, Written, Made, Touched
<1> QED
  BY <1>2, <1>3, <1>4

LEMMA FreshStep == ASSUME PInv, [Next]_vars PROVE Fresh' /\ CreatedOnlyWithFinalizer'
<1> USE DEF PInv, IInv
<1>1. /\ lastUid \in Nat /\ nextId \in Nat
      /\ \A n \in Names : api[n].uid \in Nat
      /\ \A i \in 1..MaxId : remote[i].uid \in Nat
  BY DEF TypeOK, RuntimeTypeOK, Object, Remote
<1>2. CASE Quiet
  BY <1>2 DEF Quiet, Fresh, CreatedOnlyWithFinalizer, Exists
<1>3. ASSUME NEW n \in Names, Written(n)
      PROVE  Fresh' /\ CreatedOnlyWithFinalizer'
  <2>1. CASE Created(n)
    BY <1>1, <1>3, <2>1 DEF Created, Written, Fresh, CreatedOnlyWithFinalizer, Exists
  <2>2. CASE Changed(n)
    BY <1>1, <1>3, <2>2 DEF Changed, Written, Fresh, CreatedOnlyWithFinalizer, Exists
  <2>3. CASE Removed(n)
    <3>1. api'[n].uid = 0
      BY <2>3 DEF Removed, Absent
    <3> QED
      BY <1>1, <1>3, <2>3, <3>1
         DEF Removed, Written, Fresh, CreatedOnlyWithFinalizer, Exists
  <2> QED
    BY <1>3, <2>1, <2>2, <2>3 DEF Written
<1>4. CASE Made
  BY <1>1, <1>4 DEF Made, Fresh, CreatedOnlyWithFinalizer, Exists
<1>5. ASSUME NEW i \in 1..MaxId, Touched(i)
      PROVE  Fresh' /\ CreatedOnlyWithFinalizer'
  <2>1. UNCHANGED <<api, lastUid, nextId>>
    BY <1>5 DEF Touched
  <2>2. \A k \in 1..MaxId : remote'[k].uid = remote[k].uid
    BY <1>5 DEF Touched
  <2>3. \A k \in nextId..MaxId : k \in 1..MaxId
    BY DEF TypeOK
  <2> QED
    BY <2>1, <2>2, <2>3 DEF Fresh, CreatedOnlyWithFinalizer, Exists
<1> QED
  BY <1>2, <1>3, <1>4, <1>5, StepKinds

LEMMA HandledStep == ASSUME PInv, [Next]_vars PROVE Handled'
<1> USE DEF PInv, IInv
<1> DEFINE Newest == job.current => events[job.key] = <<>>
           Facts == /\ work.pc = "addFinalizer" => job.obj.uid # 0
                    /\ work.pc \in {"create", "update"} => job.obj.uid # 0 /\ Live(job.obj)
                    /\ work.pc \in {"delete", "release"} => job.obj.deleting
<1>1. Newest /\ Facts
  BY DEF Handled
<1>2. ASSUME work' = work, job'.obj = job.obj
      PROVE  Facts'
  BY <1>1, <1>2 DEF Live
<1>3. ASSUME work' = NoWork
      PROVE  Facts'
  BY <1>3 DEF NoWork
<1>4. ASSUME UNCHANGED events, job' = job \/ job' = Idle
      PROVE  Newest'
  BY <1>1, <1>4 DEF Idle
<1>5. CASE AddFinalizer \/ RemoveFinalizer \/ SetReady \/ SetNotReady
  <2>1. job' = Idle /\ work' = NoWork
    BY <1>5 DEF AddFinalizer, RemoveFinalizer, SetReady, SetNotReady, Ends, Commit, Return
  <2> QED
    BY <1>3, <2>1 DEF Handled, Idle
<1>6. CASE CreateProject \/ UpdateProject \/ DeleteProject
  <2>1. Newest'
    BY <1>4, <1>6 DEF CreateProject, UpdateProject, DeleteProject, Return
  <2>2. Facts'
    <3>1. CASE CreateProject
      BY <3>1 DEF CreateProject, ToReady, ToError, NoWork
    <3>2. CASE UpdateProject
      <4>1. CASE work' = [work EXCEPT !.pc = "create"]
        <5>1. work'.pc = "create" /\ job' = job /\ work.pc = "update"
          BY <3>2, <4>1 DEF UpdateProject, TypeOK, Work
        <5> QED
          BY <1>1, <5>1 DEF Live
      <4>2. CASE ToError \/ ToReady(job.obj.status.id)
        BY <4>2 DEF ToReady, ToError, NoWork
      <4> QED
        BY <3>2, <4>1, <4>2 DEF UpdateProject
    <3>3. CASE DeleteProject
      <4>1. CASE work' = [work EXCEPT !.pc = "release"] /\ job' = job
        <5>1. work'.pc = "release" /\ job' = job /\ work.pc = "delete"
          BY <3>3, <4>1 DEF DeleteProject, TypeOK, Work
        <5> QED
          BY <1>1, <5>1
      <4> QED
        BY <1>3, <3>3, <4>1 DEF DeleteProject
    <3> QED
      BY <1>6, <3>1, <3>2, <3>3
  <2> QED
    BY <2>1, <2>2 DEF Handled
<1>7. ASSUME NEW n \in Names, Sync(n) \/ Requeue(n)
      PROVE  Handled'
  <2>1. job' = job /\ work' = work
    BY <1>7 DEF Sync, Deliver, Requeue, TimerFires
  <2>2. Newest'
    <3>1. job.current => job.key \in Names
      BY DEF Follows
    <3> QED
      BY <1>1, <1>7, <2>1, <3>1 DEF Sync, Deliver, Requeue, TimerFires, TypeOK,
                                    RuntimeTypeOK
  <2> QED
    BY <1>2, <2>1, <2>2 DEF Handled
<1>8. ASSUME NEW n \in Names, Reconcile(n)
      PROVE  Handled'
  <2>1. CASE ReconcileNothing(n) \/ ReconcileFails(n)
    <3>1. UNCHANGED <<events, job, work>>
      BY <2>1 DEF ReconcileNothing, Skip, ReconcileFails, BeginFails
    <3> QED
      BY <1>2, <1>4, <3>1 DEF Handled
  <2>2. ASSUME Begin(n)
        PROVE  Newest' /\ job'.obj = cache[n]
    BY <2>2 DEF Begin
  <2>3. Stands(n, cache[n])
    BY CopyOf DEF CopiesStand
  <2>4. CASE ReconcileAddsFinalizer(n)
    <3>1. Facts'
      BY <2>2, <2>4 DEF ReconcileAddsFinalizer, NoWork, Exists
    <3> QED
      BY <2>2, <2>4, <3>1 DEF ReconcileAddsFinalizer, Handled
  <2>5. CASE ReconcileUpserts(n)
    <3>1. job'.obj.uid # 0 /\ Live(job'.obj)
      BY <2>2, <2>5 DEF ReconcileUpserts, Finalized, Exists, Live
    <3>2. work'.pc \in {"setNotReady", "create", "update"}
      BY <2>5 DEF ReconcileUpserts, NoWork
    <3>3. Facts'
      BY <3>1, <3>2 DEF Live
    <3> QED
      BY <2>2, <2>5, <3>3 DEF ReconcileUpserts, Handled
  <2>6. CASE ReconcileDeletes(n)
    <3>1. work'.pc \in {"delete", "release"} /\ job'.obj.deleting
      BY <2>2, <2>6 DEF ReconcileDeletes, NoWork
    <3> QED
      BY <2>2, <2>6, <3>1 DEF ReconcileDeletes, Handled
  <2> QED
    BY <1>8, <2>1, <2>4, <2>5, <2>6 DEF Reconcile
<1>9. ASSUME NEW n \in Names, NEW o, UserWrites(n, o), work' = work
      PROVE  Handled'
  <2>1. job'.obj = job.obj /\ job'.key = job.key
        /\ (job'.current => job.current /\ job.key # n)
    BY <1>9, IdTyped DEF UserWrites, Job
  <2>2. job.current => job.key \in Names
    BY DEF Follows
  <2>3. Newest'
    BY <1>1, <1>9, <2>1, <2>2 DEF UserWrites, Store, TypeOK, RuntimeTypeOK
  <2> QED
    BY <1>2, <1>9, <2>1, <2>3 DEF Handled
<1>10. CASE Environment
  <2>1. ASSUME NEW n \in Names, NEW ref \in ParentRefs,
               Create(n, ref) \/ Edit(n, ref) \/ Delete(n)
        PROVE  Handled'
    BY <1>9, <2>1 DEF Create, UserCreates, Edit, UserEdits, Delete, UserDeletes
  <2>2. None \in ParentRefs
    BY DEF ParentRefs
  <2>3. ASSUME UNCHANGED <<events, job, work>>
        PROVE  Handled'
    BY <1>2, <1>4, <2>3 DEF Handled
  <2>4. ASSUME NEW i \in Instances, InstanceChanges(i)
        PROVE  Handled'
    BY <2>3, <2>4 DEF InstanceChanges
  <2>5. ASSUME NEW i \in 1..MaxId, ExternalDelete(i) \/ ExternalEdit(i)
        PROVE  Handled'
    BY <2>3, <2>5 DEF ExternalDelete, ExternalEdit
  <2>6. CASE SecretChanges
    BY <2>3, <2>6 DEF SecretChanges
  <2>7. CASE Crash
    BY <1>3, <2>7 DEF Crash, Restart, Handled, Idle
  <2> QED
    BY <1>10, <2>1, <2>2, <2>4, <2>5, <2>6, <2>7 DEF Environment
<1>11. CASE UNCHANGED vars
  BY <1>2, <1>4, <1>11 DEF vars, Handled
<1> QED
  BY <1>5, <1>6, <1>7, <1>8, <1>10, <1>11 DEF Next, Step

LEMMA InitPInv == Init => PInv
<1> SUFFICES ASSUME Init PROVE PInv
  OBVIOUS
<1>1. ASSUME NEW n \in Names, NEW c, Copy(n, c)
      PROVE  c = Absent
  BY <1>1, NoneAssumption DEF Copy, Init, RuntimeInit, Idle
<1>2. CopiesStand
  BY <1>1 DEF CopiesStand, Stands, Live, Absent
<1>3. Handled
  BY DEF Init, RuntimeInit, Handled, Idle, NoWork
<1>4. Fresh /\ CreatedOnlyWithFinalizer
  BY DEF Init, RuntimeInit, Fresh, CreatedOnlyWithFinalizer, Exists, Absent, NoProject
<1> QED
  BY InitInv, <1>2, <1>3, <1>4 DEF PInv

LEMMA StepPInv == PInv /\ [Next]_vars => PInv'
BY StepInv, StandStep, HandledStep, FreshStep DEF PInv

LEMMA AlwaysPInv == Spec => []PInv
BY InitPInv, StepPInv, PTL DEF Spec

\* A Project for which something was created in Vikunja carries the finalizer:
\* however outdated the copy is from which the reconciler creates, the Project
\* itself cannot vanish without reconcileDelete.
THEOREM CreatedIsFinalized == Spec => []CreatedOnlyWithFinalizer
<1>1. PInv => CreatedOnlyWithFinalizer
  BY DEF PInv
<1> QED
  BY <1>1, AlwaysPInv, PTL

-----------------------------------------------------------------------------
(* Projects implement Counterpart.                                         *)

\* What Counterpart's variables are mapped to.
Owner == [n \in Names |-> api[n].uid]
Record == [n \in Names |-> api[n].status.id]
Maker == [i \in 1..MaxId |-> remote[i].uid]
Alive == {i \in 1..MaxId : remote[i].live}
Excused == {n \in Names : job.key = n /\ work.skip}

LEMMA InitPromise == Init => CP!Init
<1> SUFFICES ASSUME Init PROVE CP!Init
  OBVIOUS
<1>1. \A n \in Names : api[n].uid = 0 /\ api[n].status.id = 0
  BY DEF Init, RuntimeInit, Absent, NoStatus
<1>2. \A i \in 1..MaxId : remote[i].uid = 0 /\ ~remote[i].live
  BY DEF Init, NoProject
<1>3. lastUid = 0 /\ \A n \in Names : ~(job.key = n /\ work.skip)
  BY DEF Init, RuntimeInit, NoWork
<1> QED
  BY <1>1, <1>2, <1>3 DEF CP!Init

LEMMA WrittenPromise ==
  ASSUME PInv, NEW n \in Names, Written(n)
  PROVE  CP!Appear(n) \/ CP!Vanish(n) \/ CP!Wait
         \/ \E i \in 1..MaxId : CP!Record(n, i)
<1> USE DEF PInv, IInv
<1>1. Maker' = Maker /\ Alive' = Alive
  BY DEF Written, Maker, Alive
<1>2. \A m \in Names \ {n} :
        api'[m].uid = api[m].uid /\ api'[m].status.id = api[m].status.id
  BY DEF Written
<1>3. /\ Owner' = [Owner EXCEPT ![n] = api'[n].uid]
      /\ Record' = [Record EXCEPT ![n] = api'[n].status.id]
  BY <1>2 DEF Owner, Record
<1>4. Spent(api[n]) => Record[n] \notin Alive
  BY DEF Spent, Record, Alive
<1>5. CASE Created(n)
  <2>1. api[n].status.id = 0
    BY <1>5 DEF Created, CopiesHonest, Honest
  <2>2. Record' = Record
    BY <1>3, <1>5, <2>1 DEF Created, Record
  <2>3. CP!Appear(n)
    BY <1>1, <1>3, <1>5, <2>2 DEF CP!Appear, Owner, Record, Maker, Alive, Created
  <2> QED
    BY <2>3
<1>6. CASE Changed(n)
  <2>1. Owner' = Owner /\ lastUid' = lastUid
    BY <1>3, <1>6 DEF Changed, Owner
  <2>2. CASE api'[n].status.id = api[n].status.id
    <3>1. Record' = Record
      BY <1>3, <2>2 DEF Record
    <3> QED
      BY <1>1, <2>1, <3>1 DEF CP!Wait, Owner, Record, Maker, Alive
  <2>3. CASE api'[n].status.id # api[n].status.id
    <3>1. PICK i \in 1..MaxId : i = api'[n].status.id
      BY <1>6, <2>3 DEF Changed
    <3>2. /\ Spent(api[n]) /\ api[n].uid # 0
          /\ remote[i].uid = api[n].uid
      BY <1>6, <2>3, <3>1 DEF Changed
    <3>3. CP!Free(n)
      BY <1>4, <3>2 DEF CP!Free, Record, Alive
    <3>4. CP!Record(n, i)
      BY <1>1, <1>3, <2>1, <3>1, <3>2, <3>3
         DEF CP!Record, Owner, Record, Maker, Alive
    <3> QED
      BY <3>4
  <2> QED
    BY <2>2, <2>3
<1>7. CASE Removed(n)
  <2>1. api'[n].uid = 0 /\ api'[n].status.id = 0 /\ lastUid' = lastUid
    BY <1>7 DEF Removed, Absent, NoStatus
  <2>2. CP!Free(n) \/ n \in Excused
    BY <1>4, <1>7 DEF Removed, Excused, CP!Free, Record, Alive
  <2>3. CP!Vanish(n)
    BY <1>1, <1>3, <2>1, <2>2
       DEF CP!Vanish, Owner, Record, Maker, Alive, Excused
  <2> QED
    BY <2>3
<1> QED
  BY <1>5, <1>6, <1>7 DEF Written

LEMMA MadePromise ==
  ASSUME PInv, Made, NEW n \in Names, n = job.key, NEW i \in 1..MaxId, i = nextId
  PROVE  CP!Make(n, i)
<1> USE DEF PInv, IInv
<1>1. Owner' = Owner /\ Record' = Record /\ lastUid' = lastUid
  BY DEF Made, Owner, Record
<1>2. remote[i].uid = 0
  BY DEF Made, Fresh
<1>3. Maker' = [Maker EXCEPT ![i] = api[n].uid]
  BY DEF Made, Maker
<1>4. Alive' = Alive \cup {i}
  BY DEF Made, Alive
<1>5. Owner[n] # 0 /\ Owner[n] = api[n].uid
  BY DEF Made, Owner
<1> QED
  BY <1>1, <1>2, <1>3, <1>4, <1>5 DEF CP!Make, Owner, Record, Maker, Alive

LEMMA TouchedPromise ==
  ASSUME PInv, NEW i \in 1..MaxId, Touched(i)
  PROVE  CP!Lose(i) \/ CP!Wait
<1> USE DEF PInv, IInv
<1>1. Owner' = Owner /\ Record' = Record /\ lastUid' = lastUid
  BY DEF Touched, Owner, Record
<1>2. Maker' = Maker
  BY DEF Touched, Maker
<1>3. CASE remote'[i].live
  <2>1. Alive' = Alive
    BY <1>3 DEF Touched, Alive
  <2> QED
    BY <1>1, <1>2, <2>1 DEF CP!Wait, Owner, Record, Maker, Alive
<1>4. CASE ~remote'[i].live
  <2>1. Alive' = Alive \ {i}
    BY <1>4 DEF Touched, Alive
  <2> QED
    BY <1>1, <1>2, <2>1 DEF CP!Lose, Owner, Record, Maker, Alive
<1> QED
  BY <1>3, <1>4

LEMMA StepPromise == PInv /\ [Next]_vars => [CP!Next]_CP!vars
<1> SUFFICES ASSUME PInv, [Next]_vars PROVE CP!Next
  OBVIOUS
<1>1. Excused' \subseteq Names
  BY DEF Excused
<1>2. CASE Quiet
  BY <1>1, <1>2 DEF Quiet, CP!Wait, CP!Next, Excused
<1>3. ASSUME NEW n \in Names, Written(n)
      PROVE  CP!Next
  BY <1>1, <1>3, WrittenPromise DEF CP!Next, Excused
<1>4. CASE Made
  <2>1. PICK n \in Names, i \in 1..MaxId : n = job.key /\ i = nextId
    BY <1>4 DEF Made
  <2>2. CP!Make(n, i)
    BY <1>4, <2>1, MadePromise
  <2> QED
    BY <1>1, <2>2 DEF CP!Next, Excused
<1>5. ASSUME NEW i \in 1..MaxId, Touched(i)
      PROVE  CP!Next
  BY <1>1, <1>5, TouchedPromise DEF CP!Next, Excused
<1> QED
  BY <1>2, <1>3, <1>4, <1>5, StepKinds

\* Projects keep the operator's promise, for any number of names, objects,
\* generations and faults: what Vikunja holds is made for a Project that exists,
\* recorded by no other, and neither forgotten nor left behind while there is an
\* instance to delete it from.
THEOREM ProjectsKeepPromise == Spec => Promise
BY InitPromise, StepPromise, AlwaysPInv, PTL DEF Spec, Promise, CP!Spec
=============================================================================
