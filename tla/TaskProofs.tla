----------------------------- MODULE TaskProofs -----------------------------
(***************************************************************************)
(* Theorems about the Task controller: types, that Ready means applied,    *)
(* that the operator forgets no task, whatever becomes of its labels and   *)
(* assignees, and that Tasks implement Counterpart.                        *)
(***************************************************************************)
EXTENDS Task, TLAPS

RT == INSTANCE RuntimeProofs WITH Specs <- Wanted \cup {NoSpec}

-----------------------------------------------------------------------------
(* The controller runs on the runtime that RuntimeProofs is about.         *)

LEMMA SaneConstants == RT!Sane
BY NoneAssumption, BoundsAssumption
   DEF RT!Sane, Status, NoStatus, Reasons

\* The operators of the two instances of ControllerRuntime are the same.
LEMMA SameData ==
  /\ RT!Absent = Absent /\ RT!Idle = Idle
  /\ RT!Object = Object /\ RT!Job = Job
  /\ \A c : RT!Exists(c) <=> Exists(c)
  /\ RT!RuntimeInit <=> RuntimeInit
  /\ RT!RuntimeTypeOK <=> RuntimeTypeOK
BY DEF RT!Absent, Absent, RT!Idle, Idle, RT!Object, Object, RT!Job, Job, RT!Exists, Exists,
   RT!RuntimeInit, RuntimeInit, RT!RuntimeTypeOK, RuntimeTypeOK

LEMMA SameWrites ==
  ASSUME NEW n, NEW o
  PROVE  /\ RT!Store(n, o) <=> Store(n, o)
         /\ RT!UserCreates(n, o) <=> UserCreates(n, o)
         /\ RT!UserEdits(n, o) <=> UserEdits(n, o)
         /\ RT!UserDeletes(n) <=> UserDeletes(n)
<1>1. ASSUME NEW p PROVE /\ RT!Store(n, p) <=> Store(n, p)
                         /\ RT!UserWrites(n, p) <=> UserWrites(n, p)
  BY DEF RT!Store, Store, RT!UserWrites, UserWrites
<1> QED
  BY <1>1, SameData DEF RT!UserCreates, UserCreates, RT!UserEdits, UserEdits,
     RT!UserDeletes, UserDeletes

LEMMA SameSteps ==
  /\ \A n : /\ RT!Deliver(n) <=> Deliver(n)
            /\ RT!TimerFires(n) <=> TimerFires(n)
            /\ RT!Skip(n) <=> Skip(n)
            /\ RT!Begin(n) <=> Begin(n)
            /\ RT!BeginFails(n) <=> BeginFails(n)
  /\ \A o, again : RT!Commit(o, again) <=> Commit(o, again)
  /\ \A again : RT!Return(again) <=> Return(again)
  /\ RT!Restart <=> Restart
  /\ RT!Fault <=> Fault
BY SameData, SameWrites DEF RT!Deliver, Deliver, RT!TimerFires, TimerFires, RT!Skip, Skip,
   RT!Begin, Begin, RT!BeginFails, BeginFails, RT!Commit, Commit, RT!Return, Return,
   RT!Restart, Restart, RT!Fault, Fault

LEMMA SameTypes == ASSUME RT!RuntimeTypeOK' PROVE RuntimeTypeOK'
BY DEF RT!RuntimeTypeOK, RuntimeTypeOK, RT!Object, Object, RT!Job, Job


-----------------------------------------------------------------------------
(* The inductive invariant.                                                *)

\* Task i was created for the Task with uid u.
Backs(i, u) == i \in 1..(nextId - 1) /\ remote[i].uid = u

\* Every version of a Task has a spec that users write; the id it shows is that of
\* its own task, and it has the finalizer then.
Placed(c) == Exists(c) => c.spec \in Wanted

Owns(c) == c.status.id # 0 => Backs(c.status.id, c.uid) /\ c.finalizer

CopiesOwn ==
  \A n \in Names : \A c \in Object : RT!Copy(n, c) => Placed(c) /\ Owns(c)

\* No task is lost when the id that o records is.
Spent(o) == o.status.id = 0 \/ ~remote[o.status.id].live

\* The resources that ids were given for.
Owners(ids) == {l[1] : l \in ids}

\* What the requests that are left make of task r is what spec asks for.
Leads(r, plan, spec) ==
  /\ Owners((r.labels \cup plan.add) \ plan.remove) = spec.labels
  /\ (r.people \cup plan.assign) \ plan.unassign = spec.people

Planned ==
  LET r == remote[work.id] IN
  r.live /\ ~r.drifted =>
    /\ r.gen = job.obj.gen
    /\ r.project[1] = job.obj.spec.project
    /\ Leads(r, work.plan, job.obj.spec)

\* What the handler knows.
HandlerSends ==
  /\ work.pc \in {"create", "update"} =>
       /\ work.id = job.obj.status.id
       /\ work.project[1] = job.obj.spec.project
       /\ Owners(work.labels) = job.obj.spec.labels
  /\ work.pc = "create" => Spent(job.obj)
  /\ work.pc \in {"update", "delete"} => work.id # 0
  /\ work.pc \in {"relate", "setReady"} => Planned
  /\ work.pc \in {"relate", "setReady"} =>
       /\ work.plan.add \cap work.plan.remove = {}
       /\ work.plan.assign \cap work.plan.unassign = {}

HandlerEnds ==
  /\ work.pc \in {"relate", "setReady", "setNotReady"} =>
       work.id = job.obj.status.id \/ (work.id # 0 /\ Spent(job.obj))
  /\ work.pc = "setReady" => work.plan = NoPlan
  /\ work.pc = "setNotReady" => work.reason # "ReconcileSuccess"
  /\ work.pc \in {"delete", "release"} => /\ work.id = job.obj.status.id
                                          /\ job.obj.deleting
  /\ work.pc = "release" => work.skip \/ Spent(job.obj)

Handler ==
  /\ work.pc \in {"create", "update", "relate", "setReady", "setNotReady"} =>
       RT!Live(job.obj)
  /\ work.pc # "idle" /\ work.id # 0 => Backs(work.id, job.obj.uid)
  /\ HandlerSends
  /\ HandlerEnds

\* Ids and uids that were not given yet are not in use.
Fresh ==
  /\ \A i \in 1..MaxId : remote[i].uid <= lastUid
  /\ \A i \in nextId..MaxId : remote[i].uid = 0

\* A stored status is of the object's generation or an older one.
NotAhead == \A n \in Names : api[n].status.observed <= api[n].gen

\* Once a Task reports Ready for its generation, no older one is around.
ReadyIsNewest ==
  \A n \in Names : \A c \in Object :
    Ready(api[n]) /\ RT!Copy(n, c) /\ c.uid = api[n].uid => c.gen = api[n].gen

TInv == /\ TypeOK
        /\ RT!RInv
        /\ CopiesOwn
        /\ Handler
        /\ Fresh
        /\ NotAhead
        /\ ReadyIsNewest
        /\ ReadyMeansApplied

Requests == [add : SUBSET Ids(Labels), remove : SUBSET Ids(Labels),
             assign : SUBSET Users, unassign : SUBSET Users]

LEMMA NoPlanTyped == NoPlan \in Requests
BY DEF NoPlan, Requests

LEMMA NoWorkTyped == NoWork \in Work
<1>1. /\ NoWork.plan \in Requests
      /\ NoWork.project \in Ids(Projects) \cup {<<None, 0>>}
      /\ NoWork.labels \in SUBSET Ids(Labels)
  BY NoPlanTyped DEF NoWork
<1>2. "none" \in Reasons /\ 0 \in 0..MaxId
  BY BoundsAssumption DEF Reasons
<1> HIDE DEF Ids, Requests
<1> QED
  BY <1>1, <1>2 DEF NoWork, Work, Requests

LEMMA InitHolds == Init => TInv
<1> SUFFICES ASSUME Init PROVE TInv
  OBVIOUS
<1>1. RT!RInv
  BY SaneConstants, SameData, RT!RInvInit DEF Init
<1>2. RuntimeTypeOK
  BY <1>1, SameData DEF RT!RInv
<1>3. TypeOK
  <2>1. work \in Work /\ work.pc = "idle"
    BY NoWorkTyped DEF Init, RuntimeInit, NoWork
  <2>2. remote \in [1..MaxId -> Remote] /\ nextId \in 1..(MaxId + 1) /\ inst \in Outcomes
    BY BoundsAssumption DEF Init, NoTask, Remote, Outcomes
  <2>3. dep \in [Deps -> [state : {"absent", "ready", "lost"}, last : 0..MaxDep]]
    BY BoundsAssumption DEF Init
  <2> QED
    BY <1>2, <2>1, <2>2, <2>3 DEF TypeOK
<1>4. ASSUME NEW n \in Names, NEW c, RT!Copy(n, c)
      PROVE  c = Absent
  BY <1>4, NoneAssumption DEF RT!Copy, Init, RuntimeInit, Idle
<1>5. CopiesOwn
  BY <1>4 DEF CopiesOwn, Placed, Owns, Exists, Absent, NoStatus
<1>6. Handler
  BY DEF Init, RuntimeInit, Handler, HandlerSends, HandlerEnds, NoWork
<1>7. NotAhead /\ ReadyIsNewest /\ ReadyMeansApplied
  BY DEF Init, RuntimeInit, NotAhead, ReadyIsNewest, ReadyMeansApplied, Ready, Absent, NoStatus
<1>8. Fresh
  BY BoundsAssumption DEF Init, RuntimeInit, Fresh, NoTask
<1> QED
  BY <1>1, <1>3, <1>5, <1>6, <1>7, <1>8 DEF TInv

\* The worker's copy.
LEMMA WorkersCopy ==
  ASSUME TInv, work.pc # "idle"
  PROVE  /\ job.key \in Names /\ job.obj \in Object /\ RT!Copy(job.key, job.obj)
         /\ Exists(job.obj) /\ Owns(job.obj) /\ job.obj.spec \in Wanted
         /\ job.obj.gen \in 0..MaxGen /\ job.obj.uid \in 1..MaxUid
         /\ job.obj.status.id \in 0..MaxId /\ job.obj.status \in Status
<1>1. job.key \in Names /\ job.obj \in Object
  BY DEF TInv, TypeOK, RuntimeTypeOK, Job
<1>2. RT!Copy(job.key, job.obj)
  BY <1>1, SameData, RT!CopyOf DEF TInv, TypeOK
<1>3. Exists(job.obj)
  BY <1>1, SameData DEF TInv, RT!RInv, RT!Follows
<1> QED
  BY <1>1, <1>2, <1>3, BoundsAssumption
     DEF TInv, CopiesOwn, Placed, Object, Status, Exists

\* The copy that a reconcile starts with.
LEMMA CachedCopy ==
  ASSUME TInv, NEW n \in Names
  PROVE  /\ cache[n] \in Object /\ Placed(cache[n]) /\ Owns(cache[n])
         /\ cache[n].status \in Status /\ cache[n].status.id \in 0..MaxId
<1>1. cache[n] \in Object /\ RT!Copy(n, cache[n])
  BY SameData, RT!CopyOf DEF TInv, TypeOK
<1> QED
  BY <1>1 DEF TInv, CopiesOwn, Object, Status

\* What is stored.
LEMMA StoredCopy ==
  ASSUME TInv, NEW n \in Names
  PROVE  /\ api[n] \in Object /\ RT!Copy(n, api[n]) /\ Placed(api[n]) /\ Owns(api[n])
         /\ api[n].gen \in Nat /\ api[n].status.observed \in Nat
         /\ api[n].status.id \in 0..MaxId
<1>1. api[n] \in Object /\ RT!Copy(n, api[n])
  BY SameData, RT!CopyOf DEF TInv, TypeOK
<1> QED
  BY <1>1, BoundsAssumption DEF TInv, CopiesOwn, Object, Status

-----------------------------------------------------------------------------
(* Every step is one that the runtime allows.                              *)

\* What the handler writes at the end.
Written(o) ==
  \/ work.pc = "addFinalizer" /\ o = [job.obj EXCEPT !.finalizer = TRUE]
  \/ work.pc = "release" /\ o = Absent
  \/ /\ work.pc = "setReady"
     /\ o = [job.obj EXCEPT !.status = Reported("ReconcileSuccess")]
  \/ /\ work.pc = "setNotReady"
     /\ o = [job.obj EXCEPT !.status = Reported(work.reason)]

Finishes(o) == Written(o) /\ \E again \in BOOLEAN : Ends(o, again)

\* What the handler writes is of its own copy.
LEMMA WrittenFields ==
  ASSUME TInv, NEW o, Written(o)
  PROVE  \/ work.pc = "release" /\ o = Absent
         \/ /\ o.uid = job.obj.uid /\ o.gen = job.obj.gen /\ o.spec = job.obj.spec
            /\ job.obj.finalizer => o.finalizer
            /\ \/ o.status = job.obj.status /\ o.finalizer
               \/ work.pc = "setReady" /\ o.status = Reported("ReconcileSuccess")
               \/ work.pc = "setNotReady" /\ o.status = Reported(work.reason)
<1>1. job.obj \in Object
  BY WorkersCopy DEF Written
<1> QED
  BY <1>1 DEF Written, Object

LEMMA WrittenTyped ==
  ASSUME TInv, NEW o, Written(o)
  PROVE  o \in Object /\ RT!MayWrite(o) /\ job.key \in Names
<1>1. work.pc # "idle"
  BY DEF Written
<1>2. job.key \in Names /\ job.obj \in Object /\ job.obj.gen \in 0..MaxGen
  BY <1>1, WorkersCopy
<1>3. CASE work.pc = "addFinalizer" /\ o = [job.obj EXCEPT !.finalizer = TRUE]
  BY <1>2, <1>3 DEF Object, RT!MayWrite
<1>4. CASE work.pc = "release" /\ o = Absent
  BY <1>2, <1>4, SameData, SaneConstants, RT!AbsentTyped
     DEF RT!MayWrite, TInv, Handler, HandlerEnds
<1>5. ASSUME NEW reason \in Reasons, o = [job.obj EXCEPT !.status = Reported(reason)]
      PROVE  o \in Object /\ RT!MayWrite(o)
  <2>1. Reported(reason) \in Status
    BY <1>2 DEF Reported, Status, TInv, TypeOK, Work
  <2> HIDE DEF Reported
  <2> QED
    BY <1>2, <1>5, <2>1 DEF Object, RT!MayWrite
<1>6. "ReconcileSuccess" \in Reasons /\ work.reason \in Reasons
  BY DEF Reasons, TInv, TypeOK, Work
<1> QED
  BY <1>2, <1>3, <1>4, <1>5, <1>6 DEF Written

LEMMA StepFinishes ==
  ASSUME AddFinalizer \/ RemoveFinalizer \/ SetReady \/ SetNotReady
  PROVE  \E o : Finishes(o)
BY DEF AddFinalizer, RemoveFinalizer, SetReady, SetNotReady, Finishes, Written

\* A request about a label or an assignee.
Relates ==
  \/ \E l \in Ids(Labels) : AddTaskLabel(l) \/ RemoveTaskLabel(l)
  \/ \E u \in Users : AddTaskAssignee(u) \/ RemoveTaskAssignee(u)

LEMMA RelatesOnly ==
  ASSUME Relates
  PROVE  /\ work.pc = "relate"
         /\ UNCHANGED <<kubernetes, nextId, inst, dep>>
         /\ Fault \/ UNCHANGED faults
BY DEF Relates, AddTaskLabel, RemoveTaskLabel, AddTaskAssignee, RemoveTaskAssignee, Relate

LEMMA StepMoves == ASSUME TInv, Next PROVE RT!Move
<1> USE DEF RT!Move
<1>1. ASSUME NEW n \in Names, NEW s \in Wanted, Create(n, s) \/ Edit(n, s)
      PROVE  RT!User
  BY <1>1, SameWrites DEF Create, Edit, RT!User
<1>2. ASSUME NEW n \in Names, Delete(n)
      PROVE  RT!User
  BY <1>2, SameWrites DEF Delete, RT!User
<1>3. ASSUME NEW n \in Names,
             Sync(n) \/ Requeue(n) \/ ReconcileNothing(n) \/ ReconcileFails(n)
      PROVE  RT!Plumbing
  BY <1>3, SameSteps DEF Sync, Requeue, ReconcileNothing, ReconcileFails, RT!Plumbing
<1>4. ASSUME NEW n \in Names,
             ReconcileAddsFinalizer(n) \/ ReconcileUpserts(n) \/ ReconcileDeletes(n)
      PROVE  RT!Starts
  BY <1>4, SameSteps, SameData
     DEF ReconcileAddsFinalizer, ReconcileUpserts, ReconcileDeletes, Finalized, RT!Starts
<1>5. ASSUME NEW o, Finishes(o)
      PROVE  RT!Writes
  BY <1>5, WrittenTyped, SameSteps, SameData DEF Finishes, Ends, RT!Writes
<1>6. ASSUME UNCHANGED <<api, cache, events, timers, job, lastUid>>,
             queue' \in SUBSET Names, Fault \/ UNCHANGED faults
      PROVE  RT!Elsewhere
  BY <1>6, BoundsAssumption DEF Fault, TInv, TypeOK, RuntimeTypeOK, RT!Elsewhere
<1>7. queue \in SUBSET Names
  BY DEF TInv, TypeOK, RuntimeTypeOK
<1>8. CASE CreateTask \/ UpdateTask
  BY <1>6, <1>7, <1>8 DEF CreateTask, UpdateTask, kubernetes
<1>9. CASE Relates
  BY <1>6, <1>7, <1>9, RelatesOnly DEF kubernetes
<1>10. CASE DeleteTask
  <2>1. job.key \in Names
    BY <1>10, WorkersCopy DEF DeleteTask
  <2> QED
    BY <1>6, <1>7, <1>10, <2>1, SameSteps DEF DeleteTask, RT!GivesUp
<1>11. ASSUME NEW d, Recorded(d) \/ Lost(d) \/ Removed(d)
       PROVE  RT!Elsewhere
  <2>1. queue' \in SUBSET Names
    BY <1>7, <1>11 DEF Recorded, Lost, Removed, Announce
  <2> QED
    BY <1>6, <1>11, <2>1 DEF Recorded, Lost, Removed, Moves
<1>12. ASSUME NEW r, NEW i, NEW u,
              InstanceChanges(r) \/ ExternalDelete(i) \/ ExternalEdit(i, u)
       PROVE  RT!Elsewhere
  BY <1>6, <1>7, <1>12 DEF InstanceChanges, ExternalDelete, ExternalEdit, kubernetes
<1>13. CASE Crash
  BY <1>13, SameSteps DEF Crash
<1> QED
  BY <1>1, <1>2, <1>3, <1>4, <1>5, <1>8, <1>9, <1>10, <1>11, <1>12, <1>13, StepFinishes
     DEF Next, Step, Environment, Reconcile, Relates

\* What a step does to the stored objects.
UserActs(n) == Delete(n) \/ \E s \in Wanted : Create(n, s) \/ Edit(n, s)

LEMMA ObjectStep ==
  ASSUME TInv, Next
  PROVE  \/ UNCHANGED <<api, lastUid>>
         \/ \E n \in Names : /\ UserActs(n) /\ RT!OnlyTouches(n) /\ RT!ByUser(n)
                             /\ UNCHANGED <<remote, nextId>>
         \/ /\ RT!OnlyTouches(job.key) /\ RT!Committed(job.key)
            /\ Written(api'[job.key]) /\ UNCHANGED <<remote, nextId>>
<1>1. ASSUME NEW n \in Names, NEW s \in Wanted \cup {NoSpec},
             Create(n, s) \/ Edit(n, s) \/ Delete(n)
      PROVE  RT!OnlyTouches(n) /\ RT!ByUser(n) /\ UNCHANGED <<remote, nextId>>
  BY <1>1, SameWrites, SameData, RT!UserChanges DEF Create, Edit, Delete, TInv, TypeOK, world
<1>2. ASSUME NEW n \in Names, UserActs(n)
      PROVE  RT!OnlyTouches(n) /\ RT!ByUser(n) /\ UNCHANGED <<remote, nextId>>
  BY <1>1, <1>2 DEF UserActs
<1>3. ASSUME NEW o, Finishes(o)
      PROVE  \/ UNCHANGED <<api, lastUid>>
             \/ /\ RT!OnlyTouches(job.key) /\ RT!Committed(job.key)
                /\ Written(api'[job.key]) /\ UNCHANGED <<remote, nextId>>
  <2>1. Written(o) /\ UNCHANGED <<remote, nextId>> /\ \E again : RT!Commit(o, again)
    BY <1>3, SameSteps DEF Finishes, Ends, world
  <2>2. RT!MayWrite(o) /\ job.key \in Names
    BY <2>1, WrittenTyped
  <2>3. \/ UNCHANGED <<api, lastUid>>
        \/ RT!Changes(job.key) /\ RT!Committed(job.key) /\ api'[job.key] = o
    BY <2>1, <2>2, SameData, RT!CommitChanges DEF TInv, TypeOK, RT!RInv
  <2> QED
    BY <2>1, <2>3 DEF RT!Changes
<1>4. ASSUME NEW n \in Names, Sync(n) \/ Requeue(n) \/ Reconcile(n)
      PROVE  UNCHANGED <<api, lastUid>>
  BY <1>4 DEF Sync, Deliver, Requeue, TimerFires, Reconcile, ReconcileNothing, Skip,
     ReconcileAddsFinalizer, ReconcileUpserts, ReconcileDeletes, Begin, ReconcileFails,
     BeginFails
<1>5. CASE CreateTask \/ UpdateTask \/ Relates \/ DeleteTask \/ Crash
  BY <1>5, RelatesOnly DEF CreateTask, UpdateTask, DeleteTask, Return, Crash, Restart, kubernetes
<1>6. ASSUME NEW d, Recorded(d) \/ Lost(d) \/ Removed(d)
      PROVE  UNCHANGED <<api, lastUid>>
  BY <1>6 DEF Recorded, Lost, Removed, Moves
<1>7. ASSUME NEW r, NEW i, NEW u,
             InstanceChanges(r) \/ ExternalDelete(i) \/ ExternalEdit(i, u)
      PROVE  UNCHANGED <<api, lastUid>>
  BY <1>7 DEF InstanceChanges, ExternalDelete, ExternalEdit, kubernetes
<1> QED
  BY <1>2, <1>3, <1>4, <1>5, <1>6, <1>7, StepFinishes
     DEF Next, Step, Environment, UserActs, Relates

-----------------------------------------------------------------------------
(* What requests do to tasks in Vikunja.                                   *)

\* Task i becomes r.
Put(i, r) == remote' = [remote EXCEPT ![i] = r]

LEMMA Rewritten ==
  ASSUME TypeOK, NEW i \in 1..MaxId, NEW r, Put(i, r)
  PROVE  /\ remote'[i] = r
         /\ \A k \in 1..MaxId \ {i} : remote'[k] = remote[k]
         /\ r \in Remote => remote' \in [1..MaxId -> Remote]
BY DEF Put, TypeOK

LEMMA WorkTyped ==
  ASSUME TypeOK
  PROVE  /\ work.id \in 0..MaxId /\ work.plan \in Requests /\ work.reason \in Reasons
         /\ work.project \in Ids(Projects) \cup {<<None, 0>>}
         /\ work.labels \in SUBSET Ids(Labels)
<1>1. work \in Work
  BY DEF TypeOK
<1> HIDE DEF Ids
<1> QED
  BY <1>1 DEF Work, Requests

\* A task of which only labels and assignees change.
SameTask(q, r) ==
  /\ r.live = q.live /\ r.uid = q.uid /\ r.gen = q.gen
  /\ r.project = q.project /\ r.drifted = q.drifted

\* A request that changes task q to r and leaves rest of the plan p to do.
Serves(p, q, r, rest) ==
  /\ SameTask(q, r)
  /\ \/ \E l \in p.add : /\ rest = [p EXCEPT !.add = @ \ {l}]
                         /\ r.labels = q.labels \cup {l} /\ r.people = q.people
     \/ \E l \in p.remove : /\ p.add = {}
                            /\ rest = [p EXCEPT !.remove = @ \ {l}]
                            /\ r.labels = q.labels \ {l} /\ r.people = q.people
     \/ \E u \in p.assign : /\ rest = [p EXCEPT !.assign = @ \ {u}]
                            /\ r.labels = q.labels /\ r.people = q.people \cup {u}
     \/ \E u \in p.unassign : /\ p.assign = {}
                              /\ rest = [p EXCEPT !.unassign = @ \ {u}]
                              /\ r.labels = q.labels /\ r.people = q.people \ {u}

LEMMA RelatesServes ==
  ASSUME TInv, Relates
  PROVE  \/ UNCHANGED remote /\ ToError
         \/ \E r \in Remote, rest \in Requests :
              /\ Put(work.id, r)
              /\ remote[work.id].live
              /\ Serves(work.plan, remote[work.id], r, rest)
              /\ Pursue(work.id, rest) \/ ToError
<1> DEFINE q == remote[work.id]
           p == work.plan
<1>1. work.id \in 1..MaxId /\ p \in Requests
  BY RelatesOnly, WorkTyped DEF TInv, TypeOK
<1>2. q \in Remote
  BY <1>1 DEF TInv, TypeOK
<1>3. ASSUME NEW possible, NEW r, NEW rest, Relate(possible, r, rest)
      PROVE  \/ UNCHANGED remote /\ ToError
             \/ possible /\ Put(work.id, r) /\ (Pursue(work.id, rest) \/ ToError)
  BY <1>3 DEF Relate, Put
<1> HIDE DEF q, p, Ids
<1>4. ASSUME NEW l \in Ids(Labels), AddTaskLabel(l)
      PROVE  \/ UNCHANGED remote /\ ToError
             \/ \E r \in Remote, rest \in Requests :
                  /\ Put(work.id, r) /\ q.live /\ Serves(p, q, r, rest)
                  /\ Pursue(work.id, rest) \/ ToError
  <2> DEFINE r == [q EXCEPT !.labels = @ \cup {l}]
             rest == [p EXCEPT !.add = @ \ {l}]
  <2>1. \/ UNCHANGED remote /\ ToError
        \/ q.live /\ Put(work.id, r) /\ (Pursue(work.id, rest) \/ ToError)
    BY <1>3, <1>4 DEF AddTaskLabel, q, p
  <2>2. l \in p.add
    BY <1>4 DEF AddTaskLabel, p
  <2>3. r \in Remote /\ r.labels = q.labels \cup {l} /\ r.people = q.people /\ SameTask(q, r)
    BY <1>2 DEF Remote, SameTask
  <2>4. rest \in Requests
    BY <1>1 DEF Requests
  <2>5. Serves(p, q, r, rest)
    BY <2>2, <2>3 DEF Serves
  <2> HIDE DEF r, rest
  <2> QED
    BY <2>1, <2>3, <2>4, <2>5
<1>5. ASSUME NEW l \in Ids(Labels), RemoveTaskLabel(l)
      PROVE  \/ UNCHANGED remote /\ ToError
             \/ \E r \in Remote, rest \in Requests :
                  /\ Put(work.id, r) /\ q.live /\ Serves(p, q, r, rest)
                  /\ Pursue(work.id, rest) \/ ToError
  <2> DEFINE r == [q EXCEPT !.labels = @ \ {l}]
             rest == [p EXCEPT !.remove = @ \ {l}]
  <2>1. \/ UNCHANGED remote /\ ToError
        \/ q.live /\ Put(work.id, r) /\ (Pursue(work.id, rest) \/ ToError)
    BY <1>3, <1>5 DEF RemoveTaskLabel, q, p
  <2>2. l \in p.remove /\ p.add = {}
    BY <1>5 DEF RemoveTaskLabel, p
  <2>3. r \in Remote /\ r.labels = q.labels \ {l} /\ r.people = q.people /\ SameTask(q, r)
    BY <1>2 DEF Remote, SameTask
  <2>4. rest \in Requests
    BY <1>1 DEF Requests
  <2>5. Serves(p, q, r, rest)
    BY <2>2, <2>3 DEF Serves
  <2> HIDE DEF r, rest
  <2> QED
    BY <2>1, <2>3, <2>4, <2>5
<1>6. ASSUME NEW u \in Users, AddTaskAssignee(u)
      PROVE  \/ UNCHANGED remote /\ ToError
             \/ \E r \in Remote, rest \in Requests :
                  /\ Put(work.id, r) /\ q.live /\ Serves(p, q, r, rest)
                  /\ Pursue(work.id, rest) \/ ToError
  <2> DEFINE r == [q EXCEPT !.people = @ \cup {u}]
             rest == [p EXCEPT !.assign = @ \ {u}]
  <2>1. \/ UNCHANGED remote /\ ToError
        \/ q.live /\ Put(work.id, r) /\ (Pursue(work.id, rest) \/ ToError)
    BY <1>3, <1>6 DEF AddTaskAssignee, q, p
  <2>2. u \in p.assign
    BY <1>6 DEF AddTaskAssignee, p
  <2>3. r \in Remote /\ r.labels = q.labels /\ r.people = q.people \cup {u} /\ SameTask(q, r)
    BY <1>2 DEF Remote, SameTask
  <2>4. rest \in Requests
    BY <1>1 DEF Requests
  <2>5. Serves(p, q, r, rest)
    BY <2>2, <2>3 DEF Serves
  <2> HIDE DEF r, rest
  <2> QED
    BY <2>1, <2>3, <2>4, <2>5
<1>7. ASSUME NEW u \in Users, RemoveTaskAssignee(u)
      PROVE  \/ UNCHANGED remote /\ ToError
             \/ \E r \in Remote, rest \in Requests :
                  /\ Put(work.id, r) /\ q.live /\ Serves(p, q, r, rest)
                  /\ Pursue(work.id, rest) \/ ToError
  <2> DEFINE r == [q EXCEPT !.people = @ \ {u}]
             rest == [p EXCEPT !.unassign = @ \ {u}]
  <2>1. \/ UNCHANGED remote /\ ToError
        \/ q.live /\ Put(work.id, r) /\ (Pursue(work.id, rest) \/ ToError)
    BY <1>3, <1>7 DEF RemoveTaskAssignee, q, p
  <2>2. u \in p.unassign /\ p.assign = {}
    BY <1>7 DEF RemoveTaskAssignee, p
  <2>3. r \in Remote /\ r.labels = q.labels /\ r.people = q.people \ {u} /\ SameTask(q, r)
    BY <1>2 DEF Remote, SameTask
  <2>4. rest \in Requests
    BY <1>1 DEF Requests
  <2>5. Serves(p, q, r, rest)
    BY <2>2, <2>3 DEF Serves
  <2> HIDE DEF r, rest
  <2> QED
    BY <2>1, <2>3, <2>4, <2>5
<1> QED
  BY <1>4, <1>5, <1>6, <1>7 DEF Relates, q, p

\* Task q was deleted or changed by another client, or deleted by the operator.
Loses(q, r) ==
  /\ r.uid = q.uid
  /\ r.live => q.live
  /\ ~r.live \/ r.drifted

\* Task q got what the handler's object asks for.
Updates(q, r) ==
  /\ r.live = q.live /\ r.uid = q.uid /\ r.drifted = q.drifted
  /\ r.gen = job.obj.gen /\ r.project = work.project
  /\ r.labels = q.labels /\ r.people = q.people

Makes ==
  /\ work.pc = "create"
  /\ nextId \in 1..MaxId
  /\ nextId' = nextId + 1
  /\ \E r \in Remote : Put(nextId, r) /\ r.live /\ r.uid = job.obj.uid
  /\ UNCHANGED <<api, job, lastUid>>

Works(i, r) ==
  /\ i = work.id
  /\ remote[i].live
  /\ \/ work.pc = "update" /\ Updates(remote[i], r)
     \/ work.pc = "relate" /\ \E rest : Serves(work.plan, remote[i], r, rest)

Touches(i) ==
  /\ UNCHANGED nextId
  /\ \E r \in Remote : Put(i, r) /\ (Loses(remote[i], r) \/ Works(i, r))

LEMMA GonePut ==
  ASSUME TypeOK, NEW i \in 1..MaxId, Gone(i)
  PROVE  \E r \in Remote : Put(i, r) /\ Loses(remote[i], r)
<1> DEFINE r == [NoTask EXCEPT !.uid = remote[i].uid]
<1>1. remote[i].uid \in 0..MaxUid
  BY DEF TypeOK, Remote
<1>2. 0 \in 0..MaxGen
  BY BoundsAssumption
<1>3. NoTask.labels \in SUBSET Ids(Labels) /\ NoTask.people \in SUBSET Users
      /\ NoTask.project \in Ids(Projects) \cup {<<None, 0>>}
  BY DEF NoTask
<1>4. r \in Remote
  <2> HIDE DEF Ids
  <2> QED
    BY <1>1, <1>2, <1>3 DEF NoTask, Remote
<1>5. Put(i, r)
  BY DEF Put, Gone
<1>6. Loses(remote[i], r)
  BY DEF Loses, NoTask
<1> QED
  BY <1>4, <1>5, <1>6

LEMMA EditPut ==
  ASSUME TypeOK, NEW i \in 1..MaxId, NEW u \in Accounts, ExternalEdit(i, u)
  PROVE  \E r \in Remote : Put(i, r) /\ Loses(remote[i], r)
<1> DEFINE q == remote[i]
           others == q.people \ {u}
           people == IF others = q.people THEN q.people \cup {u} ELSE others
           r == [q EXCEPT !.gen = 0, !.labels = {}, !.drifted = TRUE, !.people = people]
<1>1. q \in Remote
  BY DEF TypeOK
<1>2. people \in SUBSET Users /\ {} \in SUBSET Ids(Labels) /\ 0 \in 0..MaxGen
  BY <1>1, DepsAssumption, BoundsAssumption DEF Remote
<1> HIDE DEF people
<1>3. r \in Remote /\ r.uid = q.uid /\ r.live = q.live /\ r.drifted
  <2> HIDE DEF q, Ids
  <2> QED
    BY <1>1, <1>2 DEF Remote
<1>4. Put(i, r)
  BY <1>1 DEF Put, ExternalEdit, TypeOK, people
<1> HIDE DEF r
<1> QED
  BY <1>3, <1>4 DEF Loses

LEMMA UpdatePut ==
  ASSUME TInv, work.pc = "update",
         remote' = [remote EXCEPT ![work.id].gen = job.obj.gen, ![work.id].project = work.project]
  PROVE  \E r \in Remote : Put(work.id, r) /\ Updates(remote[work.id], r)
<1> DEFINE i == work.id
           q == remote[i]
           r == [q EXCEPT !.gen = job.obj.gen, !.project = work.project]
<1>1. i \in 1..MaxId /\ work.project \in Ids(Projects) \cup {<<None, 0>>}
  BY WorkTyped DEF TInv, Handler, HandlerSends
<1>2. q \in Remote
  BY <1>1 DEF TInv, TypeOK
<1>3. job.obj.gen \in 0..MaxGen
  BY WorkersCopy
<1>4. Put(i, r)
  BY <1>1, <1>2 DEF Put, TInv, TypeOK
<1> HIDE DEF i, q
<1>5. r \in Remote /\ Updates(q, r)
  <2> HIDE DEF Ids
  <2> QED
    BY <1>1, <1>2, <1>3 DEF Remote, Updates
<1> HIDE DEF r
<1> QED
  BY <1>4, <1>5 DEF i, q

LEMMA CreatePut ==
  ASSUME TInv, work.pc = "create", nextId <= MaxId,
         remote' = [remote EXCEPT ![nextId] =
                      [NoTask EXCEPT !.live = TRUE, !.uid = job.obj.uid, !.gen = job.obj.gen,
                                     !.project = work.project]]
  PROVE  \E r \in Remote :
           /\ Put(nextId, r)
           /\ r = [NoTask EXCEPT !.live = TRUE, !.uid = job.obj.uid, !.gen = job.obj.gen,
                                 !.project = work.project]
           /\ r.live /\ r.uid = job.obj.uid /\ r.gen = job.obj.gen /\ r.project = work.project
           /\ r.labels = {} /\ r.people = {} /\ ~r.drifted
<1> DEFINE r == [NoTask EXCEPT !.live = TRUE, !.uid = job.obj.uid, !.gen = job.obj.gen,
                               !.project = work.project]
<1>1. /\ work.project \in Ids(Projects) \cup {<<None, 0>>}
      /\ job.obj.gen \in 0..MaxGen /\ job.obj.uid \in 0..MaxUid
  BY WorkersCopy, WorkTyped DEF TInv
<1>2. NoTask.labels \in SUBSET Ids(Labels) /\ NoTask.people \in SUBSET Users
  BY DEF NoTask
<1>3. r \in Remote
  <2> HIDE DEF Ids
  <2> QED
    BY <1>1, <1>2 DEF NoTask, Remote
<1>4. Put(nextId, r)
  BY DEF Put
<1>5. /\ r.live /\ r.uid = job.obj.uid /\ r.gen = job.obj.gen /\ r.project = work.project
      /\ r.labels = {} /\ r.people = {} /\ ~r.drifted
  BY DEF NoTask
<1> QED
  BY <1>3, <1>4, <1>5

LEMMA RemoteStep ==
  ASSUME TInv, Next
  PROVE  \/ UNCHANGED <<remote, nextId>>
         \/ CreateTask /\ Makes
         \/ \E i \in 1..MaxId : Touches(i)
<1>0. TypeOK
  BY DEF TInv
<1>1. CASE CreateTask
  <2>1. CASE UNCHANGED <<remote, nextId>>
    BY <2>1
  <2>2. CASE ~(UNCHANGED <<remote, nextId>>)
    <3>1. /\ work.pc = "create" /\ nextId <= MaxId /\ nextId' = nextId + 1
          /\ remote' = [remote EXCEPT ![nextId] =
                          [NoTask EXCEPT !.live = TRUE, !.uid = job.obj.uid,
                                         !.gen = job.obj.gen, !.project = work.project]]
          /\ UNCHANGED <<api, job, lastUid>>
      BY <1>1, <2>2 DEF CreateTask, kubernetes
    <3>2. nextId \in 1..MaxId
      BY <1>0, <3>1, BoundsAssumption DEF TypeOK
    <3> QED
      BY <1>1, <3>1, <3>2, CreatePut DEF Makes
  <2> QED
    BY <2>1, <2>2
<1>2. CASE UpdateTask
  <2>1. work.pc = "update" /\ UNCHANGED nextId
    BY <1>2 DEF UpdateTask
  <2>2. work.id = job.obj.status.id /\ work.id \in 1..MaxId
    BY <1>0, <2>1, WorkTyped DEF TInv, Handler, HandlerSends
  <2>3. CASE UNCHANGED remote
    BY <2>1, <2>3
  <2>4. CASE ~(UNCHANGED remote)
    <3>1. /\ remote[work.id].live
          /\ remote' = [remote EXCEPT ![work.id].gen = job.obj.gen,
                                      ![work.id].project = work.project]
      BY <1>2, <2>2, <2>4 DEF UpdateTask
    <3> QED
      BY <2>1, <2>2, <3>1, UpdatePut DEF Touches, Works
  <2> QED
    BY <2>3, <2>4
<1>3. CASE Relates
  <2>1. work.pc = "relate" /\ UNCHANGED nextId /\ work.id \in 1..MaxId
    BY <1>0, <1>3, RelatesOnly, WorkTyped DEF TypeOK
  <2> QED
    BY <1>3, <2>1, RelatesServes DEF Touches, Works
<1>4. CASE DeleteTask
  <2>1. work.pc = "delete" /\ UNCHANGED nextId
    BY <1>4 DEF DeleteTask
  <2>2. job.obj.status.id \in 1..MaxId
    BY <1>0, <2>1, WorkTyped DEF TInv, Handler, HandlerSends, HandlerEnds
  <2> QED
    BY <1>0, <1>4, <2>1, <2>2, GonePut DEF DeleteTask, Touches
<1>5. ASSUME NEW i \in 1..MaxId, NEW u \in Accounts, ExternalDelete(i) \/ ExternalEdit(i, u)
      PROVE  Touches(i)
  BY <1>0, <1>5, GonePut, EditPut DEF ExternalDelete, ExternalEdit, Touches
<1>6. ASSUME NEW i \in 1..MaxId, ExternalDelete(i)
      PROVE  Touches(i)
  BY <1>0, <1>6, GonePut DEF ExternalDelete, Touches
<1>7. CASE Crash \/ \E o : Finishes(o)
  BY <1>7 DEF Crash, Finishes, Ends, world
<1>8. ASSUME NEW n, NEW s, \/ Create(n, s) \/ Edit(n, s) \/ Delete(n)
                           \/ Sync(n) \/ Requeue(n) \/ Reconcile(n)
      PROVE  UNCHANGED <<remote, nextId>>
  BY <1>8 DEF Create, Edit, Delete, Sync, Requeue, Reconcile, ReconcileNothing,
     ReconcileFails, ReconcileAddsFinalizer, ReconcileUpserts, ReconcileDeletes, world
<1>9. ASSUME NEW d, NEW r, Recorded(d) \/ Lost(d) \/ Removed(d) \/ InstanceChanges(r)
      PROVE  UNCHANGED <<remote, nextId>>
  BY <1>9 DEF Recorded, Lost, Removed, Moves, InstanceChanges
<1> QED
  BY <1>1, <1>2, <1>3, <1>4, <1>5, <1>6, <1>7, <1>8, <1>9, StepFinishes
     DEF Next, Step, Environment, Relates

\* What becomes of a task that was created.
LEMMA TaskStep ==
  ASSUME TInv, Next, NEW i \in 1..(nextId - 1)
  PROVE  /\ \/ remote'[i] = remote[i]
            \/ Loses(remote[i], remote'[i])
            \/ Works(i, remote'[i])
         /\ remote'[i].uid = remote[i].uid
         /\ remote'[i].live => remote[i].live
<1>1. TypeOK /\ i \in 1..MaxId
  BY BoundsAssumption DEF TInv, TypeOK
<1>2. CASE UNCHANGED remote
  BY <1>2
<1>3. CASE Makes
  <2>1. i # nextId
    BY <1>1 DEF TypeOK
  <2>2. remote'[i] = remote[i]
    BY <1>1, <1>3, <2>1, Rewritten DEF Makes
  <2> QED
    BY <2>2
<1>4. ASSUME NEW k \in 1..MaxId, Touches(k)
      PROVE  \/ remote'[i] = remote[i]
             \/ Loses(remote[i], remote'[i])
             \/ Works(i, remote'[i])
  BY <1>1, <1>4, Rewritten DEF Touches
<1> QED
  BY <1>2, <1>3, <1>4, RemoteStep DEF Loses, Works, Updates, Serves, SameTask

LEMMA NextIdGrows ==
  ASSUME TInv, Next
  PROVE  nextId' \in 1..(MaxId + 1) /\ nextId <= nextId' /\ nextId \in Nat
BY RemoteStep, BoundsAssumption DEF TInv, TypeOK, Makes, Touches

LEMMA BackedStays ==
  ASSUME TInv, Next, NEW i, NEW u, Backs(i, u)
  PROVE  Backs(i, u)'
BY TaskStep, NextIdGrows DEF Backs

LEMMA OwnsStays ==
  ASSUME TInv, Next, NEW c, Owns(c)
  PROVE  Owns(c)'
BY BackedStays DEF Owns

LEMMA SpentStays ==
  ASSUME TInv, Next, NEW c, Owns(c), Spent(c)
  PROVE  Spent(c)'
BY TaskStep DEF Owns, Backs, Spent

-----------------------------------------------------------------------------
(* Types.                                                                  *)

LEMMA Errs ==
  ASSUME TypeOK, ToError
  PROVE  /\ work' \in Work /\ work'.pc = "setNotReady" /\ work'.id = work.id
         /\ work'.reason = "ReconcileError"
<1>1. NoWork \in Work /\ work.id \in 0..MaxId /\ "ReconcileError" \in Reasons
  BY NoWorkTyped, WorkTyped DEF Reasons
<1> HIDE DEF NoWork, Ids
<1> QED
  BY <1>1 DEF ToError, Work

LEMMA Pursues ==
  ASSUME TypeOK, NEW i \in 0..MaxId, NEW plan \in Requests, Pursue(i, plan)
  PROVE  /\ work' \in Work /\ work'.id = i /\ work'.plan = plan
         /\ \/ work'.pc = "relate" /\ plan # NoPlan
            \/ work'.pc = "setReady" /\ plan = NoPlan
<1>1. NoWork \in Work /\ plan \in Requests
  BY NoWorkTyped
<1> HIDE DEF NoWork, NoPlan, Ids
<1> QED
  BY <1>1 DEF Pursue, Work, Requests

LEMMA PlanTyped ==
  ASSUME TInv, NEW r \in Remote, work.pc \in {"create", "update"}
  PROVE  PlanFor(r) \in Requests
<1>1. /\ r.labels \in SUBSET Ids(Labels) /\ r.people \in SUBSET Users
      /\ work.labels \in SUBSET Ids(Labels) /\ job.obj.spec.people \in SUBSET Users
  BY WorkersCopy, WorkTyped, DepsAssumption DEF Remote, TInv
<1> HIDE DEF Ids
<1> QED
  BY <1>1 DEF PlanFor, Requests

LEMMA StartedTyped ==
  ASSUME TInv, NEW n \in Names, NEW pc \in {"create", "update", "setNotReady", "delete", "release"}
  PROVE  /\ Started(n, pc) \in Work
         /\ Started(n, pc).pc = pc /\ Started(n, pc).id = cache[n].status.id
<1>1. NoWork \in Work /\ cache[n].status.id \in 0..MaxId
  BY NoWorkTyped, CachedCopy
<1> HIDE DEF NoWork, Ids
<1> QED
  BY <1>1 DEF Started, Work

\* A resource that is ready records an id of its own.
LEMMA IdTyped ==
  ASSUME TypeOK, NEW d \in Deps, ~Unready(d)
  PROVE  IdOf(d)[1] = d /\ IdOf(d)[2] \in 1..MaxDep /\ IdOf(d) = <<d, IdOf(d)[2]>>
<1>1. dep[d] \in [state : {"absent", "ready", "lost"}, last : 0..MaxDep]
  BY DEF TypeOK
<1>2. dep[d].last \in 0..MaxDep
  BY <1>1
<1> QED
  BY <1>2, BoundsAssumption DEF IdOf, Unready

\* What ReconcileUpserts starts with.
LEMMA UpsertStarts ==
  ASSUME TInv, NEW n \in Names, ReconcileUpserts(n)
  PROVE  /\ work' \in Work /\ work'.id = cache[n].status.id
         /\ \/ /\ work'.pc = "setNotReady"
               /\ work'.reason # "ReconcileSuccess"
            \/ /\ work'.pc = IF cache[n].status.id = 0 THEN "create" ELSE "update"
               /\ work'.project[1] = cache[n].spec.project
               /\ Owners(work'.labels) = cache[n].spec.labels
<1> DEFINE s == cache[n].spec
           pc == IF cache[n].status.id = 0 THEN "create" ELSE "update"
           project == IdOf(s.project)
           labels == {IdOf(l) : l \in s.labels}
<1>1. s \in Wanted
  BY CachedCopy DEF ReconcileUpserts, Finalized, Placed
<1>2. s.project \in Projects /\ s.labels \in SUBSET Labels
  BY <1>1, DepsAssumption
<1>3. TypeOK
  BY DEF TInv
<1>4. ASSUME ~Unready(s.project)
      PROVE  project \in Ids(Projects) /\ project[1] = s.project
  BY <1>2, <1>3, <1>4, IdTyped DEF Ids, Deps
<1>5. ASSUME ~ \E l \in s.labels : Unready(l)
      PROVE  labels \in SUBSET Ids(Labels) /\ Owners(labels) = s.labels
  <2>1. \A l \in s.labels : IdOf(l) \in Ids(Labels) /\ IdOf(l)[1] = l
    BY <1>2, <1>3, <1>5, IdTyped DEF Ids, Deps
  <2> QED
    BY <2>1 DEF Owners
<1>6. inst \in Outcomes /\ Outcomes \subseteq Reasons /\ "ReconcileSuccess" \notin Outcomes
      /\ "DependencyNotReady" \in Reasons
  BY <1>3 DEF TypeOK, Outcomes, Reasons
<1>7. /\ Started(n, "setNotReady") \in Work
      /\ Started(n, "setNotReady").pc = "setNotReady"
      /\ Started(n, "setNotReady").id = cache[n].status.id
      /\ Started(n, pc) \in Work /\ Started(n, pc).pc = pc
      /\ Started(n, pc).id = cache[n].status.id
  BY StartedTyped
<1> DEFINE NotReady(r) == [Started(n, "setNotReady") EXCEPT !.reason = r]
           Upsert == [Started(n, pc) EXCEPT !.project = project, !.labels = labels]
<1>8. ASSUME NEW r \in Reasons
      PROVE  /\ NotReady(r) \in Work /\ NotReady(r).pc = "setNotReady"
             /\ NotReady(r).id = cache[n].status.id /\ NotReady(r).reason = r
  BY <1>7 DEF Work
<1>9. ASSUME project \in Ids(Projects), labels \in SUBSET Ids(Labels)
      PROVE  /\ Upsert \in Work /\ Upsert.pc = pc /\ Upsert.id = cache[n].status.id
             /\ Upsert.project = project /\ Upsert.labels = labels
  <2> HIDE DEF project, labels, pc, Ids
  <2> QED
    BY <1>7, <1>9 DEF Work
<1>10. \/ \E r \in Reasons : r # "ReconcileSuccess" /\ work' = NotReady(r)
       \/ /\ ~Unready(s.project) /\ ~ \E l \in s.labels : Unready(l)
          /\ work' = Upsert
  BY <1>6 DEF ReconcileUpserts
<1> HIDE DEF NotReady, Upsert, project, labels
<1> QED
  BY <1>4, <1>5, <1>8, <1>9, <1>10

LEMMA DeleteStarts ==
  ASSUME TInv, NEW n \in Names, ReconcileDeletes(n)
  PROVE  /\ work' \in Work /\ work'.id = cache[n].status.id
         /\ \/ work'.pc = "release" /\ (work'.skip \/ cache[n].status.id = 0)
            \/ work'.pc = "delete" /\ cache[n].status.id # 0
<1> DEFINE o == cache[n]
           usable == ~Unready(o.spec.project) /\ inst = "none"
           pc == IF o.status.id # 0 /\ usable THEN "delete" ELSE "release"
           skip == o.status.id # 0 /\ ~usable
<1>1. work' = [Started(n, pc) EXCEPT !.skip = skip]
  BY DEF ReconcileDeletes
<1>2. /\ Started(n, pc) \in Work /\ Started(n, pc).pc = pc
      /\ Started(n, pc).id = cache[n].status.id
  BY StartedTyped
<1>3. skip \in BOOLEAN
  OBVIOUS
<1>4. pc = "release" => skip \/ cache[n].status.id = 0
  OBVIOUS
<1>5. (pc = "delete" /\ cache[n].status.id # 0) \/ pc = "release"
  OBVIOUS
<1> HIDE DEF skip, pc
<1>6. /\ work' \in Work /\ work'.id = cache[n].status.id /\ work'.pc = pc
      /\ work'.skip = skip
  BY <1>1, <1>2, <1>3 DEF Work
<1> QED
  BY <1>4, <1>5, <1>6

\* What the worker's requests for the task itself lead to.
LEMMA CreateGoesOn ==
  ASSUME TInv, CreateTask
  PROVE  /\ work.pc = "create" /\ UNCHANGED kubernetes
         /\ \/ ToError
            \/ /\ nextId \in 1..MaxId /\ nextId' = nextId + 1
               /\ \E r \in Remote :
                    /\ Put(nextId, r)
                    /\ r.uid = job.obj.uid /\ r.gen = job.obj.gen
                    /\ r.project = work.project /\ r.labels = {} /\ r.people = {}
                    /\ PlanFor(r) \in Requests
                    /\ Pursue(nextId, PlanFor(r))
<1>1. work.pc = "create" /\ UNCHANGED kubernetes
  BY DEF CreateTask
<1> DEFINE r0 == [NoTask EXCEPT !.live = TRUE, !.uid = job.obj.uid, !.gen = job.obj.gen,
                                !.project = work.project]
<1>2. CASE ~ToError
  <2>1. /\ nextId <= MaxId /\ nextId' = nextId + 1
        /\ remote' = [remote EXCEPT ![nextId] = r0]
        /\ Pursue(nextId, PlanFor(r0))
    BY <1>2 DEF CreateTask
  <2>2. nextId \in 1..MaxId
    BY <2>1, BoundsAssumption DEF TInv, TypeOK
  <2>3. PICK r \in Remote :
           /\ Put(nextId, r) /\ r = r0
           /\ r.uid = job.obj.uid /\ r.gen = job.obj.gen /\ r.project = work.project
           /\ r.labels = {} /\ r.people = {}
    BY <1>1, <2>1, CreatePut
  <2>4. PlanFor(r) \in Requests
    BY <1>1, PlanTyped
  <2> HIDE DEF r0
  <2> QED
    BY <1>1, <2>1, <2>2, <2>3, <2>4
<1> QED
  BY <1>1, <1>2

LEMMA UpdateGoesOn ==
  ASSUME TInv, UpdateTask
  PROVE  /\ work.pc = "update" /\ UNCHANGED <<kubernetes, nextId>>
         /\ work.id \in 1..MaxId /\ work.id = job.obj.status.id
         /\ \/ ToError
            \/ /\ ~remote[work.id].live /\ UNCHANGED remote
               /\ work' = [work EXCEPT !.pc = "create"]
            \/ \E r \in Remote :
                 /\ Put(work.id, r) /\ Updates(remote[work.id], r)
                 /\ PlanFor(remote[work.id]) \in Requests
                 /\ Pursue(work.id, PlanFor(remote[work.id]))
<1>1. work.pc = "update" /\ UNCHANGED <<kubernetes, nextId>>
  BY DEF UpdateTask
<1>2. work.id \in 1..MaxId /\ work.id = job.obj.status.id
  BY <1>1, WorkTyped DEF TInv, Handler, HandlerSends
<1>3. PlanFor(remote[work.id]) \in Requests
  BY <1>1, <1>2, PlanTyped DEF TInv, TypeOK
<1>4. CASE ToError
  BY <1>1, <1>2, <1>4
<1>5. CASE ~remote[work.id].live /\ UNCHANGED remote /\ work' = [work EXCEPT !.pc = "create"]
  BY <1>1, <1>2, <1>5
<1>6. CASE /\ remote' = [remote EXCEPT ![work.id].gen = job.obj.gen,
                                       ![work.id].project = work.project]
           /\ Pursue(work.id, PlanFor(remote[work.id]))
  BY <1>1, <1>2, <1>3, <1>6, UpdatePut
<1> QED
  BY <1>2, <1>4, <1>5, <1>6 DEF UpdateTask

\* What a step of the worker makes of its locals.
LEMMA WorkStep ==
  ASSUME TInv, Next
  PROVE  /\ work' \in Work
         /\ work'.pc # "idle" => job'.key # None
         /\ work'.pc = "relate" => work'.plan # NoPlan
         /\ work'.pc \in {"relate", "setReady"} => work'.id # 0
<1> DEFINE Sound == /\ work' \in Work
                    /\ work'.pc # "idle" => job'.key # None
                    /\ work'.pc = "relate" => work'.plan # NoPlan
                    /\ work'.pc \in {"relate", "setReady"} => work'.id # 0
<1>0. TypeOK
  BY DEF TInv
<1>1. ASSUME work' = work, job'.key = job.key
      PROVE  Sound
  BY <1>0, <1>1 DEF TypeOK
<1>2. ASSUME work' = NoWork
      PROVE  Sound
  BY <1>2, NoWorkTyped DEF NoWork
<1>3. ASSUME NEW n \in Names, NEW s, Create(n, s) \/ Edit(n, s) \/ Delete(n)
      PROVE  Sound
  <2>1. work' = work /\ \E o : UserWrites(n, o)
    BY <1>3 DEF Create, Edit, Delete, UserCreates, UserEdits, UserDeletes
  <2>2. job'.key = job.key
    BY <1>0, <2>1 DEF UserWrites, TypeOK, RuntimeTypeOK, Job
  <2> QED
    BY <1>1, <2>1, <2>2
<1>4. ASSUME NEW n \in Names,
             Sync(n) \/ Requeue(n) \/ ReconcileNothing(n) \/ ReconcileFails(n)
      PROVE  Sound
  BY <1>1, <1>4 DEF Sync, Deliver, Requeue, TimerFires, ReconcileNothing, Skip,
     ReconcileFails, BeginFails
<1>5. ASSUME NEW n \in Names,
             ReconcileAddsFinalizer(n) \/ ReconcileUpserts(n) \/ ReconcileDeletes(n)
      PROVE  Sound
  <2>1. job'.key # None
    BY <1>5, NoneAssumption
       DEF ReconcileAddsFinalizer, ReconcileUpserts, ReconcileDeletes, Begin
  <2>2. CASE ReconcileAddsFinalizer(n)
    <3>1. work' = [NoWork EXCEPT !.pc = "addFinalizer"]
      BY <2>2 DEF ReconcileAddsFinalizer
    <3>2. work' \in Work /\ work'.pc = "addFinalizer"
      <4> HIDE DEF NoWork, Ids
      <4> QED
        BY <3>1, NoWorkTyped DEF Work
    <3> QED
      BY <2>1, <3>2
  <2> QED
    BY <1>5, <2>1, <2>2, UpsertStarts, DeleteStarts
<1>6. CASE CreateTask \/ UpdateTask \/ Relates
  <2>1. UNCHANGED kubernetes /\ work.pc \in {"create", "update", "relate"}
    BY <1>6, CreateGoesOn, UpdateGoesOn, RelatesOnly
  <2>2. job'.key # None
    BY <1>0, <2>1 DEF kubernetes, TypeOK
  <2>3. CASE ToError
    BY <1>0, <2>2, <2>3, Errs
  <2>4. CASE \E i \in 1..MaxId, plan \in Requests : Pursue(i, plan)
    BY <1>0, <2>2, <2>4, Pursues
  <2>5. CASE work' = [work EXCEPT !.pc = "create"]
    <3>1. work' \in Work /\ work'.pc = "create"
      <4> HIDE DEF Ids
      <4> QED
        BY <1>0, <2>5 DEF TypeOK, Work
    <3> QED
      BY <2>2, <3>1
  <2>6. work.pc = "relate" => work.id \in 1..MaxId
    BY <1>0, WorkTyped DEF TypeOK
  <2> QED
    BY <1>6, <2>1, <2>3, <2>4, <2>5, <2>6, CreateGoesOn, UpdateGoesOn, RelatesServes,
       RelatesOnly
<1>7. CASE DeleteTask
  <2>1. CASE work' = [work EXCEPT !.pc = "release"] /\ job' = job
    <3>1. work' \in Work /\ work'.pc = "release"
      <4> HIDE DEF Ids
      <4> QED
        BY <1>0, <2>1 DEF TypeOK, Work
    <3>2. job'.key # None
      BY <1>0, <1>7, <2>1 DEF DeleteTask, TypeOK
    <3> QED
      BY <3>1, <3>2
  <2> QED
    BY <1>2, <1>7, <2>1 DEF DeleteTask
<1>8. CASE Crash \/ \E o : Finishes(o)
  BY <1>2, <1>8 DEF Crash, Finishes, Ends
<1>9. ASSUME NEW d, NEW r, NEW i, NEW u,
             \/ Recorded(d) \/ Lost(d) \/ Removed(d) \/ InstanceChanges(r)
             \/ ExternalDelete(i) \/ ExternalEdit(i, u)
      PROVE  Sound
  BY <1>1, <1>9 DEF Recorded, Lost, Removed, Moves, InstanceChanges, ExternalDelete,
     ExternalEdit, kubernetes
<1> QED
  BY <1>3, <1>4, <1>5, <1>6, <1>7, <1>8, <1>9, StepFinishes
     DEF Next, Step, Environment, Reconcile, Relates

\* The other resources and the instance.
LEMMA WorldStep ==
  ASSUME TInv, Next
  PROVE  /\ remote' \in [1..MaxId -> Remote]
         /\ nextId' \in 1..(MaxId + 1)
         /\ inst' \in Outcomes
         /\ dep' \in [Deps -> [state : {"absent", "ready", "lost"}, last : 0..MaxDep]]
<1>0. TypeOK
  BY DEF TInv
<1>1. remote' \in [1..MaxId -> Remote]
  <2>1. CASE Makes
    BY <1>0, <2>1, Rewritten DEF Makes
  <2>2. CASE \E i \in 1..MaxId : Touches(i)
    BY <1>0, <2>2, Rewritten DEF Touches
  <2> QED
    BY <1>0, <2>1, <2>2, RemoteStep DEF TypeOK
<1>2. nextId' \in 1..(MaxId + 1)
  BY NextIdGrows
<1>3. \/ UNCHANGED <<inst, dep>>
      \/ \E r \in Outcomes : InstanceChanges(r)
      \/ \E d \in Deps : Recorded(d) \/ Lost(d) \/ Removed(d)
  <2>1. ASSUME NEW n, NEW s, \/ Create(n, s) \/ Edit(n, s) \/ Delete(n)
                             \/ Sync(n) \/ Requeue(n) \/ Reconcile(n)
        PROVE  UNCHANGED <<inst, dep>>
    BY <2>1 DEF Create, Edit, Delete, Sync, Requeue, Reconcile, ReconcileNothing,
       ReconcileFails, ReconcileAddsFinalizer, ReconcileUpserts, ReconcileDeletes, world
  <2>2. CASE CreateTask \/ UpdateTask \/ DeleteTask \/ Relates
    BY <2>2, RelatesOnly DEF CreateTask, UpdateTask, DeleteTask
  <2>3. CASE Crash \/ \E o : Finishes(o)
    BY <2>3 DEF Crash, Finishes, Ends, world
  <2>4. ASSUME NEW i, NEW u, ExternalDelete(i) \/ ExternalEdit(i, u)
        PROVE  UNCHANGED <<inst, dep>>
    BY <2>4 DEF ExternalDelete, ExternalEdit
  <2> QED
    BY <2>1, <2>2, <2>3, <2>4, StepFinishes DEF Next, Step, Environment, Relates
<1>4. inst' \in Outcomes
  BY <1>0, <1>3 DEF TypeOK, InstanceChanges, Recorded, Lost, Removed, Moves
<1>5. ASSUME NEW d \in Deps, NEW state \in {"absent", "ready", "lost"},
             NEW last \in 0..MaxDep, Moves(d, state, last)
      PROVE  dep' \in [Deps -> [state : {"absent", "ready", "lost"}, last : 0..MaxDep]]
  BY <1>0, <1>5 DEF Moves, TypeOK
<1>6. ASSUME NEW d \in Deps, Recorded(d) \/ Lost(d) \/ Removed(d)
      PROVE  dep' \in [Deps -> [state : {"absent", "ready", "lost"}, last : 0..MaxDep]]
  <2>1. dep[d].last \in 0..MaxDep
    BY <1>0 DEF TypeOK
  <2>2. dep[d].last < MaxDep => dep[d].last + 1 \in 0..MaxDep
    BY <2>1, BoundsAssumption
  <2> QED
    BY <1>5, <1>6, <2>1, <2>2 DEF Recorded, Lost, Removed
<1>7. dep' \in [Deps -> [state : {"absent", "ready", "lost"}, last : 0..MaxDep]]
  BY <1>0, <1>3, <1>6 DEF TypeOK, InstanceChanges
<1> QED
  BY <1>1, <1>2, <1>4, <1>7

LEMMA TypeStep == ASSUME TInv, Next PROVE TypeOK'
<1>1. RuntimeTypeOK'
  <2>1. RT!RInv'
    BY SaneConstants, StepMoves, RT!RInvStep DEF TInv
  <2> QED
    BY <2>1, SameTypes DEF RT!RInv
<1> QED
  BY <1>1, WorkStep, WorldStep DEF TypeOK

-----------------------------------------------------------------------------
(* The plan of a reconcile leads to what the spec asks for.                *)

LEMMA PlanLeads ==
  ASSUME NEW q, NEW r, r.labels = q.labels, r.people = q.people,
         Owners(work.labels) = job.obj.spec.labels,
         NEW plan, plan = PlanFor(q)
  PROVE  /\ Leads(r, plan, job.obj.spec)
         /\ plan.add \cap plan.remove = {} /\ plan.assign \cap plan.unassign = {}
<1>1. /\ plan.add = work.labels \ q.labels /\ plan.remove = q.labels \ work.labels
      /\ plan.assign = job.obj.spec.people \ q.people
      /\ plan.unassign = q.people \ job.obj.spec.people
  BY DEF PlanFor
<1>2. (r.labels \cup plan.add) \ plan.remove = work.labels
  BY <1>1
<1>3. (r.people \cup plan.assign) \ plan.unassign = job.obj.spec.people
  BY <1>1
<1> QED
  BY <1>1, <1>2, <1>3 DEF Leads

LEMMA ServesLeads ==
  ASSUME NEW p \in Requests, NEW q \in Remote, NEW r, NEW rest, Serves(p, q, r, rest),
         p.add \cap p.remove = {}, p.assign \cap p.unassign = {},
         NEW spec
  PROVE  /\ Leads(q, p, spec) => Leads(r, rest, spec)
         /\ rest.add \cap rest.remove = {} /\ rest.assign \cap rest.unassign = {}
<1> DEFINE L(x, z) == (x.labels \cup z.add) \ z.remove
           P(x, z) == (x.people \cup z.assign) \ z.unassign
<1>1. ASSUME NEW l \in p.add, rest = [p EXCEPT !.add = @ \ {l}],
             r.labels = q.labels \cup {l}, r.people = q.people
      PROVE  /\ L(r, rest) = L(q, p) /\ P(r, rest) = P(q, p)
             /\ rest.add \cap rest.remove = {} /\ rest.assign \cap rest.unassign = {}
  <2>1. /\ rest.add = p.add \ {l} /\ rest.remove = p.remove
        /\ rest.assign = p.assign /\ rest.unassign = p.unassign
    BY <1>1 DEF Requests
  <2> QED
    BY <1>1, <2>1
<1>2. ASSUME NEW l \in p.remove, p.add = {}, rest = [p EXCEPT !.remove = @ \ {l}],
             r.labels = q.labels \ {l}, r.people = q.people
      PROVE  /\ L(r, rest) = L(q, p) /\ P(r, rest) = P(q, p)
             /\ rest.add \cap rest.remove = {} /\ rest.assign \cap rest.unassign = {}
  <2>1. /\ rest.add = p.add /\ rest.remove = p.remove \ {l}
        /\ rest.assign = p.assign /\ rest.unassign = p.unassign
    BY <1>2 DEF Requests
  <2> QED
    BY <1>2, <2>1
<1>3. ASSUME NEW u \in p.assign, rest = [p EXCEPT !.assign = @ \ {u}],
             r.labels = q.labels, r.people = q.people \cup {u}
      PROVE  /\ L(r, rest) = L(q, p) /\ P(r, rest) = P(q, p)
             /\ rest.add \cap rest.remove = {} /\ rest.assign \cap rest.unassign = {}
  <2>1. /\ rest.add = p.add /\ rest.remove = p.remove
        /\ rest.assign = p.assign \ {u} /\ rest.unassign = p.unassign
    BY <1>3 DEF Requests
  <2> QED
    BY <1>3, <2>1
<1>4. ASSUME NEW u \in p.unassign, p.assign = {}, rest = [p EXCEPT !.unassign = @ \ {u}],
             r.labels = q.labels, r.people = q.people \ {u}
      PROVE  /\ L(r, rest) = L(q, p) /\ P(r, rest) = P(q, p)
             /\ rest.add \cap rest.remove = {} /\ rest.assign \cap rest.unassign = {}
  <2>1. /\ rest.add = p.add /\ rest.remove = p.remove
        /\ rest.assign = p.assign /\ rest.unassign = p.unassign \ {u}
    BY <1>4 DEF Requests
  <2> QED
    BY <1>4, <2>1
<1>5. /\ L(r, rest) = L(q, p) /\ P(r, rest) = P(q, p)
      /\ rest.add \cap rest.remove = {} /\ rest.assign \cap rest.unassign = {}
  <2> HIDE DEF L, P
  <2> QED
    BY <1>1, <1>2, <1>3, <1>4 DEF Serves
<1> QED
  BY <1>5 DEF Leads

-----------------------------------------------------------------------------
(* The handler.                                                            *)

LEMMA HandlerIdle ==
  ASSUME work'.pc = "idle" \/ (work'.pc = "addFinalizer" /\ work'.id = 0)
  PROVE  Handler'
BY DEF Handler, HandlerSends, HandlerEnds

\* Nothing happens to the handler.
LEMMA HandlerQuiet ==
  ASSUME TInv, Next, work' = work, job'.key = job.key, job'.obj = job.obj,
         \A i \in 1..(nextId - 1) : remote'[i] = remote[i] \/ Loses(remote[i], remote'[i])
  PROVE  Handler'
<1>1. CASE work.pc = "idle"
  BY <1>1, HandlerIdle
<1>2. CASE work.pc # "idle"
  <2>1. Owns(job.obj)
    BY <1>2, WorkersCopy
  <2>2. Spent(job.obj) => Spent(job.obj)'
    <3>1. PICK c : c = job.obj
      OBVIOUS
    <3>2. Spent(c) => Spent(c)'
      BY <2>1, <3>1, SpentStays
    <3> QED
      BY <3>1, <3>2 DEF Spent
  <2>3. work.id # 0 => Backs(work.id, job.obj.uid)'
    <3>1. PICK i, u : i = work.id /\ u = job.obj.uid
      OBVIOUS
    <3>2. i # 0 => Backs(i, u)'
      BY <1>2, <3>1, BackedStays DEF TInv, Handler
    <3> QED
      BY <3>1, <3>2 DEF Backs
  <2>4. work.pc \in {"relate", "setReady"} => Planned'
    <3> SUFFICES ASSUME work.pc \in {"relate", "setReady"} PROVE Planned'
      OBVIOUS
    <3>1. work.id \in 1..(nextId - 1)
      BY DEF TInv, TypeOK, Handler, Backs
    <3>2. remote'[work.id] = remote[work.id] \/ Loses(remote[work.id], remote'[work.id])
      BY <3>1
    <3> QED
      BY <3>2 DEF Loses, Planned, TInv, Handler, HandlerSends
  <2>5. HandlerSends'
    BY <2>2, <2>4 DEF HandlerSends, TInv, Handler
  <2>6. HandlerEnds'
    BY <2>2 DEF HandlerEnds, TInv, Handler
  <2> QED
    BY <2>3, <2>5, <2>6 DEF Handler, TInv, RT!Live
<1> QED
  BY <1>1, <1>2

LEMMA HandlerUpserts ==
  ASSUME TInv, NEW n \in Names, ReconcileUpserts(n)
  PROVE  Handler'
<1>1. job'.obj = cache[n] /\ UNCHANGED <<remote, nextId>>
  BY DEF ReconcileUpserts, Begin, world
<1>2. RT!Live(cache[n]) /\ Owns(cache[n])
  BY SameData, CachedCopy DEF ReconcileUpserts, Finalized, RT!Live
<1>3. /\ work'.id = cache[n].status.id
      /\ \/ /\ work'.pc = "setNotReady"
            /\ work'.reason # "ReconcileSuccess"
         \/ /\ work'.pc = IF cache[n].status.id = 0 THEN "create" ELSE "update"
            /\ work'.project[1] = cache[n].spec.project
            /\ Owners(work'.labels) = cache[n].spec.labels
  BY UpsertStarts
<1>4. HandlerSends'
  BY <1>1, <1>3 DEF HandlerSends, Spent
<1>5. HandlerEnds'
  BY <1>1, <1>3 DEF HandlerEnds
<1> QED
  BY <1>1, <1>2, <1>3, <1>4, <1>5 DEF Handler, Owns, Backs, RT!Live

LEMMA HandlerDeletes ==
  ASSUME TInv, NEW n \in Names, ReconcileDeletes(n)
  PROVE  Handler'
<1>1. job'.obj = cache[n] /\ cache[n].deleting /\ UNCHANGED <<remote, nextId>>
  BY DEF ReconcileDeletes, Begin, world
<1>2. Owns(cache[n])
  BY CachedCopy
<1>3. /\ work'.id = cache[n].status.id
      /\ \/ work'.pc = "release" /\ (work'.skip \/ cache[n].status.id = 0)
         \/ work'.pc = "delete" /\ cache[n].status.id # 0
  BY DeleteStarts
<1> QED
  BY <1>1, <1>2, <1>3 DEF Handler, HandlerSends, HandlerEnds, Spent, Owns, Backs

\* A request failed, as far as the worker knows.
LEMMA HandlerErrs ==
  ASSUME TInv, Next, ToError, UNCHANGED job,
         work.pc \in {"create", "update", "relate"}
  PROVE  Handler'
<1>1. /\ work'.pc = "setNotReady" /\ work'.id = work.id
      /\ work'.reason = "ReconcileError"
  BY Errs DEF TInv
<1>2. Owns(job.obj) /\ RT!Live(job.obj)
  BY WorkersCopy DEF TInv, Handler
<1>3. PICK c, i, u : c = job.obj /\ i = work.id /\ u = job.obj.uid
  OBVIOUS
<1>4. Spent(c) => Spent(c)'
  BY <1>2, <1>3, SpentStays
<1>5. i # 0 => Backs(i, u)'
  BY <1>3, BackedStays DEF TInv, Handler
<1>6. i = c.status.id \/ (i # 0 /\ Spent(c))
  BY <1>3 DEF TInv, Handler, HandlerSends, HandlerEnds
<1>7. HandlerSends'
  BY <1>1 DEF HandlerSends
<1>8. HandlerEnds'
  BY <1>1, <1>3, <1>4, <1>6 DEF HandlerEnds, Spent
<1> QED
  BY <1>1, <1>2, <1>3, <1>5, <1>7, <1>8 DEF Handler, Backs, RT!Live

\* The worker goes on with the task r that it found, made or changed.
LEMMA HandlerPursues ==
  ASSUME TInv, Next, UNCHANGED job, RT!Live(job.obj),
         NEW i \in 1..MaxId, NEW r, remote'[i] = r, i < nextId', r.uid = job.obj.uid,
         NEW plan \in Requests, Pursue(i, plan),
         r.live /\ ~r.drifted => /\ r.gen = job.obj.gen
                                 /\ r.project[1] = job.obj.spec.project
                                 /\ Leads(r, plan, job.obj.spec),
         plan.add \cap plan.remove = {}, plan.assign \cap plan.unassign = {},
         i = job.obj.status.id \/ Spent(job.obj), Owns(job.obj)
  PROVE  Handler'
<1>1. /\ work'.id = i /\ work'.plan = plan
      /\ \/ work'.pc = "relate"
         \/ work'.pc = "setReady" /\ plan = NoPlan
  BY Pursues DEF TInv
<1>2. nextId' \in Nat
  BY NextIdGrows
<1>3. Backs(work.id, job.obj.uid)'
  BY <1>1, <1>2 DEF Backs
<1>4. Planned'
  BY <1>1 DEF Planned
<1>5. Spent(job.obj) => Spent(job.obj)'
  <2>1. PICK c : c = job.obj
    OBVIOUS
  <2>2. Spent(c) => Spent(c)'
    BY <2>1, SpentStays
  <2> QED
    BY <2>1, <2>2 DEF Spent
<1>6. HandlerSends'
  BY <1>1, <1>4 DEF HandlerSends
<1>7. HandlerEnds'
  BY <1>1, <1>5 DEF HandlerEnds
<1> QED
  BY <1>1, <1>3, <1>6, <1>7 DEF Handler, RT!Live

LEMMA HandlerCreates == ASSUME TInv, Next, CreateTask PROVE Handler'
<1>1. work.pc = "create" /\ UNCHANGED job /\ work.pc # "idle"
  BY CreateGoesOn DEF kubernetes
<1>2. CASE ToError
  BY <1>1, <1>2, HandlerErrs
<1>3. CASE ~ToError
  <2>1. /\ nextId \in 1..MaxId /\ nextId' = nextId + 1
        /\ \E r \in Remote :
             /\ Put(nextId, r)
             /\ r.uid = job.obj.uid /\ r.gen = job.obj.gen
             /\ r.project = work.project /\ r.labels = {} /\ r.people = {}
             /\ PlanFor(r) \in Requests
             /\ Pursue(nextId, PlanFor(r))
    BY <1>3, CreateGoesOn
  <2>2. PICK r \in Remote :
          /\ Put(nextId, r)
          /\ r.uid = job.obj.uid /\ r.gen = job.obj.gen
          /\ r.project = work.project /\ r.labels = {} /\ r.people = {}
          /\ PlanFor(r) \in Requests
          /\ Pursue(nextId, PlanFor(r))
    BY <2>1
  <2>3. PICK plan, i : plan = PlanFor(r) /\ i = nextId
    OBVIOUS
  <2>4. /\ work.project[1] = job.obj.spec.project
        /\ Owners(work.labels) = job.obj.spec.labels
        /\ Spent(job.obj) /\ RT!Live(job.obj) /\ Owns(job.obj)
    BY <1>1, WorkersCopy DEF TInv, Handler, HandlerSends
  <2>5. /\ Leads(r, plan, job.obj.spec)
        /\ plan.add \cap plan.remove = {} /\ plan.assign \cap plan.unassign = {}
    BY <2>3, <2>4, PlanLeads
  <2>6. remote'[i] = r /\ i \in 1..MaxId /\ i < nextId'
    BY <2>1, <2>2, <2>3, Rewritten DEF TInv
  <2> QED
    BY <1>1, <2>2, <2>3, <2>4, <2>5, <2>6, HandlerPursues
<1> QED
  BY <1>2, <1>3

LEMMA HandlerUpdates == ASSUME TInv, Next, UpdateTask PROVE Handler'
<1>1. /\ work.pc = "update" /\ UNCHANGED <<job, nextId>>
      /\ work.id \in 1..MaxId /\ work.id = job.obj.status.id
  BY UpdateGoesOn DEF kubernetes
<1>2. /\ work.project[1] = job.obj.spec.project
      /\ Owners(work.labels) = job.obj.spec.labels
      /\ RT!Live(job.obj) /\ Owns(job.obj) /\ Backs(work.id, job.obj.uid)
  BY <1>1, WorkersCopy DEF TInv, Handler, HandlerSends
<1>3. CASE ToError
  BY <1>1, <1>3, HandlerErrs
<1>4. CASE ~remote[work.id].live /\ UNCHANGED remote /\ work' = [work EXCEPT !.pc = "create"]
  <2>1. /\ work'.pc = "create" /\ work'.id = work.id
        /\ work'.project = work.project /\ work'.labels = work.labels
    <3> HIDE DEF Ids
    <3> QED
      BY <1>4 DEF TInv, TypeOK, Work
  <2>2. Spent(job.obj)'
    BY <1>1, <1>4 DEF Spent
  <2>3. HandlerSends'
    BY <1>1, <1>2, <2>1, <2>2 DEF HandlerSends
  <2>4. HandlerEnds'
    BY <2>1 DEF HandlerEnds
  <2> QED
    BY <1>1, <1>2, <1>4, <2>1, <2>3, <2>4 DEF Handler, Backs, RT!Live
<1>5. CASE \E r \in Remote :
             /\ Put(work.id, r) /\ Updates(remote[work.id], r)
             /\ PlanFor(remote[work.id]) \in Requests
             /\ Pursue(work.id, PlanFor(remote[work.id]))
  <2>1. PICK r \in Remote :
          /\ Put(work.id, r) /\ Updates(remote[work.id], r)
          /\ PlanFor(remote[work.id]) \in Requests
          /\ Pursue(work.id, PlanFor(remote[work.id]))
    BY <1>5
  <2>2. PICK q, plan, i : q = remote[work.id] /\ plan = PlanFor(q) /\ i = work.id
    OBVIOUS
  <2>3. /\ Leads(r, plan, job.obj.spec)
        /\ plan.add \cap plan.remove = {} /\ plan.assign \cap plan.unassign = {}
    BY <1>2, <2>1, <2>2, PlanLeads DEF Updates
  <2>4. remote'[i] = r /\ i < nextId' /\ i \in 1..MaxId
    BY <1>1, <1>2, <2>1, <2>2, Rewritten DEF TInv, TypeOK, Backs
  <2>5. /\ r.uid = job.obj.uid /\ r.gen = job.obj.gen
        /\ r.project[1] = job.obj.spec.project
    BY <1>2, <2>1 DEF Updates, Backs
  <2> QED
    BY <1>1, <1>2, <2>1, <2>2, <2>3, <2>4, <2>5, HandlerPursues
<1> QED
  BY <1>3, <1>4, <1>5, UpdateGoesOn

LEMMA HandlerRelates == ASSUME TInv, Next, Relates PROVE Handler'
<1>1. work.pc = "relate" /\ UNCHANGED <<job, nextId>>
  BY RelatesOnly DEF kubernetes
<1>2. CASE ToError
  BY <1>1, <1>2, HandlerErrs
<1>3. CASE ~ToError
  <2>1. PICK r \in Remote, rest \in Requests :
          /\ Put(work.id, r) /\ remote[work.id].live
          /\ Serves(work.plan, remote[work.id], r, rest)
          /\ Pursue(work.id, rest)
    BY <1>3, RelatesServes
  <2>2. PICK p, q, i : p = work.plan /\ q = remote[work.id] /\ i = work.id
    OBVIOUS
  <2>3. /\ Planned /\ p.add \cap p.remove = {} /\ p.assign \cap p.unassign = {}
        /\ Backs(i, job.obj.uid) /\ RT!Live(job.obj)
        /\ i = job.obj.status.id \/ Spent(job.obj)
    BY <1>1, <2>2 DEF TInv, TypeOK, Handler, HandlerSends, HandlerEnds
  <2>4. Owns(job.obj)
    BY <1>1, WorkersCopy
  <2>5. p \in Requests /\ i \in 1..MaxId /\ q \in Remote
    BY <1>1, <2>2, WorkTyped DEF TInv, TypeOK
  <2>6. /\ Leads(q, p, job.obj.spec) => Leads(r, rest, job.obj.spec)
        /\ rest.add \cap rest.remove = {} /\ rest.assign \cap rest.unassign = {}
    BY <2>1, <2>2, <2>3, <2>5, ServesLeads
  <2>7. remote'[i] = r /\ i < nextId'
    BY <1>1, <2>1, <2>2, <2>3, <2>5, Rewritten DEF TInv, TypeOK, Backs
  <2>8. SameTask(q, r)
    BY <2>1, <2>2 DEF Serves
  <2>9. r.uid = job.obj.uid
    BY <2>2, <2>3, <2>8 DEF SameTask, Backs
  <2>10. r.live /\ ~r.drifted => /\ r.gen = job.obj.gen
                                 /\ r.project[1] = job.obj.spec.project
                                 /\ Leads(r, rest, job.obj.spec)
    BY <2>2, <2>3, <2>6, <2>8 DEF SameTask, Planned
  <2> QED
    BY <1>1, <2>1, <2>2, <2>3, <2>4, <2>5, <2>6, <2>7, <2>9, <2>10, HandlerPursues
<1> QED
  BY <1>2, <1>3

LEMMA HandlerLetsGo == ASSUME TInv, Next, DeleteTask PROVE Handler'
<1>1. work.pc = "delete"
  BY DEF DeleteTask
<1>2. CASE work' = NoWork
  BY <1>2, HandlerIdle DEF NoWork
<1>3. CASE work' # NoWork
  <2>1. /\ work' = [work EXCEPT !.pc = "release"] /\ UNCHANGED <<job, nextId>>
        /\ Gone(job.obj.status.id)
    BY <1>3 DEF DeleteTask
  <2>2. work'.pc = "release" /\ work'.id = work.id
    <3> HIDE DEF Ids
    <3> QED
      BY <2>1 DEF TInv, TypeOK, Work
  <2>3. /\ work.id = job.obj.status.id /\ job.obj.deleting
        /\ Backs(work.id, job.obj.uid) /\ job.obj.status.id \in 1..MaxId
    BY <1>1, WorkTyped DEF TInv, Handler, HandlerSends, HandlerEnds
  <2>4. ~remote'[job.obj.status.id].live
    BY <2>1, <2>3 DEF Gone, NoTask, TInv, TypeOK
  <2>5. PICK i, u : i = work.id /\ u = job.obj.uid
    OBVIOUS
  <2>6. Backs(i, u)'
    BY <2>3, <2>5, BackedStays
  <2>7. HandlerSends'
    BY <2>2 DEF HandlerSends
  <2>8. HandlerEnds'
    BY <2>1, <2>2, <2>3, <2>4 DEF HandlerEnds, Spent
  <2> QED
    BY <2>1, <2>2, <2>5, <2>6, <2>7, <2>8 DEF Handler, Backs
<1> QED
  BY <1>2, <1>3

LEMMA HandlerStep == ASSUME TInv, Next PROVE Handler'
<1>1. ASSUME UNCHANGED <<work, remote>>, job'.key = job.key, job'.obj = job.obj
      PROVE  Handler'
  BY <1>1, HandlerQuiet
<1>2. ASSUME NEW n \in Names, NEW s, Create(n, s) \/ Edit(n, s) \/ Delete(n)
      PROVE  Handler'
  BY <1>1, <1>2 DEF Create, Edit, Delete, UserCreates, UserEdits, UserDeletes, UserWrites,
     TInv, TypeOK, RuntimeTypeOK, Job, world
<1>3. ASSUME NEW n \in Names,
             Sync(n) \/ Requeue(n) \/ ReconcileNothing(n) \/ ReconcileFails(n)
      PROVE  Handler'
  BY <1>1, <1>3 DEF Sync, Requeue, ReconcileNothing, ReconcileFails, Deliver,
     TimerFires, Skip, BeginFails, world
<1>4. ASSUME NEW n \in Names, ReconcileAddsFinalizer(n)
      PROVE  Handler'
  BY <1>4, HandlerIdle DEF ReconcileAddsFinalizer, NoWork
<1>5. CASE Crash \/ \E o : Finishes(o)
  BY <1>5, HandlerIdle DEF Crash, Finishes, Ends, NoWork
<1>6. ASSUME NEW d, NEW r, Recorded(d) \/ Lost(d) \/ Removed(d) \/ InstanceChanges(r)
      PROVE  Handler'
  BY <1>1, <1>6 DEF Recorded, Lost, Removed, Moves, InstanceChanges, kubernetes
<1>7. ASSUME NEW i \in 1..MaxId, NEW u \in Accounts, ExternalDelete(i) \/ ExternalEdit(i, u)
      PROVE  Handler'
  <2>1. PICK r : Put(i, r) /\ Loses(remote[i], r)
    BY <1>7, GonePut, EditPut DEF ExternalDelete, TInv
  <2>2. \A k \in 1..(nextId - 1) : remote'[k] = remote[k] \/ Loses(remote[k], remote'[k])
    BY <2>1, Rewritten, BoundsAssumption DEF TInv, TypeOK
  <2>3. UNCHANGED <<work, job>>
    BY <1>7 DEF ExternalDelete, ExternalEdit, kubernetes
  <2> QED
    BY <2>2, <2>3, HandlerQuiet
<1>8. ASSUME NEW i \in 1..MaxId, ExternalDelete(i)
      PROVE  Handler'
  <2>1. PICK r : Put(i, r) /\ Loses(remote[i], r)
    BY <1>8, GonePut DEF ExternalDelete, TInv
  <2>2. \A k \in 1..(nextId - 1) : remote'[k] = remote[k] \/ Loses(remote[k], remote'[k])
    BY <2>1, Rewritten, BoundsAssumption DEF TInv, TypeOK
  <2>3. UNCHANGED <<work, job>>
    BY <1>8 DEF ExternalDelete, kubernetes
  <2> QED
    BY <2>2, <2>3, HandlerQuiet
<1> QED
  BY <1>2, <1>3, <1>4, <1>5, <1>6, <1>7, <1>8, HandlerUpserts, HandlerDeletes,
     HandlerCreates, HandlerUpdates, HandlerRelates, HandlerLetsGo, StepFinishes
     DEF Next, Step, Environment, Reconcile, Relates
-----------------------------------------------------------------------------
(* What versions show.                                                     *)

LEMMA UserOwns ==
  ASSUME TInv, NEW n \in Names, UserActs(n), UNCHANGED <<remote, nextId>>
  PROVE  Placed(api'[n]) /\ Owns(api'[n])
<1>1. /\ api[n] \in Object /\ Placed(api[n]) /\ Owns(api[n])
      /\ api \in [Names -> Object]
  BY StoredCopy DEF TInv, TypeOK, RuntimeTypeOK
<1>2. ASSUME NEW s \in Wanted, Create(n, s)
      PROVE  Placed(api'[n]) /\ Owns(api'[n])
  <2>1. api'[n].spec = s /\ api'[n].status.id = 0
    BY <1>1, <1>2 DEF Create, UserCreates, UserWrites, Store, Absent, NoStatus
  <2> QED
    BY <2>1 DEF Placed, Owns
<1>3. ASSUME NEW s \in Wanted, Edit(n, s)
      PROVE  Placed(api'[n]) /\ Owns(api'[n])
  <2>1. /\ api'[n].spec = s /\ api'[n].status = api[n].status /\ api'[n].uid = api[n].uid
        /\ api'[n].finalizer = api[n].finalizer
    BY <1>1, <1>3 DEF Edit, UserEdits, UserWrites, Store, Object
  <2> QED
    BY <1>1, <2>1 DEF Placed, Owns
<1>4. CASE Delete(n)
  <2>1. \/ /\ api'[n].spec = api[n].spec /\ api'[n].status = api[n].status
           /\ api'[n].uid = api[n].uid /\ api'[n].finalizer = api[n].finalizer
           /\ Exists(api[n])
        \/ api'[n] = Absent
    BY <1>1, <1>4 DEF Delete, UserDeletes, UserWrites, Store, Object
  <2> QED
    BY <1>1, <2>1 DEF Placed, Owns, Absent, NoStatus, Exists
<1> QED
  BY <1>2, <1>3, <1>4 DEF UserActs

LEMMA WrittenOwns ==
  ASSUME TInv, NEW o, Written(o)
  PROVE  Placed(o) /\ Owns(o)
<1>1. Owns(job.obj) /\ job.obj.spec \in Wanted /\ work.pc # "idle"
  BY WorkersCopy DEF Written
<1>2. CASE o = Absent
  BY <1>2 DEF Placed, Owns, Absent, NoStatus, Exists
<1>3. CASE /\ o.uid = job.obj.uid /\ o.spec = job.obj.spec
           /\ o.status = job.obj.status /\ o.finalizer
  BY <1>1, <1>3 DEF Placed, Owns
<1>4. ASSUME NEW reason, work.pc \in {"setReady", "setNotReady"}, o.uid = job.obj.uid,
             o.spec = job.obj.spec, job.obj.finalizer => o.finalizer,
             o.status = Reported(reason)
      PROVE  Placed(o) /\ Owns(o)
  <2>1. /\ RT!Live(job.obj) /\ o.status.id = work.id
        /\ work.id # 0 => Backs(work.id, job.obj.uid)
    BY <1>1, <1>4 DEF TInv, Handler, Reported
  <2> QED
    BY <1>1, <1>4, <2>1 DEF Placed, Owns, RT!Live
<1> QED
  BY <1>2, <1>3, <1>4, WrittenFields

LEMMA CopiesStep == ASSUME TInv, Next PROVE CopiesOwn'
<1> SUFFICES ASSUME NEW n \in Names, NEW c \in Object, RT!Copy(n, c)'
             PROVE  Placed(c) /\ Owns(c)'
  BY DEF CopiesOwn, Placed, Exists
<1>1. RT!Copy(n, c) \/ c = api'[n]
  BY SaneConstants, SameData, StepMoves, RT!CopyStep DEF TInv, TypeOK
<1>2. ASSUME Placed(c) /\ Owns(c)
      PROVE  Placed(c) /\ Owns(c)'
  BY <1>2, OwnsStays
<1>3. CASE c = api'[n]
  <2>1. CASE api'[n] = api[n]
    BY <1>2, <1>3, <2>1, StoredCopy
  <2>2. CASE UserActs(n) /\ UNCHANGED <<remote, nextId>>
    BY <1>2, <1>3, <2>2, UserOwns
  <2>3. CASE Written(api'[n])
    BY <1>2, <1>3, <2>3, WrittenOwns
  <2> QED
    BY <2>1, <2>2, <2>3, ObjectStep DEF RT!OnlyTouches
<1> QED
  BY <1>1, <1>2, <1>3 DEF TInv, CopiesOwn

LEMMA FreshStep == ASSUME TInv, Next PROVE Fresh'
<1>1. lastUid' \in Nat /\ lastUid <= lastUid' /\ lastUid \in Nat
  <2>1. lastUid' \in {lastUid, lastUid + 1}
    BY ObjectStep
       DEF RT!ByUser, RT!Appears, RT!Edited, RT!Marked, RT!Dropped, RT!Committed
  <2>2. lastUid \in Nat
    BY BoundsAssumption DEF TInv, TypeOK, RuntimeTypeOK
  <2> QED
    BY <2>1, <2>2
<1>2. \A i \in 1..MaxId : remote[i].uid \in Nat /\ remote[i].uid <= lastUid
  BY BoundsAssumption DEF TInv, TypeOK, Remote, Fresh
<1>3. nextId' \in Nat /\ nextId <= nextId' /\ nextId \in Nat \ {0}
  BY NextIdGrows DEF TInv, TypeOK
<1>4. CASE UNCHANGED <<remote, nextId>>
  BY <1>1, <1>2, <1>4 DEF TInv, Fresh
<1>5. CASE Makes
  <2>1. PICK r : Put(nextId, r) /\ r.uid = job.obj.uid
    BY <1>5 DEF Makes
  <2>2. /\ remote'[nextId] = r
        /\ \A k \in 1..MaxId \ {nextId} : remote'[k] = remote[k]
    BY <1>5, <2>1, Rewritten DEF Makes, TInv
  <2>3. job.obj.uid \in Nat /\ job.obj.uid <= lastUid
    <3>1. /\ job.key \in Names /\ job.obj \in Object /\ RT!Copy(job.key, job.obj)
          /\ job.obj.uid \in 1..MaxUid
      BY <1>5, WorkersCopy DEF Makes
    <3> QED
      BY <3>1, BoundsAssumption, SameData DEF TInv, RT!RInv, RT!Versions, RT!Version
  <2>4. \A i \in nextId'..MaxId : i \in 1..MaxId \ {nextId} /\ i \in nextId..MaxId
    BY <1>3, <1>5, BoundsAssumption DEF Makes
  <2> QED
    BY <1>1, <1>2, <2>1, <2>2, <2>3, <2>4 DEF TInv, Fresh
<1>6. ASSUME NEW k \in 1..MaxId, Touches(k)
      PROVE  Fresh'
  <2>1. PICK r : Put(k, r) /\ (Loses(remote[k], r) \/ Works(k, r)) /\ UNCHANGED nextId
    BY <1>6 DEF Touches
  <2>2. r.uid = remote[k].uid
    BY <2>1 DEF Loses, Works, Updates, Serves, SameTask
  <2>3. \A i \in 1..MaxId : remote'[i].uid = remote[i].uid
    BY <2>1, <2>2, Rewritten DEF TInv
  <2>4. \A i \in nextId..MaxId : i \in 1..MaxId
    BY <1>3
  <2> QED
    BY <1>1, <1>2, <2>1, <2>3, <2>4 DEF TInv, Fresh
<1> QED
  BY <1>4, <1>5, <1>6, RemoteStep

-----------------------------------------------------------------------------
(* Ready means applied.                                                    *)

LEMMA NotAheadStep == ASSUME TInv, Next PROVE NotAhead'
<1> SUFFICES ASSUME NEW n \in Names PROVE api'[n].status.observed <= api'[n].gen
  BY DEF NotAhead
<1>1. api[n].gen \in Nat /\ api[n].status.observed \in Nat
      /\ api[n].status.observed <= api[n].gen
  BY StoredCopy DEF TInv, NotAhead
<1>2. CASE RT!ByUser(n)
  BY <1>1, <1>2, SameData, RT!UserFields DEF TInv, TypeOK, Absent, NoStatus
<1>3. CASE Written(api'[n]) /\ RT!Committed(n)
  BY <1>1, <1>3, WrittenFields DEF RT!Committed, Reported, Absent, NoStatus
<1> QED
  BY <1>1, <1>2, <1>3, ObjectStep DEF RT!OnlyTouches

\* What becomes Ready, or stays so, in a step.
LEMMA ReadyStep ==
  ASSUME TInv, Next, NEW n \in Names, Ready(api'[n])
  PROVE  \/ /\ Ready(api[n]) /\ api'[n].uid = api[n].uid /\ api'[n].gen = api[n].gen
            /\ api'[n].spec = api[n].spec /\ api'[n].status = api[n].status
         \/ /\ n = job.key /\ RT!Committed(n) /\ UNCHANGED remote
            /\ api'[n].uid = job.obj.uid /\ api'[n].gen = job.obj.gen
            /\ api'[n].spec = job.obj.spec
            /\ work.pc = "setReady" /\ api'[n].status = Reported("ReconcileSuccess")
<1>1. /\ api[n].gen \in Nat /\ api[n].status.observed \in Nat
      /\ api[n].status.observed <= api[n].gen
  BY StoredCopy DEF TInv, NotAhead
<1>2. CASE api'[n] = api[n]
  BY <1>2
<1>3. CASE RT!ByUser(n)
  BY <1>1, <1>3, SameData, RT!UserFields DEF TInv, TypeOK, Ready, Absent, NoStatus
<1>4. CASE n = job.key /\ RT!Committed(n) /\ Written(api'[n]) /\ UNCHANGED remote
  BY <1>4, WrittenFields
     DEF RT!Committed, Ready, Reported, Absent, NoStatus, TInv, Handler, HandlerEnds
<1> QED
  BY <1>2, <1>3, <1>4, ObjectStep DEF RT!OnlyTouches

LEMMA ReadyIsNewestStep == ASSUME TInv, Next PROVE ReadyIsNewest'
<1> SUFFICES ASSUME NEW n \in Names, NEW c \in Object, Ready(api'[n]), RT!Copy(n, c)',
                    c.uid = api'[n].uid
             PROVE  c.gen = api'[n].gen
  BY DEF ReadyIsNewest, Ready
<1>1. RT!Copy(n, c) \/ c = api'[n]
  BY SaneConstants, SameData, StepMoves, RT!CopyStep DEF TInv, TypeOK
<1>2. CASE RT!Committed(n) /\ api'[n].gen = job.obj.gen
  BY <1>1, <1>2 DEF RT!Committed
<1> QED
  BY <1>1, <1>2, ReadyStep DEF TInv, ReadyIsNewest

\* A request that serves a plan for what a task has already leaves it so.
LEMMA ServesKeeps ==
  ASSUME NEW p, NEW q, NEW r, NEW rest, Serves(p, q, r, rest),
         p.add \cap p.remove = {}, p.assign \cap p.unassign = {},
         NEW spec, Leads(q, p, spec), Owners(q.labels) = spec.labels, q.people = spec.people
  PROVE  Owners(r.labels) = spec.labels /\ r.people = spec.people
<1>1. /\ Owners((q.labels \cup p.add) \ p.remove) = spec.labels
      /\ (q.people \cup p.assign) \ p.unassign = spec.people
  BY DEF Leads
<1>2. ASSUME NEW l \in p.add, r.labels = q.labels \cup {l}
      PROVE  Owners(r.labels) = spec.labels
  <2>1. l \in (q.labels \cup p.add) \ p.remove
    BY <1>2
  <2>2. l[1] \in spec.labels
    BY <1>1, <2>1 DEF Owners
  <2> QED
    BY <1>2, <2>2 DEF Owners
<1>3. ASSUME NEW l \in p.remove, p.add = {}, r.labels = q.labels \ {l}
      PROVE  Owners(r.labels) = spec.labels
  <2>1. Owners(q.labels \ p.remove) = spec.labels
    BY <1>1, <1>3
  <2>2. q.labels \ p.remove \subseteq r.labels /\ r.labels \subseteq q.labels
    BY <1>3
  <2> QED
    BY <2>1, <2>2 DEF Owners
<1>4. ASSUME NEW u \in p.assign, r.people = q.people \cup {u}
      PROVE  r.people = spec.people
  BY <1>1, <1>4
<1>5. ASSUME NEW u \in p.unassign, p.assign = {}, r.people = q.people \ {u}
      PROVE  r.people = spec.people
  BY <1>1, <1>5
<1> QED
  BY <1>2, <1>3, <1>4, <1>5 DEF Serves

\* What a Task that reports Ready has in Vikunja.
Applied(o, r) ==
  r.live /\ ~r.drifted => /\ r.gen = o.gen
                          /\ r.project[1] = o.spec.project
                          /\ Owners(r.labels) = o.spec.labels
                          /\ r.people = o.spec.people

\* No step takes what was applied from a Task that stays Ready.
LEMMA AppliedStays ==
  ASSUME TInv, Next, NEW n \in Names, Ready(api[n])
  PROVE  Applied(api[n], remote'[api[n].status.id])
<1> DEFINE i == api[n].status.id
           q == remote[i]
           r == remote'[i]
<1>1. i # 0 /\ Applied(api[n], q)
  BY DEF TInv, ReadyMeansApplied, Applied, Owners
<1>2. api[n] \in Object /\ RT!Copy(n, api[n]) /\ Owns(api[n])
  BY StoredCopy
<1>3. i \in 1..(nextId - 1) /\ q.uid = api[n].uid
  BY <1>1, <1>2 DEF Owns, Backs
<1>4. CASE Works(i, r)
  <2>1. /\ i = work.id /\ work.pc \in {"update", "relate"} /\ work.pc # "idle"
    BY <1>4 DEF Works
  <2>2. /\ job.key \in Names /\ job.obj \in Object /\ RT!Copy(job.key, job.obj)
        /\ Exists(job.obj)
    BY <2>1, WorkersCopy
  <2>3. job.obj.uid = api[n].uid
    BY <1>1, <1>3, <2>1 DEF TInv, Handler, Backs
  <2>4. job.key = n
    BY <1>2, <2>2, <2>3, SameData DEF TInv, RT!RInv, RT!OneName
  <2>5. job.obj.gen = api[n].gen
    BY <2>2, <2>3, <2>4 DEF TInv, ReadyIsNewest
  <2>6. job.obj.spec = api[n].spec
    BY <2>2, <2>3, <2>4, <2>5, SameData DEF TInv, RT!RInv, RT!Versions, RT!Version
  <2>7. CASE work.pc = "update"
    <3>1. Updates(q, r) /\ work.project[1] = api[n].spec.project
      BY <1>4, <2>6, <2>7 DEF Works, TInv, Handler, HandlerSends
    <3> QED
      BY <1>1, <2>5, <3>1 DEF Updates, Applied
  <2>8. CASE work.pc = "relate"
    <3>1. PICK rest : Serves(work.plan, q, r, rest)
      BY <1>4, <2>8 DEF Works
    <3>2. /\ q.live /\ ~q.drifted => Leads(q, work.plan, api[n].spec)
          /\ work.plan.add \cap work.plan.remove = {}
          /\ work.plan.assign \cap work.plan.unassign = {}
      BY <2>1, <2>6, <2>8 DEF TInv, Handler, HandlerSends, Planned
    <3>3. SameTask(q, r)
      BY <3>1 DEF Serves
    <3>4. PICK p, spec : p = work.plan /\ spec = api[n].spec
      OBVIOUS
    <3>5. CASE q.live /\ ~q.drifted
      <4>1. /\ q.gen = api[n].gen /\ q.project[1] = spec.project
            /\ Owners(q.labels) = spec.labels /\ q.people = spec.people
        BY <1>1, <3>4, <3>5 DEF Applied
      <4>2. Owners(r.labels) = spec.labels /\ r.people = spec.people
        BY <3>1, <3>2, <3>4, <3>5, <4>1, ServesKeeps
      <4> QED
        BY <3>3, <3>4, <4>1, <4>2 DEF SameTask, Applied
    <3> QED
      BY <3>3, <3>5 DEF SameTask, Applied
  <2> QED
    BY <2>1, <2>7, <2>8
<1>5. CASE r = q \/ Loses(q, r)
  BY <1>1, <1>5 DEF Loses, Applied
<1> QED
  BY <1>3, <1>4, <1>5, TaskStep

\* A plan with nothing left to do leads to what the task has.
LEMMA PlanDone ==
  ASSUME NEW r, NEW spec, Leads(r, NoPlan, spec)
  PROVE  Owners(r.labels) = spec.labels /\ r.people = spec.people
<1>1. /\ (r.labels \cup NoPlan.add) \ NoPlan.remove = r.labels
      /\ (r.people \cup NoPlan.assign) \ NoPlan.unassign = r.people
  BY DEF NoPlan
<1> QED
  BY <1>1 DEF Leads

LEMMA AppliedStep == ASSUME TInv, Next PROVE ReadyMeansApplied'
<1> SUFFICES ASSUME NEW n \in Names, Ready(api'[n])
             PROVE  api'[n].status.id # 0 /\ Applied(api'[n], remote'[api'[n].status.id])
  BY DEF ReadyMeansApplied, Ready, Applied, Owners
<1>1. CASE /\ Ready(api[n]) /\ api'[n].uid = api[n].uid /\ api'[n].gen = api[n].gen
           /\ api'[n].spec = api[n].spec /\ api'[n].status = api[n].status
  <2>1. api[n].status.id # 0
    BY <1>1 DEF TInv, ReadyMeansApplied
  <2> QED
    BY <1>1, <2>1, AppliedStays DEF Applied
<1>2. CASE /\ UNCHANGED remote
           /\ api'[n].gen = job.obj.gen /\ api'[n].spec = job.obj.spec
           /\ work.pc = "setReady" /\ api'[n].status = Reported("ReconcileSuccess")
  <2>1. /\ work.id # 0 /\ Planned /\ work.plan = NoPlan
        /\ api'[n].status.id = work.id
    BY <1>2 DEF TInv, TypeOK, Handler, HandlerSends, HandlerEnds, Reported
  <2> QED
    BY <1>2, <2>1, PlanDone DEF Planned, Applied
<1> QED
  BY <1>1, <1>2, ReadyStep

-----------------------------------------------------------------------------
(* The theorems.                                                           *)

LEMMA TInvStep == ASSUME TInv, Next PROVE TInv'
<1>1. RT!RInv'
  BY SaneConstants, StepMoves, RT!RInvStep DEF TInv
<1> QED
  BY <1>1, TypeStep, HandlerStep, CopiesStep, FreshStep, NotAheadStep, ReadyIsNewestStep,
     AppliedStep DEF TInv

LEMMA TInvStutters == ASSUME TInv, UNCHANGED vars PROVE TInv'
<1>1. /\ UNCHANGED <<api, cache, events, queue, timers, job, lastUid, faults>>
      /\ UNCHANGED <<work, remote, nextId, inst, dep>>
  BY DEF vars, kubernetes, world
<1>2. RT!RInv'
  <2>1. RT!Elsewhere
    BY <1>1 DEF RT!Elsewhere, TInv, TypeOK, RuntimeTypeOK
  <2> QED
    BY <2>1, SaneConstants, RT!RInvStep DEF RT!Move, TInv
<1>3. TypeOK'
  BY <1>1 DEF TInv, TypeOK, RuntimeTypeOK
<1>4. CopiesOwn' /\ ReadyIsNewest'
  <2>1. \A n, c : RT!Copy(n, c)' <=> RT!Copy(n, c)
    BY <1>1 DEF RT!Copy
  <2> QED
    BY <1>1, <2>1 DEF TInv, CopiesOwn, Placed, Exists, Owns, Backs, ReadyIsNewest, Ready
<1>5. Handler'
  <2>1. HandlerSends'
    BY <1>1 DEF TInv, Handler, HandlerSends, Planned, Leads, Owners, Spent
  <2>2. HandlerEnds'
    BY <1>1 DEF TInv, Handler, HandlerEnds, Spent
  <2> QED
    BY <1>1, <2>1, <2>2 DEF TInv, Handler, Backs, RT!Live
<1>6. Fresh' /\ NotAhead' /\ ReadyMeansApplied'
  BY <1>1 DEF TInv, Fresh, NotAhead, ReadyMeansApplied, Ready
<1> QED
  BY <1>2, <1>3, <1>4, <1>5, <1>6 DEF TInv

\* The inductive invariant of the Task controller: whose tasks the recorded ids
\* are, and what the requests that are left to send lead to.
THEOREM TInvHolds == Spec => []TInv
<1>1. TInv /\ [Next]_vars => TInv'
  BY TInvStep, TInvStutters
<1> QED
  BY <1>1, InitHolds, PTL DEF Spec

\* Every variable of the Task controller keeps its type; a busy worker works for a
\* name, and has a request to send or a task's id to report.
THEOREM TypeCorrect == Spec => []TypeOK
BY TInvHolds, PTL DEF TInv

\* A Task that reports Ready for its generation has in Vikunja that generation's
\* contents, project, labels and assignees, unless another client interfered.
THEOREM ReadyIsApplied == Spec => []ReadyMeansApplied
BY TInvHolds, PTL DEF TInv

-----------------------------------------------------------------------------
(* No task is forgotten.                                                   *)

\* A worker without a task in hand has no id.
Vacant == work.pc \in {"idle", "addFinalizer"} => work.id = 0

\* What a step makes of the worker.
LEMMA WorkerStep ==
  ASSUME TInv, Next
  PROVE  \/ work' = work
         \/ work' = NoWork /\ (Crash \/ DeleteTask \/ \E o : Finishes(o))
         \/ \E n \in Names : /\ Begin(n)
                             /\ \/ work' = [NoWork EXCEPT !.pc = "addFinalizer"]
                                \/ ReconcileUpserts(n)
                                \/ ReconcileDeletes(n)
         \/ CreateTask
         \/ UpdateTask
         \/ Relates
         \/ work.pc = "delete" /\ work' = [work EXCEPT !.pc = "release"]
<1>1. ASSUME NEW n \in Names, NEW s, Create(n, s) \/ Edit(n, s) \/ Delete(n)
      PROVE  work' = work
  BY <1>1 DEF Create, Edit, Delete
<1>2. ASSUME NEW n \in Names,
             Sync(n) \/ Requeue(n) \/ ReconcileNothing(n) \/ ReconcileFails(n)
      PROVE  work' = work
  BY <1>2 DEF Sync, Requeue, ReconcileNothing, ReconcileFails
<1>3. ASSUME NEW n \in Names,
             ReconcileAddsFinalizer(n) \/ ReconcileUpserts(n) \/ ReconcileDeletes(n)
      PROVE  /\ Begin(n)
             /\ \/ work' = [NoWork EXCEPT !.pc = "addFinalizer"]
                \/ ReconcileUpserts(n)
                \/ ReconcileDeletes(n)
  BY <1>3 DEF ReconcileAddsFinalizer, ReconcileUpserts, ReconcileDeletes
<1>4. CASE DeleteTask
  BY <1>4 DEF DeleteTask
<1>5. CASE Crash \/ \E o : Finishes(o)
  BY <1>5 DEF Crash, Finishes, Ends
<1>6. ASSUME NEW d, NEW r, NEW i, NEW u,
             \/ Recorded(d) \/ Lost(d) \/ Removed(d) \/ InstanceChanges(r)
             \/ ExternalDelete(i) \/ ExternalEdit(i, u)
      PROVE  work' = work
  BY <1>6 DEF Recorded, Lost, Removed, Moves, InstanceChanges, ExternalDelete, ExternalEdit
<1> QED
  BY <1>1, <1>2, <1>3, <1>4, <1>5, <1>6, StepFinishes
     DEF Next, Step, Environment, Reconcile, Relates

\* What the worker's next step is, with which id.
LEMMA NextErrs ==
  ASSUME TypeOK, ToError
  PROVE  work'.pc = "setNotReady" /\ work'.id = work.id
BY Errs

LEMMA NextPursues ==
  ASSUME NEW i, NEW plan, Pursue(i, plan)
  PROVE  work'.pc \in {"setReady", "relate"} /\ work'.id = i
<1>1. NoWork \in Work
  BY NoWorkTyped
<1> HIDE DEF NoWork, NoPlan, Ids
<1> QED
  BY <1>1 DEF Pursue, Work

LEMMA NextMovesOn ==
  ASSUME TypeOK, NEW pc, work' = [work EXCEPT !.pc = pc]
  PROVE  work'.pc = pc /\ work'.id = work.id
<1>1. work \in Work
  BY DEF TypeOK
<1> HIDE DEF Ids
<1> QED
  BY <1>1 DEF Work

LEMMA VacantStep == ASSUME TInv, Vacant, Next PROVE Vacant'
<1>0. TypeOK /\ NoWork.id = 0
  BY DEF TInv, NoWork
<1>1. ASSUME NEW n \in Names, ReconcileUpserts(n) \/ ReconcileDeletes(n)
      PROVE  Vacant'
  BY <1>1, UpsertStarts, DeleteStarts DEF Vacant
<1>2. CASE work' = [NoWork EXCEPT !.pc = "addFinalizer"]
  <2>1. NoWork \in Work
    BY NoWorkTyped
  <2>2. work'.id = NoWork.id
    <3> HIDE DEF NoWork, Ids
    <3> QED
      BY <1>2, <2>1 DEF Work
  <2> QED
    BY <1>0, <2>2 DEF Vacant
<1>3. CASE CreateTask
  BY <1>0, <1>3, CreateGoesOn, NextErrs, NextPursues DEF Vacant
<1>4. CASE UpdateTask
  BY <1>0, <1>4, UpdateGoesOn, NextErrs, NextPursues, NextMovesOn DEF Vacant
<1>5. CASE Relates
  BY <1>0, <1>5, RelatesServes, NextErrs, NextPursues DEF Vacant
<1>6. CASE work' = [work EXCEPT !.pc = "release"]
  BY <1>0, <1>6, NextMovesOn DEF Vacant
<1>7. CASE work' = work \/ work' = NoWork
  BY <1>0, <1>7 DEF Vacant
<1> QED
  BY <1>1, <1>2, <1>3, <1>4, <1>5, <1>6, <1>7, WorkerStep

\* Only a create brings a task to life.
LEMMA ComesToLife ==
  ASSUME TInv, Next, NEW i \in 1..MaxId, ~remote[i].live, remote'[i].live
  PROVE  CreateTask /\ Makes /\ i = nextId
<1>1. TypeOK
  BY DEF TInv
<1>2. ASSUME Makes, i # nextId
      PROVE  FALSE
  BY <1>1, <1>2, Rewritten DEF Makes
<1>3. ASSUME NEW k \in 1..MaxId, Touches(k)
      PROVE  FALSE
  <2>1. PICK r \in Remote : Put(k, r) /\ (Loses(remote[k], r) \/ Works(k, r))
    BY <1>3 DEF Touches
  <2>2. r.live => remote[k].live
    BY <2>1 DEF Loses, Works
  <2> QED
    BY <1>1, <2>1, <2>2, Rewritten
<1> QED
  BY <1>2, <1>3, RemoteStep

\* The ways in which an id is lost.
LosesAnswer(i) == ~remote[i].live /\ faults' # faults
WriteFails == job # Idle /\ job' = Idle /\ (faults' # faults \/ ~job.current)
ObjectEnds(i) == \E n \in Names : api[n].status.id = i /\ api'[n].uid # api[n].uid

LEMMA BusyJob ==
  ASSUME TInv, work.pc # "idle"
  PROVE  /\ job # Idle /\ job.key \in Names
         /\ job.current => job.obj = api[job.key]
         /\ job.obj.uid # 0
<1>1. job.key # None /\ Idle.key = None
  BY DEF TInv, TypeOK, Idle
<1> QED
  BY <1>1, WorkersCopy DEF TInv, RT!RInv, RT!Follows, Exists

\* The reconcile that holds the id ends.
LEMMA EndForgets ==
  ASSUME TInv, Vacant, NEW i \in 1..MaxId, Forgets(i), work.id = i,
         Crash \/ DeleteTask \/ \E o : Finishes(o), work' = NoWork
  PROVE  WriteFails \/ ObjectEnds(i)
<1>1. work.pc \notin {"idle", "addFinalizer"} /\ faults \in Nat /\ TypeOK
  BY DEF Vacant, TInv, TypeOK, RuntimeTypeOK
<1>2. CASE Crash
  BY <1>1, <1>2, BusyJob DEF Crash, Restart, Fault, WriteFails
<1>3. CASE DeleteTask
  <2>1. job.obj.status.id = i /\ api' = api
    BY <1>3 DEF DeleteTask, TInv, Handler, HandlerEnds
  <2>2. ASSUME Gone(i)
        PROVE  FALSE
    <3>1. remote'[i] = [NoTask EXCEPT !.uid = remote[i].uid]
      BY <1>1, <2>2 DEF Gone, TypeOK
    <3>2. ~remote'[i].live
      BY <3>1 DEF NoTask
    <3> QED
      BY <3>2 DEF Forgets
  <2>3. job' = Idle /\ Fault
    BY <1>3, <2>1, <2>2 DEF DeleteTask, Return
  <2> QED
    BY <1>1, <2>3, BusyJob DEF WriteFails, Fault
<1>4. ASSUME NEW o, Finishes(o)
      PROVE  WriteFails \/ ObjectEnds(i)
  <2>1. PICK again : Written(o) /\ Commit(o, again)
    BY <1>4 DEF Finishes, Ends
  <2>2. CASE job.current /\ api' = [api EXCEPT ![job.key] = o]
    <3>1. job.key \in Names /\ api'[job.key] = o /\ job.obj = api[job.key]
      BY <1>1, <2>2, BusyJob DEF TypeOK, RuntimeTypeOK
    <3>2. o.status.id # i
      BY <3>1 DEF Forgets, Known
    <3>3. work.pc = "release" /\ o = Absent
      <4>1. job.obj \in Object
        BY <1>1, WorkersCopy
      <4> QED
        BY <1>1, <2>1, <3>2, <4>1 DEF Written, Reported, Object
    <3>4. api[job.key].status.id = i /\ api'[job.key].uid = 0 /\ api[job.key].uid # 0
      BY <1>1, <3>1, <3>3, BusyJob DEF TInv, Handler, HandlerEnds, Absent
    <3> QED
      BY <3>1, <3>4 DEF ObjectEnds
  <2>3. CASE job' = Idle /\ (Fault \/ ~job.current)
    BY <1>1, <2>3, BusyJob DEF WriteFails, Fault
  <2> QED
    BY <2>1, <2>2, <2>3 DEF Commit, Store, Return
<1> QED
  BY <1>2, <1>3, <1>4

\* The worker has the id, and a step of it takes it away.
LEMMA WorkerForgets ==
  ASSUME TInv, Vacant, Next, NEW i \in 1..MaxId, Forgets(i), remote[i].live, work.id = i
  PROVE  WriteFails \/ ObjectEnds(i)
<1>1. work'.id # i /\ work.pc # "idle" /\ TypeOK
  BY DEF Forgets, Known, Vacant, TInv
<1>2. ASSUME NEW n, Begin(n)
      PROVE  FALSE
  BY <1>1, <1>2, BusyJob DEF Begin
<1>3. CASE CreateTask
  <2>1. work.pc = "create"
    BY <1>3, CreateGoesOn
  <2> QED
    BY <2>1 DEF TInv, Handler, HandlerSends, Spent
<1>4. CASE UpdateTask
  BY <1>1, <1>4, UpdateGoesOn, NextErrs, NextPursues, NextMovesOn
<1>5. CASE Relates
  BY <1>1, <1>5, RelatesServes, NextErrs, NextPursues
<1>6. CASE work' = [work EXCEPT !.pc = "release"]
  BY <1>1, <1>6, NextMovesOn
<1> QED
  BY <1>1, <1>2, <1>3, <1>4, <1>5, <1>6, EndForgets, WorkerStep

\* A Task records the id, and a write to it takes it away.
LEMMA RecordForgets ==
  ASSUME TInv, Next, NEW i \in 1..MaxId, Forgets(i), remote[i].live, work.id # i,
         NEW n \in Names, api[n].status.id = i
  PROVE  ObjectEnds(i)
<1>1. api'[n].status.id # i
  BY DEF Forgets, Known
<1>2. TypeOK /\ api[n] \in Object
  BY StoredCopy DEF TInv
<1>3. CASE RT!ByUser(n)
  <2>1. api'[n].status = api[n].status \/ api'[n].uid # api[n].uid
    BY <1>2, <1>3, SameData, RT!UserFields DEF TypeOK, RuntimeTypeOK, Absent
  <2> QED
    BY <1>1, <2>1 DEF ObjectEnds
<1>4. CASE RT!Committed(n) /\ Written(api'[n]) /\ n = job.key
  <2>1. job.obj = api[n] /\ work.pc # "idle"
    BY <1>4 DEF RT!Committed, Written
  <2>2. CASE api'[n] = Absent
    <3>1. api'[n].uid = 0 /\ api[n].uid # 0
      BY <2>1, <2>2, BusyJob DEF Absent
    <3> QED
      BY <3>1 DEF ObjectEnds
  <2>3. ASSUME NEW reason, work.pc \in {"setReady", "setNotReady"},
               api'[n].status = Reported(reason)
        PROVE  FALSE
    <3>1. api'[n].status.id = work.id
      BY <2>3 DEF Reported
    <3>2. Spent(job.obj)
      BY <2>1, <2>3 DEF TInv, Handler, HandlerEnds
    <3> QED
      BY <2>1, <3>2 DEF Spent
  <2> QED
    BY <1>1, <1>4, <2>1, <2>2, <2>3, WrittenFields
<1> QED
  BY <1>1, <1>3, <1>4, ObjectStep DEF RT!OnlyTouches

\* The operator never forgets a task it found, or one it created and got the answer
\* of, whatever becomes of its labels and assignees: it is forgotten only with the
\* answer of its create, with a write that ends a reconcile and fails, or with its
\* Task.
THEOREM NoTaskIsForgotten == Spec => NoneForgotten
<1>1. Init => Vacant
  BY DEF Init, RuntimeInit, NoWork, Vacant
<1>2. TInv /\ Vacant /\ [Next]_vars => Vacant'
  <2>1. CASE UNCHANGED vars
    BY <2>1 DEF vars, Vacant
  <2> QED
    BY <2>1, VacantStep
<1>3. TInv /\ Vacant /\ [Next]_vars =>
        [\A i \in 1..MaxId : Forgets(i) =>
           \/ ~remote[i].live /\ faults' # faults
           \/ job # Idle /\ job' = Idle /\ (faults' # faults \/ ~job.current)
           \/ \E n \in Names : api[n].status.id = i /\ api'[n].uid # api[n].uid]_vars
  <2> SUFFICES ASSUME TInv, Vacant, Next, NEW i \in 1..MaxId, Forgets(i)
               PROVE  LosesAnswer(i) \/ WriteFails \/ ObjectEnds(i)
    BY DEF LosesAnswer, WriteFails, ObjectEnds
  <2>1. CASE ~remote[i].live
    <3>1. CreateTask /\ Makes /\ i = nextId
      BY <2>1, ComesToLife DEF Forgets
    <3>2. faults \in Nat /\ nextId \in Nat /\ nextId' = nextId + 1
      BY <3>1 DEF TInv, TypeOK, RuntimeTypeOK, Makes
    <3>3. ASSUME NEW plan
          PROVE  ~Pursue(nextId, plan)
      BY <3>1, <3>3, NextPursues DEF Forgets, Known
    <3>4. Fault
      BY <3>1, <3>2, <3>3 DEF CreateTask
    <3> QED
      BY <2>1, <3>2, <3>4 DEF Fault, LosesAnswer
  <2>2. CASE remote[i].live
    BY <2>2, WorkerForgets, RecordForgets DEF Forgets, Known
  <2> QED
    BY <2>1, <2>2
<1> QED
  BY <1>1, <1>2, <1>3, TInvHolds, PTL DEF Spec, NoneForgotten

-----------------------------------------------------------------------------
(* Tasks implement Counterpart.                                            *)

\* What Counterpart's variables are mapped to.
Owner == [n \in Names |-> api[n].uid]
Record == [n \in Names |-> api[n].status.id]
Maker == [i \in 1..MaxId |-> remote[i].uid]
Living == {i \in 1..MaxId : remote[i].live}
Excused == {n \in Names : job.key = n /\ work.skip}

LEMMA InitPromise == Init => CP!Init
<1> SUFFICES ASSUME Init PROVE CP!Init
  OBVIOUS
<1>1. \A n \in Names : api[n].uid = 0 /\ api[n].status.id = 0
  BY DEF Init, RuntimeInit, Absent, NoStatus
<1>2. \A i \in 1..MaxId : remote[i].uid = 0 /\ ~remote[i].live
  BY DEF Init, NoTask
<1>3. lastUid = 0 /\ \A n \in Names : ~(job.key = n /\ work.skip)
  BY DEF Init, RuntimeInit, NoWork
<1> QED
  BY <1>1, <1>2, <1>3 DEF CP!Init

\* A stored Task whose task in Vikunja is gone is free.
LEMMA SpentIsFree ==
  ASSUME NEW n \in Names, Spent(api[n])
  PROVE  CP!Free(n)
BY DEF Spent, CP!Free

\* A user's write of n is Appear, Vanish or nothing to Counterpart.
LEMMA UserPromise ==
  ASSUME TInv, NEW n \in Names, RT!OnlyTouches(n), RT!ByUser(n), UNCHANGED remote
  PROVE  CP!Appear(n) \/ CP!Vanish(n) \/ CP!Wait
<1>1. Maker' = Maker /\ Living' = Living
  BY DEF Maker, Living
<1>2. /\ Owner' = [Owner EXCEPT ![n] = api'[n].uid]
      /\ Record' = [Record EXCEPT ![n] = api'[n].status.id]
  BY DEF Owner, Record, RT!OnlyTouches
<1>3. api[n] \in Object /\ RT!Copy(n, api[n]) /\ Owns(api[n])
  BY StoredCopy
<1>4. CASE RT!Appears(n)
  <2>1. api[n] = Absent
    BY <1>3, <1>4, SameData DEF RT!Appears, TInv, RT!RInv, RT!Versions, RT!Version
  <2>2. api'[n].uid = lastUid + 1 /\ api'[n].status.id = 0 /\ lastUid' = lastUid + 1
    BY <1>4, SameData DEF RT!Appears, Absent, NoStatus
  <2>3. api[n].status.id = 0 /\ api[n].uid = 0
    BY <2>1 DEF Absent, NoStatus
  <2>4. Record' = Record
    BY <1>2, <2>2, <2>3 DEF Record
  <2>5. CP!Appear(n)
    BY <1>1, <1>2, <2>2, <2>3, <2>4 DEF CP!Appear, Owner, Record, Maker, Living
  <2> QED
    BY <2>5
<1>5. CASE RT!Edited(n) \/ RT!Marked(n)
  <2>1. /\ lastUid' = lastUid /\ api'[n].uid = api[n].uid
        /\ api'[n].status = api[n].status
    BY <1>3, <1>5 DEF RT!Edited, RT!Marked, Object
  <2>2. Owner' = Owner /\ Record' = Record
    BY <1>2, <2>1 DEF Owner, Record
  <2> QED
    BY <1>1, <2>1, <2>2 DEF CP!Wait, Owner, Record, Maker, Living
<1>6. CASE RT!Dropped(n)
  <2>1. lastUid' = lastUid /\ api'[n].uid = 0 /\ api'[n].status.id = 0
    BY <1>6, SameData DEF RT!Dropped, Absent, NoStatus
  <2>2. CP!Free(n)
    BY <1>3, <1>6, SpentIsFree DEF RT!Dropped, Owns, Spent
  <2>3. CP!Vanish(n)
    BY <1>1, <1>2, <2>1, <2>2 DEF CP!Vanish, Owner, Record, Maker, Living
  <2> QED
    BY <2>3
<1> QED
  BY <1>4, <1>5, <1>6 DEF RT!ByUser

\* So is an accepted write of the worker Record, Vanish or nothing.
LEMMA WrittenPromise ==
  ASSUME TInv, NEW n \in Names, n = job.key, RT!OnlyTouches(n), RT!Committed(n),
         Written(api'[n]), UNCHANGED remote
  PROVE  \/ CP!Vanish(n) \/ CP!Wait
         \/ \E i \in 1..MaxId : CP!Record(n, i)
<1>1. Maker' = Maker /\ Living' = Living
  BY DEF Maker, Living
<1>2. /\ Owner' = [Owner EXCEPT ![n] = api'[n].uid]
      /\ Record' = [Record EXCEPT ![n] = api'[n].status.id]
  BY DEF Owner, Record, RT!OnlyTouches
<1>3. job.obj = api[n] /\ api[n].uid # 0 /\ lastUid' = lastUid
  BY SameData DEF RT!Committed, Exists
<1>4. CASE work.pc = "release" /\ api'[n] = Absent
  <2>1. api'[n].uid = 0 /\ api'[n].status.id = 0
    BY <1>4 DEF Absent, NoStatus
  <2>2. CP!Free(n) \/ n \in Excused
    BY <1>3, <1>4, SpentIsFree DEF TInv, Handler, HandlerEnds, Excused
  <2>3. CP!Vanish(n)
    BY <1>1, <1>2, <1>3, <2>1, <2>2 DEF CP!Vanish, Owner, Record, Maker, Living, Excused
  <2> QED
    BY <2>3
<1>5. CASE api'[n].uid = api[n].uid /\ api'[n].status.id = api[n].status.id
  <2>1. Owner' = Owner /\ Record' = Record
    BY <1>2, <1>5 DEF Owner, Record
  <2> QED
    BY <1>1, <1>3, <2>1 DEF CP!Wait, Owner, Record, Maker, Living
<1>6. CASE /\ work.pc \in {"setReady", "setNotReady"} /\ api'[n].uid = api[n].uid
           /\ api'[n].status.id = work.id /\ work.id # api[n].status.id
  <2>1. Spent(api[n]) /\ Backs(work.id, api[n].uid)
    BY <1>3, <1>6 DEF TInv, Handler, HandlerEnds
  <2>2. PICK i \in 1..MaxId : i = work.id
    BY <1>3, <2>1, BoundsAssumption DEF TInv, TypeOK, Backs
  <2>3. remote[i].uid = api[n].uid
    BY <2>1, <2>2 DEF Backs
  <2>4. CP!Free(n) /\ Owner' = Owner
    BY <1>2, <1>6, <2>1, SpentIsFree DEF Owner
  <2>5. CP!Record(n, i)
    BY <1>1, <1>2, <1>3, <1>6, <2>2, <2>3, <2>4
       DEF CP!Record, Owner, Record, Maker, Living
  <2> QED
    BY <2>5
<1> QED
  BY <1>3, <1>4, <1>5, <1>6, WrittenFields DEF Reported

\* A create is for a Task that exists.
LEMMA MadePromise ==
  ASSUME TInv, Makes, NEW n \in Names, n = job.key, NEW i \in 1..MaxId, i = nextId
  PROVE  CP!Make(n, i)
<1>1. Owner' = Owner /\ Record' = Record /\ lastUid' = lastUid
  BY DEF Makes, Owner, Record
<1>2. remote[i].uid = 0
  BY BoundsAssumption DEF TInv, Fresh
<1>3. job.obj.uid = api[n].uid /\ api[n].uid # 0
  <2>1. /\ job.obj \in Object /\ RT!Copy(n, job.obj) /\ RT!Live(job.obj)
        /\ job.obj.uid # 0
    BY WorkersCopy DEF Makes, TInv, Handler, Exists
  <2>2. RT!Version(n, job.obj)
    BY <2>1, SameData DEF TInv, RT!RInv, RT!Versions
  <2> QED
    BY <2>1, <2>2 DEF RT!Version
<1>4. PICK r : Put(i, r) /\ r.live /\ r.uid = api[n].uid
  BY <1>3 DEF Makes
<1>5. /\ remote'[i] = r
      /\ \A k \in 1..MaxId \ {i} : remote'[k] = remote[k]
  BY <1>4, Rewritten DEF TInv
<1>6. Maker' = [Maker EXCEPT ![i] = api[n].uid]
  BY <1>4, <1>5 DEF Maker
<1>7. Living' = Living \cup {i}
  BY <1>4, <1>5 DEF Living
<1>8. Owner[n] # 0 /\ Owner[n] = api[n].uid
  BY <1>3 DEF Owner
<1> QED
  BY <1>1, <1>2, <1>6, <1>7, <1>8 DEF CP!Make, Owner, Record, Maker, Living

LEMMA TouchedPromise ==
  ASSUME TInv, NEW i \in 1..MaxId, Touches(i), UNCHANGED <<api, lastUid>>
  PROVE  CP!Lose(i) \/ CP!Wait
<1>1. Owner' = Owner /\ Record' = Record
  BY DEF Owner, Record
<1>2. PICK r : Put(i, r) /\ (Loses(remote[i], r) \/ Works(i, r))
  BY DEF Touches
<1>3. r.uid = remote[i].uid /\ (r.live => remote[i].live)
  BY <1>2 DEF Loses, Works, Updates, Serves, SameTask
<1>4. /\ remote'[i] = r
      /\ \A k \in 1..MaxId \ {i} : remote'[k] = remote[k]
  BY <1>2, Rewritten DEF TInv
<1>5. Maker' = Maker
  BY <1>3, <1>4 DEF Maker
<1>6. CASE r.live
  <2>1. Living' = Living
    BY <1>3, <1>4, <1>6 DEF Living
  <2> QED
    BY <1>1, <1>5, <2>1 DEF CP!Wait, Owner, Record, Maker, Living
<1>7. CASE ~r.live
  <2>1. Living' = Living \ {i}
    BY <1>4, <1>7 DEF Living
  <2> QED
    BY <1>1, <1>5, <2>1 DEF CP!Lose, Owner, Record, Maker, Living
<1> QED
  BY <1>6, <1>7

LEMMA NothingPromised == UNCHANGED <<api, lastUid, remote>> => CP!Wait
BY DEF CP!Wait

LEMMA StepPromise == TInv /\ [Next]_vars => [CP!Next]_CP!vars
<1> SUFFICES ASSUME TInv, [Next]_vars PROVE CP!Next
  OBVIOUS
<1>1. Excused' \subseteq Names
  BY DEF Excused
<1>2. CASE UNCHANGED <<api, lastUid, remote>>
  BY <1>1, <1>2, NothingPromised DEF CP!Next, Excused
<1>3. ASSUME NEW n \in Names, RT!OnlyTouches(n), RT!ByUser(n), UNCHANGED remote
      PROVE  CP!Next
  BY <1>1, <1>3, UserPromise DEF CP!Next, Excused
<1>4. CASE /\ work.pc # "idle" /\ RT!OnlyTouches(job.key) /\ RT!Committed(job.key)
           /\ Written(api'[job.key]) /\ UNCHANGED remote
  <2>1. PICK n \in Names : n = job.key
    BY <1>4, WorkersCopy
  <2> QED
    BY <1>1, <1>4, <2>1, WrittenPromise DEF CP!Next, Excused
<1>5. CASE Makes
  <2>1. PICK n \in Names, i \in 1..MaxId : n = job.key /\ i = nextId
    BY <1>5, WorkersCopy DEF Makes
  <2>2. CP!Make(n, i)
    BY <1>5, <2>1, MadePromise
  <2> QED
    BY <1>1, <2>2 DEF CP!Next, Excused
<1>6. ASSUME NEW i \in 1..MaxId, Touches(i), UNCHANGED <<api, lastUid>>
      PROVE  CP!Next
  BY <1>1, <1>6, TouchedPromise DEF CP!Next, Excused
<1>7. CASE UNCHANGED vars
  BY <1>2, <1>7 DEF vars, kubernetes, world
<1> QED
  BY <1>2, <1>3, <1>4, <1>5, <1>6, <1>7, ObjectStep, RemoteStep DEF Written

\* Tasks keep the operator's promise, for any number of names, objects, generations
\* and faults, whatever becomes of the Projects and Labels they name: what Vikunja
\* holds is made for a Task that exists, recorded by no other, and neither forgotten
\* nor left behind while there is a project and an instance to delete it from.
THEOREM TasksKeepPromise == Spec => Promise
BY InitPromise, StepPromise, TInvHolds, PTL DEF Spec, Promise, CP!Spec
=============================================================================
