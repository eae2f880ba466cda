----------------------------- MODULE TeamProofs -----------------------------
(***************************************************************************)
(* Theorems about the Team controller: types, that Ready means applied,    *)
(* that the operator keeps its place in its teams, and that it forgets no  *)
(* team, whatever becomes of the members.                                  *)
(*                                                                         *)
(* A team in Vikunja does not show which Team it was created for.  What    *)
(* keeps two Teams from one id is that every version that shows it, and    *)
(* the worker that holds it, are of one object (Holds).                    *)
(***************************************************************************)
EXTENDS Team, TLAPS

RT == INSTANCE RuntimeProofs WITH Specs <- Rosters \cup {Nobody}, NoSpec <- Nobody

-----------------------------------------------------------------------------
(* The controller runs on the runtime that RuntimeProofs is about.         *)

LEMMA SaneConstants == RT!Sane
BY NoneAssumption, BoundsAssumption
   DEF RT!Sane, Status, NoStatus, Reasons

\* The operators of the two instances of ControllerRuntime are the same.
LEMMA SameData ==
  /\ RT!Absent = Absent /\ RT!Idle = Idle
  /\ RT!Object = Object /\ RT!Job = Job
  /\ \A c : RT!Exists(c) <=> Exists(c)
  /\ RT!RuntimeInit <=> RuntimeInit
  /\ RT!RuntimeTypeOK <=> RuntimeTypeOK
BY DEF RT!Absent, Absent, RT!Idle, Idle, RT!Object, Object, RT!Job, Job, RT!Exists, Exists,
   RT!RuntimeInit, RuntimeInit, RT!RuntimeTypeOK, RuntimeTypeOK

LEMMA SameWrites ==
  ASSUME NEW n, NEW o
  PROVE  /\ RT!Store(n, o) <=> Store(n, o)
         /\ RT!UserCreates(n, o) <=> UserCreates(n, o)
         /\ RT!UserEdits(n, o) <=> UserEdits(n, o)
         /\ RT!UserDeletes(n) <=> UserDeletes(n)
<1>1. ASSUME NEW p PROVE /\ RT!Store(n, p) <=> Store(n, p)
                         /\ RT!UserWrites(n, p) <=> UserWrites(n, p)
  BY DEF RT!Store, Store, RT!UserWrites, UserWrites
<1> QED
  BY <1>1, SameData DEF RT!UserCreates, UserCreates, RT!UserEdits, UserEdits,
     RT!UserDeletes, UserDeletes

LEMMA SameSteps ==
  /\ \A n : /\ RT!Deliver(n) <=> Deliver(n)
            /\ RT!TimerFires(n) <=> TimerFires(n)
            /\ RT!Skip(n) <=> Skip(n)
            /\ RT!Begin(n) <=> Begin(n)
            /\ RT!BeginFails(n) <=> BeginFails(n)
  /\ \A o, again : RT!Commit(o, again) <=> Commit(o, again)
  /\ \A again : RT!Return(again) <=> Return(again)
  /\ RT!Restart <=> Restart
  /\ RT!Fault <=> Fault
BY SameData, SameWrites DEF RT!Deliver, Deliver, RT!TimerFires, TimerFires, RT!Skip, Skip,
   RT!Begin, Begin, RT!BeginFails, BeginFails, RT!Commit, Commit, RT!Return, Return,
   RT!Restart, Restart, RT!Fault, Fault

LEMMA SameTypes == ASSUME RT!RuntimeTypeOK' PROVE RuntimeTypeOK'
BY DEF RT!RuntimeTypeOK, RuntimeTypeOK, RT!Object, Object, RT!Job, Job

-----------------------------------------------------------------------------
(* The inductive invariant.                                                *)

\* Team i in Vikunja was created for the Team with uid u: no other shows or is
\* about to show its id.
Holds(i, u) ==
  /\ i \in 1..(nextId - 1)
  /\ \A n \in Names : \A c \in Object : RT!Copy(n, c) /\ c.status.id = i => c.uid = u
  /\ work.pc # "idle" /\ work.id = i => job.obj.uid = u

Owns(c) == c.status.id # 0 => Holds(c.status.id, c.uid)

CopiesOwn == \A n \in Names : \A c \in Object : RT!Copy(n, c) => Owns(c)

\* User u has the role that is wanted, or is there because of the token.
Fits(u, role, wanted) == role = wanted \/ (u \in owners /\ wanted = "out")

\* The requests of plan are the ones that make the members what spec wants.
Leads(members, plan, spec) ==
  \A u \in Users :
    /\ u \in plan.add => spec[u] # "out" /\ members[u] = "out"
    /\ u \in plan.remove => spec[u] = "out"
    /\ u \in plan.toggle => "out" \notin {spec[u], members[u]} /\ members[u] # spec[u]
    /\ u \in plan.add \cup plan.remove \cup plan.toggle \/ Fits(u, members[u], spec[u])

Planned ==
  LET r == remote[work.id] IN
  drifts = 0 /\ r.live => /\ r.gen = job.obj.gen
                          /\ Leads(r.members, work.plan, job.obj.spec)

\* What the handler knows.
Handler ==
  /\ work.pc # "idle" /\ work.id # 0 => Holds(work.id, job.obj.uid)
  /\ work.pc \in {"update", "delete"} => work.id = job.obj.status.id /\ work.id # 0
  /\ work.pc \in {"members", "setReady"} => work.id # 0 /\ Planned
  /\ work.pc = "setNotReady" => work.reason # "ReconcileSuccess"
  /\ work.pc \in {"delete", "release"} => job.obj.deleting

\* The worker's token is or was the token, and its owner is not to be removed.
Tokens ==
  /\ {FirstOwner, work.actor, work.owner} \subseteq owners
  /\ work.owner \notin work.plan.remove

\* A stored status is of the object's generation or an older one.
NotAhead == \A n \in Names : api[n].status.observed <= api[n].gen

\* Once a Team reports Ready for its generation, no older one is around.
ReadyIsNewest ==
  \A n \in Names : \A c \in Object :
    Ready(api[n]) /\ RT!Copy(n, c) /\ c.uid = api[n].uid => c.gen = api[n].gen

TInv == /\ TypeOK
        /\ RT!RInv
        /\ CopiesOwn
        /\ Handler
        /\ Tokens
        /\ NotAhead
        /\ ReadyIsNewest
        /\ ReadyMeansApplied
        /\ OwnerStays

LEMMA Typed ==
  /\ Nobody \in [Users -> Roles] /\ NoPlan \in Plan /\ NoTeam \in Remote
  /\ NoWork \in Work /\ NoWork.pc = "idle" /\ NoWork.plan = NoPlan
<1>1. Nobody \in [Users -> Roles] /\ NoPlan \in Plan /\ 0 \in 0..MaxGen /\ 0 \in 0..MaxId
  BY BoundsAssumption DEF Nobody, Roles, NoPlan, Plan
<1> HIDE DEF Nobody, NoPlan
<1> QED
  BY <1>1, UsersAssumption DEF NoTeam, Remote, NoWork, Work, Steps, Reasons

LEMMA InitHolds == Init => TInv
<1> SUFFICES ASSUME Init PROVE TInv
  OBVIOUS
<1>1. RT!RInv
  BY SaneConstants, SameData, RT!RInvInit DEF Init
<1>2. RuntimeTypeOK
  BY <1>1, SameData DEF RT!RInv
<1>3. work = NoWork
  BY DEF Init, RuntimeInit
<1>4. TypeOK
  <2>1. remote \in [1..MaxId -> Remote] /\ nextId \in 1..(MaxId + 1) /\ drifts \in 0..MaxDrift
    BY BoundsAssumption, Typed DEF Init
  <2>2. inst \in Instances /\ {token, owner} \subseteq owners /\ owners \subseteq Users
    BY UsersAssumption DEF Init, Instances
  <2> QED
    BY <1>2, <1>3, <2>1, <2>2, Typed DEF TypeOK
<1>5. ASSUME NEW n \in Names, NEW c, RT!Copy(n, c)
      PROVE  c = Absent
  BY <1>5, NoneAssumption DEF RT!Copy, Init, RuntimeInit, Idle
<1>6. CopiesOwn
  BY <1>5 DEF CopiesOwn, Owns, Absent, NoStatus
<1>7. Handler /\ Tokens
  BY <1>3 DEF Init, Handler, Tokens, NoWork, NoPlan
<1>8. NotAhead /\ ReadyIsNewest /\ ReadyMeansApplied
  BY DEF Init, RuntimeInit, NotAhead, ReadyIsNewest, ReadyMeansApplied, Ready, Absent, NoStatus
<1>9. OwnerStays
  BY DEF Init, OwnerStays, NoTeam
<1> QED
  BY <1>1, <1>4, <1>6, <1>7, <1>8, <1>9 DEF TInv

\* The worker's copy.
LEMMA WorkersCopy ==
  ASSUME TInv, work.pc # "idle"
  PROVE  /\ job.key \in Names /\ job.obj \in Object /\ RT!Copy(job.key, job.obj)
         /\ Exists(job.obj) /\ Owns(job.obj) /\ job.obj.spec \in [Users -> Roles]
         /\ job.obj.gen \in 0..MaxGen /\ job.obj.uid \in 1..MaxUid
         /\ job.obj.status.id \in 0..MaxId
<1>1. job.key \in Names /\ job.obj \in Object
  BY DEF TInv, TypeOK, RuntimeTypeOK, Job
<1>2. RT!Copy(job.key, job.obj)
  BY <1>1, SameData, RT!CopyOf DEF TInv, TypeOK
<1>3. Exists(job.obj)
  BY <1>1, SameData DEF TInv, RT!RInv, RT!Follows
<1>4. job.obj.spec \in [Users -> Roles]
  BY <1>1, Typed, UsersAssumption DEF Object
<1> QED
  BY <1>1, <1>2, <1>3, <1>4, BoundsAssumption DEF TInv, CopiesOwn, Object, Status, Exists

\* The copy that a reconcile starts with.
LEMMA CachedCopy ==
  ASSUME TInv, NEW n \in Names
  PROVE  /\ cache[n] \in Object /\ RT!Copy(n, cache[n]) /\ Owns(cache[n])
         /\ cache[n].status.id \in 0..MaxId
<1>1. cache[n] \in Object /\ RT!Copy(n, cache[n])
  BY SameData, RT!CopyOf DEF TInv, TypeOK
<1> QED
  BY <1>1 DEF TInv, CopiesOwn, Object, Status

\* What is stored.
LEMMA StoredCopy ==
  ASSUME TInv, NEW n \in Names
  PROVE  /\ api[n] \in Object /\ RT!Copy(n, api[n]) /\ Owns(api[n])
         /\ api[n].gen \in Nat /\ api[n].status.observed \in Nat
         /\ api[n].status.id \in 0..MaxId
<1>1. api[n] \in Object /\ RT!Copy(n, api[n])
  BY SameData, RT!CopyOf DEF TInv, TypeOK
<1> QED
  BY <1>1, BoundsAssumption DEF TInv, CopiesOwn, Object, Status

-----------------------------------------------------------------------------
(* Every step is one that the runtime allows.                              *)

Reported(reason) == [id |-> work.id, reason |-> reason, observed |-> job.obj.gen]

\* What the handler writes at the end.
Written(o) ==
  \/ work.pc = "addFinalizer" /\ o = [job.obj EXCEPT !.finalizer = TRUE]
  \/ work.pc = "release" /\ o = Absent
  \/ /\ work.pc = "setReady"
     /\ o = [job.obj EXCEPT !.status = Reported("ReconcileSuccess")]
  \/ /\ work.pc = "setNotReady"
     /\ o = [job.obj EXCEPT !.status = Reported(work.reason)]

Finishes(o) == Written(o) /\ \E again \in BOOLEAN : Ends(o, again)

\* What the handler writes is of its own copy.
LEMMA WrittenFields ==
  ASSUME TInv, NEW o, Written(o)
  PROVE  \/ work.pc = "release" /\ o = Absent
         \/ /\ o.uid = job.obj.uid /\ o.gen = job.obj.gen /\ o.spec = job.obj.spec
            /\ job.obj.finalizer => o.finalizer
            /\ \/ o.status = job.obj.status /\ o.finalizer
               \/ work.pc = "setReady" /\ o.status = Reported("ReconcileSuccess")
               \/ work.pc = "setNotReady" /\ o.status = Reported(work.reason)
<1>1. job.obj \in Object
  BY WorkersCopy DEF Written
<1> QED
  BY <1>1 DEF Written, Object

LEMMA WrittenTyped ==
  ASSUME TInv, NEW o, Written(o)
  PROVE  o \in Object /\ RT!MayWrite(o) /\ job.key \in Names
<1>1. work.pc # "idle"
  BY DEF Written
<1>2. job.key \in Names /\ job.obj \in Object /\ job.obj.gen \in 0..MaxGen
  BY <1>1, WorkersCopy
<1>3. CASE work.pc = "addFinalizer" /\ o = [job.obj EXCEPT !.finalizer = TRUE]
  BY <1>2, <1>3 DEF Object, RT!MayWrite
<1>4. CASE work.pc = "release" /\ o = Absent
  BY <1>2, <1>4, SameData, SaneConstants, RT!AbsentTyped
     DEF RT!MayWrite, TInv, Handler
<1>5. ASSUME NEW reason \in Reasons, o = [job.obj EXCEPT !.status = Reported(reason)]
      PROVE  o \in Object /\ RT!MayWrite(o)
  <2>1. Reported(reason) \in Status
    BY <1>2 DEF Reported, Status, TInv, TypeOK, Work
  <2> HIDE DEF Reported
  <2> QED
    BY <1>2, <1>5, <2>1 DEF Object, RT!MayWrite
<1>6. "ReconcileSuccess" \in Reasons /\ work.reason \in Reasons
  BY DEF Reasons, TInv, TypeOK, Work
<1> QED
  BY <1>2, <1>3, <1>4, <1>5, <1>6 DEF Written

LEMMA StepFinishes ==
  ASSUME AddFinalizer \/ RemoveFinalizer \/ SetReady \/ SetNotReady
  PROVE  \E o : Finishes(o)
BY DEF AddFinalizer, RemoveFinalizer, SetReady, SetNotReady, Finishes, Written, Reported

\* A request about a member.
Tends == \E u \in Users : AddTeamMember(u) \/ RemoveTeamMember(u) \/ ToggleTeamMemberAdmin(u)

LEMMA TendsOnly ==
  ASSUME Tends
  PROVE  /\ work.pc = "members"
         /\ UNCHANGED <<kubernetes, nextId, inst, token, owner, owners, drifts>>
         /\ Fault \/ UNCHANGED faults
BY DEF Tends, AddTeamMember, RemoveTeamMember, ToggleTeamMemberAdmin, Membership, world

\* Another client acts in Vikunja.
Interferes ==
  \E i \in 1..MaxId : \/ ExternalDelete(i)
                      \/ \E u \in Users, role \in Roles : ExternalEdit(i, u, role)

LEMMA InterferesOnly == Interferes => Drift
BY DEF Interferes, ExternalDelete, ExternalEdit

LEMMA StepMoves == ASSUME TInv, Next PROVE RT!Move
<1> USE DEF RT!Move
<1>1. ASSUME NEW n \in Names, NEW s \in Rosters, Create(n, s) \/ Edit(n, s)
      PROVE  RT!User
  BY <1>1, SameWrites DEF Create, Edit, RT!User
<1>2. ASSUME NEW n \in Names, Delete(n)
      PROVE  RT!User
  BY <1>2, SameWrites DEF Delete, RT!User
<1>3. ASSUME NEW n \in Names,
             Sync(n) \/ Requeue(n) \/ ReconcileNothing(n) \/ ReconcileFails(n)
      PROVE  RT!Plumbing
  BY <1>3, SameSteps DEF Sync, Requeue, ReconcileNothing, ReconcileFails, RT!Plumbing
<1>4. ASSUME NEW n \in Names,
             ReconcileAddsFinalizer(n) \/ ReconcileUpserts(n) \/ ReconcileDeletes(n)
      PROVE  RT!Starts
  BY <1>4, SameSteps, SameData
     DEF ReconcileAddsFinalizer, ReconcileUpserts, ReconcileDeletes, Finalized, RT!Starts
<1>5. ASSUME NEW o, Finishes(o)
      PROVE  RT!Writes
  BY <1>5, WrittenTyped, SameSteps, SameData DEF Finishes, Ends, RT!Writes
<1>6. ASSUME UNCHANGED <<api, cache, events, timers, job, lastUid>>,
             queue' \in SUBSET Names, Fault \/ UNCHANGED faults
      PROVE  RT!Elsewhere
  BY <1>6, BoundsAssumption DEF Fault, TInv, TypeOK, RuntimeTypeOK, RT!Elsewhere
<1>7. queue \in SUBSET Names
  BY DEF TInv, TypeOK, RuntimeTypeOK
<1>8. CASE CreateTeam \/ UpdateTeam \/ Tends
  <2>1. UNCHANGED kubernetes /\ (Fault \/ UNCHANGED faults)
    BY <1>8, TendsOnly DEF CreateTeam, UpdateTeam
  <2> QED
    BY <1>6, <1>7, <2>1 DEF kubernetes
<1>9. CASE DeleteTeam
  <2>1. job.key \in Names
    BY <1>9, WorkersCopy DEF DeleteTeam
  <2> QED
    BY <1>6, <1>7, <1>9, <2>1, SameSteps DEF DeleteTeam, RT!GivesUp
<1>10. ASSUME EnqueueAll
       PROVE  queue' \in SUBSET Names
  BY <1>7, <1>10 DEF EnqueueAll
<1>11. ASSUME NEW r, InstanceChanges(r)
       PROVE  RT!Elsewhere
  BY <1>6, <1>10, <1>11 DEF InstanceChanges
<1>12. CASE InstanceReconciles
  BY <1>6, <1>10, <1>12 DEF InstanceReconciles
<1>13. ASSUME NEW u, Rotate(u)
       PROVE  RT!Elsewhere
  BY <1>6, <1>7, <1>13 DEF Rotate, kubernetes
<1>14. CASE Interferes
  BY <1>6, <1>7, <1>14, InterferesOnly DEF Drift, kubernetes
<1>15. CASE Crash
  BY <1>15, SameSteps DEF Crash
<1> QED
  BY <1>1, <1>2, <1>3, <1>4, <1>5, <1>8, <1>9, <1>11, <1>12, <1>13, <1>14, <1>15,
     StepFinishes DEF Next, Step, Environment, Reconcile, Tends, Interferes

\* What a step does to the stored objects.
LEMMA ObjectStep ==
  ASSUME TInv, Next
  PROVE  \/ UNCHANGED <<api, lastUid>>
         \/ \E n \in Names : /\ RT!OnlyTouches(n) /\ RT!ByUser(n)
                             /\ UNCHANGED <<work, world>>
         \/ /\ RT!OnlyTouches(job.key) /\ RT!Committed(job.key)
            /\ Written(api'[job.key]) /\ UNCHANGED world /\ work' = NoWork
<1>1. ASSUME NEW n \in Names, NEW s \in Rosters \cup {Nobody},
             Create(n, s) \/ Edit(n, s) \/ Delete(n)
      PROVE  RT!OnlyTouches(n) /\ RT!ByUser(n) /\ UNCHANGED <<work, world>>
  BY <1>1, SameWrites, SameData, RT!UserChanges DEF Create, Edit, Delete, TInv, TypeOK
<1>2. ASSUME NEW o, Finishes(o)
      PROVE  \/ UNCHANGED <<api, lastUid>>
             \/ /\ RT!OnlyTouches(job.key) /\ RT!Committed(job.key)
                /\ Written(api'[job.key]) /\ UNCHANGED world /\ work' = NoWork
  <2>1. /\ Written(o) /\ UNCHANGED world /\ work' = NoWork
        /\ \E again : RT!Commit(o, again)
    BY <1>2, SameSteps DEF Finishes, Ends
  <2>2. RT!MayWrite(o) /\ job.key \in Names
    BY <2>1, WrittenTyped
  <2>3. \/ UNCHANGED <<api, lastUid>>
        \/ RT!Changes(job.key) /\ RT!Committed(job.key) /\ api'[job.key] = o
    BY <2>1, <2>2, SameData, RT!CommitChanges DEF TInv, TypeOK, RT!RInv
  <2> QED
    BY <2>1, <2>3 DEF RT!Changes
<1>3. ASSUME NEW n \in Names, Sync(n) \/ Requeue(n) \/ Reconcile(n)
      PROVE  UNCHANGED <<api, lastUid>>
  BY <1>3 DEF Sync, Deliver, Requeue, TimerFires, Reconcile, ReconcileNothing, Skip,
     ReconcileAddsFinalizer, ReconcileUpserts, ReconcileDeletes, Begin, ReconcileFails,
     BeginFails
<1>4. CASE CreateTeam \/ UpdateTeam \/ Tends \/ DeleteTeam \/ Crash
  BY <1>4, TendsOnly DEF CreateTeam, UpdateTeam, DeleteTeam, Return, Crash, Restart, kubernetes
<1>5. ASSUME NEW r, NEW u, InstanceChanges(r) \/ Rotate(u) \/ InstanceReconciles \/ Interferes
      PROVE  UNCHANGED <<api, lastUid>>
  BY <1>5, InterferesOnly DEF InstanceChanges, Rotate, InstanceReconciles, Drift, kubernetes
<1> QED
  BY <1>1, <1>2, <1>3, <1>4, <1>5, StepFinishes
     DEF Next, Step, Environment, Tends, Interferes

-----------------------------------------------------------------------------
(* What requests do to teams in Vikunja.                                   *)

\* Team i becomes r.
Put(i, r) == remote' = [remote EXCEPT ![i] = r]

LEMMA Rewritten ==
  ASSUME TypeOK, NEW i \in 1..MaxId, NEW r, Put(i, r)
  PROVE  /\ remote'[i] = r
         /\ \A k \in 1..MaxId \ {i} : remote'[k] = remote[k]
         /\ r \in Remote => remote' \in [1..MaxId -> Remote]
BY DEF Put, TypeOK

LEMMA WorkTyped ==
  ASSUME TypeOK
  PROVE  /\ work.id \in 0..MaxId /\ work.plan \in Plan /\ work.reason \in Reasons
         /\ work.actor \in Users /\ work.owner \in Users
<1>1. work \in Work
  BY DEF TypeOK
<1> QED
  BY <1>1 DEF Work

\* What a created team is at first.
Made == [live |-> TRUE, gen |-> job.obj.gen,
         members |-> [Nobody EXCEPT ![work.actor] = "admin"]]

\* Team r when it got the contents that the handler's object asks for.
Updated(r) == [r EXCEPT !.gen = job.obj.gen]

\* Team r when user u got a role.
Given(r, u, role) == [r EXCEPT !.members[u] = role]

LEMMA MadeTyped ==
  ASSUME TInv, work.pc # "idle"
  PROVE  /\ Made \in Remote
         /\ Made.live /\ Made.gen = job.obj.gen
         /\ Made.members = [Nobody EXCEPT ![work.actor] = "admin"]
         /\ Made.members \in [Users -> Roles]
<1>1. job.obj.gen \in 0..MaxGen /\ work.actor \in Users
  BY WorkersCopy, WorkTyped DEF TInv
<1>2. [Nobody EXCEPT ![work.actor] = "admin"] \in [Users -> Roles]
  BY <1>1, Typed DEF Roles
<1> HIDE DEF Nobody
<1> QED
  BY <1>1, <1>2 DEF Made, Remote

LEMMA UpdatedTyped ==
  ASSUME TInv, work.pc # "idle", NEW r \in Remote
  PROVE  /\ Updated(r) \in Remote /\ Updated(r).live = r.live
         /\ Updated(r).gen = job.obj.gen /\ Updated(r).members = r.members
BY WorkersCopy DEF Updated, Remote

LEMMA GivenTyped ==
  ASSUME NEW r \in Remote, NEW u \in Users, NEW role \in Roles
  PROVE  /\ Given(r, u, role) \in Remote
         /\ Given(r, u, role).live = r.live /\ Given(r, u, role).gen = r.gen
         /\ Given(r, u, role).members = [r.members EXCEPT ![u] = role]
BY DEF Given, Remote

\* The requests that are left after one about u.
Without(plan, rest, u) ==
  /\ rest.add \subseteq plan.add /\ rest.remove \subseteq plan.remove
  /\ rest.toggle \subseteq plan.toggle
  /\ plan.add \ {u} \subseteq rest.add /\ plan.remove \ {u} \subseteq rest.remove
  /\ plan.toggle \ {u} \subseteq rest.toggle

\* Of the plan, the request that is sent gives u a role and leaves rest to do.
Asks(plan, members, u, role, rest) ==
  /\ Without(plan, rest, u)
  /\ \/ u \in plan.add /\ u \notin rest.add /\ role = job.obj.spec[u]
     \/ u \in plan.remove /\ u \notin rest.remove /\ role = "out"
     \/ /\ u \in plan.toggle /\ u \notin rest.toggle
        /\ members[u] # "out"
        /\ role = IF members[u] = "admin" THEN "member" ELSE "admin"

LEMMA TendsServes ==
  ASSUME TInv, Tends
  PROVE  \/ UNCHANGED remote /\ ToError
         \/ \E u \in Users, role \in Roles, rest \in Plan :
              /\ Manages(work.id)
              /\ Put(work.id, Given(remote[work.id], u, role))
              /\ Asks(work.plan, remote[work.id].members, u, role, rest)
              /\ Pursue(work.id, rest) \/ ToError
<1>1. work.id \in 1..MaxId /\ work.plan \in Plan
  BY TendsOnly, WorkTyped DEF TInv, TypeOK, Handler
<1>2. remote[work.id] \in Remote /\ job.obj.spec \in [Users -> Roles]
  BY <1>1, TendsOnly, WorkersCopy DEF TInv, TypeOK
<1>3. ASSUME NEW u, NEW role, NEW rest, Membership(u, role, rest)
      PROVE  \/ UNCHANGED remote /\ ToError
             \/ /\ Manages(work.id) /\ Put(work.id, Given(remote[work.id], u, role))
                /\ Pursue(work.id, rest) \/ ToError
  BY <1>1, <1>2, <1>3 DEF Membership, Put, Given, TInv, TypeOK, Remote
<1>4. ASSUME NEW u \in Users, AddTeamMember(u)
      PROVE  \/ UNCHANGED remote /\ ToError
             \/ \E role \in Roles, rest \in Plan :
                  /\ Manages(work.id) /\ Put(work.id, Given(remote[work.id], u, role))
                  /\ Asks(work.plan, remote[work.id].members, u, role, rest)
                  /\ Pursue(work.id, rest) \/ ToError
  <2> DEFINE rest == [work.plan EXCEPT !.add = @ \ {u}]
             role == job.obj.spec[u]
  <2>1. Membership(u, role, rest) /\ u \in work.plan.add
    BY <1>4 DEF AddTeamMember
  <2>2. rest \in Plan /\ Without(work.plan, rest, u) /\ u \notin rest.add
    BY <1>1 DEF Plan, Without
  <2>3. role \in Roles
    BY <1>2
  <2>4. Asks(work.plan, remote[work.id].members, u, role, rest)
    BY <2>1, <2>2 DEF Asks
  <2> HIDE DEF rest, role
  <2> QED
    BY <1>3, <2>1, <2>2, <2>3, <2>4
<1>5. ASSUME NEW u \in Users, RemoveTeamMember(u)
      PROVE  \/ UNCHANGED remote /\ ToError
             \/ \E role \in Roles, rest \in Plan :
                  /\ Manages(work.id) /\ Put(work.id, Given(remote[work.id], u, role))
                  /\ Asks(work.plan, remote[work.id].members, u, role, rest)
                  /\ Pursue(work.id, rest) \/ ToError
  <2> DEFINE rest == [work.plan EXCEPT !.remove = @ \ {u}]
  <2>1. Membership(u, "out", rest) /\ u \in work.plan.remove
    BY <1>5 DEF RemoveTeamMember
  <2>2. rest \in Plan /\ Without(work.plan, rest, u) /\ u \notin rest.remove
    BY <1>1 DEF Plan, Without
  <2>3. Asks(work.plan, remote[work.id].members, u, "out", rest) /\ "out" \in Roles
    BY <2>1, <2>2 DEF Asks, Roles
  <2> HIDE DEF rest
  <2> QED
    BY <1>3, <2>1, <2>2, <2>3
<1>6. ASSUME NEW u \in Users, ToggleTeamMemberAdmin(u)
      PROVE  \/ UNCHANGED remote /\ ToError
             \/ \E role \in Roles, rest \in Plan :
                  /\ Manages(work.id) /\ Put(work.id, Given(remote[work.id], u, role))
                  /\ Asks(work.plan, remote[work.id].members, u, role, rest)
                  /\ Pursue(work.id, rest) \/ ToError
  <2> DEFINE rest == [work.plan EXCEPT !.toggle = @ \ {u}]
             old == remote[work.id].members[u]
             role == IF old = "admin" THEN "member" ELSE "admin"
  <2>1. /\ u \in work.plan.toggle
        /\ \/ ToError /\ UNCHANGED remote
           \/ old # "out" /\ Membership(u, role, rest)
    BY <1>6 DEF ToggleTeamMemberAdmin, world
  <2>2. rest \in Plan /\ Without(work.plan, rest, u) /\ u \notin rest.toggle
    BY <1>1 DEF Plan, Without
  <2>3. role \in Roles
    BY DEF Roles
  <2>4. old # "out" => Asks(work.plan, remote[work.id].members, u, role, rest)
    BY <2>1, <2>2 DEF Asks
  <2> HIDE DEF rest, role
  <2> QED
    BY <1>3, <2>1, <2>2, <2>3, <2>4
<1> QED
  BY <1>4, <1>5, <1>6 DEF Tends

\* Team i becomes r by a request of the worker.
Works(i, r) ==
  /\ i = work.id
  /\ Manages(i)
  /\ \/ work.pc = "update" /\ r = Updated(remote[i])
     \/ /\ work.pc = "members"
        /\ \E u \in Users, role \in Roles, rest \in Plan :
             /\ Asks(work.plan, remote[i].members, u, role, rest)
             /\ r = Given(remote[i], u, role)

Makes ==
  /\ work.pc = "create"
  /\ nextId \in 1..MaxId
  /\ nextId' = nextId + 1
  /\ Put(nextId, Made)
  /\ UNCHANGED <<kubernetes, inst, token, owner, owners, drifts>>

\* Another client acts, the operator deletes the team, or changes it.
Touches(i) ==
  /\ UNCHANGED <<nextId, api, lastUid, token, owner, owners>>
  /\ \E r \in Remote : /\ Put(i, r)
                       /\ r.live => remote[i].live
                       /\ drifts' # 0 \/ r = NoTeam \/ Works(i, r)

LEMMA DeletePut ==
  ASSUME TInv, DeleteTeam
  PROVE  UNCHANGED <<remote, nextId>> \/ \E i \in 1..MaxId : Touches(i)
<1>1. work.pc = "delete" /\ UNCHANGED <<nextId, api, lastUid, token, owner, owners>>
  BY DEF DeleteTeam, Return
<1>2. job.obj.status.id \in 1..MaxId
  BY <1>1, WorkTyped DEF TInv, Handler
<1>3. CASE Gone(job.obj.status.id)
  BY <1>1, <1>2, <1>3, Typed DEF Gone, Put, Touches, NoTeam
<1> QED
  BY <1>1, <1>3 DEF DeleteTeam

LEMMA DriftPut ==
  ASSUME TInv, Interferes
  PROVE  \E i \in 1..MaxId : Touches(i)
<1>1. drifts' # 0 /\ UNCHANGED <<nextId, api, lastUid, token, owner, owners>>
  BY InterferesOnly DEF Drift, TInv, TypeOK, kubernetes
<1>2. ASSUME NEW i \in 1..MaxId, ExternalDelete(i)
      PROVE  Touches(i)
  BY <1>1, <1>2, Typed DEF ExternalDelete, Gone, Put, Touches, NoTeam
<1>3. ASSUME NEW i \in 1..MaxId, NEW u \in Users, NEW role \in Roles, ExternalEdit(i, u, role)
      PROVE  Touches(i)
  <2> DEFINE r == [remote[i] EXCEPT !.gen = 0, !.members[u] = role]
  <2>1. remote[i] \in Remote /\ 0 \in 0..MaxGen
    BY BoundsAssumption DEF TInv, TypeOK
  <2>2. r \in Remote
    BY <2>1 DEF Remote
  <2>3. Put(i, r)
    BY <1>3, <2>1 DEF ExternalEdit, Put, TInv, TypeOK, Remote
  <2>4. remote[i].live
    BY <1>3 DEF ExternalEdit
  <2> HIDE DEF r
  <2> QED
    BY <1>1, <2>2, <2>3, <2>4 DEF Touches
<1> QED
  BY <1>2, <1>3 DEF Interferes

LEMMA UpdatePut ==
  ASSUME TInv, UpdateTeam
  PROVE  /\ work.pc = "update" /\ work.id = job.obj.status.id /\ work.id \in 1..MaxId
         /\ remote[work.id] \in Remote
         /\ UNCHANGED <<kubernetes, nextId, inst, token, owner, owners, drifts>>
         /\ \/ UNCHANGED remote
            \/ Manages(work.id) /\ Put(work.id, Updated(remote[work.id]))
<1>1. work.pc = "update" /\ UNCHANGED <<kubernetes, nextId, inst, token, owner, owners, drifts>>
  BY DEF UpdateTeam
<1>2. work.id = job.obj.status.id /\ work.id \in 1..MaxId
  BY <1>1, WorkTyped DEF TInv, Handler
<1>3. remote[work.id] \in Remote
  BY <1>2 DEF TInv, TypeOK
<1>4. CASE Manages(work.id) /\ remote' = [remote EXCEPT ![work.id].gen = job.obj.gen]
  BY <1>1, <1>2, <1>3, <1>4 DEF Put, Updated, TInv, TypeOK
<1> QED
  BY <1>1, <1>2, <1>3, <1>4 DEF UpdateTeam

LEMMA RemoteStep ==
  ASSUME TInv, Next
  PROVE  \/ UNCHANGED <<remote, nextId>>
         \/ CreateTeam /\ Makes
         \/ \E i \in 1..MaxId : Touches(i)
<1>0. TypeOK
  BY DEF TInv
<1>1. CASE CreateTeam
  <2>1. CASE UNCHANGED <<remote, nextId>>
    BY <2>1
  <2>2. CASE nextId <= MaxId /\ nextId' = nextId + 1 /\ Put(nextId, Made)
    <3>1. nextId \in 1..MaxId
      BY <1>0, <2>2, BoundsAssumption DEF TypeOK
    <3> QED
      BY <1>1, <2>2, <3>1 DEF CreateTeam, Makes
  <2> QED
    BY <1>1, <2>1, <2>2 DEF CreateTeam, Put, Made
<1>2. CASE UpdateTeam
  BY <1>2, UpdatePut, UpdatedTyped DEF Touches, Works, Manages, kubernetes
<1>3. CASE Tends
  <2>1. /\ work.pc = "members" /\ work.id \in 1..MaxId
        /\ UNCHANGED <<nextId, api, lastUid, token, owner, owners>>
    BY <1>3, TendsOnly, WorkTyped DEF TInv, Handler, kubernetes
  <2>2. remote[work.id] \in Remote
    BY <1>0, <2>1 DEF TypeOK
  <2> QED
    BY <1>3, <2>1, <2>2, TendsServes, GivenTyped DEF Touches, Works, Manages
<1>4. CASE Crash \/ \E o : Finishes(o)
  BY <1>4 DEF Crash, Finishes, Ends, world
<1>5. ASSUME NEW n, NEW s, \/ Create(n, s) \/ Edit(n, s) \/ Delete(n)
                           \/ Sync(n) \/ Requeue(n) \/ Reconcile(n)
      PROVE  UNCHANGED <<remote, nextId>>
  BY <1>5 DEF Create, Edit, Delete, Sync, Requeue, Reconcile, ReconcileNothing,
     ReconcileFails, ReconcileAddsFinalizer, ReconcileUpserts, ReconcileDeletes, world
<1>6. ASSUME NEW r, NEW u, InstanceChanges(r) \/ Rotate(u) \/ InstanceReconciles
      PROVE  UNCHANGED <<remote, nextId>>
  BY <1>6 DEF InstanceChanges, Rotate, InstanceReconciles
<1> QED
  BY <1>1, <1>2, <1>3, <1>4, <1>5, <1>6, DeletePut, DriftPut, StepFinishes
     DEF Next, Step, Environment, Tends, Interferes

LEMMA NextIdGrows ==
  ASSUME TInv, Next
  PROVE  nextId' \in 1..(MaxId + 1) /\ nextId <= nextId' /\ nextId \in Nat
BY RemoteStep, BoundsAssumption DEF TInv, TypeOK, Makes, Touches

\* What becomes of a team that was created.
LEMMA TeamStep ==
  ASSUME TInv, Next, NEW i \in 1..(nextId - 1)
  PROVE  \/ remote'[i] = remote[i]
         \/ drifts' # 0
         \/ remote'[i] = NoTeam
         \/ Works(i, remote'[i])
<1>1. TypeOK /\ i \in 1..MaxId
  BY BoundsAssumption DEF TInv, TypeOK
<1>2. CASE UNCHANGED remote
  BY <1>2
<1>3. CASE Makes
  <2>1. i # nextId
    BY <1>1 DEF TypeOK
  <2>2. remote'[i] = remote[i]
    BY <1>1, <1>3, <2>1, Rewritten DEF Makes
  <2> QED
    BY <2>2
<1>4. ASSUME NEW k \in 1..MaxId, Touches(k)
      PROVE  \/ remote'[i] = remote[i]
             \/ drifts' # 0
             \/ remote'[i] = NoTeam
             \/ Works(i, remote'[i])
  <2>1. PICK r \in Remote : Put(k, r) /\ (drifts' # 0 \/ r = NoTeam \/ Works(k, r))
    BY <1>4 DEF Touches
  <2> QED
    BY <1>1, <2>1, Rewritten
<1> QED
  BY <1>2, <1>3, <1>4, RemoteStep

\* Other clients' changes are counted, and no user's token is forgotten.
LEMMA HistoryGrows ==
  ASSUME TInv, Next
  PROVE  /\ drifts' \in 0..MaxDrift
         /\ drifts' = 0 => drifts = 0
         /\ owners \subseteq owners' /\ owners' \subseteq Users
         /\ {token', owner'} \subseteq owners'
         /\ inst' \in Instances
         /\ owners' = {token'} => owners = {token} /\ token' = token
<1>0. /\ drifts \in 0..MaxDrift /\ inst \in Instances /\ MaxDrift \in Nat
      /\ owners \subseteq Users /\ {token, owner} \subseteq owners
  BY BoundsAssumption DEF TInv, TypeOK
<1>1. CASE UNCHANGED <<inst, token, owner, owners, drifts>>
  BY <1>0, <1>1
<1>2. ASSUME NEW r \in Instances, InstanceChanges(r)
      PROVE  UNCHANGED <<token, owners, drifts>> /\ inst' \in Instances /\ owner' \in {owner, token}
  BY <1>2 DEF InstanceChanges
<1>3. CASE InstanceReconciles
  BY <1>0, <1>3 DEF InstanceReconciles
<1>4. ASSUME NEW u \in Users, Rotate(u)
      PROVE  /\ UNCHANGED <<inst, owner, drifts>> /\ token' = u /\ u # token
             /\ owners' = owners \cup {u}
  BY <1>4 DEF Rotate
<1>5. CASE Interferes
  BY <1>0, <1>5, InterferesOnly DEF Drift
<1>6. CASE CreateTeam \/ UpdateTeam \/ DeleteTeam \/ Tends
  BY <1>1, <1>6, TendsOnly DEF CreateTeam, UpdateTeam, DeleteTeam
<1>7. CASE Crash \/ \E o : Finishes(o)
  BY <1>1, <1>7 DEF Crash, Finishes, Ends, world
<1>8. ASSUME NEW n, NEW s, \/ Create(n, s) \/ Edit(n, s) \/ Delete(n)
                           \/ Sync(n) \/ Requeue(n) \/ Reconcile(n)
      PROVE  UNCHANGED <<inst, token, owner, owners, drifts>>
  BY <1>8 DEF Create, Edit, Delete, Sync, Requeue, Reconcile, ReconcileNothing,
     ReconcileFails, ReconcileAddsFinalizer, ReconcileUpserts, ReconcileDeletes, world
<1>9. CASE \E r \in Instances : InstanceChanges(r)
  BY <1>0, <1>2, <1>9
<1>10. CASE \E u \in Users : Rotate(u)
  BY <1>0, <1>4, <1>10
<1> QED
  BY <1>1, <1>3, <1>5, <1>6, <1>7, <1>8, <1>9, <1>10, StepFinishes
     DEF Next, Step, Environment, Tends, Interferes

-----------------------------------------------------------------------------
(* Types.                                                                  *)

LEMMA Errs ==
  ASSUME TypeOK, ToError
  PROVE  /\ work' \in Work /\ work'.pc = "setNotReady" /\ work'.id = work.id
         /\ work'.reason = "ReconcileError" /\ work'.plan = NoPlan
         /\ work'.actor = work.actor /\ work'.owner = work.owner
<1>1. work \in Work /\ NoPlan \in Plan
  BY Typed DEF TypeOK
<1> HIDE DEF NoPlan
<1> QED
  BY <1>1 DEF ToError, Work, Steps, Reasons

LEMMA Pursues ==
  ASSUME TypeOK, NEW i \in 0..MaxId, NEW plan \in Plan, Pursue(i, plan)
  PROVE  /\ work' \in Work /\ work'.id = i /\ work'.plan = plan
         /\ work'.actor = work.actor /\ work'.owner = work.owner
         /\ \/ work'.pc = "members" /\ plan # NoPlan
            \/ work'.pc = "setReady" /\ plan = NoPlan
<1>1. work \in Work
  BY DEF TypeOK
<1> HIDE DEF NoPlan
<1> QED
  BY <1>1 DEF Pursue, Work, Steps

\* The worker goes on to its next step.
LEMMA MovesOn ==
  ASSUME TypeOK, NEW pc \in Steps, work' = [work EXCEPT !.pc = pc]
  PROVE  /\ work' \in Work /\ work'.pc = pc /\ work'.id = work.id
         /\ work'.plan = work.plan /\ work'.actor = work.actor /\ work'.owner = work.owner
BY DEF TypeOK, Work

LEMMA PlanTyped ==
  ASSUME NEW members
  PROVE  PlanFor(members) \in Plan /\ work.owner \notin PlanFor(members).remove
BY DEF PlanFor, Plan, Removable

\* What a reconcile starts with.
LEMMA UpsertStarts ==
  ASSUME TInv, NEW n \in Names, ReconcileUpserts(n)
  PROVE  /\ work' \in Work /\ work'.id = cache[n].status.id /\ work'.plan = NoPlan
         /\ work'.actor \in owners /\ work'.owner \in owners
         /\ \/ work'.pc = "setNotReady" /\ work'.reason # "ReconcileSuccess"
            \/ work'.pc = "create" /\ cache[n].status.id = 0
            \/ work'.pc = "update" /\ cache[n].status.id # 0
<1> DEFINE pc == IF cache[n].status.id = 0 THEN "create" ELSE "update"
<1>1. NoWork \in Work /\ NoWork.plan = NoPlan /\ cache[n].status.id \in 0..MaxId
  BY Typed, CachedCopy
<1>2. NoWork.actor = FirstOwner /\ NoWork.owner = FirstOwner /\ FirstOwner \in owners
  BY DEF NoWork, TInv, Tokens
<1>3. {token, owner} \subseteq owners /\ owners \subseteq Users
  BY DEF TInv, TypeOK
<1>4. InstanceReason \in Reasons /\ InstanceReason # "ReconcileSuccess"
  BY DEF InstanceReason, Reasons
<1>5. \/ work' = [NoWork EXCEPT !.pc = pc, !.id = cache[n].status.id,
                                !.actor = token, !.owner = owner]
      \/ work' = [NoWork EXCEPT !.pc = "setNotReady", !.id = cache[n].status.id,
                                !.reason = InstanceReason]
  BY <1>1 DEF ReconcileUpserts, Started, Work
<1>6. pc \in Steps /\ "setNotReady" \in Steps
  BY DEF Steps
<1>7. \/ pc = "create" /\ cache[n].status.id = 0
      \/ pc = "update" /\ cache[n].status.id # 0
  OBVIOUS
<1> HIDE DEF NoWork, NoPlan, InstanceReason, pc
<1>8. CASE work' = [NoWork EXCEPT !.pc = pc, !.id = cache[n].status.id,
                                  !.actor = token, !.owner = owner]
  <2>1. work' \in Work /\ work'.pc = pc /\ work'.id = cache[n].status.id
        /\ work'.plan = NoPlan /\ work'.actor = token /\ work'.owner = owner
    BY <1>1, <1>3, <1>6, <1>8 DEF Work
  <2> QED
    BY <1>3, <1>7, <2>1
<1>9. CASE work' = [NoWork EXCEPT !.pc = "setNotReady", !.id = cache[n].status.id,
                                  !.reason = InstanceReason]
  BY <1>1, <1>2, <1>4, <1>6, <1>9 DEF Work
<1> QED
  BY <1>5, <1>8, <1>9

LEMMA DeleteStarts ==
  ASSUME TInv, NEW n \in Names, ReconcileDeletes(n)
  PROVE  /\ work' \in Work /\ work'.id = cache[n].status.id /\ work'.plan = NoPlan
         /\ work'.actor \in owners /\ work'.owner \in owners
         /\ \/ work'.pc = "release"
            \/ work'.pc = "delete" /\ cache[n].status.id # 0
<1>1. NoWork \in Work /\ NoWork.plan = NoPlan /\ cache[n].status.id \in 0..MaxId
  BY Typed, CachedCopy
<1>2. NoWork.actor = FirstOwner /\ NoWork.owner = FirstOwner /\ FirstOwner \in owners
  BY DEF NoWork, TInv, Tokens
<1>3. token \in owners /\ owners \subseteq Users
  BY DEF TInv, TypeOK
<1>4. \/ /\ cache[n].status.id # 0
         /\ work' = [NoWork EXCEPT !.pc = "delete", !.id = cache[n].status.id, !.actor = token]
      \/ work' = [NoWork EXCEPT !.pc = "release", !.id = cache[n].status.id]
  BY <1>1 DEF ReconcileDeletes, Started, Work
<1> HIDE DEF NoWork, NoPlan
<1>5. CASE /\ cache[n].status.id # 0
           /\ work' = [NoWork EXCEPT !.pc = "delete", !.id = cache[n].status.id, !.actor = token]
  BY <1>1, <1>2, <1>3, <1>5 DEF Work, Steps
<1>6. CASE work' = [NoWork EXCEPT !.pc = "release", !.id = cache[n].status.id]
  BY <1>1, <1>2, <1>6 DEF Work, Steps
<1> QED
  BY <1>4, <1>5, <1>6

LEMMA FinalizerStarts ==
  ASSUME work' = [NoWork EXCEPT !.pc = "addFinalizer"]
  PROVE  /\ work' \in Work /\ work'.pc = "addFinalizer" /\ work'.id = 0
         /\ work'.plan = NoPlan /\ work'.actor = FirstOwner /\ work'.owner = FirstOwner
<1>1. NoWork \in Work /\ NoWork.plan = NoPlan
  BY Typed
<1>2. NoWork.actor = FirstOwner /\ NoWork.owner = FirstOwner /\ NoWork.id = 0
  BY DEF NoWork
<1> HIDE DEF NoWork, NoPlan
<1> QED
  BY <1>1, <1>2 DEF Work, Steps

\* What the requests for the team itself lead to.
LEMMA CreateGoesOn ==
  ASSUME TInv, CreateTeam
  PROVE  /\ work.pc = "create" /\ UNCHANGED <<kubernetes, inst, token, owner, owners, drifts>>
         /\ \/ ToError
            \/ /\ nextId \in 1..MaxId /\ nextId' = nextId + 1 /\ Put(nextId, Made)
               /\ Pursue(nextId, PlanFor(Made.members))
<1>1. nextId <= MaxId => nextId \in 1..MaxId
  BY BoundsAssumption DEF TInv, TypeOK
<1> QED
  BY <1>1 DEF CreateTeam, Put, Made

LEMMA UpdateGoesOn ==
  ASSUME TInv, UpdateTeam
  PROVE  \/ ToError
         \/ /\ ~remote[work.id].live /\ UNCHANGED remote
            /\ work' = [work EXCEPT !.pc = "create"]
         \/ /\ Put(work.id, Updated(remote[work.id]))
            /\ Pursue(work.id, PlanFor(remote[work.id].members))
<1>1. CASE /\ remote' = [remote EXCEPT ![work.id].gen = job.obj.gen]
           /\ Pursue(work.id, PlanFor(remote[work.id].members))
  BY <1>1, UpdatePut DEF Put, Updated, TInv, TypeOK
<1> QED
  BY <1>1, UpdatePut DEF UpdateTeam

\* What a step makes of the worker.
LEMMA WorkerStep ==
  ASSUME TInv, Next
  PROVE  \/ /\ work' = work /\ job'.key = job.key /\ job'.obj = job.obj
            /\ UNCHANGED remote \/ drifts' # 0
         \/ work' = NoWork /\ (Crash \/ DeleteTeam \/ \E o : Finishes(o))
         \/ \E n \in Names : /\ Begin(n) /\ UNCHANGED world
                             /\ \/ /\ Exists(cache[n])
                                   /\ work' = [NoWork EXCEPT !.pc = "addFinalizer"]
                                \/ ReconcileUpserts(n)
                                \/ ReconcileDeletes(n)
         \/ CreateTeam
         \/ UpdateTeam
         \/ Tends
         \/ /\ work.pc = "delete" /\ work' = [work EXCEPT !.pc = "release"]
            /\ UNCHANGED <<job, nextId>>
<1>1. ASSUME NEW n \in Names, NEW s, Create(n, s) \/ Edit(n, s) \/ Delete(n)
      PROVE  /\ work' = work /\ job'.key = job.key /\ job'.obj = job.obj
             /\ UNCHANGED remote
  BY <1>1 DEF Create, Edit, Delete, UserCreates, UserEdits, UserDeletes, UserWrites,
     TInv, TypeOK, RuntimeTypeOK, Job, world
<1>2. ASSUME NEW n \in Names,
             Sync(n) \/ Requeue(n) \/ ReconcileNothing(n) \/ ReconcileFails(n)
      PROVE  work' = work /\ job' = job /\ UNCHANGED remote
  BY <1>2 DEF Sync, Deliver, Requeue, TimerFires, ReconcileNothing, Skip,
     ReconcileFails, BeginFails, world
<1>3. ASSUME NEW n \in Names,
             ReconcileAddsFinalizer(n) \/ ReconcileUpserts(n) \/ ReconcileDeletes(n)
      PROVE  /\ Begin(n) /\ UNCHANGED world
             /\ \/ Exists(cache[n]) /\ work' = [NoWork EXCEPT !.pc = "addFinalizer"]
                \/ ReconcileUpserts(n)
                \/ ReconcileDeletes(n)
  BY <1>3 DEF ReconcileAddsFinalizer, ReconcileUpserts, ReconcileDeletes
<1>4. CASE DeleteTeam
  BY <1>4 DEF DeleteTeam
<1>5. CASE Crash \/ \E o : Finishes(o)
  BY <1>5 DEF Crash, Finishes, Ends
<1>6. ASSUME NEW r, NEW u, InstanceChanges(r) \/ Rotate(u) \/ InstanceReconciles \/ Interferes
      PROVE  work' = work /\ job' = job /\ (UNCHANGED remote \/ drifts' # 0)
  <2>1. drifts \in Nat
    BY DEF TInv, TypeOK
  <2> QED
    BY <1>6, <2>1, InterferesOnly
       DEF InstanceChanges, Rotate, InstanceReconciles, Drift, kubernetes
<1> QED
  BY <1>1, <1>2, <1>3, <1>4, <1>5, <1>6, StepFinishes
     DEF Next, Step, Environment, Reconcile, Tends, Interferes

\* The worker's locals, and what it knows of tokens.
LEMMA WorkStep ==
  ASSUME TInv, Next
  PROVE  /\ work' \in Work
         /\ work'.pc # "idle" => job'.key # None
         /\ work'.pc = "members" <=> work'.plan # NoPlan
         /\ Tokens'
<1> DEFINE Sound == /\ work' \in Work
                    /\ work'.pc # "idle" => job'.key # None
                    /\ work'.pc = "members" <=> work'.plan # NoPlan
                    /\ work'.actor \in owners /\ work'.owner \in owners
                    /\ work'.owner \notin work'.plan.remove
<1>0. /\ TypeOK /\ FirstOwner \in owners /\ work.actor \in owners /\ work.owner \in owners
      /\ work.owner \notin work.plan.remove /\ NoPlan.remove = {}
  BY DEF TInv, Tokens, NoPlan
<1> SUFFICES Sound
  BY <1>0, HistoryGrows DEF Tokens
<1>1. CASE work' = work /\ job'.key = job.key
  BY <1>0, <1>1 DEF TypeOK
<1>2. CASE work' = NoWork
  <2>1. NoWork.actor = FirstOwner /\ NoWork.owner = FirstOwner
    BY DEF NoWork
  <2> QED
    BY <1>0, <1>2, <2>1, Typed
<1>3. ASSUME NEW n \in Names, Begin(n),
             \/ work' = [NoWork EXCEPT !.pc = "addFinalizer"]
             \/ ReconcileUpserts(n)
             \/ ReconcileDeletes(n)
      PROVE  Sound
  <2>1. job'.key # None
    BY <1>3, NoneAssumption DEF Begin
  <2> QED
    BY <1>0, <1>3, <2>1, UpsertStarts, DeleteStarts, FinalizerStarts
<1>4. ASSUME UNCHANGED job, work.pc # "idle",
             \/ ToError
             \/ \E i \in 0..MaxId, plan \in Plan :
                  Pursue(i, plan) /\ work.owner \notin plan.remove
             \/ \E pc \in {"create", "release"} :
                  work.pc # "members" /\ work' = [work EXCEPT !.pc = pc]
      PROVE  Sound
  <2>1. job'.key # None
    BY <1>0, <1>4 DEF TypeOK
  <2>2. {"create", "release"} \subseteq Steps
    BY DEF Steps
  <2>3. work.pc # "members" => work.plan = NoPlan
    BY <1>0 DEF TypeOK
  <2> HIDE DEF NoPlan
  <2> QED
    BY <1>0, <1>4, <2>1, <2>2, <2>3, Errs, Pursues, MovesOn
<1>5. CASE CreateTeam
  <2>1. MaxId \in Nat
    BY BoundsAssumption
  <2> QED
    BY <1>4, <1>5, <2>1, CreateGoesOn, PlanTyped DEF kubernetes
<1>6. CASE UpdateTeam
  BY <1>4, <1>6, UpdatePut, UpdateGoesOn, PlanTyped DEF kubernetes
<1>7. CASE Tends
  <2>1. work.pc = "members" /\ UNCHANGED job /\ work.id \in 0..MaxId
    BY <1>0, <1>7, TendsOnly, WorkTyped DEF kubernetes
  <2>2. \/ ToError
        \/ \E rest \in Plan : Pursue(work.id, rest) /\ work.owner \notin rest.remove
    BY <1>0, <1>7, TendsServes DEF Asks, Without
  <2> QED
    BY <1>4, <2>1, <2>2
<1>8. CASE work.pc = "delete" /\ work' = [work EXCEPT !.pc = "release"] /\ UNCHANGED job
  BY <1>4, <1>8
<1> QED
  BY <1>1, <1>2, <1>3, <1>5, <1>6, <1>7, <1>8, WorkerStep

LEMMA TypeStep == ASSUME TInv, Next PROVE TypeOK'
<1>1. RuntimeTypeOK'
  <2>1. RT!RInv'
    BY SaneConstants, StepMoves, RT!RInvStep DEF TInv
  <2> QED
    BY <2>1, SameTypes DEF RT!RInv
<1>2. remote' \in [1..MaxId -> Remote]
  <2>1. TypeOK
    BY DEF TInv
  <2>2. CASE Makes
    BY <2>1, <2>2, Rewritten, MadeTyped DEF Makes
  <2>3. CASE \E i \in 1..MaxId : Touches(i)
    BY <2>1, <2>3, Rewritten DEF Touches
  <2> QED
    BY <2>1, <2>2, <2>3, RemoteStep DEF TypeOK
<1> QED
  BY <1>1, <1>2, WorkStep, HistoryGrows, NextIdGrows DEF TypeOK

-----------------------------------------------------------------------------
(* Ids.                                                                    *)

\* The id that the worker holds is one it had, one its copy shows, or new.
LEMMA WorkersId ==
  ASSUME TInv, Next, work'.pc # "idle", work'.id # 0
  PROVE  \/ job'.obj = job.obj /\ work.pc # "idle" /\ work'.id = work.id
         \/ \E n \in Names : job'.obj = cache[n] /\ work'.id = cache[n].status.id
         \/ job'.obj = job.obj /\ work.pc = "create" /\ work'.id = nextId /\ Makes
<1>0. TypeOK /\ NoWork.pc = "idle"
  BY Typed DEF TInv
<1>1. ASSUME NEW n \in Names, Begin(n),
             \/ work' = [NoWork EXCEPT !.pc = "addFinalizer"]
             \/ ReconcileUpserts(n)
             \/ ReconcileDeletes(n)
      PROVE  job'.obj = cache[n] /\ work'.id = cache[n].status.id
  BY <1>1, UpsertStarts, DeleteStarts, FinalizerStarts DEF Begin
<1>2. CASE CreateTeam
  <2>1. CASE ToError
    BY <1>0, <1>2, <2>1, CreateGoesOn, Errs DEF kubernetes
  <2>2. CASE /\ nextId \in 1..MaxId /\ nextId' = nextId + 1 /\ Put(nextId, Made)
             /\ Pursue(nextId, PlanFor(Made.members))
    BY <1>0, <1>2, <2>2, CreateGoesOn, PlanTyped, Pursues, BoundsAssumption
       DEF Makes, kubernetes
  <2> QED
    BY <1>2, <2>1, <2>2, CreateGoesOn
<1>3. CASE UpdateTeam
  <2>1. "create" \in Steps /\ work.id \in 0..MaxId
    BY <1>0, WorkTyped DEF Steps
  <2> QED
    BY <1>0, <1>3, <2>1, UpdatePut, UpdateGoesOn, PlanTyped, Errs, Pursues, MovesOn
       DEF kubernetes
<1>4. CASE Tends
  <2>1. work.id \in 0..MaxId
    BY <1>0, WorkTyped
  <2> QED
    BY <1>0, <1>4, <2>1, TendsOnly, TendsServes, Errs, Pursues DEF kubernetes
<1>5. CASE work.pc = "delete" /\ work' = [work EXCEPT !.pc = "release"] /\ UNCHANGED job
  <2>1. "release" \in Steps
    BY DEF Steps
  <2> QED
    BY <1>0, <1>5, <2>1, MovesOn
<1> QED
  BY <1>0, <1>1, <1>2, <1>3, <1>4, <1>5, WorkerStep

\* A version that appears shows the id of the stored one, or what the worker holds.
LEMMA VersionsId ==
  ASSUME TInv, Next, NEW n \in Names, NEW c \in Object, RT!Copy(n, c)', c.status.id # 0
  PROVE  \/ RT!Copy(n, c)
         \/ \E d \in Object : RT!Copy(n, d) /\ d.status.id = c.status.id /\ d.uid = c.uid
         \/ work.pc # "idle" /\ work.id = c.status.id /\ job.obj.uid = c.uid
<1>1. RT!Copy(n, c) \/ c = api'[n]
  BY SaneConstants, SameData, StepMoves, RT!CopyStep DEF TInv, TypeOK
<1>2. api[n] \in Object /\ RT!Copy(n, api[n])
  BY StoredCopy
<1>3. CASE RT!ByUser(n) /\ c = api'[n]
  BY <1>2, <1>3, SameData, RT!UserFields DEF TInv, TypeOK, Absent, NoStatus
<1>4. CASE RT!Committed(n) /\ Written(api'[n]) /\ c = api'[n]
  <2>1. job.key = n /\ job.obj = api[n]
    BY <1>4 DEF RT!Committed
  <2> QED
    BY <1>2, <1>4, <2>1, WrittenFields DEF Written, Reported, Absent, NoStatus
<1> QED
  BY <1>1, <1>2, <1>3, <1>4, ObjectStep DEF RT!OnlyTouches

LEMMA HoldsStays ==
  ASSUME TInv, Next, NEW i, NEW u, Holds(i, u), i # 0
  PROVE  Holds(i, u)'
<1>1. i \in 1..(nextId' - 1)
  BY NextIdGrows DEF Holds
<1>2. ASSUME NEW n \in Names, NEW c \in Object, RT!Copy(n, c)', c.status.id = i
      PROVE  c.uid = u
  BY <1>2, VersionsId DEF Holds
<1>3. ASSUME work'.pc # "idle", work'.id = i
      PROVE  job'.obj.uid = u
  <2>1. i # nextId
    BY NextIdGrows DEF Holds
  <2> QED
    BY <1>3, <2>1, WorkersId, CachedCopy DEF Holds
<1> QED
  BY <1>1, <1>2, <1>3 DEF Holds

\* The id of a created team is nobody else's.
LEMMA HoldsNew ==
  ASSUME TInv, Next, Makes, NEW i, i = nextId, NEW u, u = job.obj.uid
  PROVE  Holds(i, u)'
<1>1. i \in 1..MaxId /\ nextId' = i + 1 /\ UNCHANGED <<api, cache, events, job>>
  BY DEF Makes, kubernetes
<1>2. \A n \in Names, c \in Object : RT!Copy(n, c)' => RT!Copy(n, c)
  BY <1>1 DEF RT!Copy
<1>3. \A n \in Names, c \in Object : RT!Copy(n, c) => c.status.id # i
  BY <1>1 DEF TInv, CopiesOwn, Owns, Holds
<1> QED
  BY <1>1, <1>2, <1>3 DEF Holds

-----------------------------------------------------------------------------
(* The plan of a reconcile leads to what the spec asks for.                *)

LEMMA LeadsStays ==
  ASSUME owners \subseteq owners', NEW members, NEW plan, NEW spec, Leads(members, plan, spec)
  PROVE  Leads(members, plan, spec)'
BY DEF Leads, Fits

LEMMA PlanLeads ==
  ASSUME TInv, NEW members \in [Users -> Roles], NEW spec \in [Users -> Roles],
         spec = job.obj.spec, NEW plan, plan = PlanFor(members)
  PROVE  Leads(members, plan, spec)
<1>1. work.owner \in owners
  BY DEF TInv, Tokens
<1> QED
  BY <1>1 DEF PlanFor, Removable, Leads, Fits

LEMMA AsksLeads ==
  ASSUME NEW members \in [Users -> Roles], job.obj.spec \in [Users -> Roles],
         NEW plan, NEW u \in Users, NEW role, NEW rest,
         Leads(members, plan, job.obj.spec), Asks(plan, members, u, role, rest)
  PROVE  /\ role = job.obj.spec[u]
         /\ Leads([members EXCEPT ![u] = role], rest, job.obj.spec)
<1> DEFINE spec == job.obj.spec
<1>1. role = spec[u]
  BY DEF Asks, Leads, Roles
<1>2. /\ rest.add \subseteq plan.add \ {u} /\ rest.remove \subseteq plan.remove \ {u}
      /\ rest.toggle \subseteq plan.toggle \ {u}
  BY DEF Asks, Without, Leads
<1>3. \A v \in Users \ {u} : [members EXCEPT ![u] = role][v] = members[v]
  OBVIOUS
<1>4. [members EXCEPT ![u] = role][u] = spec[u]
  BY <1>1
<1>5. ASSUME NEW v \in Users \ {u}
      PROVE  v \in plan.add \cup plan.remove \cup plan.toggle =>
               v \in rest.add \cup rest.remove \cup rest.toggle
  BY DEF Asks, Without
<1> QED
  BY <1>1, <1>2, <1>3, <1>4, <1>5 DEF Leads, Fits

-----------------------------------------------------------------------------
(* The handler.                                                            *)

LEMMA HandlerIdle ==
  ASSUME work'.pc = "idle" \/ (work'.pc = "addFinalizer" /\ work'.id = 0)
  PROVE  Handler'
BY DEF Handler

\* Nothing happens to the handler.
LEMMA HandlerQuiet ==
  ASSUME TInv, Next, work' = work, job'.obj = job.obj, UNCHANGED remote \/ drifts' # 0
  PROVE  Handler'
<1>1. work.pc # "idle" /\ work.id # 0 => Holds(work.id, job.obj.uid)'
  <2>1. PICK i, u : i = work.id /\ u = job.obj.uid
    OBVIOUS
  <2>2. work.pc # "idle" /\ i # 0 => Holds(i, u)'
    BY <2>1, HoldsStays DEF TInv, Handler
  <2> QED
    BY <2>1, <2>2 DEF Holds
<1>2. Planned => Planned'
  <2>1. PICK members, plan, spec :
          members = remote[work.id].members /\ plan = work.plan /\ spec = job.obj.spec
    OBVIOUS
  <2>2. Leads(members, plan, spec) => Leads(members, plan, spec)'
    BY HistoryGrows, LeadsStays
  <2> QED
    BY <2>1, <2>2, HistoryGrows DEF Planned, Leads, Fits
<1> QED
  BY <1>1, <1>2 DEF TInv, Handler

\* The worker starts with what its copy shows.
LEMMA HandlerStarts ==
  ASSUME TInv, Next, NEW n \in Names, Begin(n), ReconcileUpserts(n) \/ ReconcileDeletes(n)
  PROVE  Handler'
<1>1. job'.obj = cache[n] /\ Owns(cache[n])
  BY CachedCopy DEF Begin
<1>2. /\ work'.id = cache[n].status.id
      /\ \/ work'.pc = "setNotReady" /\ work'.reason # "ReconcileSuccess"
         \/ work'.pc = "create"
         \/ work'.pc = "update" /\ cache[n].status.id # 0
         \/ work'.pc = "release" /\ cache[n].deleting
         \/ work'.pc = "delete" /\ cache[n].status.id # 0 /\ cache[n].deleting
  BY UpsertStarts, DeleteStarts DEF ReconcileDeletes
<1>3. work'.id # 0 => Holds(work.id, job.obj.uid)'
  <2>1. PICK c : c = cache[n]
    OBVIOUS
  <2>2. PICK i, u : i = c.status.id /\ u = c.uid
    OBVIOUS
  <2>3. i # 0 => Holds(i, u)'
    BY <1>1, <2>1, <2>2, HoldsStays DEF Owns
  <2> QED
    BY <1>1, <1>2, <2>1, <2>2, <2>3 DEF Holds
<1> QED
  BY <1>1, <1>2, <1>3 DEF Handler

\* A request failed, as far as the worker knows.
LEMMA HandlerErrs ==
  ASSUME TInv, Next, ToError, UNCHANGED job, work.pc # "idle"
  PROVE  Handler'
<1>1. work'.pc = "setNotReady" /\ work'.id = work.id /\ work'.reason = "ReconcileError"
  BY Errs DEF TInv
<1>2. PICK i, u : i = work.id /\ u = job.obj.uid
  OBVIOUS
<1>3. i # 0 => Holds(i, u)'
  BY <1>2, HoldsStays DEF TInv, Handler
<1> QED
  BY <1>1, <1>2, <1>3 DEF Handler, Holds

\* The worker goes on with team i as r, whose members its plan is for.
LEMMA HandlerPursues ==
  ASSUME TInv, Next, UNCHANGED job, NEW i \in 1..MaxId, NEW r, remote'[i] = r,
         NEW u, u = job.obj.uid, Holds(i, u)',
         NEW plan \in Plan, Pursue(i, plan),
         drifts = 0 /\ r.live => r.gen = job.obj.gen /\ Leads(r.members, plan, job.obj.spec)
  PROVE  Handler'
<1>1. /\ work'.id = i /\ work'.plan = plan
      /\ \/ work'.pc = "members"
         \/ work'.pc = "setReady"
  BY Pursues, BoundsAssumption DEF TInv
<1>2. Holds(work.id, job.obj.uid)'
  BY <1>1 DEF Holds
<1>3. PICK members, spec : members = r.members /\ spec = job.obj.spec
  OBVIOUS
<1>4. Leads(members, plan, spec) => Leads(members, plan, spec)'
  BY HistoryGrows, LeadsStays
<1>5. Planned'
  BY <1>1, <1>3, <1>4, HistoryGrows DEF Planned, Leads, Fits
<1> QED
  BY <1>1, <1>2, <1>5 DEF Handler

LEMMA HandlerCreates == ASSUME TInv, Next, CreateTeam PROVE Handler'
<1>1. work.pc = "create" /\ UNCHANGED job
  BY CreateGoesOn DEF kubernetes
<1>2. CASE ToError
  BY <1>1, <1>2, HandlerErrs
<1>3. CASE ~ToError
  <2>1. PICK i, u : i = nextId /\ u = job.obj.uid
    OBVIOUS
  <2>2. /\ Makes /\ i \in 1..MaxId /\ Put(i, Made)
        /\ Pursue(i, PlanFor(Made.members))
    BY <1>3, <2>1, CreateGoesOn DEF Makes
  <2>3. /\ Made.gen = job.obj.gen /\ Made.members \in [Users -> Roles]
        /\ job.obj.spec \in [Users -> Roles]
    BY <1>1, MadeTyped, WorkersCopy
  <2>4. Leads(Made.members, PlanFor(Made.members), job.obj.spec)
    BY <2>3, PlanLeads
  <2>5. Holds(i, u)'
    BY <2>1, <2>2, HoldsNew
  <2>6. remote'[i] = Made
    BY <2>2, Rewritten DEF TInv
  <2>7. PICK r, plan : r = Made /\ plan = PlanFor(Made.members)
    OBVIOUS
  <2>8. plan \in Plan
    BY <2>7, PlanTyped
  <2> QED
    BY <1>1, <2>1, <2>2, <2>3, <2>4, <2>5, <2>6, <2>7, <2>8, HandlerPursues
<1> QED
  BY <1>2, <1>3

LEMMA HandlerUpdates == ASSUME TInv, Next, UpdateTeam PROVE Handler'
<1>1. /\ work.pc = "update" /\ UNCHANGED job /\ work.id = job.obj.status.id
      /\ work.id \in 1..MaxId /\ remote[work.id] \in Remote
  BY UpdatePut DEF kubernetes
<1>2. PICK i, u : i = work.id /\ u = job.obj.uid
  OBVIOUS
<1>3. Holds(i, u)'
  BY <1>1, <1>2, HoldsStays DEF TInv, Handler
<1>4. CASE ToError
  BY <1>1, <1>4, HandlerErrs
<1>5. CASE work' = [work EXCEPT !.pc = "create"]
  <2>1. work'.pc = "create" /\ work'.id = work.id
    BY <1>5, MovesOn DEF Steps, TInv
  <2> QED
    BY <1>1, <1>2, <1>3, <2>1 DEF Handler, Holds
<1>6. CASE /\ Put(i, Updated(remote[i]))
           /\ Pursue(i, PlanFor(remote[i].members))
  <2>1. PICK q, r, plan :
          q = remote[i] /\ r = Updated(q) /\ plan = PlanFor(q.members)
    OBVIOUS
  <2>2. /\ r.gen = job.obj.gen /\ r.members = q.members /\ q.members \in [Users -> Roles]
        /\ job.obj.spec \in [Users -> Roles]
    BY <1>1, <1>2, <2>1, UpdatedTyped, WorkersCopy DEF Remote
  <2>3. Leads(r.members, plan, job.obj.spec) /\ plan \in Plan
    BY <2>1, <2>2, PlanLeads, PlanTyped
  <2>4. remote'[i] = r
    BY <1>1, <1>2, <1>6, <2>1, Rewritten DEF TInv
  <2> QED
    BY <1>1, <1>2, <1>3, <1>6, <2>1, <2>2, <2>3, <2>4, HandlerPursues
<1> QED
  BY <1>2, <1>4, <1>5, <1>6, UpdateGoesOn

LEMMA HandlerTends == ASSUME TInv, Next, Tends PROVE Handler'
<1>1. work.pc = "members" /\ UNCHANGED job
  BY TendsOnly DEF kubernetes
<1>2. CASE ToError
  BY <1>1, <1>2, HandlerErrs
<1>3. CASE ~ToError
  <2>1. PICK v \in Users, role \in Roles, rest \in Plan :
          /\ Manages(work.id)
          /\ Put(work.id, Given(remote[work.id], v, role))
          /\ Asks(work.plan, remote[work.id].members, v, role, rest)
          /\ Pursue(work.id, rest)
    BY <1>3, TendsServes
  <2>2. PICK i, u, q, r, plan : /\ i = work.id /\ u = job.obj.uid /\ q = remote[i]
                                /\ r = Given(q, v, role) /\ plan = work.plan
    OBVIOUS
  <2>3. i \in 1..MaxId /\ Planned /\ Holds(i, u)
    BY <1>1, <2>2, WorkTyped DEF TInv, Handler
  <2>4. q \in Remote /\ job.obj.spec \in [Users -> Roles]
    BY <1>1, <2>2, <2>3, WorkersCopy DEF TInv, TypeOK
  <2>5. /\ r.live = q.live /\ r.gen = q.gen /\ r.members = [q.members EXCEPT ![v] = role]
        /\ q.members \in [Users -> Roles]
    <3>1. r = Given(q, v, role)
      BY <2>2
    <3>2. q.members \in [Users -> Roles]
      BY <2>4 DEF Remote
    <3> QED
      BY <2>4, <3>1, <3>2, GivenTyped
  <2>6. Holds(i, u)'
    BY <2>3, HoldsStays
  <2>7. remote'[i] = r
    BY <2>1, <2>2, <2>3, Rewritten DEF TInv
  <2>8. drifts = 0 /\ q.live => q.gen = job.obj.gen /\ Leads(q.members, plan, job.obj.spec)
    BY <2>2, <2>3 DEF Planned
  <2>9. drifts = 0 /\ r.live => r.gen = job.obj.gen /\ Leads(r.members, rest, job.obj.spec)
    BY <2>1, <2>2, <2>4, <2>5, <2>8, AsksLeads
  <2> QED
    BY <1>1, <2>1, <2>2, <2>3, <2>6, <2>7, <2>9, HandlerPursues
<1> QED
  BY <1>2, <1>3

LEMMA HandlerStep == ASSUME TInv, Next PROVE Handler'
<1>1. CASE work' = NoWork
  BY <1>1, HandlerIdle, Typed
<1>2. CASE work' = [NoWork EXCEPT !.pc = "addFinalizer"]
  BY <1>2, HandlerIdle, FinalizerStarts
<1>3. CASE work.pc = "delete" /\ work' = [work EXCEPT !.pc = "release"] /\ UNCHANGED job
  <2>1. work'.pc = "release" /\ work'.id = work.id
    BY <1>3, MovesOn DEF Steps, TInv
  <2>2. PICK i, u : i = work.id /\ u = job.obj.uid
    OBVIOUS
  <2>3. Holds(i, u)' /\ job.obj.deleting
    BY <1>3, <2>2, HoldsStays DEF TInv, Handler
  <2> QED
    BY <1>3, <2>1, <2>2, <2>3 DEF Handler, Holds
<1> QED
  BY <1>1, <1>2, <1>3, HandlerQuiet, HandlerStarts, HandlerCreates, HandlerUpdates,
     HandlerTends, WorkerStep

-----------------------------------------------------------------------------
(* What versions show.                                                     *)

LEMMA CopiesStep == ASSUME TInv, Next PROVE CopiesOwn'
<1> SUFFICES ASSUME NEW n \in Names, NEW c \in Object, RT!Copy(n, c)', c.status.id # 0
             PROVE  Holds(c.status.id, c.uid)'
  BY DEF CopiesOwn, Owns, Holds
<1>1. PICK i, u : i = c.status.id /\ u = c.uid
  OBVIOUS
<1>2. Holds(i, u)
  BY <1>1, VersionsId DEF TInv, CopiesOwn, Owns, Handler
<1>3. Holds(i, u)'
  BY <1>1, <1>2, HoldsStays
<1> QED
  BY <1>1, <1>3 DEF Holds

LEMMA NotAheadStep == ASSUME TInv, Next PROVE NotAhead'
<1> SUFFICES ASSUME NEW n \in Names PROVE api'[n].status.observed <= api'[n].gen
  BY DEF NotAhead
<1>1. /\ api[n].gen \in Nat /\ api[n].status.observed \in Nat
      /\ api[n].status.observed <= api[n].gen
  BY StoredCopy DEF TInv, NotAhead
<1>2. CASE RT!ByUser(n)
  BY <1>1, <1>2, SameData, RT!UserFields DEF TInv, TypeOK, Absent, NoStatus
<1>3. CASE Written(api'[n]) /\ RT!Committed(n)
  BY <1>1, <1>3, WrittenFields DEF RT!Committed, Reported, Absent, NoStatus
<1> QED
  BY <1>1, <1>2, <1>3, ObjectStep DEF RT!OnlyTouches

-----------------------------------------------------------------------------
(* Ready means applied.                                                    *)

\* What becomes Ready, or stays so, in a step.
LEMMA ReadyStep ==
  ASSUME TInv, Next, NEW n \in Names, Ready(api'[n])
  PROVE  \/ /\ Ready(api[n]) /\ api'[n].uid = api[n].uid /\ api'[n].gen = api[n].gen
            /\ api'[n].spec = api[n].spec /\ api'[n].status = api[n].status
         \/ /\ n = job.key /\ RT!Committed(n) /\ UNCHANGED world
            /\ api'[n].uid = job.obj.uid /\ api'[n].gen = job.obj.gen
            /\ api'[n].spec = job.obj.spec
            /\ work.pc = "setReady" /\ api'[n].status = Reported("ReconcileSuccess")
<1>1. /\ api[n].gen \in Nat /\ api[n].status.observed \in Nat
      /\ api[n].status.observed <= api[n].gen
  BY StoredCopy DEF TInv, NotAhead
<1>2. CASE api'[n] = api[n]
  BY <1>2
<1>3. CASE RT!ByUser(n)
  BY <1>1, <1>3, SameData, RT!UserFields DEF TInv, TypeOK, Ready, Absent, NoStatus
<1>4. CASE n = job.key /\ RT!Committed(n) /\ Written(api'[n]) /\ UNCHANGED world
  BY <1>4, WrittenFields DEF RT!Committed, Ready, Reported, Absent, NoStatus, TInv, Handler
<1> QED
  BY <1>2, <1>3, <1>4, ObjectStep DEF RT!OnlyTouches

LEMMA ReadyIsNewestStep == ASSUME TInv, Next PROVE ReadyIsNewest'
<1> SUFFICES ASSUME NEW n \in Names, NEW c \in Object, Ready(api'[n]), RT!Copy(n, c)',
                    c.uid = api'[n].uid
             PROVE  c.gen = api'[n].gen
  BY DEF ReadyIsNewest, Ready
<1>1. RT!Copy(n, c) \/ c = api'[n]
  BY SaneConstants, SameData, StepMoves, RT!CopyStep DEF TInv, TypeOK
<1>2. CASE RT!Committed(n) /\ api'[n].gen = job.obj.gen
  BY <1>1, <1>2 DEF RT!Committed
<1> QED
  BY <1>1, <1>2, ReadyStep DEF TInv, ReadyIsNewest

\* Team r has the contents and the members of a generation.
Has(r, gen, spec) ==
  r.live => r.gen = gen /\ \A u \in Users : Fits(u, r.members[u], spec[u])

\* The request of a worker that works for what is Ready already changes nothing
\* of what was applied.
LEMMA WorksKeeps ==
  ASSUME TInv, drifts = 0, NEW n \in Names, Ready(api[n]),
         NEW i \in 1..MaxId, i = api[n].status.id, Works(i, remote'[i])
  PROVE  Has(remote'[i], api[n].gen, api[n].spec)
<1>1. /\ i = work.id /\ work.pc \in {"update", "members"} /\ work.pc # "idle"
      /\ remote[i].live /\ remote[i] \in Remote /\ i # 0
  BY DEF Works, Manages, TInv, TypeOK
<1>2. /\ job.key \in Names /\ job.obj \in Object /\ RT!Copy(job.key, job.obj)
      /\ Exists(job.obj) /\ job.obj.spec \in [Users -> Roles]
  BY <1>1, WorkersCopy
<1>3. api[n] \in Object /\ RT!Copy(n, api[n])
  BY StoredCopy
<1>4. job.obj.uid = api[n].uid
  BY <1>1, <1>3 DEF TInv, Handler, Holds
<1>5. job.key = n
  BY <1>2, <1>3, <1>4, SameData DEF TInv, RT!RInv, RT!OneName
<1>6. job.obj.gen = api[n].gen
  BY <1>2, <1>4, <1>5 DEF TInv, ReadyIsNewest
<1>7. job.obj.spec = api[n].spec
  BY <1>2, <1>4, <1>5, <1>6, SameData DEF TInv, RT!RInv, RT!Versions, RT!Version
<1>8. PICK q, r, spec, plan : /\ q = remote[i] /\ r = remote'[i] /\ spec = api[n].spec
                              /\ plan = work.plan
  OBVIOUS
<1>9. q.gen = api[n].gen /\ \A v \in Users : Fits(v, q.members[v], spec[v])
  BY <1>1, <1>8 DEF TInv, ReadyMeansApplied, Fits
<1>10. CASE work.pc = "update"
  <2>1. r = Updated(q)
    BY <1>8, <1>10 DEF Works
  <2>2. r.gen = job.obj.gen /\ r.members = q.members
    BY <1>1, <1>8, <2>1, UpdatedTyped
  <2> QED
    BY <1>6, <1>8, <1>9, <2>2 DEF Has
<1>11. CASE work.pc = "members"
  <2>1. PICK u \in Users, role \in Roles, rest \in Plan :
          Asks(plan, q.members, u, role, rest) /\ r = Given(q, u, role)
    BY <1>8, <1>11 DEF Works
  <2>2. /\ q.members \in [Users -> Roles]
        /\ r.gen = q.gen /\ r.members = [q.members EXCEPT ![u] = role]
    <3>1. q \in Remote
      BY <1>1, <1>8
    <3>2. q.members \in [Users -> Roles]
      BY <3>1 DEF Remote
    <3> QED
      BY <2>1, <3>1, <3>2, GivenTyped
  <2>3. Leads(q.members, plan, spec)
    BY <1>1, <1>7, <1>8, <1>11 DEF TInv, Handler, Planned
  <2>4. spec \in [Users -> Roles] /\ spec = job.obj.spec
    BY <1>2, <1>7, <1>8
  <2>5. role = spec[u]
    <3>1. PICK members \in [Users -> Roles] : members = q.members
      BY <2>2
    <3>2. Leads(members, plan, spec) /\ Asks(plan, members, u, role, rest)
      BY <2>1, <2>3, <3>1
    <3> QED
      BY <1>2, <2>4, <3>2, AsksLeads
  <2>6. \A v \in Users : r.members[v] = q.members[v] \/ r.members[v] = spec[v]
    BY <2>2, <2>5
  <2>7. \A v \in Users : Fits(v, r.members[v], spec[v])
    BY <1>9, <2>6 DEF Fits
  <2> QED
    BY <1>8, <1>9, <2>2, <2>7 DEF Has
<1> QED
  BY <1>1, <1>10, <1>11

LEMMA AppliedStays ==
  ASSUME TInv, Next, drifts' = 0, NEW n \in Names, Ready(api[n]),
         NEW i, i = api[n].status.id, NEW r, r = remote'[i],
         NEW gen, gen = api[n].gen, NEW spec, spec = api[n].spec
  PROVE  i # 0 /\ Has(r, gen, spec)'
<1>1. drifts = 0 /\ owners \subseteq owners'
  BY HistoryGrows
<1>2. i # 0 /\ Has(remote[i], gen, spec)
  BY <1>1 DEF TInv, ReadyMeansApplied, Has, Fits
<1>3. i \in 1..(nextId - 1)
  BY <1>2, StoredCopy DEF Owns, Holds
<1>4. i \in 1..MaxId
  BY <1>3, BoundsAssumption DEF TInv, TypeOK
<1>5. Has(r, gen, spec)
  <2>1. CASE r = remote[i]
    BY <1>2, <2>1
  <2>2. CASE r = NoTeam
    BY <2>2 DEF Has, NoTeam
  <2>3. CASE Works(i, r)
    BY <1>1, <1>4, <2>3, WorksKeeps
  <2> QED
    BY <1>3, <2>1, <2>2, <2>3, TeamStep
<1> QED
  BY <1>1, <1>2, <1>5 DEF Has, Fits

\* A plan with no request left leads to what the team has.
LEMMA PlanDone ==
  ASSUME NEW members, NEW spec, Leads(members, NoPlan, spec)
  PROVE  \A u \in Users : Fits(u, members[u], spec[u])
BY DEF NoPlan, Leads

LEMMA AppliedStep == ASSUME TInv, Next PROVE ReadyMeansApplied'
<1> SUFFICES ASSUME NEW n \in Names, Ready(api'[n]), drifts' = 0,
                    NEW i, i = api'[n].status.id, NEW r, r = remote'[i],
                    NEW gen, gen = api'[n].gen, NEW spec, spec = api'[n].spec
             PROVE  i # 0 /\ Has(r, gen, spec)'
  BY DEF ReadyMeansApplied, Ready, Has, Fits
<1>1. CASE /\ Ready(api[n]) /\ api'[n].gen = api[n].gen
           /\ api'[n].spec = api[n].spec /\ api'[n].status = api[n].status
  BY <1>1, AppliedStays
<1>2. CASE /\ UNCHANGED world
           /\ api'[n].gen = job.obj.gen /\ api'[n].spec = job.obj.spec
           /\ work.pc = "setReady" /\ api'[n].status = Reported("ReconcileSuccess")
  <2>1. /\ work.id # 0 /\ Planned /\ work.plan = NoPlan /\ i = work.id
    BY <1>2 DEF TInv, TypeOK, Handler, Reported
  <2>2. r = remote[i] /\ drifts = 0 /\ owners' = owners
    BY <1>2 DEF world
  <2>3. Has(r, gen, spec)
    BY <1>2, <2>1, <2>2, PlanDone DEF Planned, Has
  <2> QED
    BY <2>1, <2>2, <2>3 DEF Has, Fits
<1> QED
  BY <1>1, <1>2, ReadyStep

-----------------------------------------------------------------------------
(* The operator's place in its teams.                                      *)

LEMMA OwnerStep == ASSUME TInv, Next PROVE OwnerStays'
<1> SUFFICES ASSUME owners' = {token'}, drifts' = 0, NEW i \in 1..MaxId, remote'[i].live
             PROVE  remote'[i].members[token'] # "out"
  BY DEF OwnerStays
<1>1. /\ owners = {token} /\ token' = token /\ drifts = 0
      /\ work.actor = token /\ work.owner = token
  BY HistoryGrows DEF TInv, Tokens
<1>2. token \in Users /\ TypeOK
  BY DEF TInv, TypeOK
<1>3. PICK t, q, r : t = token /\ q = remote[i] /\ r = remote'[i]
  OBVIOUS
<1>4. q \in Remote /\ (q.live => q.members[t] # "out")
  BY <1>1, <1>2, <1>3 DEF TInv, OwnerStays, TypeOK
<1>5. CASE q = r
  BY <1>1, <1>3, <1>4, <1>5
<1>6. CASE Makes /\ i = nextId
  <2>1. r = Made /\ work.pc # "idle"
    BY <1>2, <1>3, <1>6, Rewritten DEF Makes
  <2>2. Made.members = [Nobody EXCEPT ![t] = "admin"] /\ Nobody \in [Users -> Roles]
    BY <1>1, <1>3, <2>1, MadeTyped, Typed
  <2> QED
    BY <1>1, <1>2, <1>3, <2>1, <2>2
<1>7. CASE Works(i, r)
  <2>1. q.live /\ i = work.id /\ work.pc \in {"update", "members"} /\ work.pc # "idle"
    BY <1>3, <1>7 DEF Works, Manages
  <2>2. CASE work.pc = "update"
    <3>1. r.members = q.members
      BY <1>3, <1>4, <1>7, <2>1, <2>2, UpdatedTyped DEF Works
    <3> QED
      BY <1>1, <1>3, <1>4, <2>1, <3>1
  <2>3. CASE work.pc = "members"
    <3>1. PICK plan, spec : plan = work.plan /\ spec = job.obj.spec
      OBVIOUS
    <3>2. PICK u \in Users, role \in Roles, rest \in Plan :
            Asks(plan, q.members, u, role, rest) /\ r = Given(q, u, role)
      BY <1>3, <1>7, <2>3, <3>1 DEF Works
    <3>3. q.members \in [Users -> Roles]
      BY <1>4 DEF Remote
    <3>4. r.members = [q.members EXCEPT ![u] = role]
      BY <1>4, <3>2, GivenTyped
    <3>5. Leads(q.members, plan, spec) /\ t \notin plan.remove
      BY <1>1, <1>3, <2>1, <2>3, <3>1 DEF TInv, Handler, Planned, Tokens
    <3>6. u = t => role # "out"
      BY <1>2, <1>3, <3>1, <3>2, <3>5 DEF Asks, Leads
    <3>7. r.members[t] = IF u = t THEN role ELSE q.members[t]
      BY <1>2, <1>3, <3>3, <3>4
    <3> QED
      BY <1>1, <1>3, <1>4, <2>1, <3>6, <3>7
  <2> QED
    BY <2>1, <2>2, <2>3
<1>8. CASE r = NoTeam
  BY <1>3, <1>8 DEF NoTeam
<1>9. CASE Makes /\ i # nextId
  BY <1>2, <1>3, <1>5, <1>9, Rewritten DEF Makes
<1>10. ASSUME NEW k \in 1..MaxId, Touches(k)
       PROVE  q = r \/ r = NoTeam \/ Works(i, r)
  <2>1. PICK p : Put(k, p) /\ (p = NoTeam \/ Works(k, p))
    BY <1>10 DEF Touches
  <2> QED
    BY <1>2, <1>3, <2>1, Rewritten
<1> QED
  BY <1>3, <1>5, <1>6, <1>7, <1>8, <1>9, <1>10, RemoteStep

-----------------------------------------------------------------------------
(* The theorems.                                                           *)

LEMMA TInvStep == ASSUME TInv, Next PROVE TInv'
<1>1. RT!RInv'
  BY SaneConstants, StepMoves, RT!RInvStep DEF TInv
<1> QED
  BY <1>1, TypeStep, HandlerStep, CopiesStep, WorkStep, NotAheadStep, ReadyIsNewestStep,
     AppliedStep, OwnerStep DEF TInv

LEMMA TInvStutters == ASSUME TInv, UNCHANGED vars PROVE TInv'
<1>1. /\ UNCHANGED <<api, cache, events, queue, timers, job, lastUid, faults>>
      /\ UNCHANGED <<work, remote, nextId, inst, token, owner, owners, drifts>>
  BY DEF vars, kubernetes, world
<1>2. RT!RInv'
  <2>1. RT!Elsewhere
    BY <1>1 DEF RT!Elsewhere, TInv, TypeOK, RuntimeTypeOK
  <2> QED
    BY <2>1, SaneConstants, RT!RInvStep DEF RT!Move, TInv
<1>3. TypeOK'
  BY <1>1 DEF TInv, TypeOK, RuntimeTypeOK
<1>4. \A n, c : RT!Copy(n, c)' <=> RT!Copy(n, c)
  BY <1>1 DEF RT!Copy
<1>5. CopiesOwn' /\ ReadyIsNewest'
  BY <1>1, <1>4 DEF TInv, CopiesOwn, Owns, Holds, ReadyIsNewest, Ready
<1>6. Handler'
  BY <1>1, <1>4 DEF TInv, Handler, Holds, Planned, Leads, Fits
<1>7. Tokens' /\ NotAhead' /\ ReadyMeansApplied' /\ OwnerStays'
  BY <1>1 DEF TInv, Tokens, NotAhead, ReadyMeansApplied, Ready, OwnerStays
<1> QED
  BY <1>2, <1>3, <1>5, <1>6, <1>7 DEF TInv

\* The inductive invariant of the Team controller: whose teams the recorded ids
\* are, and what the requests that are left to send lead to.
THEOREM TInvHolds == Spec => []TInv
<1>1. TInv /\ [Next]_vars => TInv'
  BY TInvStep, TInvStutters
<1> QED
  BY <1>1, InitHolds, PTL DEF Spec

\* Every variable of the Team controller keeps its type; a busy worker works for
\* a name, and has requests left exactly while it is busy with members.
THEOREM TypeCorrect == Spec => []TypeOK
BY TInvHolds, PTL DEF TInv

\* A Team that reports Ready for its generation has in Vikunja that generation's
\* contents and members, with their roles, unless another client interfered; only
\* users that the token belongs or belonged to may be members besides.
THEOREM ReadyIsApplied == Spec => []ReadyMeansApplied
BY TInvHolds, PTL DEF TInv

\* As long as the token is one user's and no other client interferes, that user is
\* in every team, whatever the specs list.
THEOREM OwnerIsKept == Spec => []OwnerStays
BY TInvHolds, PTL DEF TInv

-----------------------------------------------------------------------------
(* No team is forgotten.                                                   *)

\* Vikunja has nothing under an id that it gave.
Spent(id) == id # 0 => ~remote[id].live

\* The worker has the id that its copy shows, or one it got because Vikunja has
\* nothing under that one.
Tracks ==
  LET shown == job.obj.status.id IN
  /\ work.pc \in {"idle", "addFinalizer"} => work.id = 0
  /\ work.pc \in {"create", "update", "delete", "release"} => work.id = shown
  /\ work.pc = "create" => Spent(shown)
  /\ work.pc \in {"members", "setReady", "setNotReady"} => work.id = shown \/ Spent(shown)

\* Only a create brings a team to life.
LEMMA ComesToLife ==
  ASSUME TInv, Next, NEW i \in 1..MaxId, ~remote[i].live, remote'[i].live
  PROVE  CreateTeam /\ Makes /\ i = nextId
<1>1. TypeOK
  BY DEF TInv
<1>2. ASSUME Makes, i # nextId
      PROVE  FALSE
  BY <1>1, <1>2, Rewritten DEF Makes
<1>3. ASSUME NEW k \in 1..MaxId, Touches(k)
      PROVE  FALSE
  <2>1. PICK r \in Remote : Put(k, r) /\ (r.live => remote[k].live)
    BY <1>3 DEF Touches
  <2> QED
    BY <1>1, <2>1, Rewritten
<1> QED
  BY <1>2, <1>3, RemoteStep

LEMMA StaysSpent ==
  ASSUME TInv, Next, work.pc # "idle", Spent(job.obj.status.id), job'.obj = job.obj
  PROVE  Spent(job.obj.status.id)'
<1>1. PICK id : id = job.obj.status.id
  OBVIOUS
<1>2. ASSUME id # 0
      PROVE  ~remote'[id].live
  <2>1. id \in 1..(nextId - 1) /\ id \in 1..MaxId
    BY <1>1, <1>2, WorkersCopy DEF Owns, Holds
  <2>2. id # nextId
    BY <2>1 DEF TInv, TypeOK
  <2> QED
    BY <1>1, <1>2, <2>1, <2>2, ComesToLife DEF Spent
<1> QED
  BY <1>1, <1>2 DEF Spent

LEMMA TracksStep == ASSUME TInv, Tracks, Next PROVE Tracks'
<1>0. TypeOK /\ NoWork.pc = "idle" /\ NoWork.id = 0
  BY DEF TInv, NoWork
<1>1. CASE work' = work /\ job'.obj = job.obj
  BY <1>1, StaysSpent DEF Tracks
<1>2. CASE work' = NoWork
  BY <1>0, <1>2 DEF Tracks
<1>3. ASSUME NEW n \in Names, Begin(n),
             \/ work' = [NoWork EXCEPT !.pc = "addFinalizer"]
             \/ ReconcileUpserts(n)
             \/ ReconcileDeletes(n)
      PROVE  Tracks'
  <2>1. job'.obj = cache[n]
    BY <1>3 DEF Begin
  <2> QED
    BY <1>3, <2>1, UpsertStarts, DeleteStarts, FinalizerStarts DEF Tracks, Spent
<1>4. CASE CreateTeam
  <2>1. work.id = job.obj.status.id /\ Spent(job.obj.status.id) /\ job' = job
    BY <1>4, CreateGoesOn DEF Tracks, kubernetes
  <2>2. CASE ToError
    BY <1>0, <2>1, <2>2, Errs DEF Tracks
  <2>3. CASE nextId \in 1..MaxId /\ Pursue(nextId, PlanFor(Made.members))
    <3>1. Spent(job.obj.status.id)'
      BY <1>4, <2>1, StaysSpent, CreateGoesOn
    <3>2. work'.pc \in {"members", "setReady"}
      BY <1>0, <2>3, PlanTyped, Pursues, BoundsAssumption
    <3> QED
      BY <3>1, <3>2 DEF Tracks
  <2> QED
    BY <1>4, <2>2, <2>3, CreateGoesOn
<1>5. CASE UpdateTeam
  <2>1. work.id = job.obj.status.id /\ job' = job /\ work.id \in 0..MaxId
    BY <1>5, UpdatePut DEF kubernetes
  <2>2. CASE ToError
    BY <1>0, <2>1, <2>2, Errs DEF Tracks
  <2>3. CASE ~remote[work.id].live /\ UNCHANGED remote /\ work' = [work EXCEPT !.pc = "create"]
    <3>1. work'.pc = "create" /\ work'.id = work.id
      BY <1>0, <2>3, MovesOn DEF Steps
    <3> QED
      BY <2>1, <2>3, <3>1 DEF Tracks, Spent
  <2>4. CASE Pursue(work.id, PlanFor(remote[work.id].members))
    <3>1. work'.pc \in {"members", "setReady"} /\ work'.id = work.id
      BY <1>0, <2>1, <2>4, PlanTyped, Pursues
    <3> QED
      BY <2>1, <3>1 DEF Tracks
  <2> QED
    BY <1>5, <2>2, <2>3, <2>4, UpdateGoesOn
<1>6. CASE Tends
  <2>1. work.pc = "members" /\ job' = job /\ work.id \in 0..MaxId
    BY <1>0, <1>6, TendsOnly, WorkTyped DEF kubernetes
  <2>2. work'.pc \in {"members", "setReady", "setNotReady"} /\ work'.id = work.id
    BY <1>0, <1>6, <2>1, TendsServes, Errs, Pursues
  <2>3. work'.id = job'.obj.status.id \/ Spent(job.obj.status.id)'
    BY <2>1, <2>2, StaysSpent DEF Tracks
  <2> QED
    BY <2>2, <2>3 DEF Tracks
<1>7. CASE work.pc = "delete" /\ work' = [work EXCEPT !.pc = "release"] /\ UNCHANGED job
  <2>1. work'.pc = "release" /\ work'.id = work.id
    BY <1>0, <1>7, MovesOn DEF Steps
  <2> QED
    BY <1>7, <2>1 DEF Tracks
<1> QED
  BY <1>1, <1>2, <1>3, <1>4, <1>5, <1>6, <1>7, WorkerStep

\* The ways in which an id is lost.
LosesAnswer(i) == ~remote[i].live /\ faults' # faults
WriteFails == job # Idle /\ job' = Idle /\ (faults' # faults \/ ~job.current)
ObjectEnds(i) == \E n \in Names : api[n].status.id = i /\ api'[n].uid # api[n].uid

LEMMA BusyJob ==
  ASSUME TInv, work.pc # "idle"
  PROVE  /\ job # Idle /\ job.key \in Names
         /\ job.current => job.obj = api[job.key]
         /\ job.obj.uid # 0
<1>1. job.key # None /\ Idle.key = None
  BY DEF TInv, TypeOK, Idle
<1> QED
  BY <1>1, WorkersCopy DEF TInv, RT!RInv, RT!Follows, Exists

\* The reconcile that holds the id ends.
LEMMA EndForgets ==
  ASSUME TInv, Tracks, NEW i \in 1..MaxId, Forgets(i), work.id = i,
         Crash \/ DeleteTeam \/ \E o : Finishes(o), work' = NoWork
  PROVE  WriteFails \/ ObjectEnds(i)
<1>1. work.pc # "idle" /\ faults \in Nat /\ TypeOK /\ NoWork.pc = "idle"
  BY Typed DEF Tracks, TInv, TypeOK, RuntimeTypeOK
<1>2. CASE Crash
  BY <1>1, <1>2, BusyJob DEF Crash, Restart, Fault, WriteFails
<1>3. CASE DeleteTeam
  <2>1. work.pc = "delete" /\ job.obj.status.id = i /\ api' = api
    BY <1>3 DEF DeleteTeam, Tracks
  <2>2. ASSUME Gone(i)
        PROVE  FALSE
    <3>1. remote'[i] = NoTeam
      BY <1>1, <2>2, Rewritten DEF Gone, Put
    <3> QED
      BY <3>1 DEF NoTeam, Forgets
  <2>3. job' = Idle /\ (Fault \/ UNCHANGED faults)
    <3>1. "release" # NoWork.pc
      BY <1>1
    <3> QED
      BY <1>3, <2>1, <2>2 DEF DeleteTeam, Return
  <2>4. ~job.current
    BY <1>1, <2>1, BusyJob DEF Forgets, Known
  <2> QED
    BY <1>1, <2>3, <2>4, BusyJob DEF WriteFails
<1>4. ASSUME NEW o, Finishes(o)
      PROVE  WriteFails \/ ObjectEnds(i)
  <2>1. PICK again : Written(o) /\ Commit(o, again)
    BY <1>4 DEF Finishes, Ends
  <2>2. CASE job.current /\ api' = [api EXCEPT ![job.key] = o]
    <3>1. job.key \in Names /\ api'[job.key] = o /\ job.obj = api[job.key]
      BY <1>1, <2>2, BusyJob DEF TypeOK, RuntimeTypeOK
    <3>2. o.status.id # i
      BY <3>1 DEF Forgets, Known
    <3>3. work.pc = "release" /\ o = Absent
      <4>1. job.obj \in Object /\ work.pc # "addFinalizer"
        BY <1>1, WorkersCopy DEF Tracks
      <4> QED
        BY <2>1, <3>2, <4>1 DEF Written, Reported, Object
    <3>4. api[job.key].status.id = i /\ api'[job.key].uid = 0 /\ api[job.key].uid # 0
      BY <1>1, <3>1, <3>3, BusyJob DEF Tracks, Absent
    <3> QED
      BY <3>1, <3>4 DEF ObjectEnds
  <2>3. CASE job' = Idle /\ (Fault \/ ~job.current)
    BY <1>1, <2>3, BusyJob DEF WriteFails, Fault
  <2> QED
    BY <2>1, <2>2, <2>3 DEF Commit, Store, Return
<1> QED
  BY <1>2, <1>3, <1>4

\* The worker has the id, and a step of it takes it away.
LEMMA WorkerForgets ==
  ASSUME TInv, Tracks, Next, NEW i \in 1..MaxId, Forgets(i), remote[i].live, work.id = i
  PROVE  WriteFails \/ ObjectEnds(i)
<1>1. work'.id # i /\ work.pc # "idle" /\ TypeOK
  BY DEF Forgets, Known, Tracks, TInv
<1>2. ASSUME NEW n, Begin(n)
      PROVE  FALSE
  BY <1>1, <1>2, BusyJob DEF Begin
<1>3. CASE CreateTeam
  <2>1. work.pc = "create"
    BY <1>3, CreateGoesOn
  <2> QED
    BY <2>1 DEF Tracks, Spent
<1>4. CASE UpdateTeam
  <2>1. work.id \in 0..MaxId /\ "create" \in Steps
    BY <1>1, WorkTyped DEF Steps
  <2> QED
    BY <1>1, <1>4, <2>1, UpdateGoesOn, PlanTyped, Errs, Pursues, MovesOn
<1>5. CASE Tends
  <2>1. work.id \in 0..MaxId
    BY <1>1, WorkTyped
  <2> QED
    BY <1>1, <1>5, <2>1, TendsServes, Errs, Pursues
<1>6. CASE work' = [work EXCEPT !.pc = "release"]
  BY <1>1, <1>6, MovesOn DEF Steps
<1> QED
  BY <1>1, <1>2, <1>3, <1>4, <1>5, <1>6, EndForgets, WorkerStep

\* A Team records the id, and a write to it takes it away.
LEMMA RecordForgets ==
  ASSUME TInv, Tracks, Next, NEW i \in 1..MaxId, Forgets(i), remote[i].live, work.id # i,
         NEW n \in Names, api[n].status.id = i
  PROVE  ObjectEnds(i)
<1>1. api'[n].status.id # i
  BY DEF Forgets, Known
<1>2. TypeOK /\ api[n] \in Object /\ api[n].status.id # 0
  BY StoredCopy DEF TInv
<1>3. CASE RT!ByUser(n)
  <2>1. api'[n].status = api[n].status \/ api'[n].uid # api[n].uid
    BY <1>2, <1>3, SameData, RT!UserFields DEF TypeOK, RuntimeTypeOK, Absent
  <2> QED
    BY <1>1, <2>1 DEF ObjectEnds
<1>4. CASE RT!Committed(n) /\ Written(api'[n]) /\ n = job.key
  <2>1. job.obj = api[n] /\ work.pc # "idle"
    BY <1>4 DEF RT!Committed, Written
  <2>2. CASE api'[n] = Absent
    <3>1. api'[n].uid = 0 /\ api[n].uid # 0
      BY <2>1, <2>2, BusyJob DEF Absent
    <3> QED
      BY <3>1 DEF ObjectEnds
  <2>3. ASSUME NEW reason, work.pc \in {"setReady", "setNotReady"},
               api'[n].status = Reported(reason)
        PROVE  FALSE
    <3>1. api'[n].status.id = work.id
      BY <2>3 DEF Reported
    <3>2. Spent(i)
      BY <1>1, <2>1, <2>3, <3>1 DEF Tracks
    <3> QED
      BY <3>2 DEF Spent
  <2> QED
    BY <1>1, <1>4, <2>1, <2>2, <2>3, WrittenFields
<1> QED
  BY <1>1, <1>3, <1>4, ObjectStep DEF RT!OnlyTouches

\* The operator never forgets a team it found, or one it created and got the answer
\* of, whatever becomes of the members: it is forgotten only with the answer of its
\* create, with a write that ends a reconcile and fails, or with its Team.
THEOREM NoTeamIsForgotten == Spec => NoneForgotten
<1>1. Init => Tracks
  BY DEF Init, RuntimeInit, NoWork, Tracks
<1>2. TInv /\ Tracks /\ [Next]_vars => Tracks'
  <2>1. CASE UNCHANGED vars
    BY <2>1 DEF vars, kubernetes, world, Tracks, Spent
  <2> QED
    BY <2>1, TracksStep
<1>3. TInv /\ Tracks /\ [Next]_vars =>
        [\A i \in 1..MaxId : Forgets(i) =>
           \/ ~remote[i].live /\ faults' # faults
           \/ job # Idle /\ job' = Idle /\ (faults' # faults \/ ~job.current)
           \/ \E n \in Names : api[n].status.id = i /\ api'[n].uid # api[n].uid]_vars
  <2> SUFFICES ASSUME TInv, Tracks, Next, NEW i \in 1..MaxId, Forgets(i)
               PROVE  LosesAnswer(i) \/ WriteFails \/ ObjectEnds(i)
    BY DEF LosesAnswer, WriteFails, ObjectEnds
  <2>1. CASE ~remote[i].live
    <3>1. CreateTeam /\ Makes /\ i = nextId
      BY <2>1, ComesToLife DEF Forgets
    <3>2. faults \in Nat /\ TypeOK /\ work.pc = "create"
      BY <3>1 DEF TInv, TypeOK, RuntimeTypeOK, CreateTeam
    <3>3. ~Pursue(i, PlanFor(Made.members))
      BY <3>2, PlanTyped, Pursues DEF Forgets, Known
    <3>4. Fault
      BY <3>1, <3>2, <3>3 DEF CreateTeam, Makes, Made, TypeOK
    <3> QED
      BY <2>1, <3>2, <3>4 DEF Fault, LosesAnswer
  <2>2. CASE remote[i].live
    BY <2>2, WorkerForgets, RecordForgets DEF Forgets, Known
  <2> QED
    BY <2>1, <2>2
<1> QED
  BY <1>1, <1>2, <1>3, TInvHolds, PTL DEF Spec, NoneForgotten
=============================================================================
