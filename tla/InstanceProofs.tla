---------------------------- MODULE InstanceProofs ----------------------------
(***************************************************************************)
(* Theorems about the VikunjaInstance controller: types, and that Ready    *)
(* always speaks for the server and the tokens of the stored object.       *)
(***************************************************************************)
EXTENDS Instance, TLAPS

RT == INSTANCE RuntimeProofs WITH Specs <- Servers \cup {None}, NoSpec <- None

-----------------------------------------------------------------------------
(* The controller runs on the runtime that RuntimeProofs is about.         *)

LEMMA SaneConstants == RT!Sane
BY NoneAssumption, BoundsAssumption
   DEF RT!Sane, Status, NoStatus, Users

\* The operators of the two instances of ControllerRuntime are the same.
LEMMA SameData ==
  /\ RT!Absent = Absent /\ RT!Idle = Idle
  /\ RT!Object = Object /\ RT!Job = Job
  /\ \A c : RT!Exists(c) <=> Exists(c)
  /\ RT!RuntimeInit <=> RuntimeInit
  /\ RT!RuntimeTypeOK <=> RuntimeTypeOK
BY DEF RT!Absent, Absent, RT!Idle, Idle, RT!Object, Object, RT!Job, Job, RT!Exists, Exists,
   RT!RuntimeInit, RuntimeInit, RT!RuntimeTypeOK, RuntimeTypeOK

LEMMA SameWrites ==
  ASSUME NEW n, NEW o
  PROVE  /\ RT!Store(n, o) <=> Store(n, o)
         /\ RT!UserCreates(n, o) <=> UserCreates(n, o)
         /\ RT!UserEdits(n, o) <=> UserEdits(n, o)
         /\ RT!UserDeletes(n) <=> UserDeletes(n)
<1>1. ASSUME NEW p PROVE /\ RT!Store(n, p) <=> Store(n, p)
                         /\ RT!UserWrites(n, p) <=> UserWrites(n, p)
  BY DEF RT!Store, Store, RT!UserWrites, UserWrites
<1> QED
  BY <1>1, SameData DEF RT!UserCreates, UserCreates, RT!UserEdits, UserEdits,
     RT!UserDeletes, UserDeletes

LEMMA SameSteps ==
  /\ \A n : /\ RT!Deliver(n) <=> Deliver(n)
            /\ RT!TimerFires(n) <=> TimerFires(n)
            /\ RT!Skip(n) <=> Skip(n)
            /\ RT!Begin(n) <=> Begin(n)
  /\ \A o, again : RT!Commit(o, again) <=> Commit(o, again)
  /\ RT!Restart <=> Restart
BY SameData, SameWrites DEF RT!Deliver, Deliver, RT!TimerFires, TimerFires, RT!Skip, Skip,
   RT!Begin, Begin, RT!Commit, Commit, RT!Return, Return, RT!Restart, Restart,
   RT!Fault, Fault

LEMMA SameTypes == ASSUME RT!RuntimeTypeOK' PROVE RuntimeTypeOK'
BY DEF RT!RuntimeTypeOK, RuntimeTypeOK, RT!Object, Object, RT!Job, Job

-----------------------------------------------------------------------------
(* The inductive invariant.                                                *)

\* The owner is the user at server s of a token that the Secret held.
Owned(s, user) == \E t \in held : Account[s][t] # None /\ user = Account[s][t]

\* What the handler knows, it knows of the server that its own copy names.
Probing ==
  /\ work.pc = "idle" <=> job = Idle
  /\ work.pc # "setStatus" => work.owner = None
  /\ work.pc \in {"info", "user"} => work.token \in held
  /\ work.pc = "user" => job.obj.spec \in Servers /\ work.version = job.obj.spec
  /\ work.pc = "setStatus" /\ work.ready = "true" =>
       work.version = job.obj.spec /\ Owned(job.obj.spec, work.owner)

\* A stored status is of the object's generation or an older one.
NotAhead == \A n \in Names : api[n].status.observed <= api[n].gen

IInv == TypeOK /\ RT!RInv /\ Probing /\ NotAhead /\ ReadyMeansProbed

LEMMA InitHolds == Init => IInv
<1> SUFFICES ASSUME Init PROVE IInv
  OBVIOUS
<1>1. RT!RInv
  BY SaneConstants, SameData, RT!RInvInit DEF Init
<1>2. RuntimeTypeOK
  BY <1>1, SameData DEF RT!RInv
<1>3. TypeOK
  BY <1>2, NoneAssumption
     DEF Init, TypeOK, RuntimeInit, Absent, NoWork, Users
<1>4. Probing /\ NotAhead /\ ReadyMeansProbed
  BY BoundsAssumption DEF Init, RuntimeInit, Probing, NotAhead, ReadyMeansProbed, Ready, Absent,
     NoStatus, NoWork
<1> QED
  BY <1>1, <1>3, <1>4 DEF IInv

-----------------------------------------------------------------------------
(* Every step is one that the runtime allows.                              *)

\* What SetStatus writes is the object with another status.
LEMMA OutcomeWritable ==
  ASSUME TypeOK, work.pc = "setStatus"
  PROVE  LET o == [job.obj EXCEPT !.status = Outcome]
         IN o \in Object /\ RT!MayWrite(o) /\ job.key \in Names
<1>1. job.obj \in Object /\ job.key \in Names
  BY DEF TypeOK, RuntimeTypeOK, Job
<1>2. Outcome \in Status
  BY <1>1 DEF Outcome, Status, TypeOK, Object
<1> HIDE DEF Outcome
<1> QED
  BY <1>1, <1>2 DEF Object, RT!MayWrite

LEMMA StepMoves == ASSUME TypeOK, Next PROVE RT!Move
<1> USE DEF RT!Move
<1>1. ASSUME NEW n \in Names, NEW s \in Servers \cup {None},
             Create(n, s) \/ Edit(n, s) \/ Delete(n)
      PROVE  RT!User
  BY <1>1, SameWrites DEF Create, Edit, Delete, RT!User
<1>2. ASSUME NEW n \in Names, Sync(n) \/ Requeue(n) \/ ReconcileNothing(n)
      PROVE  RT!Plumbing
  BY <1>2, SameSteps DEF Sync, Requeue, ReconcileNothing, RT!Plumbing
<1>3. ASSUME NEW n \in Names, ReconcileReads(n)
      PROVE  RT!Starts
  BY <1>3, SameSteps, SameData DEF ReconcileReads, RT!Starts
<1>4. CASE SetStatus
  <2>1. work.pc = "setStatus" /\ Commit([job.obj EXCEPT !.status = Outcome], TRUE)
    BY <1>4 DEF SetStatus, Ends
  <2> QED
    BY <2>1, SameSteps, SameData, OutcomeWritable DEF RT!Writes
<1>5. CASE NewProcess
  BY <1>5, SameSteps DEF NewProcess
<1>6. ASSUME kubernetes' = kubernetes, Fault \/ UNCHANGED faults
      PROVE  RT!Elsewhere
  BY <1>6, BoundsAssumption DEF kubernetes, Fault, TypeOK, RuntimeTypeOK, RT!Elsewhere
<1>7. CASE GetInfo \/ GetCurrentUser
  BY <1>6, <1>7 DEF GetInfo, GetCurrentUser, Answered, Failed
<1>8. CASE SyncSecret \/ (\E t \in Tokens \cup {None} : SecretChanges(t))
           \/ \E s \in Servers : ServerChanges(s)
  BY <1>6, <1>8 DEF SyncSecret, SecretChanges, ServerChanges
<1> QED
  BY <1>1, <1>2, <1>3, <1>4, <1>5, <1>7, <1>8 DEF Next, Step, Environment, Reconcile

\* What a step does to the stored objects.
LEMMA ObjectStep ==
  ASSUME IInv, Next
  PROVE  \/ UNCHANGED <<api, lastUid>>
         \/ \E n \in Names : RT!OnlyTouches(n) /\ RT!ByUser(n)
         \/ /\ SetStatus /\ RT!OnlyTouches(job.key) /\ RT!Committed(job.key)
            /\ api'[job.key] = [job.obj EXCEPT !.status = Outcome]
<1>1. ASSUME NEW n \in Names, NEW s \in Servers \cup {None},
             Create(n, s) \/ Edit(n, s) \/ Delete(n)
      PROVE  RT!OnlyTouches(n) /\ RT!ByUser(n)
  BY <1>1, SameWrites, SameData, RT!UserChanges DEF Create, Edit, Delete, IInv, TypeOK
<1>2. CASE SetStatus
  <2>1. work.pc = "setStatus" /\ Commit([job.obj EXCEPT !.status = Outcome], TRUE)
    BY <1>2 DEF SetStatus, Ends
  <2> QED
    BY <1>2, <2>1, SameSteps, SameData, OutcomeWritable, RT!CommitChanges
       DEF IInv, RT!RInv, RT!Changes
<1>3. CASE \/ \E n \in Names : Sync(n) \/ Requeue(n) \/ Reconcile(n)
           \/ GetInfo \/ GetCurrentUser \/ SyncSecret \/ NewProcess
           \/ \E t \in Tokens \cup {None} : SecretChanges(t)
           \/ \E s \in Servers : ServerChanges(s)
  BY <1>3 DEF Sync, Deliver, Requeue, TimerFires, Reconcile, ReconcileNothing, Skip,
     ReconcileReads, Begin, GetInfo, GetCurrentUser, SyncSecret, NewProcess, Restart,
     SecretChanges, ServerChanges, kubernetes
<1> QED
  BY <1>1, <1>2, <1>3 DEF Next, Step, Environment

-----------------------------------------------------------------------------
(* Types.                                                                  *)

\* The handler's locals and the Secret.
LocalsOK ==
  /\ work \in [pc : {"idle", "info", "user", "setStatus"}, token : Tokens \cup {None},
               version : Servers \cup {None}, owner : Users,
               ready : {"unknown", "true", "false"}]
  /\ work.pc # "idle" => job.key # None
  /\ work.owner # None => work.ready = "true"
  /\ {secret, seen} \subseteq held \cup {None}
  /\ held \subseteq Tokens
  /\ up \subseteq Servers

LEMMA LocalsStep == ASSUME TypeOK, Probing, Next PROVE LocalsOK'
<1> USE DEF TypeOK, LocalsOK
<1>0. LocalsOK /\ (job' = job /\ UNCHANGED <<work, world>> => LocalsOK')
  BY DEF world
<1>1. ASSUME work' = NoWork, UNCHANGED <<secret, held, up>>, seen' \in {secret, seen}
      PROVE  LocalsOK'
  BY <1>1 DEF NoWork, Users
<1>2. ASSUME NEW n \in Names, NEW s, Create(n, s) \/ Edit(n, s) \/ Delete(n)
      PROVE  LocalsOK'
  <2>1. job'.key = job.key /\ UNCHANGED <<work, world>>
    BY <1>2 DEF Create, Edit, Delete, UserCreates, UserEdits, UserDeletes, UserWrites,
       RuntimeTypeOK, Job
  <2> QED
    BY <2>1 DEF world
<1>3. ASSUME NEW n \in Names, Sync(n) \/ Requeue(n) \/ ReconcileNothing(n)
      PROVE  LocalsOK'
  BY <1>0, <1>3 DEF Sync, Requeue, ReconcileNothing, Deliver, TimerFires, Skip
<1>4. ASSUME NEW n \in Names, ReconcileReads(n)
      PROVE  LocalsOK'
  <2>1. job'.key # None /\ UNCHANGED world
    BY <1>4, NoneAssumption DEF ReconcileReads, Begin
  <2>2. \/ work' = [NoWork EXCEPT !.pc = "setStatus", !.ready = "false"]
        \/ work' = [NoWork EXCEPT !.pc = "info", !.token = seen] /\ seen \in Tokens
    BY <1>4 DEF ReconcileReads
  <2>3. work' \in [pc : {"setStatus", "info"}, token : Tokens \cup {None},
                   version : {None}, owner : {None}, ready : {"unknown", "false"}]
    BY <2>2 DEF NoWork
  <2> QED
    BY <2>1, <2>3 DEF Users, world
<1>5. CASE GetInfo
  BY <1>5 DEF GetInfo, Answered, NotReady, kubernetes, world, Probing
<1>6. CASE GetCurrentUser
  <2>1. UNCHANGED <<job, world>> /\ work.pc = "user" /\ work.token \in held
    BY <1>6 DEF GetCurrentUser, kubernetes, Probing
  <2>2. CASE NotReady
    BY <2>1, <2>2 DEF NotReady, world, Probing
  <2>3. CASE ~NotReady
    <3> DEFINE user == Account[job.obj.spec][work.token]
    <3>1. /\ work' = [work EXCEPT !.pc = "setStatus", !.ready = "true", !.owner = user]
          /\ job.obj.spec \in Servers
      BY <1>6, <2>3 DEF GetCurrentUser, Answered
    <3>2. user \in Users
      BY <2>1, <3>1 DEF Users
    <3> HIDE DEF user
    <3> QED
      BY <2>1, <3>1, <3>2 DEF world
  <2> QED
    BY <2>2, <2>3
<1>7. CASE SetStatus
  BY <1>1, <1>7 DEF SetStatus, Ends, world
<1>8. CASE NewProcess
  BY <1>1, <1>8 DEF NewProcess
<1>9. CASE SyncSecret \/ (\E t \in Tokens \cup {None} : SecretChanges(t))
           \/ \E s \in Servers : ServerChanges(s)
  BY <1>9 DEF SyncSecret, SecretChanges, ServerChanges, kubernetes
<1> QED
  BY <1>2, <1>3, <1>4, <1>5, <1>6, <1>7, <1>8, <1>9 DEF Next, Step, Environment, Reconcile

\* No controller gives an instance a finalizer.
LEMMA NeverFinalized ==
  ASSUME IInv, Next, NEW n \in Names
  PROVE  ~api'[n].deleting /\ ~api'[n].finalizer
<1>1. api[n] \in Object /\ ~api[n].deleting /\ ~api[n].finalizer
  BY DEF IInv, TypeOK, RuntimeTypeOK
<1>2. CASE api'[n] = api[n]
  BY <1>1, <1>2
<1>3. CASE RT!ByUser(n)
  BY <1>1, <1>3, SameData, RT!UserFields DEF Absent, IInv, TypeOK
<1>4. CASE n = job.key /\ RT!Committed(job.key)
           /\ api'[n] = [job.obj EXCEPT !.status = Outcome]
  BY <1>1, <1>4 DEF RT!Committed, Object
<1> QED
  BY <1>2, <1>3, <1>4, ObjectStep DEF RT!OnlyTouches

LEMMA TypeStep == ASSUME IInv, Next PROVE TypeOK'
<1>1. RuntimeTypeOK'
  BY SaneConstants, SameData, SameTypes, StepMoves, RT!MoveTyped DEF IInv, TypeOK
<1> QED
  BY <1>1, LocalsStep, NeverFinalized DEF IInv, TypeOK, LocalsOK

-----------------------------------------------------------------------------
(* Safety.                                                                 *)

LEMMA ProbingStep == ASSUME IInv, Next PROVE Probing'
<1> USE DEF IInv, TypeOK, Probing
<1>1. \A s, user : Owned(s, user) => Owned(s, user)' \/ held' # held
  BY DEF Owned
<1>2. held \subseteq held' => \A s, user : Owned(s, user) => Owned(s, user)'
  BY DEF Owned
<1>3. ASSUME work' = work, held \subseteq held', job'.obj = job.obj,
             job' = Idle <=> job = Idle
      PROVE  Probing'
  BY <1>2, <1>3
<1>4. ASSUME work' = NoWork, job' = Idle
      PROVE  Probing'
  BY <1>4 DEF NoWork
<1>5. ASSUME NEW n \in Names, NEW s, Create(n, s) \/ Edit(n, s) \/ Delete(n)
      PROVE  Probing'
  <2>1. /\ job'.key = job.key /\ job'.obj = job.obj /\ UNCHANGED <<work, held>>
        /\ job' = job \/ job'.key = n
    BY <1>5 DEF Create, Edit, Delete, UserCreates, UserEdits, UserDeletes, UserWrites,
       RuntimeTypeOK, Job, world
  <2> QED
    BY <1>3, <2>1, NoneAssumption DEF Idle
<1>6. ASSUME NEW n \in Names, Sync(n) \/ Requeue(n) \/ ReconcileNothing(n)
      PROVE  Probing'
  BY <1>3, <1>6 DEF Sync, Requeue, ReconcileNothing, Deliver, TimerFires, Skip, world
<1>7. ASSUME NEW n \in Names, ReconcileReads(n)
      PROVE  Probing'
  <2>1. job' # Idle /\ UNCHANGED held
    BY <1>7, NoneAssumption DEF ReconcileReads, Begin, Idle, world
  <2>2. \/ work' = [NoWork EXCEPT !.pc = "setStatus", !.ready = "false"]
        \/ work' = [NoWork EXCEPT !.pc = "info", !.token = seen] /\ seen \in held
    BY <1>7 DEF ReconcileReads
  <2> QED
    BY <2>1, <2>2 DEF NoWork
<1>8. CASE GetInfo
  BY <1>8 DEF GetInfo, Answered, NotReady, kubernetes, world
<1>9. CASE GetCurrentUser
  <2>1. /\ UNCHANGED <<job, held>> /\ job # Idle
        /\ work.token \in held /\ work.version = job.obj.spec
    BY <1>9 DEF GetCurrentUser, kubernetes, world
  <2>2. CASE NotReady
    BY <2>1, <2>2 DEF NotReady
  <2>3. CASE ~NotReady
    <3> DEFINE user == Account[job.obj.spec][work.token]
    <3>1. /\ work' = [work EXCEPT !.pc = "setStatus", !.ready = "true", !.owner = user]
          /\ user # None
      BY <1>9, <2>3 DEF GetCurrentUser
    <3>2. Owned(job.obj.spec, user)
      BY <2>1, <3>1 DEF Owned
    <3> HIDE DEF user
    <3>3. /\ work'.pc = "setStatus" /\ work'.owner = user
          /\ work'.version = job'.obj.spec /\ Owned(job'.obj.spec, work'.owner)
      BY <2>1, <3>1, <3>2
    <3> QED
      BY <1>2, <2>1, <3>3
  <2> QED
    BY <2>2, <2>3
<1>10. CASE SetStatus
  BY <1>4, <1>10 DEF SetStatus, Ends, Commit, Return
<1>11. CASE NewProcess
  BY <1>4, <1>11 DEF NewProcess, Restart
<1>12. CASE SyncSecret \/ (\E t \in Tokens \cup {None} : SecretChanges(t))
           \/ \E s \in Servers : ServerChanges(s)
  BY <1>3, <1>12 DEF SyncSecret, SecretChanges, ServerChanges, kubernetes
<1> QED
  BY <1>5, <1>6, <1>7, <1>8, <1>9, <1>10, <1>11, <1>12
     DEF Next, Step, Environment, Reconcile

LEMMA HeldGrows == ASSUME Next PROVE held \subseteq held'
BY DEF Next, Sync, Requeue, Reconcile, ReconcileNothing, ReconcileReads, Step, GetInfo,
   GetCurrentUser, SetStatus, Ends, SyncSecret, Environment, Create, Edit, Delete,
   SecretChanges, ServerChanges, NewProcess, world

\* The status of the stored object: its generation, the server of its spec.
Probed(o) == Ready(o) => o.status.version = o.spec /\ Owned(o.spec, o.status.owner)

LEMMA StatusStep ==
  ASSUME IInv, Next, NEW n \in Names
  PROVE  api'[n].status.observed <= api'[n].gen /\ Probed(api[n])'
<1> USE DEF IInv
<1>1. /\ api[n] \in Object /\ api[n].gen \in Nat /\ api[n].status.observed \in Nat
      /\ api[n].status.observed <= api[n].gen /\ Probed(api[n])
  BY BoundsAssumption DEF TypeOK, RuntimeTypeOK, Object, Status, NotAhead, ReadyMeansProbed,
     Probed, Owned
<1>2. \A s, user : Owned(s, user) => Owned(s, user)'
  BY HeldGrows DEF Owned
<1>3. CASE api'[n] = api[n]
  BY <1>1, <1>2, <1>3 DEF Probed, Ready
<1>4. CASE RT!ByUser(n)
  <2>1. CASE api'[n].status = NoStatus /\ api'[n].gen \in Nat
    BY <2>1 DEF NoStatus, Probed, Ready
  <2>2. CASE api'[n].status = api[n].status /\ api'[n].gen = api[n].gen + 1
    BY <1>1, <2>2 DEF Probed, Ready
  <2>3. CASE /\ api'[n].status = api[n].status /\ api'[n].gen = api[n].gen
             /\ api'[n].spec = api[n].spec
    BY <1>1, <1>2, <2>3 DEF Probed, Ready
  <2> QED
    BY <1>4, <2>1, <2>2, <2>3, SameData, RT!UserFields DEF Absent, TypeOK
<1>5. CASE SetStatus /\ api'[n] = [job.obj EXCEPT !.status = Outcome]
  <2>1. job.obj \in Object /\ work.pc = "setStatus"
    BY <1>5 DEF TypeOK, RuntimeTypeOK, Job, SetStatus
  <2>2. /\ api'[n].gen = job.obj.gen /\ api'[n].spec = job.obj.spec
        /\ api'[n].status = Outcome /\ job.obj.gen \in Nat
    BY <1>5, <2>1, BoundsAssumption DEF Object
  <2>3. Ready(api'[n]) => work.version = job.obj.spec /\ Owned(job.obj.spec, work.owner)
    BY <2>1, <2>2 DEF Ready, Outcome, Probing
  <2> QED
    BY <1>2, <2>2, <2>3 DEF Probed, Outcome
<1> QED
  BY <1>3, <1>4, <1>5, ObjectStep DEF RT!OnlyTouches

LEMMA IInvStep == ASSUME IInv, Next PROVE IInv'
<1>1. RT!RInv'
  BY SaneConstants, StepMoves, RT!RInvStep DEF IInv
<1>2. NotAhead' /\ ReadyMeansProbed'
  BY StatusStep DEF NotAhead, ReadyMeansProbed, Probed, Owned
<1> QED
  BY <1>1, <1>2, TypeStep, ProbingStep DEF IInv

LEMMA IInvStutters == ASSUME IInv, UNCHANGED vars PROVE IInv'
<1>1. /\ UNCHANGED <<api, cache, events, queue, timers, job, lastUid, faults>>
      /\ UNCHANGED <<work, secret, seen, held, up>>
  BY DEF vars, kubernetes, world
<1>2. RT!RInv'
  <2>1. RT!Elsewhere
    BY <1>1 DEF RT!Elsewhere, IInv, TypeOK, RuntimeTypeOK
  <2> QED
    BY <2>1, SaneConstants, RT!RInvStep DEF RT!Move, IInv
<1>3. TypeOK'
  BY <1>1 DEF IInv, TypeOK, RuntimeTypeOK
<1>4. Probing' /\ NotAhead' /\ ReadyMeansProbed'
  BY <1>1 DEF IInv, Probing, Owned, NotAhead, ReadyMeansProbed
<1> QED
  BY <1>2, <1>3, <1>4 DEF IInv

\* The inductive invariant of the VikunjaInstance controller.
THEOREM IInvHolds == Spec => []IInv
<1>1. IInv /\ [Next]_vars => IInv'
  BY IInvStep, IInvStutters
<1> QED
  BY <1>1, InitHolds, PTL DEF Spec

\* Every variable of the VikunjaInstance controller keeps its type, and no
\* VikunjaInstance ever has a finalizer (Reconcile adds none).
THEOREM TypeCorrect == Spec => []TypeOK
BY IInvHolds, PTL DEF IInv

\* A VikunjaInstance that reports Ready for its newest generation has the version
\* of the server this generation names, and the owner of a token that the Secret
\* held there: a slow probe never speaks for an edited or a recreated instance.
THEOREM ReadyIsProbed == Spec => []ReadyMeansProbed
BY IInvHolds, PTL DEF IInv
=============================================================================
