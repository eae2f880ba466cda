------------------------- MODULE ControllerRuntime -------------------------
(***************************************************************************)
(* One kind of custom resource and the controller that reconciles it, as   *)
(* controller-runtime runs it for this operator: the API server's objects  *)
(* with their watch events, the informer cache the reconciler reads from,  *)
(* the work queue with its delayed requeues, and the single worker that a  *)
(* controller built without options has (MaxConcurrentReconciles is 1).    *)
(*                                                                         *)
(* The module has no Next.  A controller's module instantiates it, adds    *)
(* its own state (world) and composes these operators into its handlers;   *)
(* spec and status are left to that module.  What the controllers do in    *)
(* the same way (nothing for an absent object, the finalizer, the write    *)
(* that ends a reconcile) is here.                                         *)
(*                                                                         *)
(* An object is                                                            *)
(*   [uid, gen, deleting, finalizer, spec, status]                         *)
(* where uid numbers the incarnations of all names (0: no such object) and *)
(* gen is metadata.generation.  resourceVersion is only ever compared for  *)
(* equality by the API server, so it is kept as the fact it decides:       *)
(* job.current says that the copy the worker holds is still the newest.    *)
(***************************************************************************)
EXTENDS Naturals, Sequences

CONSTANTS Names,      \* object names in the one namespace
          None,       \* no name: an idle worker, an unset reference
          Specs,      \* specs of objects
          NoSpec,     \* the spec of an absent object
          Status,     \* statuses of objects
          NoStatus,   \* the status of an absent or new object
          NoWork,     \* the locals of an idle worker
          MaxUid,     \* bound: objects ever created
          MaxGen,     \* bound: generations of one object
          MaxLag,     \* bound: undelivered events of a name users may add to
          MaxFaults   \* bound: faults, of all kinds together

VARIABLES api,        \* api[n]: the object the API server stores under n
          cache,      \* cache[n]: the informer's copy of it
          events,     \* events[n]: versions of n not yet delivered to cache
          queue,      \* the work queue (a set: it drops duplicates)
          timers,     \* names whose delayed requeue is pending
          job,        \* the worker: [key, obj, current]
          lastUid,    \* uids handed out so far
          faults,     \* faults so far
          work,       \* the handler's locals, with pc naming its next step
          world       \* whatever else the controller's module has

Absent == [uid |-> 0, gen |-> 0, deleting |-> FALSE, finalizer |-> FALSE,
           spec |-> NoSpec, status |-> NoStatus]

Idle == [key |-> None, obj |-> Absent, current |-> FALSE]

Exists(o) == o.uid # 0

RuntimeInit ==
  /\ api = [n \in Names |-> Absent]
  /\ cache = [n \in Names |-> Absent]
  /\ events = [n \in Names |-> <<>>]
  /\ queue = {}
  /\ timers = {}
  /\ job = Idle
  /\ lastUid = 0
  /\ faults = 0
  /\ work = NoWork

Object == [uid : 0..MaxUid, gen : 0..MaxGen, deleting : BOOLEAN,
           finalizer : BOOLEAN, spec : Specs, status : Status]

Job == [key : Names \cup {None}, obj : Object, current : BOOLEAN]

RuntimeTypeOK ==
  /\ api \in [Names -> Object]
  /\ cache \in [Names -> Object]
  /\ events \in [Names -> Seq(Object)]
  /\ queue \in SUBSET Names
  /\ timers \in SUBSET Names
  /\ job \in Job
  /\ lastUid \in 0..MaxUid
  /\ faults \in 0..MaxFaults

\* One more fault, if the bound allows it.
Fault == faults < MaxFaults /\ faults' = faults + 1

-----------------------------------------------------------------------------
(* The API server.                                                         *)

\* A write of o under n takes effect.  A write that changes nothing keeps
\* the resourceVersion and sends no event.
Store(n, o) ==
  /\ api' = [api EXCEPT ![n] = o]
  /\ events' = IF o = api[n] THEN events
                             ELSE [events EXCEPT ![n] = Append(@, o)]

\* Somebody else writes n: a copy the worker holds becomes outdated.
UserWrites(n, o) ==
  /\ Len(events[n]) < MaxLag
  /\ Store(n, o)
  /\ job' = IF job.key = n THEN [job EXCEPT !.current = FALSE] ELSE job
  /\ UNCHANGED <<cache, queue, timers, faults>>

UserCreates(n, s) ==
  /\ ~Exists(api[n])
  /\ lastUid < MaxUid
  /\ lastUid' = lastUid + 1
  /\ UserWrites(n, [Absent EXCEPT !.uid = lastUid + 1, !.gen = 1, !.spec = s])

\* Any part of the spec changes (s is the part the module keeps).
UserEdits(n, s) ==
  /\ Exists(api[n])
  /\ api[n].gen < MaxGen
  /\ UserWrites(n, [api[n] EXCEPT !.gen = @ + 1, !.spec = s])
  /\ UNCHANGED lastUid

\* An object with a finalizer is only marked; one without is gone at once.
UserDeletes(n) ==
  /\ Exists(api[n])
  /\ ~api[n].deleting
  /\ UserWrites(n, IF api[n].finalizer THEN [api[n] EXCEPT !.deleting = TRUE]
                                       ELSE Absent)
  /\ UNCHANGED lastUid

-----------------------------------------------------------------------------
(* The informer and the work queue.                                        *)

\* The next watch event of n reaches the cache and enqueues n.
Deliver(n) ==
  /\ events[n] # <<>>
  /\ cache' = [cache EXCEPT ![n] = Head(events[n])]
  /\ events' = [events EXCEPT ![n] = Tail(@)]
  /\ queue' = queue \cup {n}
  /\ UNCHANGED <<api, timers, job, lastUid, faults>>

\* A requeue delay (15s, 10min or an error's back-off) is over.
TimerFires(n) ==
  /\ n \in timers
  /\ timers' = timers \ {n}
  /\ queue' = queue \cup {n}
  /\ UNCHANGED <<api, cache, events, job, lastUid, faults>>

\* The worker takes n from the queue and has nothing to do for it.
Skip(n) ==
  /\ job = Idle
  /\ n \in queue
  /\ queue' = queue \ {n}
  /\ UNCHANGED <<api, cache, events, timers, job, lastUid, faults>>

\* The worker takes n from the queue and reads its object from the cache.
Begin(n) ==
  /\ job = Idle
  /\ n \in queue
  /\ queue' = queue \ {n}
  /\ job' = [key |-> n, obj |-> cache[n], current |-> events[n] = <<>>]
  /\ UNCHANGED <<api, cache, events, timers, lastUid, faults>>

\* (mutant) Reconcile swallows the error.
BeginFailsQuietly(n) ==
  /\ job = Idle
  /\ n \in queue
  /\ queue' = queue \ {n}
  /\ Fault
  /\ UNCHANGED <<api, cache, events, timers, job, lastUid>>

\* Reading a dependency fails, and Reconcile returns the error.
BeginFails(n) ==
  /\ job = Idle
  /\ n \in queue
  /\ queue' = queue \ {n}
  /\ timers' = timers \cup {n}
  /\ Fault
  /\ UNCHANGED <<api, cache, events, job, lastUid>>

\* Reconcile returns; again: with an error or a RequeueAfter.
Return(again) ==
  /\ job' = Idle
  /\ timers' = IF again THEN timers \cup {job.key} ELSE timers
  /\ UNCHANGED <<cache, queue, lastUid>>

\* Reconcile ends with r.Update or r.Status().Update of its copy, now o:
\* stored; stored, but the answer is lost; refused, because the copy is not
\* the newest version; or not sent at all.
Commit(o, again) ==
  \/ job.current /\ Store(job.key, o) /\ Return(again) /\ UNCHANGED faults
  \/ job.current /\ Store(job.key, o) /\ Return(TRUE) /\ Fault
  \/ ~job.current /\ Return(TRUE) /\ UNCHANGED <<api, events, faults>>
  \/ Return(TRUE) /\ Fault /\ UNCHANGED <<api, events>>

\* The operator's process is replaced: the queue, the delays and the job are
\* gone, and the new process lists every object into its cache.
Restart ==
  /\ Fault
  /\ cache' = api
  /\ events' = [n \in Names |-> <<>>]
  /\ queue' = {n \in Names : Exists(api[n])}
  /\ timers' = {}
  /\ job' = Idle
  /\ UNCHANGED <<api, lastUid>>

-----------------------------------------------------------------------------
(* Actions that every controller has.                                      *)

Create(n, s) == UserCreates(n, s) /\ UNCHANGED <<work, world>>
Edit(n, s) == UserEdits(n, s) /\ UNCHANGED <<work, world>>
Delete(n) == UserDeletes(n) /\ UNCHANGED <<work, world>>
Sync(n) == Deliver(n) /\ UNCHANGED <<work, world>>
Requeue(n) == TimerFires(n) /\ UNCHANGED <<work, world>>
Crash == Restart /\ work' = NoWork /\ UNCHANGED world

\* No object, or one that is being deleted and is no longer ours to clean up.
ReconcileNothing(n) ==
  /\ cache[n].deleting => ~cache[n].finalizer
  /\ ~Exists(cache[n]) \/ cache[n].deleting
  /\ Skip(n)
  /\ UNCHANGED <<work, world>>

\* (mutant) the early return after adding the finalizer is missing.
FinalizedOrNot(o) == Exists(o) /\ ~o.deleting

\* Only an object that carries the finalizer goes on to Vikunja.
Finalized(o) == Exists(o) /\ ~o.deleting /\ o.finalizer

ReconcileAddsFinalizer(n) ==
  /\ Exists(cache[n]) /\ ~cache[n].deleting /\ ~cache[n].finalizer
  /\ Begin(n)
  /\ work' = [NoWork EXCEPT !.pc = "addFinalizer"]
  /\ UNCHANGED world

\* Reading what the object depends on returns an error.
ReconcileFails(n) ==
  /\ Exists(cache[n]) /\ cache[n].finalizer
  /\ cache[n].deleting => cache[n].status.id # 0
  /\ BeginFails(n)
  /\ UNCHANGED <<work, world>>

\* The write that ends a reconcile.
Ends(o, again) == Commit(o, again) /\ work' = NoWork /\ UNCHANGED world

AddFinalizer ==
  /\ work.pc = "addFinalizer"
  /\ Ends([job.obj EXCEPT !.finalizer = TRUE], FALSE)

\* Removing the last finalizer of an object marked for deletion deletes it.
RemoveFinalizer ==
  /\ work.pc = "release"
  /\ Ends(Absent, FALSE)
=============================================================================
