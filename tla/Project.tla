------------------------------ MODULE Project ------------------------------
(***************************************************************************)
(* The Project controller (internal/controller/project_controller.go): the *)
(* whole of Reconcile with its helpers, against a Vikunja server that may  *)
(* fail before or after it executed a request, a cache that lags behind    *)
(* the API server, users who create, edit and delete Projects at any time, *)
(* and restarts of the operator between any two steps.                     *)
(*                                                                         *)
(* One step of the worker is what happens between two moments where        *)
(* somebody else can interfere: reading the caches, one HTTP request, one  *)
(* write to the API server.                                                *)
(*                                                                         *)
(* A Project's spec is its parentProjectRef (None when unset); its other   *)
(* fields are only copied, and the generation stands for them.             *)
(***************************************************************************)
EXTENDS Naturals, Sequences

CONSTANTS Names, None, MaxUid, MaxGen, MaxLag, MaxFaults,
          MaxId       \* bound: projects ever created in Vikunja

VARIABLES api, cache, events, queue, timers, job, lastUid, faults,
          work,       \* the handler's locals: [pc, parent, id, reason, skip]
          remote,     \* remote[i]: the Vikunja project with id i
          nextId,     \* Vikunja's next free id
          inst        \* what resolveInstance finds of the one VikunjaInstance

ASSUME NoneAssumption == None \notin Names
ASSUME BoundsAssumption == /\ {MaxUid, MaxLag, MaxFaults, MaxId} \subseteq Nat
                           /\ MaxGen \in Nat \ {0}

ParentRefs == Names \cup {None}

Reasons == {"none", "ReconcileSuccess", "ReconcileError", "InstanceNotFound",
            "InstanceNotReady", "DependencyNotReady"}

NoStatus == [id |-> 0, reason |-> "none", observed |-> 0]

NoWork == [pc |-> "idle", parent |-> 0, id |-> 0, reason |-> "none",
           skip |-> FALSE]

Status == [id : 0..MaxId, reason : Reasons, observed : 0..MaxGen]

world == <<remote, nextId, inst>>

INSTANCE ControllerRuntime WITH Specs <- ParentRefs, NoSpec <- None

vars == <<api, cache, events, queue, timers, job, lastUid, faults, work, world>>

Instances == {"ready", "notReady", "notFound"}

NoProject == [live |-> FALSE, name |-> None, uid |-> 0, gen |-> 0, parent |-> 0]

Init ==
  /\ RuntimeInit
  /\ remote = [i \in 1..MaxId |-> NoProject]
  /\ nextId = 1
  /\ inst = "ready"

-----------------------------------------------------------------------------
(* The environment.                                                        *)

\* The VikunjaInstance changes: every cached Project that refers to it is
\* enqueued.
InstanceChanges(i) ==
  /\ i # inst
  /\ Fault
  /\ inst' = i
  /\ queue' = queue \cup {n \in Names : Exists(cache[n])}
  /\ UNCHANGED <<api, cache, events, timers, job, lastUid, work, remote, nextId>>

\* The instance's token Secret goes missing or comes back: resolveInstance
\* sees it, but nothing watches Secrets.
SecretChanges ==
  /\ inst # "notFound"
  /\ Fault
  /\ inst' = IF inst = "ready" THEN "notReady" ELSE "ready"
  /\ UNCHANGED <<api, cache, events, queue, timers, job, lastUid,
                 work, remote, nextId>>

\* Project i is no more; whose it was is remembered.
Gone(i) == remote' = [remote EXCEPT ![i] = [@ EXCEPT !.live = FALSE, !.gen = 0, !.parent = 0]]

\* Somebody deletes or rewrites a project in Vikunja directly.
ExternalDelete(i) ==
  /\ remote[i].live
  /\ Fault
  /\ Gone(i)
  /\ UNCHANGED <<api, cache, events, queue, timers, job, lastUid,
                 work, nextId, inst>>

ExternalEdit(i) ==
  /\ remote[i].live
  /\ remote[i].gen # 0
  /\ Fault
  /\ remote' = [remote EXCEPT ![i].gen = 0]
  /\ UNCHANGED <<api, cache, events, queue, timers, job, lastUid,
                 work, nextId, inst>>

-----------------------------------------------------------------------------
(* Reconcile up to its first request or write.                             *)

\* resolveInstance's reason when it yields no client.
InstanceReason == IF inst = "notFound" THEN "InstanceNotFound"
                                       ELSE "InstanceNotReady"

\* getReadyProject: all it asks of the parent is a recorded id.
ParentId(ref) == IF ref = None THEN 0 ELSE cache[ref].status.id

\* (mutant) an unset id passes for an id.
ParentNeverMissing(ref) == FALSE
ParentMissing(ref) == ref # None /\ ParentId(ref) = 0

ReconcileUpserts(n) ==
  LET o == cache[n]
      NotReady(r) == [NoWork EXCEPT !.pc = "setNotReady", !.reason = r]
      Upsert == [NoWork EXCEPT !.pc = IF o.status.id = 0 THEN "create" ELSE "update",
                               !.parent = ParentId(o.spec)]
  IN
  /\ Finalized(o)
  /\ Begin(n)
  /\ work' = IF inst # "ready" THEN NotReady(InstanceReason)
             ELSE IF ParentMissing(o.spec) THEN NotReady("DependencyNotReady")
             ELSE Upsert
  /\ UNCHANGED <<remote, nextId, inst>>

\* reconcileDelete: without a recorded id, or without a usable instance, no
\* project is deleted in Vikunja.
ReconcileDeletes(n) ==
  LET o == cache[n] IN
  /\ Exists(o) /\ o.deleting /\ o.finalizer
  /\ Begin(n)
  /\ work' = [NoWork EXCEPT
                !.pc = IF o.status.id # 0 /\ inst = "ready" THEN "delete"
                                                            ELSE "release",
                !.skip = o.status.id # 0 /\ inst # "ready"]
  /\ UNCHANGED <<remote, nextId, inst>>

-----------------------------------------------------------------------------
(* upsertProject and DeleteProject: one request each, which is answered,   *)
(* fails before Vikunja executes it, or is executed without its answer     *)
(* reaching the operator.                                                  *)

ToReady(i) == work' = [NoWork EXCEPT !.pc = "setReady", !.id = i]

\* (mutant) the error is logged and the handler goes on.
ToErrorIgnored == ToReady(job.obj.status.id)
ToError == work' = [NoWork EXCEPT !.pc = "setNotReady", !.reason = "ReconcileError"]

\* What the worker asks Vikunja to store in project i, whose owner is noted.
Stored(i, name, uid) ==
  remote' = [remote EXCEPT ![i] = [live |-> TRUE, name |-> name, uid |-> uid,
                                   gen |-> job.obj.gen, parent |-> work.parent]]

\* (mutant) any error of the update counts as "not found".
AnyError(i) == TRUE

\* IsNotFound: Vikunja has no project i.
NotFound(i) == ~remote[i].live

\* (mutant) a project that is already there under this name is adopted.
CreateOrAdopt ==
  /\ work.pc = "create"
  /\ IF \E i \in 1..MaxId : remote[i].live /\ remote[i].name = job.key
     THEN /\ ToReady(CHOOSE i \in 1..MaxId : remote[i].live /\ remote[i].name = job.key)
          /\ UNCHANGED <<remote, nextId>>
     ELSE /\ nextId <= MaxId
          /\ Stored(nextId, job.key, job.obj.uid)
          /\ nextId' = nextId + 1
          /\ ToReady(nextId)
  /\ UNCHANGED <<api, cache, events, queue, timers, job, lastUid, faults, inst>>

CreateProject ==
  /\ work.pc = "create"
  /\ \/ /\ nextId <= MaxId
        /\ Stored(nextId, job.key, job.obj.uid)
        /\ nextId' = nextId + 1
        /\ \/ ToReady(nextId) /\ UNCHANGED faults
           \/ ToError /\ Fault
     \/ /\ ToError
        /\ IF nextId <= MaxId THEN Fault ELSE UNCHANGED faults
        /\ UNCHANGED <<remote, nextId>>
  /\ UNCHANGED <<api, cache, events, queue, timers, job, lastUid, inst>>

UpdateProject ==
  LET i == job.obj.status.id IN
  /\ work.pc = "update"
  /\ \/ /\ remote[i].live
        /\ Stored(i, remote[i].name, remote[i].uid)
        /\ \/ ToReady(i) /\ UNCHANGED faults
           \/ ToError /\ Fault
     \/ /\ NotFound(i)
        /\ work' = [work EXCEPT !.pc = "create"]
        /\ UNCHANGED <<remote, faults>>
     \/ /\ ToError
        /\ Fault
        /\ UNCHANGED remote
  /\ UNCHANGED <<api, cache, events, queue, timers, job, lastUid, nextId, inst>>

\* (mutant) an error of the delete is logged and the finalizer removed.
DeleteOrNot ==
  /\ work.pc = "delete"
  /\ \/ Gone(job.obj.status.id) /\ UNCHANGED faults
     \/ UNCHANGED remote /\ Fault
  /\ work' = [work EXCEPT !.pc = "release"]
  /\ UNCHANGED <<api, cache, events, queue, timers, job, lastUid, nextId, inst>>

DeleteProject ==
  LET i == job.obj.status.id IN
  /\ work.pc = "delete"
  /\ \/ /\ Gone(i)
        /\ work' = [work EXCEPT !.pc = "release"]
        /\ UNCHANGED <<cache, queue, timers, job, lastUid, faults>>
     \/ /\ \/ Gone(i)
           \/ UNCHANGED remote
        /\ Return(TRUE)
        /\ Fault
        /\ work' = NoWork
  /\ UNCHANGED <<api, events, nextId, inst>>

-----------------------------------------------------------------------------
(* The write that ends a reconcile.                                        *)

\* The status setReady reports for project i.
ReadyStatus(i) == [id |-> i, reason |-> "ReconcileSuccess",
                   observed |-> job.obj.gen]

\* (mutant) observedGeneration is one ahead.
SetReadyAhead ==
  /\ work.pc = "setReady"
  /\ Ends([job.obj EXCEPT !.status = [ReadyStatus(work.id) EXCEPT !.observed = @ + 1]],
          TRUE)

SetReady ==
  /\ work.pc = "setReady"
  /\ Ends([job.obj EXCEPT !.status = ReadyStatus(work.id)], TRUE)

\* (mutant) no RequeueAfter.
SetNotReadyForGood ==
  /\ work.pc = "setNotReady"
  /\ Ends([job.obj EXCEPT !.status.reason = work.reason,
                          !.status.observed = job.obj.gen], FALSE)

SetNotReady ==
  /\ work.pc = "setNotReady"
  /\ Ends([job.obj EXCEPT !.status.reason = work.reason,
                          !.status.observed = job.obj.gen], TRUE)

Reconcile(n) ==
  \/ ReconcileNothing(n)
  \/ ReconcileAddsFinalizer(n)
  \/ ReconcileUpserts(n)
  \/ ReconcileDeletes(n)
  \/ ReconcileFails(n)

Step ==
  \/ CreateProject
  \/ UpdateProject
  \/ DeleteProject
  \/ AddFinalizer
  \/ RemoveFinalizer
  \/ SetReady
  \/ SetNotReady

Environment ==
  \/ \E n \in Names, ref \in ParentRefs : Create(n, ref) \/ Edit(n, ref)
  \/ \E n \in Names : Delete(n)
  \/ \E i \in Instances : InstanceChanges(i)
  \/ SecretChanges
  \/ \E i \in 1..MaxId : ExternalDelete(i) \/ ExternalEdit(i)
  \/ Crash

Next ==
  \/ \E n \in Names : Sync(n) \/ Requeue(n) \/ Reconcile(n)
  \/ Step
  \/ Environment

Spec == Init /\ [][Next]_vars

\* The goroutines of the informer, the delaying queue and the worker run on;
\* the work queue is first in, first out, so no name in it is passed over for
\* ever.  Users, Vikunja's other clients and faults are free.
Fairness ==
  /\ WF_vars(Step)
  /\ \A n \in Names : /\ WF_vars(Sync(n))
                      /\ WF_vars(Requeue(n))
                      /\ SF_vars(Reconcile(n))

FairSpec == Spec /\ Fairness

-----------------------------------------------------------------------------
(* Types.                                                                  *)

Steps == {"idle", "addFinalizer", "create", "update", "setReady", "setNotReady",
          "delete", "release"}

Work == [pc : Steps, parent : 0..MaxId, id : 0..MaxId, reason : Reasons,
         skip : BOOLEAN]

Remote == [live : BOOLEAN, name : Names \cup {None}, uid : 0..MaxUid,
           gen : 0..MaxGen, parent : 0..MaxId]

\* A busy worker works for a name.
TypeOK ==
  /\ RuntimeTypeOK
  /\ work \in Work
  /\ work.pc # "idle" => job.key # None
  /\ remote \in [1..MaxId -> Remote]
  /\ nextId \in 1..(MaxId + 1)
  /\ inst \in Instances

-----------------------------------------------------------------------------
(* Safety.                                                                 *)

\* The id a Project records is that of a Vikunja project created for this very
\* object: no two Projects share one, and a Project recreated under an old
\* name never adopts what an update meant for its predecessor left behind.
IdOwned ==
  \A n \in Names : api[n].status.id # 0 =>
                      remote[api[n].status.id].uid = api[n].uid

\* A Project for which something was created in Vikunja carries the
\* finalizer, so that it cannot vanish without reconcileDelete.
CreatedOnlyWithFinalizer ==
  \A n \in Names, i \in 1..MaxId :
    Exists(api[n]) /\ remote[i].uid = api[n].uid => api[n].finalizer

Ready(o) == o.status.reason = "ReconcileSuccess" /\ o.status.observed = o.gen

\* A Project that reports Ready for its newest generation is one whose project
\* in Vikunja, unless somebody deleted or rewrote it there, has the contents
\* of that generation and hangs below a project created for the parent that
\* this generation names.
ReadyMeansApplied ==
  \A n \in Names :
    LET o == api[n]
        r == remote[o.status.id]
    IN Ready(o) =>
         /\ o.status.id # 0
         /\ r.live /\ r.gen # 0 =>
              /\ r.gen = o.gen
              /\ IF o.spec = None THEN r.parent = 0
                 ELSE r.parent # 0 /\ remote[r.parent].name = o.spec

\* The id of a Vikunja project that still exists is never replaced or
\* forgotten as long as its Project exists.
IdNeverDropped ==
  [][\A n \in Names :
       LET i == api[n].status.id IN
       i # 0 /\ api'[n].uid = api[n].uid /\ api'[n].status.id # i
         => ~remote[i].live]_vars

\* A Project only vanishes when the project it records is gone from Vikunja,
\* or when reconcileDelete found no usable instance to delete it from.
VanishesClean ==
  [][\A n \in Names :
       LET i == api[n].status.id IN
       i # 0 /\ api'[n].uid # api[n].uid
         => ~remote[i].live \/ (job.key = n /\ work.skip)]_vars

\* What the README says of finalizers: once the Project is gone, so is
\* everything that was created for it.
NoOrphan ==
  \A i \in 1..MaxId :
    remote[i].live => \E n \in Names : api[n].uid = remote[i].uid

\* What the README says of dependencies: a project is created only when the
\* parent, as the controller sees it, is Ready.
WaitsForReadyParent ==
  [][\A n \in Names :
       job = Idle /\ job'.key = n /\ work'.pc = "create" /\ cache[n].spec # None
         => cache[cache[n].spec].status.reason = "ReconcileSuccess"]_vars

-----------------------------------------------------------------------------
(* Liveness.                                                               *)

\* A Project marked for deletion is eventually gone, whatever failed before.
DeletionCompletes ==
  \A n \in Names, u \in 1..MaxUid :
    (api[n].uid = u /\ api[n].deleting) ~> (api[n].uid # u)

Present == {n \in Names : Exists(api[n])}

\* The instance is usable, no Project is being deleted, every parent exists,
\* parents form no cycle, and Vikunja still has an id to give (MaxId).
Steady ==
  /\ inst = "ready"
  /\ nextId <= MaxId
  /\ \A n \in Present : ~api[n].deleting /\ api[n].spec \in Present \cup {None}
  /\ \A S \in SUBSET Present \ {{}} : \E n \in S : api[n].spec \notin S

Settled(n) ==
  LET o == api[n]
      r == remote[o.status.id]
  IN /\ Ready(o)
     /\ r.live /\ r.gen = o.gen
     /\ r.parent = IF o.spec = None THEN 0 ELSE api[o.spec].status.id

\* Once the environment stays steady, every Project reports Ready and its
\* project in Vikunja exists, has its newest contents and its parent's current
\* id, and this stays so: drift and lost answers are repaired.
Converges == <>[]Steady => <>[](\A n \in Present : Settled(n))
-----------------------------------------------------------------------------
(* Refinement.                                                             *)

CP == INSTANCE Counterpart WITH
        owner <- [n \in Names |-> api[n].uid],
        last <- lastUid,
        record <- [n \in Names |-> api[n].status.id],
        maker <- [i \in 1..MaxId |-> remote[i].uid],
        alive <- {i \in 1..MaxId : remote[i].live},
        excused <- {n \in Names : job.key = n /\ work.skip}

\* Projects keep the operator's promise: whatever the cache, the queue, restarts and
\* lost answers do, what is in Vikunja is made for a Project that exists, is
\* recorded by no other, and is neither forgotten nor left behind while an
\* instance is there to delete it from.
Promise == CP!Spec
=============================================================================
