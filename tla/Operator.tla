------------------------------ MODULE Operator ------------------------------
(***************************************************************************)
(* The VikunjaInstance controller and the Project controller in one        *)
(* process, as cmd/main.go sets them up.  What resolveInstance finds is no *)
(* longer given (as it is in Project) but comes out of the cached          *)
(* VikunjaInstance, whose status the other controller writes, and of the   *)
(* cached Secret; a VikunjaInstance event enqueues the Projects; a restart *)
(* hits both; and a server that is down answers neither, for as long as it *)
(* pleases.                                                                *)
(***************************************************************************)
EXTENDS Naturals, Sequences

CONSTANTS Names,      \* Projects
          None, MaxUid, MaxGen, MaxLag, MaxFaults, MaxId,
          Instance,   \* the VikunjaInstance that all Projects refer to
          Server,     \* what its baseURL points at
          Tokens,     \* API tokens the Secret may hold
          Account     \* Account[Server][t]: token t's user, None if invalid

VARIABLES \* of Projects, as in module Project
          api, cache, events, queue, timers, job, lastUid, work, remote, nextId,
          \* of VikunjaInstances, as in module Instance (without the v)
          vApi, vCache, vEvents, vQueue, vTimers, vJob, vLastUid, vWork,
          secret, seen, vHeld, up,
          faults      \* of all kinds, on either side

projects == <<api, cache, events, queue, timers, job, lastUid, work, remote, nextId>>

instances == <<vApi, vCache, vEvents, vQueue, vTimers, vJob, vLastUid, vWork,
               secret, seen, vHeld, up>>

vars == <<projects, instances, faults>>

V == INSTANCE Instance WITH
       Names <- {Instance}, Servers <- {Server}, held <- vHeld,
       api <- vApi, cache <- vCache, events <- vEvents, queue <- vQueue,
       timers <- vTimers, job <- vJob, lastUid <- vLastUid, work <- vWork

\* resolveInstance: any Ready condition will do, of whatever generation.
Resolved ==
  LET o == vCache[Instance] IN
  IF ~V!Exists(o) THEN "notFound"
  ELSE IF o.status.ready = "true" /\ seen # None THEN "ready" ELSE "notReady"

P == INSTANCE Project WITH inst <- Resolved

\* The Secret may be there before the VikunjaInstance, or not.
Init ==
  /\ P!RuntimeInit
  /\ V!RuntimeInit
  /\ remote = [i \in 1..MaxId |-> P!NoProject]
  /\ nextId = 1
  /\ secret \in Tokens \cup {None}
  /\ seen = secret
  /\ vHeld = {secret} \ {None}
  /\ up = {Server}

-----------------------------------------------------------------------------
(* VikunjaInstances.                                                       *)

OfInstances(A) == A /\ UNCHANGED projects

\* mapToDependentsByField: all cached Projects are enqueued.
InstanceEvent ==
  /\ V!Sync(Instance)
  /\ queue' = queue \cup {n \in Names : P!Exists(cache[n])}
  /\ UNCHANGED <<api, cache, events, timers, job, lastUid, work, remote, nextId>>

InstanceReconcile == OfInstances(V!Reconcile(Instance))
InstanceRequeue == OfInstances(V!Requeue(Instance))
InstanceStep == OfInstances(V!Step)
SecretEvent == OfInstances(V!SyncSecret)

-----------------------------------------------------------------------------
(* Projects.                                                               *)

OfProjects(A) == UNCHANGED instances /\ A

ProjectEvent(n) == OfProjects(P!Sync(n))
ProjectReconcile(n) == OfProjects(P!Reconcile(n))
ProjectRequeue(n) == OfProjects(P!Requeue(n))

\* (mutant) where nobody answers there is nothing to delete.
UnansweredIsGone ==
  /\ Server \notin up
  /\ work.pc \in {"create", "update", "delete"}
  /\ IF work.pc = "delete" THEN work' = [work EXCEPT !.pc = "release"] ELSE P!ToError
  /\ UNCHANGED <<api, cache, events, queue, timers, job, lastUid, remote, nextId, faults>>

\* A server that is down fails the request for sure.
Unanswered ==
  /\ Server \notin up
  /\ \/ /\ work.pc \in {"create", "update"}
        /\ P!ToError
        /\ UNCHANGED <<cache, queue, timers, job, lastUid>>
     \/ /\ work.pc = "delete"
        /\ P!Return(TRUE)
        /\ work' = P!NoWork
  /\ UNCHANGED <<api, events, remote, nextId, faults>>

Answered ==
  /\ Server \in up
  /\ P!CreateProject \/ P!UpdateProject \/ P!DeleteProject

ProjectStep ==
  OfProjects(\/ Unanswered
             \/ Answered
             \/ P!AddFinalizer
             \/ P!RemoveFinalizer
             \/ P!SetReady
             \/ P!SetNotReady)

-----------------------------------------------------------------------------
(* Everybody else.                                                         *)

\* One process runs both controllers.
Crash ==
  /\ V!NewProcess
  /\ P!Restart
  /\ work' = P!NoWork
  /\ UNCHANGED <<remote, nextId>>

Users ==
  \/ OfInstances(V!Create(Instance, Server) \/ V!Edit(Instance, Server)
                 \/ V!Delete(Instance))
  \/ \E n \in Names, ref \in P!ParentRefs : OfProjects(P!Create(n, ref) \/ P!Edit(n, ref))
  \/ \E n \in Names : OfProjects(P!Delete(n))

Environment ==
  \/ Users
  \/ \E t \in Tokens \cup {None} : OfInstances(V!SecretChanges(t))
  \/ OfInstances(V!ServerChanges(Server))
  \/ \E i \in 1..MaxId : OfProjects(P!ExternalDelete(i) \/ P!ExternalEdit(i))
  \/ Crash

Next ==
  \/ InstanceEvent \/ InstanceReconcile \/ InstanceRequeue \/ InstanceStep
  \/ SecretEvent
  \/ \E n \in Names : ProjectEvent(n) \/ ProjectReconcile(n) \/ ProjectRequeue(n)
  \/ ProjectStep
  \/ Environment

Spec == Init /\ [][Next]_vars

\* Each controller has its own queue and worker; as for one of them.
Fairness ==
  /\ WF_vars(InstanceStep) /\ WF_vars(InstanceEvent) /\ WF_vars(SecretEvent)
  /\ WF_vars(InstanceRequeue) /\ SF_vars(InstanceReconcile)
  /\ WF_vars(ProjectStep)
  /\ \A n \in Names : /\ WF_vars(ProjectEvent(n))
                      /\ WF_vars(ProjectRequeue(n))
                      /\ SF_vars(ProjectReconcile(n))

FairSpec == Spec /\ Fairness

-----------------------------------------------------------------------------
(* Properties.                                                             *)

\* With a VikunjaInstance that other steps change while a Project is being
\* reconciled, Projects keep the promise of module Counterpart.
Promise == P!Promise

\* A Project marked for deletion is gone in the end even if the server is down
\* for good, the Secret is lost or the VikunjaInstance was deleted first: the
\* probe takes the Ready condition back and the finalizer is given up.
DeletionCompletes ==
  \A n \in Names, u \in 1..MaxUid :
    (api[n].uid = u /\ api[n].deleting) ~> (api[n].uid # u)

\* The instance exists and would pass a probe, no Project is being deleted,
\* no parent is missing, and no create fails for want of an id (MaxId).
Steady ==
  /\ V!Exists(vApi[Instance]) /\ V!Usable(vApi[Instance])
  /\ work.pc = "create" => nextId <= MaxId
  /\ \A n \in P!Present : ~api[n].deleting /\ api[n].spec = None

\* In whatever order the Secret, the VikunjaInstance and the Projects were
\* applied, and whatever failed before, once they are all there every Project
\* is Ready and as specified, and stays so.
Converges == <>[]Steady => <>[](\A n \in P!Present : P!Settled(n))
=============================================================================
