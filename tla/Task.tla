-------------------------------- MODULE Task --------------------------------
(***************************************************************************)
(* The Task controller (internal/controller/task_controller.go) with the   *)
(* Projects and Labels that Tasks refer to, all on one VikunjaInstance.    *)
(*                                                                         *)
(* A Project or Label only matters for the id that its status records, as  *)
(* the operator's cache has it.  Its controllers appear here as what they  *)
(* do to that id: record one, record another after the first was lost in   *)
(* Vikunja, and take it away with the resource.  The k-th id ever given    *)
(* for d is <<d, k>>.                                                      *)
(*                                                                         *)
(* After the task itself is stored, its labels and assignees are brought   *)
(* in line one request at a time, and any of these requests may fail.      *)
(***************************************************************************)
EXTENDS Naturals, Sequences

CONSTANTS Names, None, MaxUid, MaxGen, MaxLag, MaxFaults,
          Projects,   \* Project resources
          Labels,     \* Label resources
          Users,      \* usernames
          Accounts,   \* those that exist on the instance
          Wanted,     \* specs: [project, labels, people]
          MaxId,      \* bound: tasks ever created in Vikunja
          MaxDep      \* bound: ids ever given to one Project or Label

VARIABLES api, cache, events, queue, timers, job, lastUid, faults,
          work,       \* the handler's locals: [pc, id, reason, skip, project,
                      \* labels, plan]
          remote,     \* remote[i]: the Vikunja task with id i
          nextId,     \* Vikunja's next free task id
          inst,       \* what resolveInstance finds of the VikunjaInstance
          dep         \* dep[d]: the Project or Label d, [state, last]

ASSUME NoneAssumption == None \notin Names \cup Projects
ASSUME DepsAssumption ==
  /\ Projects \cap Labels = {}
  /\ Accounts \subseteq Users
  /\ Wanted \subseteq [project : Projects, labels : SUBSET Labels, people : SUBSET Users]
ASSUME BoundsAssumption == /\ {MaxUid, MaxLag, MaxFaults, MaxId} \subseteq Nat
                           /\ MaxGen \in Nat \ {0}
                           /\ MaxDep \in Nat \ {0}

Reasons == {"none", "ReconcileSuccess", "ReconcileError", "InstanceNotFound",
            "InstanceNotReady", "DependencyNotReady"}

NoStatus == [id |-> 0, reason |-> "none", observed |-> 0]

NoSpec == [project |-> None, labels |-> {}, people |-> {}]

Status == [id : 0..MaxId, reason : Reasons, observed : 0..MaxGen]

\* resolveInstance's reason when it yields no client, "none" when it does.
Outcomes == {"none", "InstanceNotFound", "InstanceNotReady"}

\* The requests reconcileLabels and reconcileAssignees still have to send.
NoPlan == [add |-> {}, remove |-> {}, assign |-> {}, unassign |-> {}]

NoWork == [pc |-> "idle", id |-> 0, reason |-> "none", skip |-> FALSE,
           project |-> <<None, 0>>, labels |-> {}, plan |-> NoPlan]

Deps == Projects \cup Labels

Ids(D) == D \X (1..MaxDep)

world == <<remote, nextId, inst, dep>>

\* What a request to Vikunja leaves alone.
kubernetes == <<api, cache, events, queue, timers, job, lastUid>>

INSTANCE ControllerRuntime WITH Specs <- Wanted \cup {NoSpec}

vars == <<kubernetes, faults, work, world>>

NoTask == [live |-> FALSE, uid |-> 0, gen |-> 0, project |-> <<None, 0>>,
           labels |-> {}, people |-> {}, drifted |-> FALSE]

\* Projects and Labels may be there before the Tasks that name them, or not.
Init ==
  /\ RuntimeInit
  /\ remote = [i \in 1..MaxId |-> NoTask]
  /\ nextId = 1
  /\ inst = "none"
  /\ dep \in [Deps -> {[state |-> "absent", last |-> 0],
                       [state |-> "ready", last |-> 1]}]

-----------------------------------------------------------------------------
(* The environment.                                                        *)

\* The VikunjaInstance changes; Tasks do not watch it.
InstanceChanges(r) ==
  /\ r # inst
  /\ Fault
  /\ inst' = r
  /\ UNCHANGED <<kubernetes, work, remote, nextId, dep>>

\* A Project's resource changes: the cached Tasks that name it are enqueued.
\* Labels are not watched.
Announce(d) ==
  queue' = queue \cup {n \in Names : Exists(cache[n]) /\ cache[n].spec.project = d}

Moves(d, state, last) ==
  /\ dep' = [dep EXCEPT ![d] = [state |-> state, last |-> last]]
  /\ UNCHANGED <<api, cache, events, timers, job, lastUid, work, remote, nextId, inst>>

\* d's controller creates it in Vikunja, or creates it again after it was lost
\* there, and records the new id.
Recorded(d) ==
  /\ dep[d].state # "ready"
  /\ dep[d].last < MaxDep
  /\ Moves(d, "ready", dep[d].last + 1)
  /\ Announce(d)
  /\ UNCHANGED faults

\* Another client deletes what d's resource records, which shows nowhere yet.
Lost(d) ==
  /\ dep[d].state = "ready"
  /\ Fault
  /\ Moves(d, "lost", dep[d].last)
  /\ UNCHANGED queue

\* The resource d is deleted, after what it records.
Removed(d) ==
  /\ dep[d].state # "absent"
  /\ Fault
  /\ Moves(d, "absent", dep[d].last)
  /\ Announce(d)

Gone(i) == remote' = [remote EXCEPT ![i] = [NoTask EXCEPT !.uid = remote[i].uid]]

\* Another client deletes a task, or rewrites it, takes its labels off and
\* (un)assigns u.
ExternalDelete(i) ==
  /\ remote[i].live
  /\ Fault
  /\ Gone(i)
  /\ UNCHANGED <<kubernetes, work, nextId, inst, dep>>

ExternalEdit(i, u) ==
  LET others == remote[i].people \ {u} IN
  /\ remote[i].live
  /\ Fault
  /\ remote' = [remote EXCEPT
                  ![i].gen = 0, ![i].labels = {}, ![i].drifted = TRUE,
                  ![i].people = IF others = @ THEN @ \cup {u} ELSE others]
  /\ UNCHANGED <<kubernetes, work, nextId, inst, dep>>

-----------------------------------------------------------------------------
(* Reconcile up to its first request or write.                             *)

\* The id that the status of a Project or Label records.
IdOf(d) == <<d, IF dep[d].state = "absent" THEN 0 ELSE dep[d].last>>

\* Without an id, d is not ready.
Unready(d) == IdOf(d)[2] = 0

\* The locals once the object is read.
Started(n, pc) == [NoWork EXCEPT !.pc = pc, !.id = cache[n].status.id]

\* The project comes first, then the instance, then the labels.
ReconcileUpserts(n) ==
  LET s == cache[n].spec
      NotReady(r) == [Started(n, "setNotReady") EXCEPT !.reason = r]
  IN
  /\ Finalized(cache[n])
  /\ Begin(n)
  /\ work' = IF Unready(s.project) THEN NotReady("DependencyNotReady")
             ELSE IF inst # "none" THEN NotReady(inst)
             ELSE IF \E l \in s.labels : Unready(l) THEN NotReady("DependencyNotReady")
             ELSE [Started(n, IF cache[n].status.id = 0 THEN "create" ELSE "update")
                     EXCEPT !.project = IdOf(s.project),
                            !.labels = {IdOf(l) : l \in s.labels}]
  /\ UNCHANGED world

\* Without the project or a usable instance no task is deleted in Vikunja.
ReconcileDeletes(n) ==
  LET o == cache[n]
      usable == ~Unready(o.spec.project) /\ inst = "none"
  IN
  /\ Exists(o) /\ o.deleting /\ o.finalizer
  /\ Begin(n)
  /\ work' = [Started(n, IF o.status.id # 0 /\ usable THEN "delete" ELSE "release")
                EXCEPT !.skip = o.status.id # 0 /\ ~usable]
  /\ UNCHANGED world

-----------------------------------------------------------------------------
(* upsertTask and DeleteTask.                                              *)

\* (mutant) the new id is put in the status only after reconcileLabels.
ToErrorForgets ==
  work' = [NoWork EXCEPT !.pc = "setNotReady", !.id = job.obj.status.id,
                         !.reason = "ReconcileError"]

ToError == work' = [NoWork EXCEPT !.pc = "setNotReady", !.id = work.id,
                                  !.reason = "ReconcileError"]

\* (mutant) labels and assignees are only ever added.
OnlyAdditions(r) ==
  [NoPlan EXCEPT !.add = work.labels \ r.labels,
                 !.assign = job.obj.spec.people \ r.people]

\* What is to be done about the labels and assignees in Vikunja's answer.
PlanFor(r) ==
  [add |-> work.labels \ r.labels,
   remove |-> r.labels \ work.labels,
   assign |-> job.obj.spec.people \ r.people,
   unassign |-> r.people \ job.obj.spec.people]

\* (mutant) setReady is only reached after some request.
PursueAlways(i, plan) == work' = [NoWork EXCEPT !.pc = "relate", !.id = i, !.plan = plan]

Pursue(i, plan) ==
  work' = [NoWork EXCEPT !.pc = IF plan = NoPlan THEN "setReady" ELSE "relate",
                         !.id = i, !.plan = plan]

\* Vikunja still has the project or label with this id.
Alive(id) == dep[id[1]] = [state |-> "ready", last |-> id[2]]

CreateTask ==
  LET r == [NoTask EXCEPT !.live = TRUE, !.uid = job.obj.uid, !.gen = job.obj.gen,
                          !.project = work.project]
      possible == Alive(work.project) /\ nextId <= MaxId
  IN
  /\ work.pc = "create"
  /\ \/ /\ possible
        /\ remote' = [remote EXCEPT ![nextId] = r]
        /\ nextId' = nextId + 1
        /\ \/ Pursue(nextId, PlanFor(r)) /\ UNCHANGED faults
           \/ ToError /\ Fault
     \/ /\ ToError
        /\ IF possible THEN Fault ELSE UNCHANGED faults
        /\ UNCHANGED <<remote, nextId>>
  /\ UNCHANGED <<kubernetes, inst, dep>>

\* PUT moves the task to the project and leaves its labels and assignees alone.
UpdateTask ==
  LET i == job.obj.status.id IN
  /\ work.pc = "update"
  /\ \/ /\ remote[i].live
        /\ remote' = [remote EXCEPT ![i].gen = job.obj.gen, ![i].project = work.project]
        /\ \/ Pursue(i, PlanFor(remote[i])) /\ UNCHANGED faults
           \/ ToError /\ Fault
     \/ /\ ~remote[i].live
        /\ work' = [work EXCEPT !.pc = "create"]
        /\ UNCHANGED <<remote, faults>>
     \/ /\ ToError
        /\ Fault
        /\ UNCHANGED remote
  /\ UNCHANGED <<kubernetes, nextId, inst, dep>>

\* (mutant) an error of the delete is logged and the finalizer removed.
DeleteOrNot ==
  /\ work.pc = "delete"
  /\ \/ Gone(job.obj.status.id) /\ UNCHANGED faults
     \/ UNCHANGED remote /\ Fault
  /\ work' = [work EXCEPT !.pc = "release"]
  /\ UNCHANGED <<kubernetes, nextId, inst, dep>>

DeleteTask ==
  LET i == job.obj.status.id IN
  /\ work.pc = "delete"
  /\ \/ /\ Gone(i)
        /\ work' = [work EXCEPT !.pc = "release"]
        /\ UNCHANGED <<cache, queue, timers, job, lastUid, faults>>
     \/ /\ \/ Gone(i)
           \/ UNCHANGED remote
        /\ Return(TRUE)
        /\ Fault
        /\ work' = NoWork
  /\ UNCHANGED <<api, events, nextId, inst, dep>>

-----------------------------------------------------------------------------
(* reconcileLabels, then reconcileAssignees: additions before removals,    *)
(* each in any order (they range over Go maps); the first error ends it.   *)

\* One request, which Vikunja grants if possible, and what is left after it.
Relate(possible, r, rest) ==
  /\ \/ /\ possible
        /\ remote' = [remote EXCEPT ![work.id] = r]
        /\ \/ Pursue(work.id, rest) /\ UNCHANGED faults
           \/ ToError /\ Fault
     \/ /\ ToError
        /\ IF possible THEN Fault ELSE UNCHANGED faults
        /\ UNCHANGED remote
  /\ UNCHANGED <<kubernetes, nextId, inst, dep>>

AddTaskLabel(l) ==
  LET r == remote[work.id] IN
  /\ work.pc = "relate"
  /\ l \in work.plan.add
  /\ Relate(r.live /\ Alive(l), [r EXCEPT !.labels = @ \cup {l}],
            [work.plan EXCEPT !.add = @ \ {l}])

RemoveTaskLabel(l) ==
  LET r == remote[work.id] IN
  /\ work.pc = "relate"
  /\ work.plan.add = {}
  /\ l \in work.plan.remove
  /\ Relate(r.live, [r EXCEPT !.labels = @ \ {l}], [work.plan EXCEPT !.remove = @ \ {l}])

\* FindUserByUsername, whose error is handled like that of the request itself.
AddTaskAssignee(u) ==
  LET r == remote[work.id] IN
  /\ work.pc = "relate"
  /\ work.plan.add \cup work.plan.remove = {}
  /\ u \in work.plan.assign
  /\ Relate(r.live /\ u \in Accounts, [r EXCEPT !.people = @ \cup {u}],
            [work.plan EXCEPT !.assign = @ \ {u}])

RemoveTaskAssignee(u) ==
  LET r == remote[work.id] IN
  /\ work.pc = "relate"
  /\ work.plan.add \cup work.plan.remove \cup work.plan.assign = {}
  /\ u \in work.plan.unassign
  /\ Relate(r.live, [r EXCEPT !.people = @ \ {u}], [work.plan EXCEPT !.unassign = @ \ {u}])

-----------------------------------------------------------------------------
(* The write that ends a reconcile.                                        *)

Reported(reason) == [id |-> work.id, reason |-> reason, observed |-> job.obj.gen]

SetReady ==
  /\ work.pc = "setReady"
  /\ Ends([job.obj EXCEPT !.status = Reported("ReconcileSuccess")], TRUE)

\* (mutant) no RequeueAfter.
SetNotReadyForGood ==
  /\ work.pc = "setNotReady"
  /\ Ends([job.obj EXCEPT !.status = Reported(work.reason)], FALSE)

SetNotReady ==
  /\ work.pc = "setNotReady"
  /\ Ends([job.obj EXCEPT !.status = Reported(work.reason)], TRUE)

Reconcile(n) ==
  \/ ReconcileNothing(n)
  \/ ReconcileAddsFinalizer(n)
  \/ ReconcileUpserts(n)
  \/ ReconcileDeletes(n)
  \/ ReconcileFails(n)

Step ==
  \/ CreateTask
  \/ UpdateTask
  \/ DeleteTask
  \/ \E l \in Ids(Labels) : AddTaskLabel(l) \/ RemoveTaskLabel(l)
  \/ \E u \in Users : AddTaskAssignee(u) \/ RemoveTaskAssignee(u)
  \/ AddFinalizer
  \/ RemoveFinalizer
  \/ SetReady
  \/ SetNotReady

Environment ==
  \/ \E n \in Names, s \in Wanted : Create(n, s) \/ Edit(n, s)
  \/ \E n \in Names : Delete(n)
  \/ \E r \in Outcomes : InstanceChanges(r)
  \/ \E d \in Deps : Recorded(d) \/ Lost(d) \/ Removed(d)
  \/ \E i \in 1..MaxId : \/ ExternalDelete(i)
                         \/ \E u \in Accounts : ExternalEdit(i, u)
  \/ Crash

Next ==
  \/ \E n \in Names : Sync(n) \/ Requeue(n) \/ Reconcile(n)
  \/ Step
  \/ Environment

Spec == Init /\ [][Next]_vars

\* As for Projects.
Fairness ==
  /\ WF_vars(Step)
  /\ \A n \in Names : /\ WF_vars(Sync(n))
                      /\ WF_vars(Requeue(n))
                      /\ SF_vars(Reconcile(n))

FairSpec == Spec /\ Fairness

-----------------------------------------------------------------------------
(* Types.                                                                  *)

Work == [pc : {"idle", "addFinalizer", "create", "update", "relate", "setReady",
               "setNotReady", "delete", "release"},
         id : 0..MaxId, reason : Reasons, skip : BOOLEAN,
         project : Ids(Projects) \cup {<<None, 0>>},
         labels : SUBSET Ids(Labels),
         plan : [add : SUBSET Ids(Labels), remove : SUBSET Ids(Labels),
                 assign : SUBSET Users, unassign : SUBSET Users]]

Remote == [live : BOOLEAN, uid : 0..MaxUid, gen : 0..MaxGen,
           project : Ids(Projects) \cup {<<None, 0>>}, labels : SUBSET Ids(Labels),
           people : SUBSET Users, drifted : BOOLEAN]

\* A busy worker works for a name, and has a request to send or an id to report.
TypeOK ==
  /\ RuntimeTypeOK
  /\ work \in Work
  /\ work.pc # "idle" => job.key # None
  /\ work.pc = "relate" => work.plan # NoPlan
  /\ work.pc \in {"relate", "setReady"} => work.id # 0
  /\ remote \in [1..MaxId -> Remote]
  /\ nextId \in 1..(MaxId + 1)
  /\ inst \in Outcomes
  /\ dep \in [Deps -> [state : {"absent", "ready", "lost"}, last : 0..MaxDep]]

-----------------------------------------------------------------------------
(* Properties.                                                             *)

Ready(o) == o.status.reason = "ReconcileSuccess" /\ o.status.observed = o.gen

\* A Task that reports Ready for its newest generation has in Vikunja the
\* contents of that generation, in a project and with exactly the labels and
\* assignees that it names (by whatever ids their resources had recorded),
\* unless another client changed or deleted the task.
ReadyMeansApplied ==
  \A n \in Names :
    LET o == api[n]
        r == remote[o.status.id]
    IN Ready(o) =>
         /\ o.status.id # 0
         /\ r.live /\ ~r.drifted =>
              /\ r.gen = o.gen
              /\ r.project[1] = o.spec.project
              /\ {l[1] : l \in r.labels} = o.spec.labels
              /\ r.people = o.spec.people

\* The operator knows task i: a Task records it, or the running reconcile has its id.
Known(i) == work.id = i \/ \E n \in Names : api[n].status.id = i

\* Vikunja has task i, new or known until now, and now nobody knows it.
Forgets(i) == (remote[i].live => Known(i)) /\ remote'[i].live /\ ~Known(i)'

\* The operator never forgets a task it found, or one it created and got the
\* answer of, whichever of the requests for its labels or assignees fails: otherwise
\* every retry would create another task.  A task is forgotten only when the answer
\* of its create is lost, when the write that ends the reconcile is refused or
\* does not get through (a restart included), or with the end of its Task.
NoneForgotten ==
  [][\A i \in 1..MaxId : Forgets(i) =>
       \/ ~remote[i].live /\ faults' # faults
       \/ job # Idle /\ job' = Idle /\ (faults' # faults \/ ~job.current)
       \/ \E n \in Names : api[n].status.id = i /\ api'[n].uid # api[n].uid]_vars

\* The instance is usable, no Task is being deleted, all that Tasks name is
\* there, and no create fails for want of an id (MaxId).
Steady ==
  /\ inst = "none"
  /\ work.pc = "create" => nextId <= MaxId
  /\ \A n \in Names : Exists(api[n]) =>
       /\ ~api[n].deleting
       /\ \A d \in api[n].spec.labels \cup {api[n].spec.project} : dep[d].state = "ready"
       /\ api[n].spec.people \subseteq Accounts

Settled(o) ==
  LET r == remote[o.status.id]
  IN /\ Ready(o)
     /\ r.live /\ r.gen = o.gen
     /\ r.project = IdOf(o.spec.project)
     /\ r.labels = {IdOf(l) : l \in o.spec.labels}
     /\ r.people = o.spec.people

\* Once the environment stays steady, every Task reports Ready, in its
\* project's current incarnation and with exactly its labels, by their current
\* ids, and its assignees: although Labels are not watched, and whatever
\* request failed half-way.
Converges == <>[]Steady => <>[](\A n \in Names : Exists(api[n]) => Settled(api[n]))
-----------------------------------------------------------------------------
(* Refinement.                                                             *)

CP == INSTANCE Counterpart WITH
        owner <- [n \in Names |-> api[n].uid],
        last <- lastUid,
        record <- [n \in Names |-> api[n].status.id],
        maker <- [i \in 1..MaxId |-> remote[i].uid],
        alive <- {i \in 1..MaxId : remote[i].live},
        excused <- {n \in Names : job.key = n /\ work.skip}

\* Tasks keep the operator's promise: whatever the cache, the queue, restarts and
\* lost answers do, what is in Vikunja is made for a Task that exists, is
\* recorded by no other, and is neither forgotten nor left behind while an
\* instance is there to delete it from.
Promise == CP!Spec
=============================================================================
