------------------------------- MODULE Label -------------------------------
(***************************************************************************)
(* The Label controller (internal/controller/label_controller.go) with     *)
(* several VikunjaInstances, each of which numbers its labels from 1.  A   *)
(* Label's spec is its instanceRef, which nothing in the resource's type   *)
(* keeps users from changing; status.id does not say which instance gave   *)
(* it.  (An instance that is Ready stands for its server.)                 *)
(***************************************************************************)
EXTENDS Naturals, Sequences

CONSTANTS Names, None, MaxUid, MaxGen, MaxLag, MaxFaults,
          Instances,  \* VikunjaInstances
          MaxId       \* bound: labels ever created on one instance

VARIABLES api, cache, events, queue, timers, job, lastUid, faults,
          work,       \* the handler's locals: [pc, id, reason]
          remote,     \* remote[s][i]: label i of instance s
          nextId,     \* nextId[s]: the next free id of instance s
          inst,       \* inst[s]: what resolveInstance finds of s
          moved       \* history: Labels whose instanceRef was ever changed

ASSUME NoneAssumption == None \notin Names \cup Instances
ASSUME BoundsAssumption == /\ {MaxUid, MaxLag, MaxFaults, MaxId} \subseteq Nat
                           /\ MaxGen \in Nat \ {0}

Reasons == {"none", "ReconcileSuccess", "ReconcileError", "InstanceNotFound",
            "InstanceNotReady"}

NoStatus == [id |-> 0, reason |-> "none", observed |-> 0]

\* resolveInstance's reason when it yields no client, "none" when it does.
Outcomes == {"none", "InstanceNotFound", "InstanceNotReady"}

NoWork == [pc |-> "idle", id |-> 0, reason |-> "none"]

Status == [id : 0..MaxId, reason : Reasons, observed : 0..MaxGen]

world == <<remote, nextId, inst, moved>>

\* What a request to Vikunja leaves alone.
kubernetes == <<api, cache, events, queue, timers, job, lastUid>>

INSTANCE ControllerRuntime WITH Specs <- Instances \cup {None}, NoSpec <- None

vars == <<kubernetes, faults, work, world>>

NoLabel == [live |-> FALSE, uid |-> 0, gen |-> 0]

Init ==
  /\ RuntimeInit
  /\ remote = [s \in Instances |-> [i \in 1..MaxId |-> NoLabel]]
  /\ nextId = [s \in Instances |-> 1]
  /\ inst = [s \in Instances |-> "none"]
  /\ moved = {}

-----------------------------------------------------------------------------
(* The environment.                                                        *)

\* Nothing keeps users from changing instanceRef.
EditLabel(n, s) ==
  /\ UserEdits(n, s)
  /\ moved' = IF s = api[n].spec THEN moved ELSE moved \cup {api[n].uid}
  /\ UNCHANGED <<work, remote, nextId, inst>>

\* A VikunjaInstance changes: the cached Labels that refer to it are enqueued.
InstanceChanges(s, r) ==
  /\ r # inst[s]
  /\ Fault
  /\ inst' = [inst EXCEPT ![s] = r]
  /\ queue' = queue \cup {n \in Names : Exists(cache[n]) /\ cache[n].spec = s}
  /\ UNCHANGED <<api, cache, events, timers, job, lastUid, work, remote, nextId, moved>>

Gone(s, i) == remote' = [remote EXCEPT ![s][i] = [@ EXCEPT !.live = FALSE, !.gen = 0]]

\* Another client deletes, rewrites or creates a label in Vikunja.
ExternalDelete(s, i) ==
  /\ remote[s][i].live
  /\ Fault
  /\ Gone(s, i)
  /\ UNCHANGED <<kubernetes, work, nextId, inst, moved>>

ExternalEdit(s, i) ==
  /\ remote[s][i].live
  /\ remote[s][i].gen # 0
  /\ Fault
  /\ remote' = [remote EXCEPT ![s][i].gen = 0]
  /\ UNCHANGED <<kubernetes, work, nextId, inst, moved>>

ExternalCreate(s) ==
  /\ nextId[s] <= MaxId
  /\ Fault
  /\ remote' = [remote EXCEPT ![s][nextId[s]] = [NoLabel EXCEPT !.live = TRUE]]
  /\ nextId' = [nextId EXCEPT ![s] = @ + 1]
  /\ UNCHANGED <<kubernetes, work, inst, moved>>

-----------------------------------------------------------------------------
(* Reconcile up to its first request or write.                             *)

Started(n, pc) == [NoWork EXCEPT !.pc = pc, !.id = cache[n].status.id]

ReconcileUpserts(n) ==
  LET r == inst[cache[n].spec] IN
  /\ Finalized(cache[n])
  /\ Begin(n)
  /\ work' = IF r # "none" THEN [Started(n, "setNotReady") EXCEPT !.reason = r]
             ELSE Started(n, IF cache[n].status.id = 0 THEN "create" ELSE "update")
  /\ UNCHANGED world

ReconcileDeletes(n) ==
  /\ Exists(cache[n]) /\ cache[n].deleting /\ cache[n].finalizer
  /\ Begin(n)
  /\ work' = Started(n, IF cache[n].status.id # 0 /\ inst[cache[n].spec] = "none"
                        THEN "delete" ELSE "release")
  /\ UNCHANGED world

-----------------------------------------------------------------------------
(* upsertLabel and DeleteLabel, on the instance the spec names.            *)

Here == job.obj.spec

\* (mutant) the id is off by one.
ToReadyNext(i) == work' = [work EXCEPT !.pc = "setReady", !.id = i + 1]

ToReady(i) == work' = [work EXCEPT !.pc = "setReady", !.id = i]
ToError == work' = [work EXCEPT !.pc = "setNotReady", !.reason = "ReconcileError"]

\* (mutant) a label that the instance already has is taken for ours.
CreateOrAdopt ==
  LET Live == {i \in 1..MaxId : remote[Here][i].live}
      i == nextId[Here]
  IN
  /\ work.pc = "create"
  /\ IF Live # {}
     THEN ToReady(CHOOSE j \in Live : TRUE) /\ UNCHANGED <<remote, nextId>>
     ELSE /\ i <= MaxId
          /\ remote' = [remote EXCEPT ![Here][i] =
                          [live |-> TRUE, uid |-> job.obj.uid, gen |-> job.obj.gen]]
          /\ nextId' = [nextId EXCEPT ![Here] = i + 1]
          /\ ToReady(i)
  /\ UNCHANGED <<kubernetes, faults, inst, moved>>

CreateLabel ==
  LET i == nextId[Here] IN
  /\ work.pc = "create"
  /\ \/ /\ i <= MaxId
        /\ remote' = [remote EXCEPT ![Here][i] =
                        [live |-> TRUE, uid |-> job.obj.uid, gen |-> job.obj.gen]]
        /\ nextId' = [nextId EXCEPT ![Here] = i + 1]
        /\ \/ ToReady(i) /\ UNCHANGED faults
           \/ ToError /\ Fault
     \/ /\ ToError
        /\ IF i <= MaxId THEN Fault ELSE UNCHANGED faults
        /\ UNCHANGED <<remote, nextId>>
  /\ UNCHANGED <<kubernetes, inst, moved>>

\* (mutant) "not found" is an error like any other.
MissingIsError == ToError

\* The update found no such label.
Missing == work' = [work EXCEPT !.pc = "create"]

UpdateLabel ==
  LET i == job.obj.status.id IN
  /\ work.pc = "update"
  /\ \/ /\ remote[Here][i].live
        /\ remote' = [remote EXCEPT ![Here][i].gen = job.obj.gen]
        /\ \/ ToReady(i) /\ UNCHANGED faults
           \/ ToError /\ Fault
     \/ /\ ~remote[Here][i].live
        /\ Missing
        /\ UNCHANGED <<remote, faults>>
     \/ /\ ToError
        /\ Fault
        /\ UNCHANGED remote
  /\ UNCHANGED <<kubernetes, nextId, inst, moved>>

DeleteLabel ==
  LET i == job.obj.status.id IN
  /\ work.pc = "delete"
  /\ \/ /\ Gone(Here, i)
        /\ work' = [work EXCEPT !.pc = "release"]
        /\ UNCHANGED <<cache, queue, timers, job, lastUid, faults>>
     \/ /\ \/ Gone(Here, i)
           \/ UNCHANGED remote
        /\ Return(TRUE)
        /\ Fault
        /\ work' = NoWork
  /\ UNCHANGED <<api, events, nextId, inst, moved>>

-----------------------------------------------------------------------------
(* The write that ends a reconcile.                                        *)

\* (mutant) a Ready condition is never taken back.
StillReady(reason) ==
  [id |-> work.id, observed |-> job.obj.gen,
   reason |-> IF job.obj.status.reason = "ReconcileSuccess" THEN "ReconcileSuccess"
                                                            ELSE reason]

\* The status a reconcile reports.
Reported(reason) == [id |-> work.id, reason |-> reason, observed |-> job.obj.gen]

SetReady ==
  /\ work.pc = "setReady"
  /\ Ends([job.obj EXCEPT !.status = Reported("ReconcileSuccess")], TRUE)

SetNotReady ==
  /\ work.pc = "setNotReady"
  /\ Ends([job.obj EXCEPT !.status = Reported(work.reason)], TRUE)

Reconcile(n) ==
  \/ ReconcileNothing(n)
  \/ ReconcileAddsFinalizer(n)
  \/ ReconcileUpserts(n)
  \/ ReconcileDeletes(n)
  \/ ReconcileFails(n)

Step ==
  \/ CreateLabel
  \/ UpdateLabel
  \/ DeleteLabel
  \/ AddFinalizer
  \/ RemoveFinalizer
  \/ SetReady
  \/ SetNotReady

Environment ==
  \/ \E n \in Names, s \in Instances : Create(n, s) \/ EditLabel(n, s)
  \/ \E n \in Names : Delete(n)
  \/ \E s \in Instances, r \in Outcomes : InstanceChanges(s, r)
  \/ \E s \in Instances, i \in 1..MaxId : ExternalDelete(s, i) \/ ExternalEdit(s, i)
  \/ \E s \in Instances : ExternalCreate(s)
  \/ Crash

Next ==
  \/ \E n \in Names : Sync(n) \/ Requeue(n) \/ Reconcile(n)
  \/ Step
  \/ Environment

Spec == Init /\ [][Next]_vars

\* As for Projects.
Fairness ==
  /\ WF_vars(Step)
  /\ \A n \in Names : /\ WF_vars(Sync(n))
                      /\ WF_vars(Requeue(n))
                      /\ SF_vars(Reconcile(n))

FairSpec == Spec /\ Fairness

-----------------------------------------------------------------------------
(* Types.                                                                  *)

\* A busy worker works for a name, and reports Ready with an id.
TypeOK ==
  /\ RuntimeTypeOK
  /\ work \in [pc : {"idle", "addFinalizer", "create", "update", "setReady",
                     "setNotReady", "delete", "release"},
               id : 0..MaxId, reason : Reasons]
  /\ work.pc # "idle" => job.key # None
  /\ work.pc = "setReady" => work.id # 0
  /\ remote \in [Instances -> [1..MaxId -> [live : BOOLEAN, uid : 0..MaxUid,
                                            gen : 0..MaxGen]]]
  /\ nextId \in [Instances -> 1..(MaxId + 1)]
  /\ inst \in [Instances -> Outcomes]
  /\ moved \subseteq 1..lastUid

-----------------------------------------------------------------------------
(* Properties.                                                             *)

\* What the operator creates, rewrites or deletes in Vikunja is the label of
\* the very object it is working for, never that of another Label, of a
\* predecessor under the same name, or of somebody else, as long as that
\* object's instanceRef was never changed.
TouchesOwn ==
  [][<<job, work>>' # <<job, work>> =>
       \A s \in Instances, i \in 1..MaxId :
         remote'[s][i] # remote[s][i] => \/ remote'[s][i].uid = job.obj.uid
                                         \/ job.obj.uid \in moved]_vars

\* What the comment on Reconcile says: what is updated or deleted for a Label
\* is the label backing it.
TouchesBacking ==
  [][<<job, work>>' # <<job, work>> =>
       \A s \in Instances, i \in 1..MaxId :
         remote'[s][i] # remote[s][i] => remote'[s][i].uid = job.obj.uid]_vars

Ready(o) == o.status.reason = "ReconcileSuccess" /\ o.status.observed = o.gen

\* A Label that reports Ready for its newest generation has its own label on
\* the instance it refers to, with the contents of that generation, unless
\* another client deleted or rewrote it, or instanceRefs were changed.
ReadyMeansApplied ==
  \A n \in Names :
    LET o == api[n]
        r == remote[o.spec][o.status.id]
    IN Ready(o) /\ moved = {} =>
                   /\ o.status.id # 0
                   /\ r.uid = o.uid
                   /\ r.live /\ r.gen # 0 => r.gen = o.gen

\* Every instance is usable, and no create fails for want of an id (MaxId).
Steady == /\ \A s \in Instances : inst[s] = "none"
          /\ work.pc = "create" => nextId[Here] <= MaxId

Settled(o) ==
  LET r == remote[o.spec][o.status.id]
  IN ~o.deleting /\ Ready(o) /\ r.live /\ r.gen = o.gen

\* Once the instances stay usable, no Label remains that is being deleted, and
\* the others are Ready and as specified, even after instanceRef was changed.
Converges == <>[]Steady => <>[](\A n \in Names : Exists(api[n]) => Settled(api[n]))
=============================================================================
