-------------------------------- MODULE Team --------------------------------
(***************************************************************************)
(* The Team controller (internal/controller/team_controller.go): a team is *)
(* created or updated like a project, and then its members are added,      *)
(* removed and promoted or demoted, one request each, after the member     *)
(* list that came with the answer of the create or update.                 *)
(*                                                                         *)
(* A Team's spec is its roster, a role for every user; "out" is not listed.*)
(* Vikunja lets only admins of a team manage it (team_types.go), and the   *)
(* operator acts as the user its API token belongs to.                     *)
(***************************************************************************)
EXTENDS Naturals, Sequences

CONSTANTS Names, None, MaxUid, MaxGen, MaxLag, MaxFaults,
          Users,      \* users of Vikunja
          FirstOwner, \* the user whose token the Secret holds at first
          Rosters,    \* rosters users write into specs
          MaxId,      \* bound: teams ever created in Vikunja
          MaxDrift    \* bound: changes other clients make in Vikunja

VARIABLES api, cache, events, queue, timers, job, lastUid, faults,
          work,       \* the handler's locals: [pc, id, reason, actor, owner, plan]
          remote,     \* remote[i]: the Vikunja team with id i
          nextId,     \* Vikunja's next free id
          inst,       \* what resolveInstance finds of the VikunjaInstance
          token,      \* the user the token in the Secret belongs to
          owner,      \* status.tokenOwner of the VikunjaInstance
          owners,     \* history: every user token ever was
          drifts      \* changes other clients made so far

Roles == {"out", "member", "admin"}

Nobody == [u \in Users |-> "out"]

ASSUME NoneAssumption == None \notin Names
ASSUME UsersAssumption == FirstOwner \in Users /\ Rosters \subseteq [Users -> Roles]
ASSUME BoundsAssumption == /\ {MaxUid, MaxLag, MaxFaults, MaxId, MaxDrift} \subseteq Nat
                           /\ MaxGen \in Nat \ {0}

Reasons == {"none", "ReconcileSuccess", "ReconcileError", "InstanceNotFound",
            "InstanceNotReady"}

NoStatus == [id |-> 0, reason |-> "none", observed |-> 0]

world == <<remote, nextId, inst, token, owner, owners, drifts>>

Instances == {"ready", "notReady", "notFound"}

\* The requests reconcileMembers still has to send.
NoPlan == [add |-> {}, remove |-> {}, toggle |-> {}]

NoWork == [pc |-> "idle", id |-> 0, reason |-> "none", actor |-> FirstOwner,
           owner |-> FirstOwner, plan |-> NoPlan]

Status == [id : 0..MaxId, reason : Reasons, observed : 0..MaxGen]

\* What a request to Vikunja leaves alone.
kubernetes == <<api, cache, events, queue, timers, job, lastUid>>

INSTANCE ControllerRuntime WITH Specs <- Rosters \cup {Nobody}, NoSpec <- Nobody

vars == <<kubernetes, faults, work, world>>

NoTeam == [live |-> FALSE, gen |-> 0, members |-> Nobody]

Init ==
  /\ RuntimeInit
  /\ remote = [i \in 1..MaxId |-> NoTeam]
  /\ nextId = 1
  /\ inst = "ready"
  /\ token = FirstOwner
  /\ owner = FirstOwner
  /\ owners = {FirstOwner}
  /\ drifts = 0

-----------------------------------------------------------------------------
(* The environment.                                                        *)

EnqueueAll == queue' = queue \cup {n \in Names : Exists(cache[n])}

\* The VikunjaInstance's Ready condition changes; becoming Ready takes a probe
\* with the token.
InstanceChanges(i) ==
  /\ i # inst
  /\ Fault
  /\ inst' = i
  /\ owner' = IF i = "ready" THEN token ELSE owner
  /\ EnqueueAll
  /\ UNCHANGED <<api, cache, events, timers, job, lastUid,
                 work, remote, nextId, token, owners, drifts>>

\* The Secret now holds a token of another user; nothing watches Secrets.
Rotate(u) ==
  /\ u # token
  /\ Fault
  /\ token' = u
  /\ owners' = owners \cup {u}
  /\ UNCHANGED <<kubernetes, work, remote, nextId, inst, owner, drifts>>

\* The VikunjaInstance controller probes again and records the token's owner.
InstanceReconciles ==
  /\ inst = "ready"
  /\ owner # token
  /\ owner' = token
  /\ EnqueueAll
  /\ UNCHANGED <<api, cache, events, timers, job, lastUid, faults,
                 work, remote, nextId, inst, token, owners, drifts>>

Gone(i) == remote' = [remote EXCEPT ![i] = NoTeam]

Drift ==
  /\ drifts < MaxDrift
  /\ drifts' = drifts + 1
  /\ UNCHANGED <<kubernetes, faults, work, nextId, inst, token, owner, owners>>

\* Another client deletes a team, or rewrites it and changes u's role.
ExternalDelete(i) == remote[i].live /\ Drift /\ Gone(i)

ExternalEdit(i, u, role) ==
  /\ remote[i].live
  /\ Drift
  /\ remote' = [remote EXCEPT ![i].gen = 0, ![i].members[u] = role]

-----------------------------------------------------------------------------
(* Reconcile up to its first request or write.                             *)

InstanceReason == IF inst = "notFound" THEN "InstanceNotFound"
                                       ELSE "InstanceNotReady"

\* The locals once the object is read: the id so far, the token in use and
\* the owner that the instance's status names.
Started(n, pc) == [NoWork EXCEPT !.pc = pc, !.id = cache[n].status.id]

ReconcileUpserts(n) ==
  /\ Finalized(cache[n])
  /\ Begin(n)
  /\ work' = IF inst = "ready"
             THEN [Started(n, IF cache[n].status.id = 0 THEN "create" ELSE "update")
                     EXCEPT !.actor = token, !.owner = owner]
             ELSE [Started(n, "setNotReady") EXCEPT !.reason = InstanceReason]
  /\ UNCHANGED world

ReconcileDeletes(n) ==
  /\ Exists(cache[n]) /\ cache[n].deleting /\ cache[n].finalizer
  /\ Begin(n)
  /\ work' = IF cache[n].status.id # 0 /\ inst = "ready"
             THEN [Started(n, "delete") EXCEPT !.actor = token]
             ELSE Started(n, "release")
  /\ UNCHANGED world

-----------------------------------------------------------------------------
(* upsertTeam and DeleteTeam.                                              *)

\* (mutant) team_controller.go:92 is missing: the new id waits for setReady.
ToErrorForgets ==
  work' = [work EXCEPT !.pc = "setNotReady", !.reason = "ReconcileError",
                       !.plan = NoPlan, !.id = job.obj.status.id]

ToError == work' = [work EXCEPT !.pc = "setNotReady", !.reason = "ReconcileError",
                                !.plan = NoPlan]

\* The token in use may manage team i.
Manages(i) == remote[i].live /\ remote[i].members[work.actor] = "admin"

\* (mutant) the token's owner is like any other member.
AnyMember(u) == TRUE

\* Members nobody asked for are removed, but never the token's owner as the
\* instance's status names it.
Removable(u) == u # work.owner

\* (mutant) only members to add and to remove are looked for.
AddAndRemove(current) ==
  LET want == job.obj.spec
      Missing == {u \in Users : want[u] # "out" /\ current[u] = "out"}
      Extra == {u \in Users : want[u] = "out" /\ current[u] # "out"}
  IN [add |-> Missing, remove |-> {u \in Extra : Removable(u)}, toggle |-> {}]

\* What reconcileMembers finds to do, given the member list of the answer.
PlanFor(current) ==
  LET want == job.obj.spec
      Missing == {u \in Users : want[u] # "out" /\ current[u] = "out"}
      Extra == {u \in Users : want[u] = "out" /\ current[u] # "out"}
      Wrong == {u \in Users : "out" \notin {want[u], current[u]} /\ want[u] # current[u]}
  IN [add |-> Missing, remove |-> {u \in Extra : Removable(u)}, toggle |-> Wrong]

\* (mutant) setReady is only reached after some request.
PursueAlways(i, plan) ==
  work' = [work EXCEPT !.pc = "members", !.id = i, !.plan = plan]

Pursue(i, plan) ==
  work' = [work EXCEPT !.pc = IF plan = NoPlan THEN "setReady" ELSE "members",
                       !.id = i, !.plan = plan]

\* The creator of a team is its admin.
CreateTeam ==
  LET members == [Nobody EXCEPT ![work.actor] = "admin"] IN
  /\ work.pc = "create"
  /\ \/ /\ nextId <= MaxId
        /\ remote' = [remote EXCEPT ![nextId] =
                        [live |-> TRUE, gen |-> job.obj.gen, members |-> members]]
        /\ nextId' = nextId + 1
        /\ \/ Pursue(nextId, PlanFor(members)) /\ UNCHANGED faults
           \/ ToError /\ Fault
     \/ /\ ToError
        /\ IF nextId <= MaxId THEN Fault ELSE UNCHANGED faults
        /\ UNCHANGED <<remote, nextId>>
  /\ UNCHANGED <<kubernetes, inst, token, owner, owners, drifts>>

\* PUT leaves the members alone.
UpdateTeam ==
  LET i == job.obj.status.id IN
  /\ work.pc = "update"
  /\ \/ /\ Manages(i)
        /\ remote' = [remote EXCEPT ![i].gen = job.obj.gen]
        /\ \/ Pursue(i, PlanFor(remote[i].members)) /\ UNCHANGED faults
           \/ ToError /\ Fault
     \/ /\ ~remote[i].live
        /\ work' = [work EXCEPT !.pc = "create"]
        /\ UNCHANGED <<remote, faults>>
     \/ /\ remote[i].live
        /\ ToError
        /\ IF Manages(i) THEN Fault ELSE UNCHANGED faults
        /\ UNCHANGED remote
  /\ UNCHANGED <<kubernetes, nextId, inst, token, owner, owners, drifts>>

DeleteTeam ==
  LET i == job.obj.status.id IN
  /\ work.pc = "delete"
  /\ \/ /\ remote[i].live => Manages(i)
        /\ Gone(i)
        /\ work' = [work EXCEPT !.pc = "release"]
        /\ UNCHANGED <<cache, queue, timers, job, lastUid, faults>>
     \/ /\ \/ Manages(i) /\ Gone(i)
           \/ UNCHANGED remote
        /\ IF remote[i].live => Manages(i) THEN Fault ELSE UNCHANGED faults
        /\ Return(TRUE)
        /\ work' = NoWork
  /\ UNCHANGED <<api, events, nextId, inst, token, owner, owners, drifts>>

-----------------------------------------------------------------------------
(* reconcileMembers: first all additions, then removals and toggles, each  *)
(* in any order (they range over Go maps); the first error ends it.        *)

\* (mutant) an error is logged and the next member is tried.
MembershipOrNot(u, role, rest) ==
  /\ \/ /\ remote' = [remote EXCEPT ![work.id].members[u] = role]
        /\ UNCHANGED faults
     \/ Fault /\ UNCHANGED remote
  /\ Pursue(work.id, rest)
  /\ UNCHANGED <<kubernetes, nextId, inst, token, owner, owners, drifts>>

\* One request that gives u a role, with what is left to do after it.
Membership(u, role, rest) ==
  LET i == work.id IN
  /\ \/ /\ Manages(i)
        /\ remote' = [remote EXCEPT ![i].members[u] = role]
        /\ \/ Pursue(i, rest) /\ UNCHANGED faults
           \/ ToError /\ Fault
     \/ /\ ToError
        /\ IF Manages(i) THEN Fault ELSE UNCHANGED faults
        /\ UNCHANGED remote
  /\ UNCHANGED <<kubernetes, nextId, inst, token, owner, owners, drifts>>

AddTeamMember(u) ==
  /\ work.pc = "members"
  /\ u \in work.plan.add
  /\ Membership(u, job.obj.spec[u], [work.plan EXCEPT !.add = @ \ {u}])

RemoveTeamMember(u) ==
  /\ work.pc = "members"
  /\ work.plan.add = {}
  /\ u \in work.plan.remove
  /\ Membership(u, "out", [work.plan EXCEPT !.remove = @ \ {u}])

\* Whatever u's role is by now is flipped; a user who left is not found.
ToggleTeamMemberAdmin(u) ==
  LET role == remote[work.id].members[u] IN
  /\ work.pc = "members"
  /\ work.plan.add = {}
  /\ u \in work.plan.toggle
  /\ IF role = "out"
     THEN ToError /\ UNCHANGED <<kubernetes, faults, world>>
     ELSE Membership(u, IF role = "admin" THEN "member" ELSE "admin",
                     [work.plan EXCEPT !.toggle = @ \ {u}])

-----------------------------------------------------------------------------
(* The write that ends a reconcile.                                        *)

SetReady ==
  /\ work.pc = "setReady"
  /\ Ends([job.obj EXCEPT !.status = [id |-> work.id, reason |-> "ReconcileSuccess",
                                      observed |-> job.obj.gen]], TRUE)

SetNotReady ==
  /\ work.pc = "setNotReady"
  /\ Ends([job.obj EXCEPT !.status = [id |-> work.id, reason |-> work.reason,
                                      observed |-> job.obj.gen]], TRUE)

Reconcile(n) ==
  \/ ReconcileNothing(n)
  \/ ReconcileAddsFinalizer(n)
  \/ ReconcileUpserts(n)
  \/ ReconcileDeletes(n)
  \/ ReconcileFails(n)

Step ==
  \/ CreateTeam
  \/ UpdateTeam
  \/ DeleteTeam
  \/ \E u \in Users : AddTeamMember(u) \/ RemoveTeamMember(u) \/ ToggleTeamMemberAdmin(u)
  \/ AddFinalizer
  \/ RemoveFinalizer
  \/ SetReady
  \/ SetNotReady

Environment ==
  \/ \E n \in Names, s \in Rosters : Create(n, s) \/ Edit(n, s)
  \/ \E n \in Names : Delete(n)
  \/ \E i \in Instances : InstanceChanges(i)
  \/ \E u \in Users : Rotate(u)
  \/ \E i \in 1..MaxId : \/ ExternalDelete(i)
                         \/ \E u \in Users, role \in Roles : ExternalEdit(i, u, role)
  \/ Crash

Next ==
  \/ \E n \in Names : Sync(n) \/ Requeue(n) \/ Reconcile(n)
  \/ Step
  \/ InstanceReconciles
  \/ Environment

Spec == Init /\ [][Next]_vars

\* As for Projects; besides, the instance is probed every 10 minutes.
Fairness ==
  /\ WF_vars(Step)
  /\ WF_vars(InstanceReconciles)
  /\ \A n \in Names : /\ WF_vars(Sync(n))
                      /\ WF_vars(Requeue(n))
                      /\ SF_vars(Reconcile(n))

FairSpec == Spec /\ Fairness

-----------------------------------------------------------------------------
(* Types.                                                                  *)

Steps == {"idle", "addFinalizer", "create", "update", "members", "setReady",
          "setNotReady", "delete", "release"}

Plan == [add : SUBSET Users, remove : SUBSET Users, toggle : SUBSET Users]

Work == [pc : Steps, id : 0..MaxId, reason : Reasons, actor : Users, owner : Users,
         plan : Plan]

Remote == [live : BOOLEAN, gen : 0..MaxGen, members : [Users -> Roles]]

\* A busy worker works for a name, and has requests left exactly while it is
\* busy with members.
TypeOK ==
  /\ RuntimeTypeOK
  /\ work \in Work
  /\ work.pc # "idle" => job.key # None
  /\ work.pc = "members" <=> work.plan # NoPlan
  /\ remote \in [1..MaxId -> Remote]
  /\ nextId \in 1..(MaxId + 1)
  /\ inst \in Instances
  /\ {token, owner} \subseteq owners
  /\ owners \subseteq Users
  /\ drifts \in 0..MaxDrift

-----------------------------------------------------------------------------
(* Safety.                                                                 *)

Ready(o) == o.status.reason = "ReconcileSuccess" /\ o.status.observed = o.gen

\* A Team that reports Ready for its newest generation has in Vikunja the
\* contents and the members of that generation, with the right roles, unless
\* another client interfered; only users the token belongs or belonged to may
\* be members besides.
ReadyMeansApplied ==
  \A n \in Names :
    LET o == api[n]
        r == remote[o.status.id]
    IN Ready(o) /\ drifts = 0 =>
         /\ o.status.id # 0
         /\ r.live => /\ r.gen = o.gen
                      /\ \A u \in Users : \/ r.members[u] = o.spec[u]
                                          \/ u \in owners /\ o.spec[u] = "out"

\* Unless other clients interfere or the token is rotated, the operator never
\* loses its own place in a team, whatever the specs list.
OwnerStays ==
  owners = {token} /\ drifts = 0 =>
    \A i \in 1..MaxId : remote[i].live => remote[i].members[token] # "out"

\* The operator knows team i: a Team records it, or the running reconcile has its id.
Known(i) == work.id = i \/ \E n \in Names : api[n].status.id = i

\* Vikunja has team i, new or known until now, and now nobody knows it.
Forgets(i) == (remote[i].live => Known(i)) /\ remote'[i].live /\ ~Known(i)'

\* The operator never forgets a team it found, or one it created and got the
\* answer of, whichever of the requests for its members fails: otherwise
\* every retry would create another team.  A team is forgotten only when the answer
\* of its create is lost, when the write that ends the reconcile is refused or
\* does not get through (a restart included), or with the end of its Team.
NoneForgotten ==
  [][\A i \in 1..MaxId : Forgets(i) =>
       \/ ~remote[i].live /\ faults' # faults
       \/ job # Idle /\ job' = Idle /\ (faults' # faults \/ ~job.current)
       \/ \E n \in Names : api[n].status.id = i /\ api'[n].uid # api[n].uid]_vars

\* What the README says of members: the user that the operator's token
\* belongs to (as the very request shows) is never removed.
OwnerNeverRemoved ==
  [][work.pc = "members" /\ drifts' = drifts =>
       \A i \in 1..MaxId : remote[i].members[work.actor] # "out"
                               => remote'[i].members[work.actor] # "out"]_vars

-----------------------------------------------------------------------------
(* Liveness.                                                               *)

\* The instance is usable and knows the token's owner, who is an admin of
\* every team recorded and to whom no spec denies that; no Team is being
\* deleted, and no create fails for want of an id (MaxId).
Steady ==
  /\ inst = "ready"
  /\ owner = token
  /\ work.pc = "create" => nextId <= MaxId
  /\ \A n \in Names : Exists(api[n]) =>
       /\ ~api[n].deleting
       /\ api[n].spec[token] # "member"
       /\ \A i \in {api[n].status.id} \ {0} :
            remote[i].live => remote[i].members[token] = "admin"

Settled(n) ==
  LET o == api[n]
      r == remote[o.status.id]
  IN /\ Ready(o)
     /\ r.live /\ r.gen = o.gen
     /\ \A u \in Users \ {token} : r.members[u] = o.spec[u]

\* Once the environment stays steady, every Team reports Ready and has exactly
\* the members of its spec, with their roles, besides the token's owner: lost
\* answers, drift and earlier owners are repaired although toggles are not
\* idempotent.
Converges == <>[]Steady => <>[](\A n \in Names : Exists(api[n]) => Settled(n))
=============================================================================
