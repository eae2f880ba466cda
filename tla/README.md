# vikunja-operator in TLA+

TLA+ models of [vikunja-operator](../src/README.md), a Kubernetes operator that
keeps projects, tasks, teams and labels of a Vikunja server in line with custom
resources. TLC checks the models on small instances; TLAPS proves the safety
properties of all five controllers for every instance.

## The system

| Part | Source | State it keeps | Operations |
|---|---|---|---|
| Project controller | `internal/controller/project_controller.go` | `Project.status` (id, Ready condition, observedGeneration), the finalizer; the handler's locals | `Reconcile`, `upsertProject`, `reconcileDelete`, `setReady`, `setNotReady` |
| Label controller | `label_controller.go` | the same for `Label` | the same, without dependencies |
| Team controller | `team_controller.go` | the same for `Team` | also `reconcileMembers` |
| Task controller | `task_controller.go` | the same for `Task` | also `reconcileLabels`, `reconcileAssignees`, `deleteRemoteTask` |
| VikunjaInstance controller | `vikunjainstance_controller.go` | `VikunjaInstance.status` (Ready, version, tokenOwner) | `Reconcile`, `setStatus`; no finalizer |
| shared helpers | `common.go` | none | `resolveInstance`, `readSecretKey`, `getReadyProject`, `getReadyLabel`, `mapToDependentsByField` |
| HTTP client | `internal/vikunja/client.go` | none | one request per method, 30 s timeout |
| manager | `cmd/main.go` | work queues, informer caches, requeue delays, one worker per controller | start, leader election, restart |
| Vikunja (external) | `fakevikunja_test.go` states the contract | projects, tasks, labels, teams with ids | create, update, delete, membership |

How they interact. Users write specs to the API server; watch events bring them
to the informer caches, late but in order per object, and enqueue a reconcile.
A reconcile reads only caches, sends HTTP requests to Vikunja and ends with one
write to the API server, which is refused when the copy it was made from is no
longer the newest. Controllers see each other only through status: a Project
reads its parent's id, a Task its Project's and Labels' ids, all of them the
VikunjaInstance's Ready condition. A change of a VikunjaInstance enqueues its
Projects, Teams and Labels, a change of a Project its Tasks; everything else
(parents, Labels, Secrets) is noticed by requeue delays of 15 s or 10 min.

What is hard. Nothing is atomic across Vikunja and the API server: between a
create call and the status update that records its id the user may edit,
delete or recreate the object, the cache may not show the handler its own last
write, an answer may be lost after the request was executed, and the process
may be replaced. `PROJECT.json` lists each such hazard at its line.

What makes each part correct:

- **Project, Label, Team, Task**: an id in status is one created for that very
  object; it is not lost while the object exists; the object only vanishes
  after the remote delete (or after a delete that was skipped for want of an
  instance); Ready for the newest generation means that Vikunja holds that
  generation; a marked object disappears and an object left alone becomes Ready.
- **Team, Task** in addition: sets of members, labels and assignees converge
  although they are changed one request at a time; the token's owner stays.
- **VikunjaInstance**: Ready and tokenOwner describe the instance at some moment
  after the last change of the spec, and follow the server in the end.

## The modules

| Module | Models |
|---|---|
| `ControllerRuntime` | what controller-runtime and the API server do for every controller, and what all handlers have in common (finalizer, early returns, the final write); no `Next`, instantiated by the others |
| `Project` | the Project controller, with parents |
| `Team` | the Team controller with `reconcileMembers` |
| `Label` | the Label controller, with several instances and instanceRefs that change |
| `Instance` | the VikunjaInstance controller |
| `Task` | the Task controller, with the ids its Projects and Labels record |
| `Operator` | `Instance` and `Project` in one process, the way `main` sets them up |
| `Counterpart` | the abstract specification: what a controller promises about objects and their counterparts in Vikunja |
| `RuntimeProofs` | proofs about `ControllerRuntime`, for any handler |
| `ProjectOwnership`, `ProjectPromise`, `ProjectReady` | proofs about `Project`: types and ids; `Counterpart`; Ready |
| `InstanceProofs`, `LabelProofs`, `TeamProofs`, `TaskProofs` | proofs about the other controllers |
| `MC*` | small instances for TLC |

**State.** `api[n]` is the object stored under a name, `events[n]` the watch events
on their way to the informer cache `cache[n]`; `queue` is the work queue, a set
since client-go drops duplicates; `timers` holds the names with a pending
`RequeueAfter` or error back-off. `job` is the one worker a controller built
without options has: the copy that `r.Get` returned and whether it is still the
newest version. The API server only ever compares a resourceVersion for
equality, so this one bit stands for it. `work` holds the handler's locals, with
`pc` naming the next request or write. `remote` is Vikunja's table and `nextId`
its next id; ids are never reused. A generation number stands for the contents of
a spec: `remote[i].gen = 3` says that Vikunja holds what generation 3 asked for,
0 that somebody else rewrote it. Only the parts of a spec that steer the handler
are kept as themselves (parent, roster, instanceRef, baseURL).

**Actions.** A reconcile is cut where another party can get between: one action
reads the caches and decides (`Reconcile...`: the early returns of `Reconcile`
and `reconcileDelete` up to the first request), then one action per HTTP request
(`CreateProject`, `UpdateProject`, `DeleteProject`, one per member change of a
Team), then one for the write that ends it (`AddFinalizer`, `RemoveFinalizer`,
`SetReady`, `SetNotReady`). Each action has the outcomes the code tells apart:
executed, refused, failed, and executed with the answer lost. `Commit` is the
write with the API server's conflict check. Caches are read together at the
start, as the code reads them one after another from memory without a request in
between.

**Environment.** Users create, edit and delete objects (`Create`, `Edit`,
`Delete`); other clients of Vikunja delete and rewrite (`External...`, `Drift`);
the VikunjaInstance and its Secret change; the process is replaced (`Crash`).
Everything that is a fault or an outside disturbance takes one of `MaxFaults`;
users' actions are bounded by `MaxUid` (objects ever created), `MaxGen`
(generations of one object) and `MaxLag` (undelivered events a user may add to).

Definitions that are marked `(mutant)` are not part of the model: each is a
plausible bug, put in the place of the definition it varies to see that a
property notices.

**Per module.** In `Project`, `work.skip` records that `reconcileDelete` found no
usable instance. In `Team`, `token` is the user the Secret's token belongs to and
`owner` the VikunjaInstance's `status.tokenOwner`; `work.actor` and `work.owner`
are what the running reconcile has read of them; `owners` is a history variable.
`work.plan` holds the membership requests still to be sent, in any order, as Go
maps give it. Vikunja's rule that only admins manage a team is modelled because the
code's exemption of the token's owner rests on it. In `Label`, `remote[s][i]` is per
instance, since each numbers its labels from 1, and `moved` (history) names the
Labels whose instanceRef was ever changed. In `Instance`, `seen` is the
cached Secret and `held` (history) every token it ever held; the server is asked
first for its version, then for the user.

In `Task`, `dep[d]` is a Project or Label as Tasks see it: only the id its status
records matters. Its controller appears as what it does to that id: it records one
(`Recorded`), records another after the first was deleted in Vikunja by somebody
else (`Lost`, which shows in no status), and takes it away with the resource
(`Removed`). `<<d, k>>` stands for the k-th id given for `d`, so that an id that is
no longer valid can be told from the current one. A Project's change enqueues its
Tasks; a Label's or a VikunjaInstance's does not, since `SetupWithManager` watches
neither. `work.plan` holds the label and assignee requests still to be sent:
additions before removals, labels before assignees, otherwise in any order.

`Operator` replaces what `Project` takes as given, `inst`, by what `resolveInstance`
computes (`Resolved`): from the cached VikunjaInstance, whose status the other
controller writes, and the cached Secret. It links the two by the event that
enqueues the Projects, by one restart that hits both, and by a server that, while it
is down, answers neither.

**The abstract specification.** `Counterpart` knows nothing of caches, queues,
requests and statuses. Its state is which object exists under a name, which id it
records, for whom each id was made and which ids are alive. It allows a counterpart
to be made only for an object that exists; to be recorded only by the object it was
made for, and in the place of another only when that is gone; and an object
to vanish only when the recorded counterpart is gone, or while no usable instance
was found (`excused`). It deliberately allows counterparts that nobody records,
since the code leaves such behind (`project_orphan`). `Promise` in `Project`, `Task`
and `Operator` is this specification under a refinement mapping.

## The runs

| Run | Question | Bounds |
|---|---|---|
| `project_life` | What a Project records is its own, is not lost, is what Vikunja holds when Ready; `Counterpart` is implemented; a deletion ends | 1 name, 2 objects, 2 generations, lag 1, 1 fault, 3 ids |
| `project_family` | Ready child below the right parent | 2 names, 2 objects, 1 generation, 1 fault, 3 ids |
| `project_converges` | Parent and child settle, after an edit and a fault | 2 names, 2 objects, 2 generations, 1 fault, 3 ids |
| `project_orphan`* | "deletes the object in Vikunja first" | no fault |
| `project_waits`* | "wait for their dependency to be Ready" | 2 names, no fault |
| `team_life` | Ready means the spec's members; the owner stays; no team is forgotten; members converge | 3 users, 2 generations, 1 fault; an edit or a change by others, not both |
| `team_owner`* | "never removes the token's user" | 2 users, 1 fault (the rotation) |
| `instance_life` | Ready speaks for the newest spec; status follows the servers | 2 servers, 2 tokens, 2 objects, 2 generations, 2 faults |
| `label_life` | Ready means applied; only the own label is touched; a Label settles, even after a move | 2 instances, 2 objects, 2 generations, 1 fault; the second object is not edited |
| `label_moves`* | the label "backing this Label resource" is what is updated | 2 Labels, 2 instances, no fault |
| `task_life` | Ready means contents, project, labels, assignees; no task is forgotten; `Counterpart` is implemented; a Task settles | 1 Task, 2 Projects, 1 Label, 2 users, 2 generations, 1 fault, 2 ids each |
| `operator_life` | with both controllers: `Counterpart` is implemented, deletions end, all settles in any order of applying | 1 Project, 1 VikunjaInstance, 1 server, 1 token, 1 fault, 2 ids |

Runs marked * are expected to find a violation.

Why the bounds suffice. Two incarnations are what it takes to confuse an object
with its predecessor, two generations to confuse contents, one undelivered event
to read an outdated copy. One worker means that at most one reconcile holds a
copy, so a third incarnation meets the same states as the second. A single fault
already reaches every error path, a restart at every step included; `instance_life`,
which has two, also sees a server or a Secret fail and come back. Three ids leave room for an
id to be lost and a project to be created again. `project_family` needs two
names because parents are the only way one Project depends on another. Two
generations and two Projects let a Task be moved, with labels and assignees to add
and to take away; two ids per Project and Label let one be lost and recorded anew.

Some MC modules bound a run further with an `ACTION_CONSTRAINT`:

- requeue delays, of 15 s and more, only end when the worker has nothing to do
  (`project_life`, `project_family`, `project_converges`, `team_life`; in `operator_life` when no event is
  on its way either). Events may still be late, so outdated copies are read as before;
- `project_family`: the instance stays usable (`project_life` has its outages);
- `project_converges`: nothing is deleted in Kubernetes; the parent is not edited and has
  no parent; the child is edited at most once, to put it below the parent. The one fault
  is any: a lost answer, a failed read, request or status update, a restart, an outage,
  or a project changed or deleted in Vikunja, which gives the parent another id;
- `team_life`: a Team is edited or changed by another client, not both, and the token
  is rotated to one other user only;
- `label_life`: the first Label starts on the first of two interchangeable
  instances, and the object that succeeds it is not edited;
- `task_life`: nothing happens to the Project a Task may be moved to;
- `operator_life`: a probe is interrupted by nothing but a restart (`instance_life`
  has every other interleaving with it).

None of them holds an action back for good that fairness asks for: a delay ends once
the worker has caught up, which it does, as everything but delays is bounded.

Every run has `CHECK_DEADLOCK FALSE`: when the bounded users and faults are spent
and every object is gone, the operator rightly has nothing to do.

Fairness. The worker's next step, the delivery of watch events and the end of a
delay are weakly fair: the process runs, watches are delivered, timers fire. The
start of a reconcile is strongly fair per name, because the queue is FIFO: other
names may keep the worker busy, but a waiting name is served. In `Team`,
`InstanceReconciles` is weakly fair (the instance is probed every 10 minutes), in
`Instance` the cache of Secrets catches up. In `Operator` each controller has its
own worker and queue, so each has these conditions for itself. Nothing is assumed of users, faults
or other clients, which are bounded instead; liveness properties that are only
due while the environment is calm say so (`Steady`).

## What the runs show

The passing runs hold as listed. `TypeOK` in each also says that a busy worker
has a key, and, where the handler sends several requests, that it has one left to
send or an id to report.

What they show beyond each handler on its own: Projects and Tasks keep the promise of
`Counterpart` in every interleaving with users, restarts and lost answers, and
Projects do so with a VikunjaInstance that changes underneath. A Project marked for
deletion is gone in the end although every deletion in Vikunja fails: with the server
down for good, the next probe takes the Ready condition back and the finalizer is
given up. Secret, VikunjaInstance and Project may be applied in any order.
A Task settles although it is told of no change of its Labels, because
`setNotReady` and `setReady` both requeue.

Four statements of the repository do not hold of the code:

1. **Orphans** (`project_orphan`). `README.md` says that deleting an object
   deletes its counterpart in Vikunja first. The id is recorded by the status
   update after the create call; if the object is edited or marked for deletion
   in between, that update conflicts and the id is lost. A deletion then
   finds no id and removes the finalizer. Label, Team and Task share the pattern.
2. **Waiting** (`project_waits`). `README.md` says that dependents wait for
   Ready; `getReadyProject` only looks for an id, which `setNotReady` keeps.
3. **Token owner** (`team_owner`). After the Secret is rotated to another user,
   and until the next probe, `tokenOwner` names the old user, and a new team loses
   the user that has just created it. `OwnerStays` shows that without a rotation
   (and without other clients changing members) the operator stays in its teams.
4. **Moved labels** (`label_moves`). `status.id` does not say which instance gave
   it. After instanceRef is edited, the label with the same number on the new
   instance is rewritten or deleted. `TouchesOwn` in `label_life` shows that
   this takes such an edit, and `Converges` that even then the moved Label settles.

## What is proved

For every set of names, users, servers and instances, and for all bounds, from the
assumptions each module names: None is nobody's name, the bounds are natural numbers
and `MaxGen` is at least 1; in `Instance` every server has accounts; in `Team` the
rosters give every user a role and the first owner is a user; in `Task` Projects and
Labels are different things, and specs name those that there are.

| Property | Project | Task | Team | Label | Instance |
|---|---|---|---|---|---|
| types | `TypeCorrect` | `TypeCorrect` | `TypeCorrect` | `TypeCorrect` | `TypeCorrect` |
| Ready tells the truth | `ReadyProjectIsApplied` | `ReadyIsApplied` | `ReadyIsApplied` | `ReadyIsApplied` | `ReadyIsProbed` |
| implements `Counterpart` | `ProjectsKeepPromise` | `TasksKeepPromise` | | | |
| ids | `IdsAreOwned`, `IdsAreKept`, `VanishingIsClean`, `CreatedIsFinalized` | `NoTaskIsForgotten` | `NoTeamIsForgotten` | `OthersAreLeftAlone` | |
| the operator's place | | | `OwnerIsKept` | | |

So every invariant that a run checks is a theorem, and every action property but the
ones that a run shows violated, except what `Operator` adds.

### The runtime, once for all controllers

`RuntimeProofs` is about `ControllerRuntime` with any handler. `Move` is the most that
a step of a controller may do to the runtime's variables: it lets the handler do as it
pleases outside, and write no more than status, its finalizer, or the removal of an
object that is marked (`MayWrite`). Whatever moves like that keeps `RInv`:

- `Follows`: the last undelivered event, or the cache when there is none, is the stored
  object; a copy marked current is the stored object. So a write that passes the
  conflict check starts from what is stored.
- `Versions`: a copy, wherever it is (stored, cached, in an event or with the worker),
  is of an earlier incarnation or of no newer generation; the same generation
  has the same spec; and a copy that has the finalizer and is not marked shows an
  object that is still there. That last part is the reason why a create request sent
  for an outdated copy makes nothing for an object that is gone: for the object to
  have gone away, it must have been marked, and then removed by a write from
  the newest copy, which came out of the cache after the mark, so no older one is left.
- `OneName`: no uid under two names.

`CopyStep` says that a step brings no copy into being but the stored object. Each
controller's module shows `StepMoves` (its steps are `Move`s) and has all this for its
own variables through `INSTANCE`.

### The invariants of the controllers

None of the properties is inductive: the next request or write takes its contents from
the worker's copy, which came from the cache, which is fed by events. The invariants
therefore speak of all copies, and of what the handler has established at each step.

- **Ready tells the truth.** The danger is a worker with a copy of an older generation:
  its request overwrites what a newer one stored. `ReadyIsNewest` says that once a
  generation is reported, no copy of an older one of that object is left: the report
  was written from a copy that was current. With `Versions`, the worker that touches
  the counterpart of a Ready object has that object's generation and spec, so its
  request asks for what is there already. `NotAhead` (a report is never of a
  future generation) keeps an edit from making an old report true.
- **Whose ids.** `CopiesOwn` (`CopiesHonest` in `ProjectOwnership`): the id in any copy is
  of a counterpart made for the copy's uid; `Handler` says the same of the id the worker
  holds. A team in Vikunja does not show for whom it was made, so `TeamProofs` states it
  the other way round: all copies that show an id, and the worker that holds
  it, are of one uid (`Holds`). In `LabelProofs` it holds unless the Label was moved.
- **Half done.** `TaskProofs` and `TeamProofs` have to know that a reconcile reaches its
  goal although labels, assignees and members change one request at a time: what is there
  and the requests that are left lead to the spec (`Leads`), after the list is
  computed and after each request. With no request left, the spec is reached.
- **Nothing forgotten.** `NoneForgotten` of `Team` and `Task` is a statement about steps:
  of what Vikunja has, an id that the operator knows, in the handler's locals or in a
  stored status, or one that Vikunja has just answered a create with, stays known. A
  handler that ended with the old id when a request for members, labels or assignees
  fails would violate it, and every retry would create another team or task. The proof takes each place the id may be in. While the handler has it, only
  the end of the reconcile takes it away, and a write that is stored has it (a missing
  answer and a refused write are the exceptions the property names). While a status has
  it, only a write with another id does, and the worker has another only when Vikunja has
  nothing under the recorded one: `Tracks` in `TeamProofs`; in `TaskProofs`, `Handler` and
  `Vacant`, which says that a worker between reconciles has no id.
- **The operator's place.** `Tokens`: the users the worker acts as and spares were owners
  of the token, and the spared one is not on the list of removals. As long as there
  was only one owner, no request takes that user out of a team.
- **Parents.** In `ProjectReady`, `Named`: a recorded id is that of a project which has
  the Project's name, in whichever incarnation, so the parent id read from the cache is
  of a project made for that parent.
- **Probes.** In `InstanceProofs`, `Probing`: what the worker has heard, it heard from the
  server that its own copy names.

`ProjectOwnership` and `ProjectPromise` were written for `Project` alone and carry their
own forms of `Follows` and `Versions` (`IInv`, `PInv`); `ProjectReady` joins them with
`RuntimeProofs`.

### Projects and Tasks implement `Counterpart`

Init implies `Counterpart`'s under the mapping, and every step of `Next` maps to one of
its actions or to a stutter. `StepKinds` (Project), `ObjectStep` and `RemoteStep` (Task)
sort the steps into the kinds an abstract step can be read off from: nothing abstract
changes, an object is written, a counterpart is made, a counterpart is touched. The case
that takes the invariant is the write that records an id: it is the id the worker
holds, made for this object (`Handler`), and the one recorded before is gone (`Spent`).

### Only model-checked

- All liveness: `Converges`, `DeletionCompletes`, and `Follows` of `Instance`, as fairness
  and ENABLED are out of the prover's reach.
- `Promise` of `Operator`. Its Project part is not a `Project` step by step: there a
  restart or a lost Secret changes what `resolveInstance` finds in the very step, and a
  server that is down fails requests at no cost to `MaxFaults`.
- The four statements that runs refute.

No theorem relies on a recursive definition or on induction over data.

## What is not modelled, and why

- Several namespaces: nothing in the code relates objects of two namespaces.
- Changes of instanceRef on Project and Team: `Label` shows what they do. For the
  same reason `Task` has one VikunjaInstance, although nothing keeps a Task from
  naming a Label of another, and `Operator` one server.
- `Operator` composes two of the five controllers. Team and Label use a VikunjaInstance
  as Projects do; with Task besides, the state space is out of TLC's reach.
- What Vikunja does to tasks when a project is deleted (the tests' server leaves
  them alone), and whether it lets a task be moved to a project that is gone (it does
  there).
- Two leaders at once; requests that Vikunja executes after the client has given
  up; a first list that is older than what the previous process wrote.
- Finalizers of other controllers, which would delay the end of a deletion. The API
  server counts a deletion mark as a generation; the model does not, which only makes
  Ready claim more.
- Wrong answers of Vikunja: empty 2xx bodies, a 404 for what exists. The client
  would record id 0 for the former.
- Vikunja's permissions, apart from who manages a team.
- Status fields nobody reads: `parentProjectID`, `identifier`, `index`,
  condition messages. A status write that changes only those is a write that
  changes nothing in the model.
- Titles, colours, dates: the generation stands for them.
- Other clients of Vikunja rewriting a team's name (its members are covered).
- The `Get...` methods of the HTTP client, which nothing calls.
- Generated code, manifests, command-line flags, metrics.

## Plan

Done: all five controllers, the composition of two of them, the abstract
specification, and the proofs of every controller's safety properties. What would add
most next:

1. `Promise` of `Operator`, for every instance.
2. `Counterpart` for Team and Label, with a history of whom an id was made for.
3. `Operator` with a second server, to see the effect of an edited baseURL on ids.
4. A Task with a Project of module `Project` in the place of `dep`.
