------------------------------ MODULE Instance ------------------------------
(***************************************************************************)
(* The VikunjaInstance controller                                          *)
(* (internal/controller/vikunjainstance_controller.go).  It creates        *)
(* nothing in Vikunja and needs no finalizer: it reads the API token's     *)
(* Secret, asks the server for its version and for the token's user, and   *)
(* records the outcome in status, for the other controllers to rely on.    *)
(*                                                                         *)
(* A VikunjaInstance's spec is its baseURL, a server.  Without a finalizer *)
(* an instance may be deleted and recreated with another baseURL in the    *)
(* middle of a probe, with the same generation.                            *)
(***************************************************************************)
EXTENDS Naturals, Sequences

CONSTANTS Names, None, MaxUid, MaxGen, MaxLag, MaxFaults,
          Servers,    \* what a baseURL may point at
          Tokens,     \* API tokens the Secret may hold
          Account     \* Account[s][t]: token t's user at server s, None if invalid

VARIABLES api, cache, events, queue, timers, job, lastUid, faults,
          work,       \* the handler's locals: [pc, token, version, owner, ready]
          secret,     \* the token in the Secret, None if there is none
          seen,       \* the informer's copy of the Secret
          held,       \* history: every token the Secret ever held
          up          \* the servers that answer

ASSUME NoneAssumption == None \notin Names \cup Servers \cup Tokens
ASSUME AccountAssumption == DOMAIN Account = Servers
ASSUME BoundsAssumption == /\ {MaxUid, MaxLag, MaxFaults} \subseteq Nat
                           /\ MaxGen \in Nat \ {0}

\* version is known as soon as the server answered.
NoStatus == [version |-> None, owner |-> None, ready |-> "unknown", observed |-> 0]

NoWork == [pc |-> "idle", token |-> None, version |-> None, owner |-> None,
           ready |-> "unknown"]

Users == {Account[s][t] : s \in Servers, t \in Tokens} \cup {None}

Status == [version : Servers \cup {None}, owner : Users,
           ready : {"unknown", "true", "false"}, observed : 0..MaxGen]

world == <<secret, seen, held, up>>

\* What a request to Vikunja leaves alone.
kubernetes == <<api, cache, events, queue, timers, job, lastUid>>

INSTANCE ControllerRuntime WITH Specs <- Servers \cup {None}, NoSpec <- None

vars == <<kubernetes, faults, work, world>>

Init ==
  /\ RuntimeInit
  /\ secret \in Tokens \cup {None}
  /\ seen = secret
  /\ held = {secret} \ {None}
  /\ up = Servers

-----------------------------------------------------------------------------
(* The environment.                                                        *)

\* As Crash, but the new process also reads the Secret anew.
NewProcess ==
  /\ Restart
  /\ work' = NoWork
  /\ seen' = secret
  /\ UNCHANGED <<secret, held, up>>

\* The Secret gets another token, or loses it.
SecretChanges(t) ==
  /\ t # secret
  /\ Fault
  /\ secret' = t
  /\ held' = held \cup ({t} \ {None})
  /\ UNCHANGED <<kubernetes, work, seen, up>>

\* The Secret's informer catches up.  It enqueues nothing.
SyncSecret ==
  /\ seen # secret
  /\ seen' = secret
  /\ UNCHANGED <<kubernetes, faults, work, secret, held, up>>

\* A server goes down or comes back.
ServerChanges(s) ==
  /\ Fault
  /\ up' = IF s \in up THEN up \ {s} ELSE up \cup {s}
  /\ UNCHANGED <<kubernetes, work, secret, seen, held>>

-----------------------------------------------------------------------------
(* Reconcile.                                                              *)

\* Reads the token; whatever prevents that makes the instance NotReady.
ReconcileReads(n) ==
  /\ Exists(cache[n])
  /\ Begin(n)
  /\ work' = IF seen = None
             THEN [NoWork EXCEPT !.pc = "setStatus", !.ready = "false"]
             ELSE [NoWork EXCEPT !.pc = "info", !.token = seen]
  /\ UNCHANGED world

NotReady == work' = [work EXCEPT !.pc = "setStatus", !.ready = "false"]

\* The one request of this step: it goes to the spec's server, which may be
\* down, and any of its answers may be lost.
Answered == job.obj.spec \in up /\ UNCHANGED faults
Failed == IF job.obj.spec \in up THEN Fault ELSE UNCHANGED faults

GetInfo ==
  /\ work.pc = "info"
  /\ \/ /\ Answered
        /\ work' = [work EXCEPT !.pc = "user", !.version = job.obj.spec]
     \/ Failed /\ NotReady
  /\ UNCHANGED <<kubernetes, world>>

GetCurrentUser ==
  LET user == Account[job.obj.spec][work.token] IN
  /\ work.pc = "user"
  /\ \/ /\ Answered
        /\ IF user = None THEN NotReady
           ELSE work' = [work EXCEPT !.pc = "setStatus", !.ready = "true", !.owner = user]
     \/ Failed /\ NotReady
  /\ UNCHANGED <<kubernetes, world>>

\* (mutant) observedGeneration is one ahead.
OutcomeAhead == [version |-> work.version, owner |-> work.owner, ready |-> work.ready,
                 observed |-> job.obj.gen + 1]

Outcome == [version |-> work.version, owner |-> work.owner, ready |-> work.ready,
            observed |-> job.obj.gen]

\* (mutant) the status is patched onto whatever is stored by then.
SetStatusPatched ==
  /\ work.pc = "setStatus"
  /\ Store(job.key, IF Exists(api[job.key])
                     THEN [api[job.key] EXCEPT !.status = Outcome] ELSE Absent)
  /\ Return(TRUE)
  /\ work' = NoWork
  /\ UNCHANGED <<faults, world>>

\* (mutant) a Ready instance is not looked at again.
SetStatusOnce ==
  /\ work.pc = "setStatus"
  /\ Ends([job.obj EXCEPT !.status = Outcome], work.ready = "false")

\* (mutant) an instance that failed its probe is not looked at again.
SetStatusForGood ==
  /\ work.pc = "setStatus"
  /\ Ends([job.obj EXCEPT !.status = Outcome], work.ready = "true")

SetStatus ==
  /\ work.pc = "setStatus"
  /\ Ends([job.obj EXCEPT !.status = Outcome], TRUE)

Reconcile(n) == ReconcileNothing(n) \/ ReconcileReads(n)

Step == GetInfo \/ GetCurrentUser \/ SetStatus

Environment ==
  \/ \E n \in Names, s \in Servers : Create(n, s) \/ Edit(n, s)
  \/ \E n \in Names : Delete(n)
  \/ \E t \in Tokens \cup {None} : SecretChanges(t)
  \/ \E s \in Servers : ServerChanges(s)
  \/ NewProcess

Next ==
  \/ \E n \in Names : Sync(n) \/ Requeue(n) \/ Reconcile(n)
  \/ Step
  \/ SyncSecret
  \/ Environment

Spec == Init /\ [][Next]_vars

\* As for Projects; besides, the Secrets' informer runs on.
Fairness ==
  /\ WF_vars(Step)
  /\ WF_vars(SyncSecret)
  /\ \A n \in Names : /\ WF_vars(Sync(n))
                      /\ WF_vars(Requeue(n))
                      /\ SF_vars(Reconcile(n))

FairSpec == Spec /\ Fairness

-----------------------------------------------------------------------------
(* Types.                                                                  *)

\* A busy worker works for a name; an instance never gets a finalizer; only the
\* outcome Ready has an owner.
TypeOK ==
  /\ RuntimeTypeOK
  /\ work \in [pc : {"idle", "info", "user", "setStatus"}, token : Tokens \cup {None},
               version : Servers \cup {None}, owner : Users,
               ready : {"unknown", "true", "false"}]
  /\ work.pc # "idle" => job.key # None
  /\ work.owner # None => work.ready = "true"
  /\ \A n \in Names : ~api[n].deleting /\ ~api[n].finalizer
  /\ {secret, seen} \subseteq held \cup {None}
  /\ held \subseteq Tokens
  /\ up \subseteq Servers

-----------------------------------------------------------------------------
(* Properties.                                                             *)

Ready(o) == o.status.ready = "true" /\ o.status.observed = o.gen

\* A VikunjaInstance that reports Ready for its newest generation does so for
\* the server that this generation names, and its token's owner is the user of
\* a token the Secret held, at that server: a probe never speaks for an
\* instance that was edited, or deleted and recreated, while it ran.
ReadyMeansProbed ==
  \A n \in Names :
    LET o == api[n] IN
    Ready(o) => /\ o.status.version = o.spec
                /\ \E t \in held : /\ Account[o.spec][t] # None
                                   /\ o.status.owner = Account[o.spec][t]

\* What the instance's status should say, were it probed right now.
Usable(o) == /\ o.spec \in up
             /\ secret # None
             /\ Account[o.spec][secret] # None

Truthful(o) ==
  /\ o.status.observed = o.gen
  /\ o.status.ready = "true" <=> Usable(o)
  /\ Usable(o) => o.status.owner = Account[o.spec][secret]

\* Although nothing watches Secrets or servers, the status of every instance
\* agrees with them in the end and stays so, once they change no more (their
\* changes are bounded).
Follows == <>[](\A n \in Names : Exists(api[n]) => Truthful(api[n]))
=============================================================================
