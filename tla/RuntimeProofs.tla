---------------------------- MODULE RuntimeProofs ----------------------------
(***************************************************************************)
(* What holds of every controller that runs on ControllerRuntime, whatever *)
(* its handler does to Vikunja: which versions of an object the cache, the *)
(* undelivered events and the worker can hold, beside the stored one.      *)
(*                                                                         *)
(* Move is the most that a step of a controller may do to the runtime's    *)
(* variables.  A controller's proofs show that each of its steps is one    *)
(* (MayWrite is what is left to show of its writes) and have the rest from *)
(* here, through INSTANCE.                                                 *)
(***************************************************************************)
EXTENDS ControllerRuntime, SequenceTheorems, TLAPS

\* What a controller's constants have to satisfy.
Sane ==
  /\ None \notin Names
  /\ {MaxUid, MaxFaults} \subseteq Nat
  /\ MaxGen \in Nat \ {0}
  /\ NoSpec \in Specs
  /\ NoStatus \in Status

\* c is a version of n that the controller has or will see.
Copy(n, c) ==
  \/ c \in {api[n], cache[n]}
  \/ \E k \in 1..Len(events[n]) : c = events[n][k]
  \/ job.key = n /\ c = job.obj

Live(c) == Exists(c) /\ c.finalizer /\ ~c.deleting

\* The versions on their way lead to the stored one, and a copy that the API
\* server would accept a write from is the only one there is.
Follows ==
  /\ \A n \in Names :
       IF events[n] = <<>> THEN cache[n] = api[n]
                           ELSE events[n][Len(events[n])] = api[n]
  /\ job.current => /\ job.key \in Names
                    /\ job.obj = api[job.key]
                    /\ events[job.key] = <<>>
  /\ job.key \in Names => Exists(job.obj)

\* What any version tells of the stored one: it is of an earlier incarnation or
\* not newer; one generation has one spec; and an object does not go away as
\* long as a version is around that has the finalizer and is not being deleted.
Version(n, c) ==
  /\ c.uid <= lastUid
  /\ IF Exists(c) THEN c.gen # 0 ELSE c = Absent
  /\ Exists(c) /\ c.uid = api[n].uid =>
       c.gen <= api[n].gen /\ (c.gen = api[n].gen => c.spec = api[n].spec)
  /\ Live(c) => c.uid = api[n].uid /\ api[n].finalizer

Versions == \A n \in Names : \A c \in Object : Copy(n, c) => Version(n, c)

\* A uid is given to one name.
OneName ==
  \A m, n \in Names : \A c, d \in Object :
    Copy(m, c) /\ Copy(n, d) /\ c.uid = d.uid /\ Exists(c) => m = n

RInv == RuntimeTypeOK /\ Follows /\ Versions /\ OneName

\* A controller writes status, adds its finalizer, or removes it from an object
\* that is being deleted.
MayWrite(o) ==
  \/ /\ o = Absent
     /\ job.obj.deleting
  \/ /\ o.uid = job.obj.uid
     /\ o.gen = job.obj.gen
     /\ o.spec = job.obj.spec
     /\ o.deleting = job.obj.deleting
     /\ job.obj.finalizer => o.finalizer

User == \E n \in Names, s \in Specs :
          UserCreates(n, s) \/ UserEdits(n, s) \/ UserDeletes(n)

Plumbing == \E n \in Names : Deliver(n) \/ TimerFires(n) \/ Skip(n) \/ BeginFails(n)

Starts == \E n \in Names : Exists(cache[n]) /\ Begin(n)

Writes == /\ job.key \in Names
          /\ \E o \in Object, again \in BOOLEAN : MayWrite(o) /\ Commit(o, again)

GivesUp == /\ job.key \in Names
           /\ Return(TRUE)
           /\ Fault \/ UNCHANGED faults
           /\ UNCHANGED <<api, events>>

\* Something happens outside, or the worker sends a request.
Elsewhere ==
  /\ UNCHANGED <<api, cache, events, timers, job, lastUid>>
  /\ queue' \in SUBSET Names
  /\ faults' \in 0..MaxFaults

Move == User \/ Plumbing \/ Starts \/ Writes \/ GivesUp \/ Restart \/ Elsewhere

-----------------------------------------------------------------------------
(* Types.                                                                  *)

LEMMA AbsentTyped == Sane => Absent \in Object /\ Idle \in Job
BY DEF Sane, Absent, Idle, Job, Object

LEMMA RuntimeInitTyped == Sane /\ RuntimeInit => RuntimeTypeOK
BY AbsentTyped DEF Sane, RuntimeInit, RuntimeTypeOK

LEMMA StoreTyped ==
  ASSUME RuntimeTypeOK, NEW n \in Names, NEW o \in Object, Store(n, o)
  PROVE  api' \in [Names -> Object] /\ events' \in [Names -> Seq(Object)]
BY DEF RuntimeTypeOK, Store

LEMMA FaultTyped ==
  ASSUME Sane, RuntimeTypeOK, Fault PROVE faults' \in 0..MaxFaults
BY DEF Sane, RuntimeTypeOK, Fault

\* What a user stores is an object.
LEMMA UserStores ==
  ASSUME Sane, RuntimeTypeOK, NEW n \in Names, NEW s \in Specs,
         UserCreates(n, s) \/ UserEdits(n, s) \/ UserDeletes(n)
  PROVE  /\ \E o \in Object : UserWrites(n, o)
         /\ lastUid' \in 0..MaxUid
<1>1. api[n] \in Object /\ Absent \in Object /\ lastUid \in 0..MaxUid
  BY AbsentTyped DEF RuntimeTypeOK
<1>2. CASE UserCreates(n, s)
  <2> DEFINE o == [Absent EXCEPT !.uid = lastUid + 1, !.gen = 1, !.spec = s]
  <2>1. lastUid + 1 \in 0..MaxUid /\ 1 \in 0..MaxGen
    BY <1>1, <1>2 DEF UserCreates, Sane
  <2>2. o \in Object
    BY <1>1, <2>1 DEF Object
  <2>3. UserWrites(n, o) /\ lastUid' = lastUid + 1
    BY <1>2 DEF UserCreates
  <2> HIDE DEF o
  <2> QED
    BY <2>1, <2>2, <2>3
<1>3. CASE UserEdits(n, s)
  <2> DEFINE o == [api[n] EXCEPT !.gen = @ + 1, !.spec = s]
  <2>1. api[n].gen + 1 \in 0..MaxGen
    BY <1>1, <1>3 DEF UserEdits, Object, Sane
  <2>2. o \in Object
    BY <1>1, <2>1 DEF Object
  <2>3. UserWrites(n, o) /\ lastUid' = lastUid
    BY <1>3 DEF UserEdits
  <2> HIDE DEF o
  <2> QED
    BY <1>1, <2>2, <2>3
<1>4. CASE UserDeletes(n)
  <2>1. [api[n] EXCEPT !.deleting = TRUE] \in Object
    BY <1>1 DEF Object
  <2> QED
    BY <1>1, <1>4, <2>1 DEF UserDeletes
<1> QED
  BY <1>2, <1>3, <1>4

LEMMA MoveTyped == ASSUME Sane, RuntimeTypeOK, Move PROVE RuntimeTypeOK'
<1>1. CASE User
  <2>1. PICK n \in Names, o \in Object : UserWrites(n, o) /\ lastUid' \in 0..MaxUid
    BY <1>1, UserStores DEF User
  <2>2. api' \in [Names -> Object] /\ events' \in [Names -> Seq(Object)]
    BY <2>1, StoreTyped DEF UserWrites
  <2>3. job' \in Job
    BY <2>1 DEF UserWrites, Job, RuntimeTypeOK
  <2> QED
    BY <2>1, <2>2, <2>3 DEF RuntimeTypeOK, UserWrites
<1>2. CASE Plumbing
  <2>1. PICK n \in Names : Deliver(n) \/ TimerFires(n) \/ Skip(n) \/ BeginFails(n)
    BY <1>2 DEF Plumbing
  <2>2. CASE Deliver(n)
    BY <2>2 DEF Deliver, RuntimeTypeOK
  <2>3. CASE TimerFires(n)
    BY <2>3 DEF TimerFires, RuntimeTypeOK
  <2>4. CASE Skip(n)
    BY <2>4 DEF Skip, RuntimeTypeOK
  <2>5. CASE BeginFails(n)
    BY <2>5, FaultTyped DEF BeginFails, RuntimeTypeOK
  <2> QED
    BY <2>1, <2>2, <2>3, <2>4, <2>5
<1>3. CASE Starts
  BY <1>3 DEF Starts, Begin, RuntimeTypeOK, Job
<1>4. ASSUME job.key \in Names, NEW again \in BOOLEAN, Return(again),
             api' \in [Names -> Object], events' \in [Names -> Seq(Object)],
             faults' \in 0..MaxFaults
      PROVE  RuntimeTypeOK'
  BY <1>4, AbsentTyped DEF Return, RuntimeTypeOK
<1>5. CASE Writes
  <2>1. PICK o \in Object, again \in BOOLEAN : Commit(o, again)
    BY <1>5 DEF Writes
  <2>2. /\ api' \in [Names -> Object] /\ events' \in [Names -> Seq(Object)]
        /\ faults' \in 0..MaxFaults
    BY <1>5, <2>1, StoreTyped, FaultTyped DEF Writes, Commit, RuntimeTypeOK
  <2> QED
    BY <1>4, <1>5, <2>1, <2>2 DEF Writes, Commit
<1>6. CASE GivesUp
  <2>1. faults' \in 0..MaxFaults
    BY <1>6, FaultTyped DEF GivesUp, RuntimeTypeOK
  <2> QED
    BY <1>4, <1>6, <2>1 DEF GivesUp, RuntimeTypeOK
<1>7. CASE Restart
  BY <1>7, AbsentTyped, FaultTyped DEF Restart, RuntimeTypeOK
<1>8. CASE Elsewhere
  BY <1>8 DEF Elsewhere, RuntimeTypeOK
<1> QED
  BY <1>1, <1>2, <1>3, <1>5, <1>6, <1>7, <1>8 DEF Move

-----------------------------------------------------------------------------
(* The versions on their way lead to the stored one.                       *)

LEMMA StoreFollows ==
  ASSUME RuntimeTypeOK, Follows, NEW m \in Names, NEW o \in Object, Store(m, o),
         UNCHANGED cache, NEW n \in Names
  PROVE  IF events'[n] = <<>> THEN cache'[n] = api'[n]
                              ELSE events'[n][Len(events'[n])] = api'[n]
<1>1. CASE n = m /\ o # api[m]
  <2>1. events'[n] = Append(events[n], o) /\ api'[n] = o /\ events[n] \in Seq(Object)
    BY <1>1 DEF Store, RuntimeTypeOK
  <2> QED
    BY <2>1
<1>2. CASE ~(n = m /\ o # api[m])
  <2>1. events'[n] = events[n] /\ api'[n] = api[n]
    BY <1>2 DEF Store, RuntimeTypeOK
  <2> QED
    BY <2>1 DEF Follows
<1> QED
  BY <1>1, <1>2

LEMMA TailLast ==
  ASSUME NEW S, NEW s \in Seq(S), s # <<>>
  PROVE  IF Tail(s) = <<>> THEN Head(s) = s[Len(s)]
                           ELSE Tail(s)[Len(Tail(s))] = s[Len(s)]
<1> DEFINE t == Tail(s)
<1>1. Len(s) \in Nat \ {0} /\ Head(s) = s[1]
  BY EmptySeq
<1>2. t \in Seq(S) /\ Len(t) = Len(s) - 1 /\ (\A i \in 1..Len(t) : t[i] = s[i + 1])
  BY HeadTailProperties
<1>3. t # <<>> => Len(t) \in Nat \ {0}
  BY <1>2, EmptySeq
<1>4. t = <<>> => Len(t) = 0
  BY EmptySeq
<1> HIDE DEF t
<1>5. t = <<>> => Head(s) = s[Len(s)]
  BY <1>1, <1>2, <1>4
<1>6. t # <<>> => t[Len(t)] = s[Len(s)]
  BY <1>1, <1>2, <1>3
<1> QED
  BY <1>5, <1>6 DEF t

LEMMA DeliverFollows ==
  ASSUME RuntimeTypeOK, Follows, NEW m \in Names, Deliver(m)
  PROVE  Follows'
<1>1. ASSUME NEW n \in Names
      PROVE  IF events'[n] = <<>> THEN cache'[n] = api'[n]
                                  ELSE events'[n][Len(events'[n])] = api'[n]
  <2>1. CASE n # m
    BY <2>1 DEF Deliver, RuntimeTypeOK, Follows
  <2>2. CASE n = m
    <3>1. /\ events[n] # <<>> /\ events[n] \in Seq(Object) /\ api'[n] = api[n]
          /\ cache'[n] = Head(events[n]) /\ events'[n] = Tail(events[n])
      BY <2>2 DEF Deliver, RuntimeTypeOK
    <3>2. events[n][Len(events[n])] = api[n]
      BY <3>1 DEF Follows
    <3> QED
      BY <3>1, <3>2, TailLast
  <2> QED
    BY <2>1, <2>2
<1>2. UNCHANGED <<api, job>> /\ events[m] # <<>>
      /\ \A n \in Names \ {m} : events'[n] = events[n]
  BY DEF Deliver, RuntimeTypeOK
<1> QED
  BY <1>1, <1>2 DEF Follows

LEMMA UserFollows ==
  ASSUME RuntimeTypeOK, Follows, NEW m \in Names, NEW o \in Object, UserWrites(m, o)
  PROVE  Follows'
<1>1. \A n \in Names : IF events'[n] = <<>> THEN cache'[n] = api'[n]
                                           ELSE events'[n][Len(events'[n])] = api'[n]
  BY StoreFollows DEF UserWrites
<1>2. job'.key = job.key /\ job'.obj = job.obj
      /\ (job'.current => job.current /\ job.key # m)
  BY DEF UserWrites, RuntimeTypeOK, Job
<1>3. \A n \in Names \ {m} : api'[n] = api[n] /\ events'[n] = events[n]
  BY DEF UserWrites, Store, RuntimeTypeOK
<1> QED
  BY <1>1, <1>2, <1>3 DEF Follows

LEMMA CommitFollows ==
  ASSUME Sane, RuntimeTypeOK, Follows, NEW o \in Object, NEW again \in BOOLEAN,
         Commit(o, again), job.key \in Names
  PROVE  Follows'
<1>1. UNCHANGED cache /\ ~job'.current /\ job'.key \notin Names
  BY DEF Commit, Return, Idle, Sane
<1>2. CASE Store(job.key, o)
  BY <1>1, <1>2, StoreFollows DEF Follows
<1>3. CASE UNCHANGED <<api, events>>
  BY <1>1, <1>3 DEF Follows
<1> QED
  BY <1>2, <1>3 DEF Commit

LEMMA MoveFollows == ASSUME Sane, RuntimeTypeOK, Follows, Move PROVE Follows'
<1>1. ASSUME UNCHANGED <<api, cache, events>>, job' = job \/ job' = Idle
      PROVE  Follows'
  BY <1>1 DEF Follows, Idle, Sane
<1>2. CASE User
  <2>1. PICK n \in Names, o \in Object : UserWrites(n, o)
    BY <1>2, UserStores DEF User
  <2> QED
    BY <2>1, UserFollows
<1>3. CASE Plumbing
  <2>1. PICK n \in Names : Deliver(n) \/ TimerFires(n) \/ Skip(n) \/ BeginFails(n)
    BY <1>3 DEF Plumbing
  <2> QED
    BY <1>1, <2>1, DeliverFollows DEF TimerFires, Skip, BeginFails
<1>4. CASE Starts
  <2>1. PICK n \in Names : Exists(cache[n]) /\ Begin(n)
    BY <1>4 DEF Starts
  <2>2. /\ UNCHANGED <<api, cache, events>>
        /\ job' = [key |-> n, obj |-> cache[n], current |-> events[n] = <<>>]
    BY <2>1 DEF Begin
  <2>3. job'.current => job'.obj = api'[n] /\ events'[n] = <<>>
    BY <2>2 DEF Follows
  <2> QED
    BY <2>1, <2>2, <2>3 DEF Follows, Exists
<1>5. CASE Writes
  BY <1>5, CommitFollows DEF Writes
<1>6. CASE GivesUp
  BY <1>1, <1>6 DEF GivesUp, Return
<1>7. CASE Restart
  BY <1>7 DEF Restart, Follows, Idle, Sane
<1>8. CASE Elsewhere
  BY <1>1, <1>8 DEF Elsewhere
<1> QED
  BY <1>2, <1>3, <1>4, <1>5, <1>6, <1>7, <1>8 DEF Move

-----------------------------------------------------------------------------
(* Where versions come from.                                               *)

LEMMA CopyOf ==
  ASSUME RuntimeTypeOK, NEW n \in Names
  PROVE  /\ api[n] \in Object /\ Copy(n, api[n])
         /\ cache[n] \in Object /\ Copy(n, cache[n])
         /\ job.obj \in Object /\ (job.key = n => Copy(n, job.obj))
BY DEF Copy, RuntimeTypeOK, Job

LEMMA CopyTyped ==
  ASSUME RuntimeTypeOK, NEW n \in Names, NEW c, Copy(n, c)
  PROVE  c \in Object
<1>1. \A k \in 1..Len(events[n]) : events[n][k] \in Object
  BY DEF RuntimeTypeOK
<1> QED
  BY <1>1, CopyOf DEF Copy

LEMMA StoreCopied ==
  ASSUME RuntimeTypeOK, NEW m \in Names, NEW o \in Object, Store(m, o), UNCHANGED cache,
         NEW n \in Names, NEW c, Copy(n, c)',
         job'.key = n => job'.key = job.key /\ job'.obj = job.obj
  PROVE  Copy(n, c) \/ c = api'[n]
<1>1. CASE n = m /\ o # api[m]
  <2>1. events'[n] = Append(events[n], o) /\ api'[n] = o /\ events[n] \in Seq(Object)
    BY <1>1 DEF Store, RuntimeTypeOK
  <2>2. ASSUME NEW k \in 1..Len(events'[n])
        PROVE  \/ events'[n][k] = o
               \/ k \in 1..Len(events[n]) /\ events'[n][k] = events[n][k]
    BY <2>1, <2>2
  <2> QED
    BY <2>1, <2>2 DEF Copy
<1>2. CASE ~(n = m /\ o # api[m])
  <2>1. events'[n] = events[n] /\ api'[n] = api[n]
    BY <1>2 DEF Store, RuntimeTypeOK
  <2> QED
    BY <2>1 DEF Copy
<1> QED
  BY <1>1, <1>2

LEMMA SameCopied ==
  ASSUME UNCHANGED <<api, cache, events>>, NEW n, NEW c, Copy(n, c)',
         job'.key = n => job'.key = job.key /\ job'.obj = job.obj
  PROVE  Copy(n, c)
BY DEF Copy

LEMMA DeliverCopied ==
  ASSUME RuntimeTypeOK, NEW m \in Names, Deliver(m), NEW n \in Names, NEW c, Copy(n, c)'
  PROVE  Copy(n, c)
<1>1. UNCHANGED <<api, job>>
  BY DEF Deliver
<1>2. CASE n # m
  <2>1. cache'[n] = cache[n] /\ events'[n] = events[n]
    BY <1>2 DEF Deliver, RuntimeTypeOK
  <2> QED
    BY <1>1, <2>1 DEF Copy
<1>3. CASE n = m
  <2>1. /\ events[n] # <<>> /\ events[n] \in Seq(Object)
        /\ cache'[n] = Head(events[n]) /\ events'[n] = Tail(events[n])
    BY <1>3 DEF Deliver, RuntimeTypeOK
  <2>2. cache'[n] = events[n][1] /\ 1 \in 1..Len(events[n])
    BY <2>1
  <2>3. \A k \in 1..Len(events'[n]) :
          k + 1 \in 1..Len(events[n]) /\ events'[n][k] = events[n][k + 1]
    BY <2>1
  <2> QED
    BY <1>1, <2>2, <2>3 DEF Copy
<1> QED
  BY <1>2, <1>3

\* Every version that is around after a step was around before, or is what
\* the step stored.
LEMMA CopyStep ==
  ASSUME Sane, RuntimeTypeOK, Move, NEW n \in Names, NEW c, Copy(n, c)'
  PROVE  Copy(n, c) \/ c = api'[n]
<1>1. ASSUME UNCHANGED <<api, cache, events>>, job' = job \/ job' = Idle
      PROVE  Copy(n, c)
  BY <1>1, SameCopied DEF Idle, Sane
<1>2. CASE User
  <2>1. PICK m \in Names, o \in Object : UserWrites(m, o)
    BY <1>2, UserStores DEF User
  <2>2. job'.key = job.key /\ job'.obj = job.obj
    BY <2>1 DEF UserWrites, RuntimeTypeOK, Job
  <2> QED
    BY <2>1, <2>2, StoreCopied DEF UserWrites
<1>3. CASE Plumbing
  <2>1. PICK m \in Names : Deliver(m) \/ TimerFires(m) \/ Skip(m) \/ BeginFails(m)
    BY <1>3 DEF Plumbing
  <2> QED
    BY <1>1, <2>1, DeliverCopied DEF TimerFires, Skip, BeginFails
<1>4. CASE Starts
  <2>1. PICK m \in Names : Begin(m)
    BY <1>4 DEF Starts
  <2>2. UNCHANGED <<api, cache, events>> /\ job'.key = m /\ job'.obj = cache[m]
    BY <2>1 DEF Begin
  <2> QED
    BY <2>2 DEF Copy
<1>5. CASE Writes
  <2>1. PICK o \in Object, again \in BOOLEAN : Commit(o, again)
    BY <1>5 DEF Writes
  <2>2. UNCHANGED cache /\ job'.key # n
    BY <2>1 DEF Commit, Return, Idle, Sane
  <2>3. CASE Store(job.key, o)
    BY <1>5, <2>2, <2>3, StoreCopied DEF Writes
  <2>4. CASE UNCHANGED <<api, events>>
    BY <2>2, <2>4, SameCopied
  <2> QED
    BY <2>1, <2>3, <2>4 DEF Commit
<1>6. CASE GivesUp
  BY <1>1, <1>6 DEF GivesUp, Return
<1>7. CASE Restart
  <2>1. api'[n] = api[n] /\ cache'[n] = api[n] /\ events'[n] = <<>> /\ job' = Idle
    BY <1>7 DEF Restart
  <2>2. Len(events'[n]) = 0
    BY <2>1
  <2> QED
    BY <2>1, <2>2 DEF Copy, Idle, Sane
<1>8. CASE Elsewhere
  BY <1>1, <1>8 DEF Elsewhere
<1> QED
  BY <1>2, <1>3, <1>4, <1>5, <1>6, <1>7, <1>8 DEF Move

-----------------------------------------------------------------------------
(* What a step does to the stored objects.                                 *)

Appears(n) ==
  /\ ~Exists(api[n])
  /\ lastUid' = lastUid + 1
  /\ \E s \in Specs : api'[n] = [Absent EXCEPT !.uid = lastUid + 1, !.gen = 1, !.spec = s]

Edited(n) ==
  /\ Exists(api[n])
  /\ lastUid' = lastUid
  /\ \E s \in Specs : api'[n] = [api[n] EXCEPT !.gen = @ + 1, !.spec = s]

Marked(n) ==
  /\ Exists(api[n])
  /\ api[n].finalizer
  /\ lastUid' = lastUid
  /\ api'[n] = [api[n] EXCEPT !.deleting = TRUE]

Dropped(n) ==
  /\ Exists(api[n])
  /\ ~api[n].finalizer
  /\ lastUid' = lastUid
  /\ api'[n] = Absent

\* The worker's write is accepted: its copy is the only version of n.
Committed(n) ==
  /\ job.key = n
  /\ job.current
  /\ job.obj = api[n]
  /\ Exists(api[n])
  /\ \A c : Copy(n, c) => c = api[n]
  /\ MayWrite(api'[n])
  /\ lastUid' = lastUid

\* A user creates, edits or deletes n.
ByUser(n) == Appears(n) \/ Edited(n) \/ Marked(n) \/ Dropped(n)

OnlyTouches(n) == \A m \in Names \ {n} : api'[m] = api[m]

Changes(n) == OnlyTouches(n) /\ (ByUser(n) \/ Committed(n))

LEMMA StoreWrites ==
  ASSUME RuntimeTypeOK, NEW n \in Names, NEW o, Store(n, o)
  PROVE  api'[n] = o /\ OnlyTouches(n)
BY DEF Store, RuntimeTypeOK, OnlyTouches

LEMMA UserChanges ==
  ASSUME RuntimeTypeOK, NEW n \in Names, NEW s \in Specs,
         UserCreates(n, s) \/ UserEdits(n, s) \/ UserDeletes(n)
  PROVE  OnlyTouches(n) /\ ByUser(n)
<1>1. ASSUME NEW o, UserWrites(n, o)
      PROVE  api'[n] = o /\ OnlyTouches(n)
  BY <1>1, StoreWrites DEF UserWrites
<1>2. CASE UserCreates(n, s)
  <2>1. api'[n] = [Absent EXCEPT !.uid = lastUid + 1, !.gen = 1, !.spec = s] /\ OnlyTouches(n)
    BY <1>1, <1>2 DEF UserCreates
  <2> QED
    BY <1>2, <2>1 DEF UserCreates, ByUser, Appears
<1>3. CASE UserEdits(n, s)
  <2>1. api'[n] = [api[n] EXCEPT !.gen = @ + 1, !.spec = s] /\ OnlyTouches(n)
    BY <1>1, <1>3 DEF UserEdits
  <2> QED
    BY <1>3, <2>1 DEF UserEdits, ByUser, Edited
<1>4. CASE UserDeletes(n)
  <2>1. api'[n] = (IF api[n].finalizer THEN [api[n] EXCEPT !.deleting = TRUE] ELSE Absent) /\ OnlyTouches(n)
    BY <1>1, <1>4 DEF UserDeletes
  <2> QED
    BY <1>4, <2>1 DEF UserDeletes, ByUser, Marked, Dropped
<1> QED
  BY <1>2, <1>3, <1>4

\* The same, field by field.
LEMMA UserFields ==
  ASSUME RuntimeTypeOK, NEW n \in Names, ByUser(n)
  PROVE  \/ /\ api[n].uid = 0 /\ api'[n].uid = lastUid + 1 /\ api'[n].gen = 1
            /\ ~api'[n].deleting /\ ~api'[n].finalizer /\ api'[n].status = NoStatus
         \/ /\ api[n].uid # 0 /\ api'[n].uid = api[n].uid /\ api'[n].gen = api[n].gen + 1
            /\ api'[n].deleting = api[n].deleting /\ api'[n].finalizer = api[n].finalizer
            /\ api'[n].status = api[n].status
         \/ /\ api[n].uid # 0 /\ api'[n].uid = api[n].uid /\ api'[n].gen = api[n].gen
            /\ api'[n].deleting /\ api[n].finalizer /\ api'[n].finalizer
            /\ api'[n].spec = api[n].spec /\ api'[n].status = api[n].status
         \/ api[n].uid # 0 /\ ~api[n].finalizer /\ api'[n] = Absent
<1>1. api[n] \in Object
  BY DEF RuntimeTypeOK
<1>2. CASE Appears(n)
  BY <1>2 DEF Appears, Exists, Absent
<1>3. CASE Edited(n)
  BY <1>1, <1>3 DEF Edited, Exists, Object
<1>4. CASE Marked(n)
  BY <1>1, <1>4 DEF Marked, Exists, Object
<1>5. CASE Dropped(n)
  BY <1>5 DEF Dropped, Exists
<1> QED
  BY <1>2, <1>3, <1>4, <1>5 DEF ByUser

\* A version that the API server accepts a write from is the only one around.
LEMMA CurrentIsAll ==
  ASSUME RuntimeTypeOK, Follows, job.current, NEW c, Copy(job.key, c)
  PROVE  c = api[job.key]
<1>1. job.key \in Names /\ job.obj = api[job.key] /\ events[job.key] = <<>>
  BY DEF Follows
<1>2. cache[job.key] = api[job.key] /\ Len(events[job.key]) = 0
  BY <1>1 DEF Follows
<1> QED
  BY <1>1, <1>2 DEF Copy

LEMMA CommitChanges ==
  ASSUME RuntimeTypeOK, Follows, job.key \in Names, NEW o, MayWrite(o),
         NEW again, Commit(o, again)
  PROVE  \/ UNCHANGED <<api, lastUid>>
         \/ Changes(job.key) /\ Committed(job.key) /\ api'[job.key] = o
<1>1. lastUid' = lastUid
  BY DEF Commit, Return
<1>2. CASE job.current /\ Store(job.key, o)
  <2>1. api'[job.key] = o /\ OnlyTouches(job.key)
    BY <1>2, StoreWrites
  <2>2. \A c : Copy(job.key, c) => c = api[job.key]
    BY <1>2, CurrentIsAll
  <2>3. job.obj = api[job.key] /\ Exists(api[job.key])
    BY <1>2 DEF Follows
  <2> QED
    BY <1>1, <1>2, <2>1, <2>2, <2>3 DEF Changes, Committed
<1> QED
  BY <1>1, <1>2 DEF Commit

\* A step leaves the objects alone or changes one.
LEMMA ObjectStep ==
  ASSUME Sane, RuntimeTypeOK, Follows, Move
  PROVE  UNCHANGED <<api, lastUid>> \/ \E n \in Names : Changes(n)
<1>1. CASE User
  BY <1>1, UserChanges DEF User, Changes
<1>2. CASE Writes
  BY <1>2, CommitChanges DEF Writes
<1>3. CASE Plumbing \/ Starts \/ GivesUp \/ Restart \/ Elsewhere
  BY <1>3 DEF Plumbing, Deliver, TimerFires, Skip, BeginFails, Starts, Begin, GivesUp,
     Return, Restart, Elsewhere
<1> QED
  BY <1>1, <1>2, <1>3 DEF Move

-----------------------------------------------------------------------------
(* What versions tell of the stored object.                                *)

LEMMA AbsentVersion ==
  ASSUME lastUid \in Nat, NEW n \in Names PROVE Version(n, Absent)
BY DEF Version, Absent, Exists, Live

LEMMA VersionsStep ==
  ASSUME Sane, RInv, Move
  PROVE  Versions'
<1> USE DEF RInv
<1> SUFFICES ASSUME NEW n \in Names, NEW c \in Object, Copy(n, c)'
             PROVE  Version(n, c)'
  BY DEF Versions
<1>1. RuntimeTypeOK'
  BY MoveTyped
<1>2. /\ api[n] \in Object /\ api'[n] \in Object /\ Version(n, api[n])
      /\ lastUid \in Nat /\ lastUid' \in Nat
  BY <1>1, CopyOf DEF Versions, RuntimeTypeOK, Sane
<1>3. /\ c.uid \in Nat /\ c.gen \in Nat
      /\ api[n].uid \in Nat /\ api[n].gen \in Nat
      /\ api'[n].uid \in Nat /\ api'[n].gen \in Nat
  BY <1>2 DEF Object, Sane
<1>4. Copy(n, c) => Version(n, c)
  BY DEF Versions
<1>5. CASE api'[n] = api[n] /\ lastUid' \in {lastUid, lastUid + 1}
  <2>1. Version(n, c)
    BY <1>2, <1>4, <1>5, CopyStep
  <2> QED
    BY <1>2, <1>3, <1>5, <2>1 DEF Version
<1>6. CASE Appears(n)
  <2>1. /\ lastUid' = lastUid + 1 /\ api'[n].uid = lastUid + 1 /\ api'[n].gen = 1
        /\ ~api'[n].finalizer /\ ~Exists(api[n]) /\ Exists(api'[n])
    BY <1>2, <1>6 DEF Appears, Absent, Exists
  <2>2. CASE c = api'[n]
    BY <1>3, <2>1, <2>2 DEF Version, Live
  <2>3. CASE Copy(n, c)
    BY <1>2, <1>3, <1>4, <2>1, <2>3 DEF Version, Live, Exists
  <2> QED
    BY <2>2, <2>3, CopyStep
<1>7. CASE Edited(n)
  <2>1. /\ lastUid' = lastUid /\ api'[n].uid = api[n].uid /\ api'[n].gen = api[n].gen + 1
        /\ api'[n].finalizer = api[n].finalizer /\ api'[n].deleting = api[n].deleting
        /\ Exists(api[n])
    BY <1>2, <1>7 DEF Edited, Object
  <2>2. CASE c = api'[n]
    BY <1>2, <1>3, <2>1, <2>2 DEF Version, Live, Exists
  <2>3. CASE Copy(n, c)
    BY <1>3, <1>4, <2>1, <2>3 DEF Version
  <2> QED
    BY <2>2, <2>3, CopyStep
<1>8. CASE Marked(n)
  <2>1. /\ lastUid' = lastUid /\ api'[n].uid = api[n].uid /\ api'[n].gen = api[n].gen
        /\ api'[n].finalizer = api[n].finalizer /\ api'[n].deleting
        /\ api'[n].spec = api[n].spec /\ Exists(api[n])
    BY <1>2, <1>8 DEF Marked, Object
  <2>2. CASE c = api'[n]
    BY <1>2, <1>3, <2>1, <2>2 DEF Version, Live, Exists
  <2>3. CASE Copy(n, c)
    BY <1>3, <1>4, <2>1, <2>3 DEF Version
  <2> QED
    BY <2>2, <2>3, CopyStep
<1>9. CASE api'[n] = Absent /\ lastUid' = lastUid /\ (Copy(n, c) => ~Live(c))
  <2>1. CASE c = Absent
    BY <1>2, <2>1 DEF Version, Live, Exists, Absent
  <2>2. CASE Copy(n, c)
    BY <1>2, <1>3, <1>4, <1>9, <2>2 DEF Version, Absent, Exists
  <2> QED
    BY <1>9, <2>1, <2>2, CopyStep
<1>10. CASE Dropped(n)
  BY <1>4, <1>9, <1>10 DEF Dropped, Version
<1>11. CASE Committed(n)
  <2>1. CASE api'[n] = Absent /\ job.obj.deleting
    <3>1. Copy(n, c) => ~Live(c)
      BY <1>11, <2>1 DEF Committed, Live
    <3> QED
      BY <1>9, <1>11, <2>1, <3>1 DEF Committed
  <2>2. CASE ~(api'[n] = Absent /\ job.obj.deleting)
    <3>1. /\ api'[n].uid = api[n].uid /\ api'[n].gen = api[n].gen
          /\ api'[n].spec = api[n].spec /\ api'[n].deleting = api[n].deleting
          /\ api[n].finalizer => api'[n].finalizer
          /\ Exists(api[n]) /\ lastUid' = lastUid
      BY <1>11, <2>2 DEF Committed, MayWrite
    <3>2. c = api[n] \/ c = api'[n]
      BY <1>11, CopyStep DEF Committed
    <3> QED
      BY <1>2, <1>3, <3>1, <3>2 DEF Version, Live, Exists
  <2> QED
    BY <2>1, <2>2
<1>12. \/ api'[n] = api[n] /\ lastUid' \in {lastUid, lastUid + 1}
       \/ Appears(n) \/ Edited(n) \/ Marked(n) \/ Dropped(n) \/ Committed(n)
  BY ObjectStep DEF Changes, OnlyTouches, ByUser, Appears, Edited, Marked, Dropped, Committed
<1> QED
  BY <1>5, <1>6, <1>7, <1>8, <1>10, <1>11, <1>12

LEMMA OneNameStep ==
  ASSUME Sane, RInv, Move
  PROVE  OneName'
<1> USE DEF RInv
<1> SUFFICES ASSUME NEW m \in Names, NEW n \in Names, NEW c \in Object, NEW d \in Object,
                    Copy(m, c)', Copy(n, d)', c.uid = d.uid, Exists(c)
             PROVE  m = n
  BY DEF OneName, Exists
<1>1. \A k \in Names : api[k] \in Object /\ Copy(k, api[k])
  BY CopyOf
<1>2. /\ Copy(m, c) \/ c = api'[m]
      /\ Copy(n, d) \/ d = api'[n]
  BY CopyStep
<1>3. \* What is stored now was stored under the same uid, or is brand new.
      ASSUME NEW k \in Names
      PROVE  \/ api'[k].uid \in {0, api[k].uid}
             \/ Appears(k) /\ api'[k].uid = lastUid + 1 /\ OnlyTouches(k)
  <2>1. CASE api'[k] = api[k]
    BY <2>1
  <2>2. CASE Changes(k)
    <3>1. CASE Appears(k)
      BY <2>2, <3>1 DEF Appears, Changes, Absent
    <3>2. CASE Edited(k) \/ Marked(k)
      BY <1>1, <3>2 DEF Edited, Marked, Object
    <3>3. CASE Dropped(k)
      BY <3>3 DEF Dropped, Absent
    <3>4. CASE Committed(k)
      BY <3>4 DEF Committed, MayWrite, Absent
    <3> QED
      BY <2>2, <3>1, <3>2, <3>3, <3>4 DEF Changes, ByUser
  <2> QED
    BY <2>1, <2>2, ObjectStep DEF Changes, OnlyTouches
<1>4. \A k \in Names : \A e \in Object : Copy(k, e) => e.uid <= lastUid
  BY DEF Versions, Version
<1>5. lastUid \in Nat
  BY DEF RuntimeTypeOK, Sane
<1>6. \* Unless an object appears, c's uid was c's name's before.
      CASE \A k \in Names : api'[k].uid \in {0, api[k].uid}
  <2>1. \E e \in Object : Copy(m, e) /\ e.uid = c.uid
    BY <1>1, <1>2, <1>6 DEF Exists
  <2>2. \E e \in Object : Copy(n, e) /\ e.uid = c.uid
    BY <1>1, <1>2, <1>6 DEF Exists
  <2> QED
    BY <2>1, <2>2 DEF OneName, Exists
<1>7. ASSUME NEW k \in Names, api'[k].uid = lastUid + 1, OnlyTouches(k)
      PROVE  m = n
  <2>1. ASSUME NEW j \in Names, j # k, NEW e \in Object, Copy(j, e) \/ e = api'[j]
        PROVE  Copy(j, e) /\ e.uid <= lastUid
    BY <1>1, <1>4, <1>7, <2>1 DEF OnlyTouches
  <2>2. CASE m # k /\ n # k
    BY <1>2, <2>1, <2>2 DEF OneName
  <2>3. CASE m = k /\ n # k
    <3>1. Copy(n, d) /\ d.uid <= lastUid
      BY <1>2, <2>1, <2>3
    <3>2. Copy(m, c)
      BY <1>2, <1>5, <1>7, <2>3, <3>1
    <3> QED
      BY <3>1, <3>2 DEF OneName
  <2>4. CASE m # k /\ n = k
    <3>1. Copy(m, c) /\ c.uid <= lastUid
      BY <1>2, <2>1, <2>4
    <3>2. Copy(n, d)
      BY <1>2, <1>5, <1>7, <2>4, <3>1
    <3> QED
      BY <3>1, <3>2 DEF OneName
  <2> QED
    BY <2>2, <2>3, <2>4
<1> QED
  BY <1>3, <1>6, <1>7

LEMMA RInvInit == ASSUME Sane, RuntimeInit PROVE RInv
<1>1. RuntimeTypeOK
  BY RuntimeInitTyped
<1>2. Follows
  BY DEF RuntimeInit, Follows, Idle, Sane
<1>3. ASSUME NEW n \in Names, NEW c, Copy(n, c)
      PROVE  c = Absent
  BY <1>3 DEF Copy, RuntimeInit, Idle, Sane
<1>4. Versions
  BY <1>1, <1>3, AbsentVersion DEF Versions, RuntimeTypeOK, Sane
<1>5. OneName
  BY <1>3 DEF OneName, Exists, Absent
<1> QED
  BY <1>1, <1>2, <1>4, <1>5 DEF RInv

LEMMA RInvStep == ASSUME Sane, RInv, Move PROVE RInv'
BY MoveTyped, MoveFollows, VersionsStep, OneNameStep DEF RInv
=============================================================================
