---------------------------- MODULE Counterpart ----------------------------
(***************************************************************************)
(* What the operator promises about the objects of one kind and their      *)
(* counterparts in Vikunja, whatever caches, queues, retries and restarts  *)
(* do underneath: a counterpart is only ever made for an object that       *)
(* exists; an object records a counterpart of its own, replaces it only    *)
(* after it is gone, and goes away only after it is gone, or without a     *)
(* usable instance to delete it from.                                      *)
(*                                                                         *)
(* What is made need not be recorded: its maker may not see the answer, or *)
(* not have seen yet that another is recorded already.                     *)
(***************************************************************************)
EXTENDS Naturals

CONSTANTS Names,      \* object names
          MaxId       \* bound: counterparts ever made

VARIABLES owner,      \* owner[n]: the uid of the object n, 0 if there is none
          last,       \* uids handed out so far
          record,     \* record[n]: the id that n records, 0 if none
          maker,      \* maker[i]: the uid for which i was made, 0 if it was not
          alive,      \* the counterparts that exist
          excused     \* objects whose instance is not usable

vars == <<owner, last, record, maker, alive, excused>>

Init ==
  /\ owner = [n \in Names |-> 0]
  /\ last = 0
  /\ record = [n \in Names |-> 0]
  /\ maker = [i \in 1..MaxId |-> 0]
  /\ alive = {}
  /\ excused = {}

\* n's counterpart, if it records one, is gone.
Free(n) == record[n] \notin alive

\* A user creates n.
Appear(n) ==
  /\ owner[n] = 0
  /\ last' = last + 1
  /\ owner' = [owner EXCEPT ![n] = last + 1]
  /\ UNCHANGED <<record, maker, alive>>

\* Vikunja creates i for n.
Make(n, i) ==
  /\ owner[n] # 0
  /\ maker[i] = 0
  /\ maker' = [maker EXCEPT ![i] = owner[n]]
  /\ alive' = alive \cup {i}
  /\ UNCHANGED <<owner, last, record>>

\* Somebody deletes i in Vikunja.
Lose(i) ==
  /\ alive' = alive \ {i}
  /\ UNCHANGED <<owner, last, record, maker>>

Record(n, i) ==
  /\ owner[n] # 0
  /\ maker[i] = owner[n]
  /\ Free(n)
  /\ record' = [record EXCEPT ![n] = i]
  /\ UNCHANGED <<owner, last, maker, alive>>

Vanish(n) ==
  /\ Free(n) \/ n \in excused
  /\ owner' = [owner EXCEPT ![n] = 0]
  /\ record' = [record EXCEPT ![n] = 0]
  /\ UNCHANGED <<last, maker, alive>>

\* An instance becomes usable or unusable, and nothing else happens.
Wait == UNCHANGED <<owner, last, record, maker, alive>>

Next ==
  /\ excused' \subseteq Names
  /\ \/ \E n \in Names : Appear(n) \/ Vanish(n)
     \/ \E n \in Names, i \in 1..MaxId : Make(n, i) \/ Record(n, i)
     \/ \E i \in 1..MaxId : Lose(i)
     \/ Wait

Spec == Init /\ [][Next]_vars
=============================================================================
