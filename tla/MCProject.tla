----------------------------- MODULE MCProject -----------------------------
(* The Project controller on small instances.                              *)
EXTENDS Project, TLC

CONSTANTS a, b \* the names

\* Names are interchangeable: nothing orders them.
Symmetry == Permutations(Names)

\* Requeue delays (15s, 10min) outlast what the worker has to do.
Patient == Crash \/ (queue # {} \/ job # Idle => timers \subseteq timers')

\* Besides, the instance is never out of order (project_life has that).
InstanceUp == Patient /\ inst' = "ready"

\* Patient delays, but any outage; users delete nothing.  They create a, which
\* stays without a parent and is not edited, and b, perhaps below a, and edit b
\* at most once, to put it below a.
Reparented ==
  /\ Patient
  /\ api'[a].spec = None
  /\ \A n \in Names : ~api'[n].deleting
  /\ api'[a].gen <= 1
  /\ \/ api'[b].gen = api[b].gen
     \/ api'[b].gen <= 1
     \/ api'[b].spec = a /\ api[b].spec = None
=============================================================================
