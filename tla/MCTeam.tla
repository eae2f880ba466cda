------------------------------- MODULE MCTeam -------------------------------
(* The Team controller on small instances.                                 *)
EXTENDS Team

CONSTANTS t,               \* a Team
          op, bob, carl    \* users of Vikunja

\* Nobody else; bob as an admin; bob and the operator itself as members.
FewRosters == {Nobody, [Nobody EXCEPT ![bob] = "admin"],
               [u \in Users |-> IF u = carl THEN "out" ELSE "member"]}

\* A Team is edited, or another client changes it, but not both; the token is only
\* ever rotated to bob; and requeue delays (15s, 10min) outlast what the worker has
\* to do.
Bounded == /\ drifts' = 0 \/ \A n \in Names : api'[n].gen <= 1
           /\ token' # carl
           /\ Crash \/ (queue # {} \/ job # Idle => timers \subseteq timers')
=============================================================================
