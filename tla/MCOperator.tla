----------------------------- MODULE MCOperator -----------------------------
(* The two controllers of module Operator on a small instance.             *)
EXTENDS Operator

CONSTANTS a, v,     \* a Project, a VikunjaInstance
          s, t,     \* a server and a token that it accepts
          ann       \* the token's user

Accounts == [x \in {Server} |-> [y \in Tokens |-> ann]]

Quiet == /\ queue = {} /\ job = P!Idle /\ \A n \in Names : events[n] = <<>>
         /\ vQueue = {} /\ vJob = V!Idle /\ vEvents[Instance] = <<>>

\* A probe is only interrupted by a restart (module Instance has what else may
\* happen during one), and the requeue delays (15s, 10min) outlast whatever
\* else goes on.
Bounded == \/ Crash
           \/ /\ vWork.pc # "idle" => vWork' # vWork
              /\ ~Quiet => timers \subseteq timers' /\ vTimers \subseteq vTimers'
=============================================================================
