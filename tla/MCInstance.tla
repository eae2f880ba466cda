----------------------------- MODULE MCInstance -----------------------------
(* The VikunjaInstance controller on small instances.                      *)
EXTENDS Instance

CONSTANTS v,               \* a VikunjaInstance
          s1, s2,          \* servers
          t1, t2,          \* tokens
          ann, bob, carl   \* users

\* Both tokens are good at the first server, only the second at the other.
Accounts == [s \in Servers |-> [t \in Tokens |->
               IF s = s1 THEN IF t = t1 THEN ann ELSE bob
                         ELSE IF t = t1 THEN None ELSE carl]]
=============================================================================
