------------------------------- MODULE MCTask -------------------------------
(* The Task controller on small instances.                                 *)
EXTENDS Task

CONSTANTS t,         \* a Task
          p, q,      \* Projects
          bug,       \* a Label
          ann, bob   \* users of Vikunja

\* A labelled task of ann's in p, and one of bob's in q.
FewWanted == {[project |-> p, labels |-> {bug}, people |-> {ann}],
              [project |-> q, labels |-> {}, people |-> {bob}]}

\* Nothing happens to q.
Bounded == dep'[q] = [state |-> "ready", last |-> 1]
=============================================================================
