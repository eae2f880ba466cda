------------------------------ MODULE MCLabel ------------------------------
(* The Label controller on small instances.                                *)
EXTENDS Label, TLC

CONSTANT First  \* the instance of the first Label

\* Instances are interchangeable, so the first Label may be taken to start on
\* First; and a Label that has a predecessor under its name is not edited.
Bounded == \A n \in Names : /\ lastUid = 0 => api'[n].spec \in {None, First}
                            /\ api'[n].uid # 0 => api'[n].gen <= MaxUid + 1 - api'[n].uid
=============================================================================
