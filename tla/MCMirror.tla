------------------------------ MODULE MCMirror ------------------------------
(***************************************************************************)
(* Mirror for TLC: commits 2 and 3 are made on top of commit 1.  The       *)
(* reconciler measures the first mirror.                                   *)
(***************************************************************************)
EXTENDS Mirror

MCCommits == 1 .. 3
MCHistory == <<{1}, {1, 2}, {1, 3}>>
MCOrigins == {[r \in Heads \cup Tags |-> IF r \in Heads THEN 1 ELSE 3],
              [r \in Heads \cup Tags |-> IF r \in Heads THEN 2 ELSE Absent]}
MCDestinations == {1, 2, 3}
MCMeasures == [w \in Reconcilers |-> 1]
=============================================================================
