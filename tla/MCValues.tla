------------------------------ MODULE MCValues ------------------------------
(***************************************************************************)
(* Values revisions and their approval on a small instance.                *)
(***************************************************************************)
EXTENDS ValuesApproval, TLC

CONSTANTS u1, u2, r1, r2, s1, s2, t1, t2, p, q

TwoUsers == {u1, u2}
TwoRevisions == {r1, r2}
TwoSessions == {s1, s2}
TwoTasks == {t1, t2}
TwoPaths == {p, q}

\* t1 and t2 raced past the gate on p.
SharedPath == (t1 :> {p}) @@ (t2 :> {p})

Symmetry == Permutations(Users) \cup Permutations(Revisions)
            \cup Permutations(Sessions)
=============================================================================
