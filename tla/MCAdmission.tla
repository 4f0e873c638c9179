---------------------------- MODULE MCAdmission ----------------------------
(* Values for the configurations of Admission. *)
EXTENDS Admission, TLC

CONSTANTS r1, r2, w1, w2, alice

\* One visitor whose address changes: one cookie, two records.
Visitor(a, c) == [ip |-> a, cookie |-> c]

MovingGuest == {Visitor("home", "c1"), Visitor("phone", "c1")}

RequestSymmetry == Permutations({r1, r2}) \cup Permutations({w1, w2})

=============================================================================
