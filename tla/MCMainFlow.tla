------------------------------ MODULE MCMainFlow ------------------------------
(* Values for the configurations of MainFlow. *)
EXTENDS MainFlow, TLC

CONSTANTS u1, u2

TwoUrls == {u1, u2}

=============================================================================
