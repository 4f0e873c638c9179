--------------------------- MODULE MCAdminConsole ----------------------------
(* Series for the configurations of AdminConsole: every one of up to four    *)
(* samples, with gaps, flat ones, one sample alone, and none.                *)
EXTENDS AdminConsole

ShortHistories == UNION {[1..n -> {Null, 0, 1, 3}] : n \in 0..4}

=============================================================================
