---------------------------- MODULE MCYtdlpUpdate ----------------------------
(* Values for the configurations of YtdlpUpdate. *)
EXTENDS YtdlpUpdate

NoJob  == {}
OneJob == {"j1"}
OnePage == {"page"}
OneCanceller == {"c1"}

=============================================================================
