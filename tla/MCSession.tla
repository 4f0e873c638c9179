------------------------------ MODULE MCSession -------------------------------
(* The instance of Session that TLC checks: its constants are numbers. *)
EXTENDS Session, TLC

=============================================================================
