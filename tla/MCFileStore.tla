---------------------------- MODULE MCFileStore ----------------------------
(* Values for the configurations of FileStore: the steps of the cleanup    *)
(* treat each row for itself, so one job, of the account that may be       *)
(* deleted, is enough.                                                     *)
EXTENDS FileStore

CONSTANT j1

OneJob == {j1}

=============================================================================
