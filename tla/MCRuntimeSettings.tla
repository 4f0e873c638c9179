-------------------------- MODULE MCRuntimeSettings --------------------------
(* Values for the configurations of RuntimeSettings. *)
EXTENDS RuntimeSettings

\* Two of the settings are enough: the one the cleanup reads, and another.
TwoKeys == {"file_ttl_minutes", "max_queue_size"}

=============================================================================
