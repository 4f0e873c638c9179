--------------------------- MODULE MCDownloadQueue ---------------------------
(* Values of the constants of DownloadQueue for the model checker. *)
EXTENDS DownloadQueue, TLC

CONSTANTS w1, w2, c1

\* Every job belongs to one account: its first two downloads of the day may
\* end together.
AllAlice == [j \in 1..MaxJobs |-> "alice"]

AllGuest == [j \in 1..MaxJobs |-> "guest"]

NobodyWatches == [c \in {} |-> 0]

OneWatchesFirst == [c \in {c1} |-> 1]

WorkerSymmetry == Permutations({w1, w2})

=============================================================================
