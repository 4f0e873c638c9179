------------------------------- MODULE HandOff -------------------------------
(***************************************************************************)
(* What the queue and the workers promise together, without the queue, the *)
(* statuses or the events: a job that was accepted is pending until one    *)
(* worker takes it, at most one worker has it, and once it was given back  *)
(* it is over for ever.  A restart may put the jobs the workers had back   *)
(* among the pending ones or give them up; it never revives one that was   *)
(* over, and it never loses a pending job without giving it up for good.   *)
(***************************************************************************)
CONSTANTS Jobs, Workers, Nothing

VARIABLES pending,      \* accepted, not taken yet
          held,         \* the job each worker has, or Nothing
          over          \* given back or given up

vars == <<pending, held, over>>

InHands == {held[w] : w \in Workers} \ {Nothing}

Init == /\ pending = {}
        /\ held = [w \in Workers |-> Nothing]
        /\ over = {}

Accept(j) == /\ j \notin pending \cup InHands \cup over
             /\ pending' = pending \cup {j}
             /\ UNCHANGED <<held, over>>

Hold(w, j) == /\ held[w] = Nothing
              /\ j \in pending
              /\ pending' = pending \ {j}
              /\ held' = [held EXCEPT ![w] = j]
              /\ UNCHANGED over

GiveBack(w) == /\ held[w] # Nothing
               /\ over' = over \cup {held[w]}
               /\ held' = [held EXCEPT ![w] = Nothing]
               /\ UNCHANGED pending

Recover == /\ held' = [w \in Workers |-> Nothing]
           /\ pending' \in SUBSET (pending \cup InHands)
           /\ over' = over \cup ((pending \cup InHands) \ pending')

Next == \/ \E j \in Jobs : Accept(j)
        \/ \E w \in Workers, j \in Jobs : Hold(w, j)
        \/ \E w \in Workers : GiveBack(w)
        \/ Recover

Spec == Init /\ [][Next]_vars

=============================================================================
