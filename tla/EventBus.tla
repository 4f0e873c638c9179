------------------------------ MODULE EventBus ------------------------------
(***************************************************************************)
(* The in-memory event bus of the backend (core/events.py): one mailbox    *)
(* per subscriber of a job.  Nothing is stored for a job nobody listens    *)
(* to: an event published before a subscription is gone.                   *)
(*                                                                         *)
(* A subscriber is an SSE connection, and every connection follows one     *)
(* job (Watched).  publish hands each event to the event loop with         *)
(* call_soon_threadsafe, whether it is called from the loop or from a      *)
(* yt-dlp thread, so mailboxes fill in the order of the calls and an       *)
(* append at the time of the call is an exact account of the order.        *)
(***************************************************************************)
EXTENDS Sequences

CONSTANTS Clients,      \* the SSE connections
          Watched       \* the job each connection follows

VARIABLES subs,         \* the connections that hold a subscription
          inbox         \* the mailbox (asyncio.Queue) of each connection

busVars == <<subs, inbox>>

\* Names of the events that tell the client its job is over; the generator
\* of the stream stops after one of them.
Final == {"done", "failed", "cancelled"}

Event == {"downloading", "progress", "processing"} \cup Final

BusTypeOK == /\ subs \in SUBSET Clients
             /\ inbox \in [Clients -> Seq(Event)]

BusInit == /\ subs = {}
           /\ inbox = [c \in Clients |-> <<>>]

Subscribe(c) == /\ subs' = subs \cup {c}
                /\ inbox' = [inbox EXCEPT ![c] = <<>>]

Unsubscribe(c) == /\ subs' = subs \ {c}
                  /\ inbox' = [inbox EXCEPT ![c] = <<>>]

\* One event for every job of js; publish(job_id, event) is js = {job_id}.
PublishAll(js, e) ==
    /\ inbox' = [c \in Clients |->
                    IF c \in subs /\ Watched[c] \in js
                    THEN Append(inbox[c], e)
                    ELSE inbox[c]]
    /\ UNCHANGED subs

Publish(j, e) == PublishAll({j}, e)

\* await queue.get(): the oldest event leaves the mailbox.
Take(c) == /\ inbox[c] # <<>>
           /\ inbox' = [inbox EXCEPT ![c] = Tail(inbox[c])]

=============================================================================
