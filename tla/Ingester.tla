------------------------------- MODULE Ingester -------------------------------
(***************************************************************************)
(* The relay ingester (src/relay/ingester.rs).  One task per relay         *)
(* connects, subscribes and reads events into a channel, and waits when it *)
(* is full; one processor takes them out and stores them.                  *)
(*                                                                         *)
(* What insert_event does is in Engagement, Moderation and Replaceable;    *)
(* the pubkeys the processor offers are Resolver's, and offering does not  *)
(* wait.                                                                   *)
(***************************************************************************)
EXTENDS Integers, Sequences

CONSTANTS
    Relays,      \* relays that are ingested from
    Events,      \* events they send
    ChannelCap,  \* 4096
    None

VARIABLES
    loop,       \* loop[r]: where the task of relay r is
    held,       \* held[r]: the event it waits to send, or None
    channel,    \* events, in order
    processor,
    stored,     \* events in the database
    shutdown

loops == <<loop, held>>
vars  == <<loops, channel, processor, stored, shutdown>>

TypeOK ==
    /\ loop \in [Relays -> {"connect", "subscribe", "read", "send", "backoff", "ended"}]
    /\ held \in [Relays -> Events \cup {None}]
    /\ \A r \in Relays : held[r] # None <=> loop[r] = "send"
    /\ channel \in Seq(Events) /\ Len(channel) <= ChannelCap
    /\ processor \in {"take", "ended"}
    /\ stored \subseteq Events
    /\ shutdown \in BOOLEAN

Init ==
    /\ loop = [r \in Relays |-> "connect"] /\ held = [r \in Relays |-> None]
    /\ channel = <<>> /\ processor = "take" /\ stored = {}
    /\ shutdown = FALSE

Shutdown == ~shutdown /\ shutdown' = TRUE /\ UNCHANGED <<loops, channel, processor, stored>>

-----------------------------------------------------------------------------
(* relay_loop *)

Goto(r, s) == loop' = [loop EXCEPT ![r] = s]

\* What a step of a loop leaves alone that sends nothing.
OthersGoOn == UNCHANGED <<channel, processor, stored, shutdown>>

\* connect_async: back-off is set back to a second, but not yet waited for.
Connect(r) ==
    /\ loop[r] = "connect"
    /\ \/ Goto(r, "subscribe")
       \/ Goto(r, "backoff")
    /\ UNCHANGED held /\ OthersGoOn

\* When the REQ cannot be sent `continue` goes round the pause, and round the
\* shutdown signal that is looked for there.
Subscribe(r) ==
    /\ loop[r] = "subscribe"
    /\ \/ Goto(r, "read")
       \/ Goto(r, "connect")
    /\ UNCHANGED held /\ OthersGoOn

\* An event of a kind that is wanted; the relay may have sent it before.
Receive(r, e) ==
    /\ loop[r] = "read"
    /\ Goto(r, "send")
    /\ held' = [held EXCEPT ![r] = e]
    /\ OthersGoOn

\* Bug: nobody tells the loop that the processor is gone.
SendWaits(r) ==
    /\ loop[r] = "send"
    /\ held' = [held EXCEPT ![r] = None]
    /\ Len(channel) < ChannelCap
    /\ channel' = Append(channel, held[r]) /\ Goto(r, "read")
    /\ UNCHANGED <<processor, stored, shutdown>>

\* tx.send waits for room; without a processor it fails and the loop ends.
Send(r) ==
    /\ loop[r] = "send"
    /\ held' = [held EXCEPT ![r] = None]
    /\ \/ /\ processor # "ended" /\ Len(channel) < ChannelCap
          /\ channel' = Append(channel, held[r]) /\ Goto(r, "read")
       \/ processor = "ended" /\ Goto(r, "ended") /\ UNCHANGED channel
    /\ UNCHANGED <<processor, stored, shutdown>>

\* The relay closes the connection, or it breaks.
Disconnect(r) == loop[r] = "read" /\ Goto(r, "backoff") /\ UNCHANGED held /\ OthersGoOn

Wake(r) == loop[r] = "backoff" /\ Goto(r, "connect") /\ UNCHANGED held /\ OthersGoOn

StopLoop(r) ==
    /\ shutdown /\ loop[r] \in {"read", "backoff"}
    /\ Goto(r, "ended")
    /\ UNCHANGED held /\ OthersGoOn

-----------------------------------------------------------------------------
(* process_events *)

\* insert_event stores the event, or finds it a duplicate, or fails; the first is
\* followed by the counters in Redis (Stats), the offers (Resolver) and the graph
\* (Replaceable).
ProcessEvent ==
    /\ processor = "take" /\ channel # <<>>
    /\ channel' = Tail(channel)
    /\ stored' \in {stored, stored \cup {Head(channel)}}
    /\ UNCHANGED <<loops, processor, shutdown>>

\* The receiver of the channel goes, with what is in it.
StopProcessor ==
    /\ shutdown /\ processor = "take"
    /\ processor' = "ended" /\ channel' = <<>>
    /\ UNCHANGED <<loops, stored, shutdown>>

-----------------------------------------------------------------------------
RelayLoop(r) ==
    \/ Connect(r) \/ Subscribe(r) \/ Send(r) \/ Disconnect(r) \/ Wake(r) \/ StopLoop(r)
    \/ \E e \in Events : Receive(r, e)

Process == ProcessEvent \/ StopProcessor

Next == Shutdown \/ Process \/ \E r \in Relays : RelayLoop(r)

Spec == Init /\ [][Next]_vars

GoOn(r) == Wake(r) \/ Subscribe(r)

\* Tasks go on, but connecting need not return.  The channel gives room to those who
\* wait for it in turn, and of two things that are ready select! takes either.
FairSpec ==
    /\ Spec /\ WF_vars(Process)
    /\ \A r \in Relays : WF_vars(GoOn(r)) /\ SF_vars(Send(r)) /\ SF_vars(StopLoop(r))

-----------------------------------------------------------------------------
(* Properties *)

\* After the shutdown signal each loop ends, whatever fills the channel, unless its
\* connecting never returns or its REQ fails again and again.
LoopsStop ==
    \A r \in Relays :
        \/ shutdown ~> (loop[r] = "ended")
        \/ <>[](loop[r] = "connect")
        \/ []<>(loop[r] = "subscribe")
=============================================================================
