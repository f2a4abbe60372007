---------------------------- MODULE Subscription ----------------------------
(***************************************************************************)
(* How an event gets from publish to the reconciler's loop, boring-broker/ *)
(* src/nats.rs: the stream of the run, the client's own subscription (core *)
(* NATS, not a consumer of the stream), the task that parses messages and  *)
(* forwards them, a channel of bounded size, and the loop that takes from  *)
(* it until it returns.  The client drops what finds its buffer full, and  *)
(* what is published while it is disconnected goes by.  The task ends when *)
(* it finds the receiver gone, and the subscription with it.               *)
(***************************************************************************)
EXTENDS Integers, Sequences, SequencesExt

CONSTANTS
  Publishers,       \* the controller, agents and operators
  MaxEvents,        \* bound: messages published
  ClientBuffer,     \* messages the client holds for the subscription
  Channel,          \* capacity of the mpsc channel, 256 in the code
  MaxDisconnects    \* bound

VARIABLES
  stream,           \* JetStream: all messages of the run, in order
  unconfirmed,      \* publishers that wait for their publish to be confirmed
  stage,            \* "unsubscribed", "taking", "returned" (the loop), "ended" (the task)
  subscribed,       \* where the stream was when the subscription began
  connected,
  buffer,           \* of the client: numbers in the stream
  forwarding,       \* of the task: none or the one it waits to send
  channel,
  taken,            \* history: what the loop has been given
  dropped,          \* history: what the client dropped or missed
  disconnects

vars == <<stream, unconfirmed, stage, subscribed, connected, buffer, forwarding,
          channel, taken, dropped, disconnects>>

\* A message is an event, or something that does not parse as one.
Kinds == {"event", "other"}
Numbers == 1..MaxEvents

TypeOK ==
  /\ stream \in Seq(Kinds) /\ Len(stream) <= MaxEvents
  /\ unconfirmed \subseteq Publishers
  /\ stage \in {"unsubscribed", "taking", "returned", "ended"}
  /\ subscribed \in 0..Len(stream)
  /\ connected \in BOOLEAN
  /\ buffer \in Seq(Numbers) /\ Len(buffer) <= ClientBuffer
  /\ forwarding \in Seq(Numbers) /\ Len(forwarding) <= 1
  /\ channel \in Seq(Numbers) /\ Len(channel) <= Channel
  /\ taken \in Seq(Numbers)
  /\ dropped \subseteq Numbers
  /\ disconnects \in 0..MaxDisconnects

Init ==
  /\ stream = <<>>
  /\ unconfirmed = {}
  /\ stage = "unsubscribed" /\ subscribed = 0
  /\ connected = TRUE
  /\ buffer = <<>> /\ forwarding = <<>> /\ channel = <<>> /\ taken = <<>>
  /\ dropped = {}
  /\ disconnects = 0

-----------------------------------------------------------------------------
Subscribe ==
  /\ stage = "unsubscribed" /\ stage' = "taking"
  /\ subscribed' = Len(stream)
  /\ UNCHANGED <<stream, unconfirmed, connected, buffer, forwarding, channel, taken, dropped, disconnects>>

\* What becomes of a message for a subscription that exists.
Arrives(n) ==
  IF stage \in {"unsubscribed", "ended"} THEN UNCHANGED <<buffer, dropped>>
  ELSE IF connected /\ Len(buffer) < ClientBuffer
       THEN buffer' = Append(buffer, n) /\ UNCHANGED dropped
       ELSE dropped' = dropped \cup {n} /\ UNCHANGED buffer

\* publish: the message is in the stream, its confirmation on the way.
Publish(p) ==
  /\ p \notin unconfirmed
  /\ Len(stream) < MaxEvents
  /\ \E k \in Kinds : stream' = Append(stream, k)
  /\ unconfirmed' = unconfirmed \cup {p}
  /\ Arrives(Len(stream) + 1)
  /\ UNCHANGED <<stage, subscribed, connected, forwarding, channel, taken, disconnects>>

Confirmed(p) ==
  /\ p \in unconfirmed
  /\ unconfirmed' = unconfirmed \ {p}
  /\ UNCHANGED <<stream, stage, subscribed, connected, buffer, forwarding, channel, taken, dropped,
                 disconnects>>

-----------------------------------------------------------------------------
\* Mutation: the newest first.
NextMessageNewest == [number |-> Last(buffer), rest |-> Front(buffer)]
NextMessage == [number |-> Head(buffer), rest |-> Tail(buffer)]

Parses(n) == stream[n] = "event"

MayReceive == buffer # <<>> /\ forwarding = <<>>

\* The task takes the next message once it has sent the last; one that does
\* not parse is left out.
Receive ==
  /\ MayReceive
  /\ buffer' = NextMessage.rest
  /\ forwarding' = IF Parses(NextMessage.number) THEN <<NextMessage.number>> ELSE <<>>
  /\ UNCHANGED <<stream, unconfirmed, stage, subscribed, connected, channel, taken, dropped,
                 disconnects>>

\* send waits for room,
Send ==
  /\ forwarding # <<>>
  /\ stage = "taking" /\ Len(channel) < Channel
  /\ channel' = channel \o forwarding
  /\ forwarding' = <<>>
  /\ UNCHANGED <<stream, unconfirmed, stage, subscribed, connected, buffer, taken, dropped,
                 disconnects>>

\* and is an error without a receiver: the task ends, and its subscriber with
\* what the client holds for it.
\* Mutation: the error is not looked at.
GoesOn == UNCHANGED <<stage, buffer>>
Breaks == stage' = "ended" /\ buffer' = <<>>

SendFails ==
  /\ forwarding # <<>>
  /\ stage = "returned"
  /\ forwarding' = <<>>
  /\ Breaks
  /\ UNCHANGED <<stream, unconfirmed, subscribed, connected, channel, taken, dropped, disconnects>>

\* Subscription::next, whenever the loop gets to it.
Take ==
  /\ stage = "taking" /\ channel # <<>>
  /\ taken' = Append(taken, Head(channel))
  /\ channel' = Tail(channel)
  /\ UNCHANGED <<stream, unconfirmed, stage, subscribed, connected, buffer, forwarding, dropped,
                 disconnects>>

\* run_inner returns, at any of its exits, and drops the receiver with what is
\* in the channel.
LoopReturns ==
  /\ stage = "taking" /\ stage' = "returned"
  /\ channel' = <<>>
  /\ UNCHANGED <<stream, unconfirmed, subscribed, connected, buffer, forwarding, taken, dropped,
                 disconnects>>

Disconnect ==
  /\ connected /\ disconnects < MaxDisconnects
  /\ connected' = FALSE
  /\ disconnects' = disconnects + 1
  /\ UNCHANGED <<stream, unconfirmed, stage, subscribed, buffer, forwarding, channel, taken, dropped>>

\* The client connects and subscribes again by itself.
Reconnect ==
  /\ ~connected
  /\ connected' = TRUE
  /\ UNCHANGED <<stream, unconfirmed, stage, subscribed, buffer, forwarding, channel, taken, dropped,
                 disconnects>>

Idle == Len(stream) = MaxEvents /\ UNCHANGED vars

Next ==
  \/ Subscribe
  \/ \E p \in Publishers : Publish(p) \/ Confirmed(p)
  \/ Receive \/ Send \/ SendFails \/ Take \/ LoopReturns
  \/ Disconnect \/ Reconnect
  \/ Idle

\* The task runs on, and the loop, while there is something for it, comes back
\* for the next event or returns.
GoOn == channel # <<>> /\ (Take \/ LoopReturns)

Spec ==
  Init /\ [][Next]_vars /\ WF_vars(Receive) /\ WF_vars(Send \/ SendFails) /\ WF_vars(GoOn)

-----------------------------------------------------------------------------
(***************************************************************************)
(* Properties.                                                             *)
(***************************************************************************)
\* The events the subscription was there for, but those the client lost.
Due ==
  {n \in DOMAIN stream : stage # "unsubscribed" /\ n > subscribed /\ Parses(n) /\ n \notin dropped}

Given == taken \o channel \o forwarding
Ascending(s) == \A i, j \in DOMAIN s : i < j => s[i] < s[j]

\* The loop is given every event once and in the order of the stream.  Up to
\* the last it was given it has had all that are due; while it is there the
\* rest is on the way to it, or waits behind that.
Gapless == \A n \in Due, m \in Range(taken) : n <= m => n \in Range(taken)

InOrderWithoutGaps ==
  /\ Ascending(Given \o buffer)
  /\ Range(taken) \subseteq Due /\ Gapless
  /\ stage = "taking" => Range(Given) \cup {n \in Range(buffer) : Parses(n)} = Due

\* An event that the client or its task still holds.
Held(n) == n \in Range(buffer \o forwarding) /\ Parses(n)

\* What the client holds is given to the loop in the end, unless that returns;
\* then the next event ends the task, and none waits for a receiver forever.
EventuallyTaken ==
  \A n \in Numbers : Held(n) ~> n \in Range(taken) \/ stage \in {"returned", "ended"}
TaskEnds == (stage = "returned" /\ \E n \in Numbers : Held(n)) ~> stage = "ended"
=============================================================================
