------------------------------ MODULE Listener ------------------------------
(***************************************************************************)
(* One thread that reads one RabbitMQ queue: RabbitMQ.get of                *)
(* connectors/listeners/listeners.py under get_latest_raw_data,             *)
(* get_latest_normalizer_meta and get_scan_profile_mutation, with the loop  *)
(* of the scheduler around it.                                              *)
(*                                                                          *)
(* Every get opens a connection of its own, takes one message, decodes it,  *)
(* acknowledges it and leaves the connection to the garbage collector.  The *)
(* acknowledgement is written to a socket and not confirmed.  What is not   *)
(* acknowledged goes back to its place in the queue once the broker finds   *)
(* the connection gone, at once or after missed heartbeats.  Messages are   *)
(* numbered as they are published.                                          *)
(***************************************************************************)
EXTENDS Integers, FiniteSets, FiniteSetsExt

CONSTANTS
  Messages,   \* how many are published
  body,       \* of a message: "valid", "not_json", or "invalid" for the model
  None,       \* no message
  MaxDrops,   \* bound: connections that break
  MaxKills    \* bound: ends of the program that no body is the reason of

Bodies == {"valid", "not_json", "invalid"}

Ids == 1..Messages

ASSUME ListenerAssumption ==
  /\ Messages \in Nat /\ MaxDrops \in Nat /\ MaxKills \in Nat
  /\ body \in [Ids -> Bodies]
  /\ None \notin Ids

VARIABLES
  published,  \* broker: how many messages were published
  ready,      \* broker: messages that can be delivered
  unacked,    \* broker: messages that it delivered on a connection and keeps
  pc,         \* where the thread is, "stopped" if there is no process
  message,    \* the message it has
  handled, repeated, drops, kills  \* history: messages that were worked on to
              \* the end; how often one was again; connections that broke; kills

broker == <<published, ready, unacked>>
worked == <<handled, repeated>>
vars == <<broker, pc, message, worked, drops, kills>>

Init ==
  /\ published = 0 /\ ready = {} /\ unacked = {}
  /\ pc = "loop" /\ message = None
  /\ handled = {} /\ repeated = 0
  /\ drops = 0 /\ kills = 0

Loop == pc' = "loop" /\ message' = None

\* What the loop does not handle ends the thread, and with it the program.
Stop == pc' = "stopped" /\ message' = None

----------------------------------------------------------------------------
(* The thread.                                                               *)

\* basic_get; without a message the loop starts anew.
BasicGet ==
  /\ pc = "loop" /\ ready # {}
  /\ message' = Min(ready)
  /\ ready' = ready \ {message'}
  /\ unacked' = unacked \cup {message'}
  /\ pc' = "decode"
  /\ UNCHANGED <<published, worked, drops, kills>>

\* Mutation of Decode: the message is acknowledged first.
DecodeAcknowledged ==
  /\ pc = "decode"
  /\ unacked' = unacked \ {message}
  /\ IF body[message] = "not_json" THEN Stop ELSE pc' = "validate" /\ UNCHANGED message
  /\ UNCHANGED <<published, ready, worked, drops, kills>>

\* Mutation of Decode: the model is looked at before the acknowledgement as well.
DecodeAndValidate ==
  /\ pc = "decode"
  /\ IF body[message] # "valid" THEN Stop ELSE pc' = "ack" /\ UNCHANGED message
  /\ UNCHANGED <<broker, worked, drops, kills>>

\* json.loads comes before the acknowledgement: a body that is not JSON stays.
Decode ==
  /\ pc = "decode"
  /\ IF body[message] = "not_json" THEN Stop ELSE pc' = "ack" /\ UNCHANGED message
  /\ UNCHANGED <<broker, worked, drops, kills>>

\* Mutation of BasicAck: the message is not acknowledged.
BasicAckForgotten ==
  /\ pc = "ack"
  /\ pc' = "validate"
  /\ UNCHANGED <<broker, message, worked, drops, kills>>

BasicAck ==
  /\ pc = "ack" /\ message \in unacked
  /\ unacked' = unacked \ {message}
  /\ pc' = "validate"
  /\ UNCHANGED <<published, ready, message, worked, drops, kills>>

\* The connection breaks before the acknowledgement arrives.  pika raises one of
\* the errors that the loop catches, or the thread does not see it.
BasicAckLost ==
  /\ pc = "ack" /\ (drops < MaxDrops \/ message \notin unacked)
  /\ drops' = IF message \in unacked THEN drops + 1 ELSE drops
  /\ Loop \/ (pc' = "validate" /\ UNCHANGED message)
  /\ UNCHANGED <<broker, worked, kills>>

\* Mutation of Validate: a body that does not fit is left where it is.
ValidateSkip ==
  /\ pc = "validate"
  /\ pc' = (IF body[message] = "invalid" THEN "loop" ELSE "work")
  /\ UNCHANGED <<broker, message, worked, drops, kills>>

\* pydantic comes after it: a body that does not fit the model is gone.
Validate ==
  /\ pc = "validate"
  /\ IF body[message] = "invalid" THEN Stop ELSE pc' = "work" /\ UNCHANGED message
  /\ UNCHANGED <<broker, worked, drops, kills>>

\* The rest of populate_queue, or of update_normalizer_task_status.
Work ==
  /\ pc = "work"
  /\ handled' = handled \cup {message}
  /\ repeated' = IF message \in handled THEN repeated + 1 ELSE repeated
  /\ Loop
  /\ UNCHANGED <<broker, drops, kills>>

Thread == BasicGet \/ Decode \/ BasicAck \/ BasicAckLost \/ Validate \/ Work

----------------------------------------------------------------------------
(* The world around it.                                                      *)

Publish ==
  /\ published < Messages
  /\ published' = published + 1
  /\ ready' = ready \cup {published'}
  /\ UNCHANGED <<unacked, pc, message, worked, drops, kills>>

\* The connection on which m was delivered is gone.  That of the message in hand
\* breaks, the others did or their process ended.
Requeue(m) ==
  /\ m \in unacked
  /\ m = message => drops < MaxDrops
  /\ drops' = IF m = message THEN drops + 1 ELSE drops
  /\ unacked' = unacked \ {m} /\ ready' = ready \cup {m}
  /\ UNCHANGED <<published, pc, message, worked, kills>>

Kill ==
  /\ pc # "stopped" /\ kills < MaxKills
  /\ kills' = kills + 1
  /\ Stop
  /\ UNCHANGED <<broker, worked, drops>>

Restart ==
  /\ pc = "stopped"
  /\ Loop
  /\ UNCHANGED <<broker, worked, drops, kills>>

Next == Thread \/ Publish \/ (\E m \in Ids : Requeue(m)) \/ Kill \/ Restart

Spec == Init /\ [][Next]_vars

\* The thread is scheduled, the program is started again, and the broker finds
\* out about connections that are gone.
FairSpec ==
  /\ Spec /\ WF_vars(Thread) /\ WF_vars(Restart)
  /\ \A m \in Ids : WF_vars(m # message /\ Requeue(m))

----------------------------------------------------------------------------
(* What a listener promises.                                                 *)

TypeOK ==
  /\ published \in 0..Messages
  /\ ready \subseteq 1..published /\ unacked \subseteq 1..published
  /\ ready \cap unacked = {}
  /\ pc \in {"loop", "decode", "ack", "validate", "work", "stopped"}
  /\ message \in (1..published) \cup {None} /\ (message = None <=> pc \in {"loop", "stopped"})
  /\ handled \subseteq 1..published /\ repeated \in Nat
  /\ drops \in 0..MaxDrops /\ kills \in 0..MaxKills

\* A message that the broker does not have, nor the thread, and that nobody
\* worked on.
Lost(m) == m <= published /\ m \notin ready \cup unacked /\ m \notin handled \cup {message}

\* Each repetition of work is the fault of an acknowledgement that did not arrive:
\* neither kills nor restarts nor bodies of other messages cause one.
RepeatedByDrop == repeated <= drops

\* Every end of the program loses at most the message that the thread worked on,
\* and a body that does not fit the model loses itself only.
LostBodies == {m \in Ids : Lost(m) /\ body[m] # "invalid"}

LostByKill == Cardinality(LostBodies) <= kills

\* A message leaves in the end, worked on or lost, whatever bodies that do not fit
\* the model stop the program before it.  A body that is not JSON is never
\* acknowledged: it may stop every new process, so what follows it may wait.
EveryMessageLeaves ==
  \A m \in Ids :
    (\A n \in 1..m : body[n] # "not_json") =>
      (m <= published ~> m \in handled \/ Lost(m))
=============================================================================
