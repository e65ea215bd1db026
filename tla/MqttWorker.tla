----------------------------- MODULE MqttWorker -----------------------------
(***************************************************************************)
(* One worker of the dispatcher and the broker session it consumes from:   *)
(*                                                                         *)
(*   mosquitto session  --PUBLISH/PUBREL-->  paho client in the worker     *)
(*          ^                                        |                     *)
(*          +----------PUBACK/PUBREC/PUBCOMP---------+                     *)
(*                                                                         *)
(* The worker is timeio.mqtt.AbstractHandler (every setup, ingest, qc and  *)
(* sync service is a subclass); worker_launcher.sh starts it, counts its   *)
(* crashes and gives up.  Messages are numbered in the order in which the  *)
(* broker receives them, so "the oldest" is the smallest number.  TCP is   *)
(* first-in first-out: of the packets of one type the oldest is read       *)
(* first.  The order between packets of different types is not kept; a     *)
(* broker that sends the one earlier or later produces either order.       *)
(***************************************************************************)
EXTENDS Integers, FiniteSets

CONSTANTS
  QoS,            \* MQTT_QOS: 1 or 2
  NumMsgs,        \* bound: messages published in a behaviour
  Outcomes,       \* how on_message can end for each message
  MaxInflight,    \* max_inflight_messages of mosquitto.conf
  MaxQueued,      \* max_queued_messages of mosquitto.conf
  MaxAttempts,    \* RESTART_MAX_ATTEMPTS of worker_launcher.sh
  RestartPolicy,  \* SERVICE_WORKER_RESTART_POLICY of docker-compose
  MaxKills,       \* bound: kills of the worker process from outside
  MaxDrops        \* bound: losses of the connection to the broker

Msgs == 1..NumMsgs
NoMsg == 0

(***************************************************************************)
(* "done": act() returned.  "error": act() raised one of the errors that   *)
(* on_message only logs.  "exit": the payload was not decodable or act()   *)
(* raised anything else, so that on_message calls sys.exit(1).             *)
(***************************************************************************)
Outcome == {"done", "error", "exit"}

ASSUME WorkerAssumption ==
  /\ QoS \in {1, 2}
  /\ NumMsgs \in Nat
  /\ Outcomes \in [Msgs -> SUBSET Outcome]
  /\ MaxInflight \in Nat \ {0}
  /\ MaxQueued \in Nat \ {0}
  /\ MaxAttempts \in Nat \ {0}
  /\ RestartPolicy \in {"always", "on-failure", "unless-stopped", "no"}
  /\ MaxKills \in Nat
  /\ MaxDrops \in Nat

VARIABLES
  broker,    \* per message: the state the broker keeps for the session
  session,   \* the broker holds a session (and subscription) for the worker
  conn,      \* the client is connected
  wire,      \* packets on their way to the client
  acks,      \* packets on their way to the broker
  stored,    \* paho's _in_messages: QoS 2 messages received, not yet released
  cur,       \* the message on_message is working on, or NoMsg
  stage,     \* "idle", "act" inside on_message, "returned" before the ack
  launcher,  \* worker_launcher.sh: "starting", "running" or "exited"
  attempts,  \* attempts of worker_launcher.sh
  handled,   \* history: how often the work on a message was done (2 = more)
  exits,     \* history: how often a message made the worker exit (2 = more)
  kills,     \* history: kills so far
  drops      \* history: connection losses so far

brokerVars == <<broker, session>>
netVars == <<conn, wire, acks>>
clientVars == <<stored, cur, stage>>
launchVars == <<launcher, attempts>>
historyVars == <<handled, exits>>
faultVars == <<kills, drops>>
vars == <<brokerVars, netVars, clientVars, launchVars, historyVars, faultVars>>

Packet == [type : {"PUBLISH", "PUBREL"}, msg : Msgs]
Ack == [type : {"PUBACK", "PUBREC", "PUBCOMP"}, msg : Msgs]

BrokerState == {"unsent", "queued", "sent", "released", "done", "dropped"}

TypeOK ==
  /\ broker \in [Msgs -> BrokerState]
  /\ session \in BOOLEAN
  /\ conn \in BOOLEAN
  /\ wire \in SUBSET Packet
  /\ acks \in SUBSET Ack
  /\ stored \in SUBSET Msgs
  /\ cur \in Msgs \cup {NoMsg}
  /\ stage \in {"idle", "act", "returned"}
  /\ (stage = "idle") <=> (cur = NoMsg)
  /\ launcher \in {"starting", "running", "exited"}
  /\ attempts \in 1..MaxAttempts + 1
  /\ handled \in [Msgs -> 0..2]
  /\ exits \in [Msgs -> 0..2]
  /\ kills \in 0..MaxKills
  /\ drops \in 0..MaxDrops
-----------------------------------------------------------------------------
InState(s) == {m \in Msgs : broker[m] = s}

\* No packet of p's type for an older message is still on the channel.
OldestOf(channel, p) ==
  /\ p \in channel
  /\ \A q \in channel : q.type = p.type => p.msg <= q.msg

PublishPacket(m) == [type |-> "PUBLISH", msg |-> m]
PubrelPacket(m) == [type |-> "PUBREL", msg |-> m]
AckPacket(t, m) == [type |-> t, msg |-> m]

\* Counting stops at "more than once".
Again(n) == IF n = 0 THEN 1 ELSE 2
-----------------------------------------------------------------------------
(***************************************************************************)
(* The broker.                                                             *)
(***************************************************************************)

(***************************************************************************)
(* A service publishes the next message to the worker's topic.  Without a  *)
(* session nobody is subscribed and the message is gone; a full queue      *)
(* drops it too ("If the queue fills, new messages are silently dropped"). *)
(***************************************************************************)
Publish(m) ==
  /\ broker[m] = "unsent"
  /\ \A k \in Msgs : k < m => broker[k] # "unsent"
  /\ broker' = [broker EXCEPT ![m] =
       IF session /\ Cardinality(InState("queued")) < MaxQueued
         THEN "queued" ELSE "dropped"]
  /\ UNCHANGED <<session, netVars, clientVars, launchVars, historyVars, faultVars>>

Inflight == InState("sent") \cup InState("released")

\* Variant of Send: the window is not respected.
Send_NoWindow(m) ==
  /\ conn
  /\ m \in InState("queued")
  /\ \A k \in InState("queued") : m <= k
  /\ broker' = [broker EXCEPT ![m] = "sent"]
  /\ wire' = wire \cup {PublishPacket(m)}
  /\ UNCHANGED <<session, conn, acks, clientVars, launchVars, historyVars, faultVars>>

\* Variant of Send: the queue is not kept in order.
Send_Newest(m) ==
  /\ conn
  /\ m \in InState("queued")
  /\ \A k \in InState("queued") : k <= m
  /\ Cardinality(Inflight) < MaxInflight
  /\ broker' = [broker EXCEPT ![m] = "sent"]
  /\ wire' = wire \cup {PublishPacket(m)}
  /\ UNCHANGED <<session, conn, acks, clientVars, launchVars, historyVars, faultVars>>

\* The oldest queued message goes out as soon as a window slot is free.
Send(m) ==
  /\ conn
  /\ m \in InState("queued")
  /\ \A k \in InState("queued") : m <= k
  /\ Cardinality(Inflight) < MaxInflight
  /\ broker' = [broker EXCEPT ![m] = "sent"]
  /\ wire' = wire \cup {PublishPacket(m)}
  /\ UNCHANGED <<session, conn, acks, clientVars, launchVars, historyVars, faultVars>>

(***************************************************************************)
(* The broker reads an acknowledgement.  It reads what was written before  *)
(* a connection went down as well, until the client connects again.        *)
(***************************************************************************)
BrokerPuback(m) ==
  LET p == AckPacket("PUBACK", m) IN
  /\ OldestOf(acks, p)
  /\ acks' = acks \ {p}
  /\ broker' = [broker EXCEPT ![m] = IF @ = "sent" THEN "done" ELSE @]
  /\ UNCHANGED <<session, conn, wire, clientVars, launchVars, historyVars, faultVars>>

BrokerPubrec(m) ==
  LET p == AckPacket("PUBREC", m) IN
  /\ OldestOf(acks, p)
  /\ acks' = acks \ {p}
  /\ broker' = [broker EXCEPT ![m] = IF @ = "sent" THEN "released" ELSE @]
  /\ wire' = IF conn THEN wire \cup {PubrelPacket(m)} ELSE wire
  /\ UNCHANGED <<session, conn, clientVars, launchVars, historyVars, faultVars>>

BrokerPubcomp(m) ==
  LET p == AckPacket("PUBCOMP", m) IN
  /\ OldestOf(acks, p)
  /\ acks' = acks \ {p}
  /\ broker' = [broker EXCEPT ![m] = IF @ = "released" THEN "done" ELSE @]
  /\ UNCHANGED <<session, conn, wire, clientVars, launchVars, historyVars, faultVars>>
-----------------------------------------------------------------------------
(***************************************************************************)
(* The client: paho in loop_forever, one thread, so that no packet is read *)
(* while on_message is working.                                            *)
(***************************************************************************)

\* Variant of Resent: unacknowledged messages are forgotten.
Resent_OnlyReleased == {PubrelPacket(m) : m \in InState("released")}

\* What the broker sends again to a session that reconnects.
Resent ==
  {PublishPacket(m) : m \in InState("sent")} \cup
  {PubrelPacket(m) : m \in InState("released")}

\* run_loop connects, loop_forever reconnects, and on_connect subscribes.
Connect ==
  /\ launcher = "running"
  /\ ~conn
  /\ cur = NoMsg
  /\ conn' = TRUE
  /\ session' = TRUE
  /\ wire' = Resent
  /\ acks' = {}
  /\ UNCHANGED <<broker, clientVars, launchVars, historyVars, faultVars>>

Reading == conn /\ cur = NoMsg

\* Variant of RecvPublish: QoS 1 acknowledges before on_message.
RecvPublish_AckFirst(m) ==
  LET p == PublishPacket(m) IN
  /\ Reading
  /\ OldestOf(wire, p)
  /\ wire' = wire \ {p}
  /\ cur' = m /\ stage' = "act"
  /\ acks' = acks \cup {AckPacket("PUBACK", m)}
  /\ UNCHANGED <<brokerVars, conn, stored, launchVars, historyVars, faultVars>>

(***************************************************************************)
(* With QoS 1 a PUBLISH is given to on_message at once.  With QoS 2 it is  *)
(* kept in memory and its receipt confirmed; on_message runs at PUBREL.    *)
(***************************************************************************)
RecvPublish(m) ==
  LET p == PublishPacket(m) IN
  /\ Reading
  /\ OldestOf(wire, p)
  /\ wire' = wire \ {p}
  /\ \/ /\ QoS = 1
        /\ cur' = m /\ stage' = "act"
        /\ UNCHANGED <<acks, stored>>
     \/ /\ QoS = 2
        /\ stored' = stored \cup {m}
        /\ acks' = acks \cup {AckPacket("PUBREC", m)}
        /\ UNCHANGED <<cur, stage>>
  /\ UNCHANGED <<brokerVars, conn, launchVars, historyVars, faultVars>>

\* Variant of RecvPubrel: the message stays in memory.
RecvPubrel_Keep(m) ==
  LET p == PubrelPacket(m) IN
  /\ Reading
  /\ OldestOf(wire, p)
  /\ wire' = wire \ {p}
  /\ \/ m \in stored /\ cur' = m /\ stage' = "act" /\ UNCHANGED acks
     \/ /\ m \notin stored
        /\ acks' = acks \cup {AckPacket("PUBCOMP", m)}
        /\ UNCHANGED <<cur, stage>>
  /\ UNCHANGED <<brokerVars, conn, stored, launchVars, historyVars, faultVars>>

\* Variant of RecvPubrel: an unknown message is not confirmed.
RecvPubrel_OnlyKnown(m) ==
  LET p == PubrelPacket(m) IN
  /\ Reading
  /\ OldestOf(wire, p)
  /\ m \in stored
  /\ wire' = wire \ {p}
  /\ cur' = m /\ stage' = "act"
  /\ stored' = stored \ {m}
  /\ UNCHANGED <<brokerVars, conn, acks, launchVars, historyVars, faultVars>>

(***************************************************************************)
(* A PUBREL takes the message out of the memory and gives it to on_message.*)
(* A client that does not know the message (it was restarted in between)   *)
(* confirms it nevertheless.                                               *)
(***************************************************************************)
RecvPubrel(m) ==
  LET p == PubrelPacket(m) IN
  /\ Reading
  /\ OldestOf(wire, p)
  /\ wire' = wire \ {p}
  /\ \/ /\ m \in stored
        /\ stored' = stored \ {m}
        /\ cur' = m /\ stage' = "act"
        /\ UNCHANGED acks
     \/ /\ m \notin stored
        /\ acks' = acks \cup {AckPacket("PUBCOMP", m)}
        /\ UNCHANGED <<stored, cur, stage>>
  /\ UNCHANGED <<brokerVars, conn, launchVars, historyVars, faultVars>>

\* act() returns, or raises an error that on_message logs and swallows.
ActEnds(m) ==
  /\ cur = m /\ stage = "act"
  /\ Outcomes[m] \cap {"done", "error"} # {}
  /\ stage' = "returned"
  /\ handled' = [handled EXCEPT ![m] = Again(@)]
  /\ UNCHANGED <<brokerVars, netVars, stored, cur, launchVars, exits, faultVars>>

\* paho acknowledges after on_message; without a connection the packet is lost.
Acknowledge(m) ==
  /\ cur = m /\ stage = "returned"
  /\ cur' = NoMsg /\ stage' = "idle"
  /\ acks' = IF conn
       THEN acks \cup {AckPacket(IF QoS = 1 THEN "PUBACK" ELSE "PUBCOMP", m)}
       ELSE acks
  /\ UNCHANGED <<brokerVars, conn, wire, stored, launchVars, historyVars, faultVars>>

\* The connection breaks; what was written to the broker may still arrive.
Disconnect ==
  /\ conn
  /\ drops < MaxDrops
  /\ drops' = drops + 1
  /\ conn' = FALSE
  /\ wire' = {}
  /\ UNCHANGED <<brokerVars, acks, clientVars, launchVars, historyVars, kills>>
-----------------------------------------------------------------------------
(***************************************************************************)
(* The process and worker_launcher.sh.                                     *)
(***************************************************************************)

\* The next value of attempts after a crash; slow: outside of the window.
AttemptsAfter(slow) == IF slow THEN 1 ELSE attempts + 1

\* The condition of the launcher's loop.
TriesAgain(n) == n <= MaxAttempts

\* The process ends with an error: its memory is gone, the launcher counts.
Die ==
  /\ conn' = FALSE
  /\ wire' = {}
  /\ stored' = {}
  /\ cur' = NoMsg /\ stage' = "idle"
  /\ \E slow \in BOOLEAN :
       /\ attempts' = AttemptsAfter(slow)
       /\ launcher' = IF TriesAgain(AttemptsAfter(slow))
                        THEN "starting" ELSE "exited"
  /\ UNCHANGED <<brokerVars, acks>>

(***************************************************************************)
(* on_message calls sys.exit(1), before act() changed anything or after it *)
(* had done its work (the upsert succeeded and what follows it failed).    *)
(***************************************************************************)
ActExits(m) ==
  /\ cur = m /\ stage = "act"
  /\ "exit" \in Outcomes[m]
  /\ exits' = [exits EXCEPT ![m] = Again(@)]
  /\ \/ UNCHANGED handled
     \/ handled' = [handled EXCEPT ![m] = Again(@)]
  /\ Die
  /\ UNCHANGED faultVars

\* The process is killed, or mqtt_client.connect() of run_loop fails.
Kill ==
  /\ launcher = "running"
  /\ kills < MaxKills
  /\ kills' = kills + 1
  /\ Die
  /\ UNCHANGED <<historyVars, drops>>

\* Next round of the launcher's loop.
Start ==
  /\ launcher = "starting"
  /\ launcher' = "running"
  /\ UNCHANGED <<brokerVars, netVars, clientVars, attempts, historyVars, faultVars>>

(***************************************************************************)
(* The launcher exits with status zero, which on-failure takes for a       *)
(* success; always and unless-stopped start the container again.           *)
(***************************************************************************)
ContainerRestart ==
  /\ launcher = "exited"
  /\ RestartPolicy \in {"always", "unless-stopped"}
  /\ launcher' = "starting"
  /\ attempts' = 1
  /\ UNCHANGED <<brokerVars, netVars, clientVars, historyVars, faultVars>>
-----------------------------------------------------------------------------
Init ==
  /\ broker = [m \in Msgs |-> "unsent"]
  /\ session = FALSE
  /\ conn = FALSE
  /\ wire = {} /\ acks = {}
  /\ stored = {} /\ cur = NoMsg /\ stage = "idle"
  /\ launcher = "starting" /\ attempts = 1
  /\ handled = [m \in Msgs |-> 0]
  /\ exits = [m \in Msgs |-> 0]
  /\ kills = 0 /\ drops = 0

BrokerStep ==
  \E m \in Msgs :
    Send(m) \/ BrokerPuback(m) \/ BrokerPubrec(m) \/ BrokerPubcomp(m)

ClientStep ==
  \/ Connect
  \/ \E m \in Msgs : RecvPublish(m) \/ RecvPubrel(m) \/ Acknowledge(m)

HandlerStep == \E m \in Msgs : ActEnds(m) \/ ActExits(m)

Next ==
  \/ \E m \in Msgs : Publish(m)
  \/ BrokerStep
  \/ ClientStep
  \/ HandlerStep
  \/ Start
  \/ ContainerRestart
  \/ Disconnect
  \/ Kill

Spec == Init /\ [][Next]_vars

(***************************************************************************)
(* The broker delivers, the client reads its socket and a handler ends     *)
(* (requests to other services time out or answer); the launcher starts    *)
(* the command again, and Docker the container if its policy says so.      *)
(* Nothing obliges anyone to publish, and faults are bounded by MaxKills   *)
(* and MaxDrops.                                                           *)
(***************************************************************************)
Fairness ==
  /\ WF_vars(BrokerStep)
  /\ WF_vars(ClientStep)
  /\ WF_vars(HandlerStep)
  /\ WF_vars(Start)
  /\ WF_vars(ContainerRestart)

FairSpec == Spec /\ Fairness
-----------------------------------------------------------------------------
(***************************************************************************)
(* Properties.                                                             *)
(***************************************************************************)

(***************************************************************************)
(* QoS 1: whatever crashes, whatever is lost on the way and even after the *)
(* launcher has given up, the broker forgets a message only after the work *)
(* on it was done (on_message returned before paho sent the PUBACK).       *)
(***************************************************************************)
NoSilentLoss == \A m \in Msgs : broker[m] = "done" => handled[m] > 0

(***************************************************************************)
(* QoS 2: the work on a message is done at most once, although the broker  *)
(* repeats PUBLISH and PUBREL after every reconnect: paho takes a message  *)
(* out of its memory before it calls on_message.                           *)
(***************************************************************************)
AtMostOnce == \A m \in Msgs : handled[m] <= 1

Lost == {m \in Msgs : broker[m] = "done" /\ handled[m] = 0}
Deaths == kills + Cardinality({m \in Msgs : exits[m] > 0})

(***************************************************************************)
(* QoS 2: a death of the worker loses the messages of its memory, and      *)
(* those are never more than the broker's window: max_inflight_messages is *)
(* what bounds the loss of one crash.                                      *)
(***************************************************************************)
LossBounded == Cardinality(Lost) <= MaxInflight * Deaths

(***************************************************************************)
(* on_message never sees a message for the first time after it saw a later *)
(* one: retransmission and restarts do not reorder the work.               *)
(***************************************************************************)
InOrder ==
  [][\A m \in Msgs : (cur' = m /\ cur # m) =>
       \/ handled[m] > 0
       \/ \A k \in Msgs : k > m => handled[k] = 0]_vars

\* A process may die in this instance of the model.
MayDie == MaxKills > 0 \/ \E m \in Msgs : "exit" \in Outcomes[m]

\* What the states the broker gives a message mean to its publisher.
StatusOf(s) ==
  CASE s = "unsent" -> "new"
    [] s = "dropped" -> "refused"
    [] s = "done" -> "gone"
    [] OTHER -> "held"

Status == [m \in Msgs |-> StatusOf(broker[m])]

Abstract ==
  INSTANCE Delivery WITH
    MayRepeat <- QoS = 1,
    MayLose <- QoS = 2 /\ MayDie,
    status <- Status,
    times <- handled

(***************************************************************************)
(* The worker and its session implement the delivery that their QoS stands *)
(* for: at least once with QoS 1, at most once with QoS 2, and exactly     *)
(* once with QoS 2 as long as the process does not die.                    *)
(***************************************************************************)
ImplementsDelivery == Abstract!Spec

(***************************************************************************)
(* Every accepted message is eventually worked on, through reconnects and  *)
(* as many crashes as the launcher bears.  (QoS 1; QoS 2 without crashes.) *)
(***************************************************************************)
AcceptedIsHandled == \A m \in Msgs : broker[m] = "queued" ~> handled[m] > 0

(***************************************************************************)
(* QoS 2: every accepted message eventually leaves the session, also the   *)
(* ones that make the worker exit: nothing blocks the messages behind it.  *)
(***************************************************************************)
AcceptedIsSettled == \A m \in Msgs : broker[m] = "queued" ~> broker[m] = "done"
=============================================================================
