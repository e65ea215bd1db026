------------------------- MODULE MqttWorker_proofs -------------------------
(***************************************************************************)
(* For every number of messages, window, queue limit, fault bound and      *)
(* behaviour of the handlers: the types of MqttWorker, no silent loss with *)
(* QoS 1, at most one run of the work on a message with QoS 2, the         *)
(* refinement of Delivery, the bound of what deaths lose with QoS 2, and   *)
(* the order of the work.                                                  *)
(***************************************************************************)
EXTENDS MqttWorker, FiniteSetTheorems, TLAPS

\* The message numbers are positive, so NoMsg is none of them.
LEMMA NoMsgIsNoMsg == NoMsg \notin Msgs
  BY WorkerAssumption DEF NoMsg, Msgs

\* The attempt the launcher starts with is one it may make.
LEMMA FirstAttempt == 1 \in 1..MaxAttempts + 1
  BY WorkerAssumption

(***************************************************************************)
(* Why attempts stays in its range: only a running process works on a      *)
(* message or is killed, and the launcher exits once attempts is used up.  *)
(***************************************************************************)
LauncherInv ==
  /\ launcher # "running" => cur = NoMsg /\ ~conn
  /\ launcher # "exited" => attempts \in 1..MaxAttempts

TypeInv == TypeOK /\ LauncherInv

\* What the death of the process leaves behind is of the right type.
LEMMA DieTypes ==
  ASSUME TypeOK, Die, attempts \in 1..MaxAttempts
  PROVE  /\ LauncherInv'
         /\ broker' \in [Msgs -> BrokerState] /\ session' \in BOOLEAN
         /\ conn' \in BOOLEAN /\ wire' \in SUBSET Packet /\ acks' \in SUBSET Ack
         /\ stored' \in SUBSET Msgs /\ cur' \in Msgs \cup {NoMsg}
         /\ stage' \in {"idle", "act", "returned"}
         /\ (stage' = "idle") <=> (cur' = NoMsg)
         /\ launcher' \in {"starting", "running", "exited"}
         /\ attempts' \in 1..MaxAttempts + 1
<1>1. UNCHANGED <<broker, session, acks>>
  BY DEF Die, brokerVars
<1>2. conn' = FALSE /\ wire' = {} /\ stored' = {} /\ cur' = NoMsg /\ stage' = "idle"
  BY DEF Die
<1>3. /\ launcher' \in {"starting", "running", "exited"}
      /\ attempts' \in 1..MaxAttempts + 1
      /\ launcher' # "exited" => attempts' \in 1..MaxAttempts
  <2>1. PICK slow \in BOOLEAN :
          /\ attempts' = AttemptsAfter(slow)
          /\ launcher' = IF TriesAgain(AttemptsAfter(slow))
                           THEN "starting" ELSE "exited"
    BY DEF Die
  <2>2. AttemptsAfter(slow) \in 1..MaxAttempts + 1
    BY WorkerAssumption DEF AttemptsAfter
  <2>3. QED
    BY <2>1, <2>2, WorkerAssumption DEF TriesAgain
<1>4. LauncherInv'
  BY <1>2, <1>3 DEF LauncherInv
<1>5. QED
  BY <1>1, <1>2, <1>3, <1>4 DEF TypeOK

(***************************************************************************)
(* The types of the state, for every value of the constants.               *)
(***************************************************************************)
LEMMA InitTypes == Init => TypeInv
<1>. USE WorkerAssumption, NoMsgIsNoMsg, FirstAttempt DEF BrokerState
<1>1. ASSUME Init
      PROVE  TypeInv
  <2>1. broker \in [Msgs -> BrokerState] /\ session \in BOOLEAN /\ conn \in BOOLEAN
    BY <1>1 DEF Init
  <2>2. wire \in SUBSET Packet /\ acks \in SUBSET Ack /\ stored \in SUBSET Msgs
    BY <1>1 DEF Init
  <2>3. /\ cur \in Msgs \cup {NoMsg} /\ stage \in {"idle", "act", "returned"}
        /\ (stage = "idle") <=> (cur = NoMsg)
        /\ launcher \in {"starting", "running", "exited"}
        /\ attempts \in 1..MaxAttempts + 1
    BY <1>1 DEF Init
  <2>4. /\ handled \in [Msgs -> 0..2] /\ exits \in [Msgs -> 0..2]
        /\ kills \in 0..MaxKills /\ drops \in 0..MaxDrops
    BY <1>1 DEF Init
  <2>5. LauncherInv
    BY <1>1 DEF Init, LauncherInv
  <2>6. QED
    BY <2>1, <2>2, <2>3, <2>4, <2>5 DEF TypeInv, TypeOK
<1>2. QED
  BY <1>1

LEMMA NextTypes == TypeInv /\ [Next]_vars => TypeInv'
<1> SUFFICES ASSUME TypeInv, [Next]_vars
             PROVE  TypeOK' /\ LauncherInv'
  BY DEF TypeInv
<1>a. TypeOK /\ LauncherInv
  BY DEF TypeInv
<1>. USE WorkerAssumption, NoMsgIsNoMsg, FirstAttempt, <1>a
     DEF TypeOK, LauncherInv, BrokerState, vars, brokerVars, netVars, clientVars,
         launchVars, historyVars, faultVars
<1>1. ASSUME NEW m \in Msgs, Publish(m)
      PROVE  TypeOK' /\ LauncherInv'
  BY <1>1 DEF Publish
<1>2. ASSUME NEW m \in Msgs, Send(m)
      PROVE  TypeOK' /\ LauncherInv'
  BY <1>2 DEF Send, PublishPacket, Packet
<1>3. ASSUME NEW m \in Msgs, BrokerPuback(m)
      PROVE  TypeOK' /\ LauncherInv'
  BY <1>3 DEF BrokerPuback
<1>4. ASSUME NEW m \in Msgs, BrokerPubrec(m)
      PROVE  TypeOK' /\ LauncherInv'
  BY <1>4 DEF BrokerPubrec, PubrelPacket, Packet
<1>5. ASSUME NEW m \in Msgs, BrokerPubcomp(m)
      PROVE  TypeOK' /\ LauncherInv'
  BY <1>5 DEF BrokerPubcomp
<1>6. CASE Connect
  <2>1. Resent \in SUBSET Packet
    BY DEF Resent, InState, PublishPacket, PubrelPacket, Packet
  <2>2. QED
    BY <1>6, <2>1 DEF Connect
<1>7. ASSUME NEW m \in Msgs, RecvPublish(m)
      PROVE  TypeOK' /\ LauncherInv'
  BY <1>7 DEF RecvPublish, Reading, AckPacket, Ack
<1>8. ASSUME NEW m \in Msgs, RecvPubrel(m)
      PROVE  TypeOK' /\ LauncherInv'
  BY <1>8 DEF RecvPubrel, Reading, AckPacket, Ack
<1>9. ASSUME NEW m \in Msgs, Acknowledge(m)
      PROVE  TypeOK' /\ LauncherInv'
  BY <1>9 DEF Acknowledge, AckPacket, Ack
<1>10. ASSUME NEW m \in Msgs, ActEnds(m)
       PROVE  TypeOK' /\ LauncherInv'
  BY <1>10 DEF ActEnds, Again
<1>11. ASSUME NEW m \in Msgs, ActExits(m)
       PROVE  TypeOK' /\ LauncherInv'
  <2>1. handled' \in [Msgs -> 0..2] /\ exits' \in [Msgs -> 0..2]
    BY <1>11 DEF ActExits, Again
  <2>2. UNCHANGED faultVars /\ Die
    BY <1>11 DEF ActExits
  <2>3. attempts \in 1..MaxAttempts
    BY <1>11 DEF ActExits
  <2>4. QED
    BY <2>1, <2>2, <2>3, DieTypes
<1>12. CASE Start
  BY <1>12 DEF Start
<1>13. CASE ContainerRestart
  BY <1>13 DEF ContainerRestart
<1>14. CASE Disconnect
  <2>1. conn' = FALSE /\ wire' \in SUBSET Packet /\ drops' \in 0..MaxDrops
    BY <1>14 DEF Disconnect
  <2>2. UNCHANGED <<brokerVars, acks, clientVars, launchVars, historyVars, kills>>
    BY <1>14 DEF Disconnect
  <2>3. QED
    BY <2>1, <2>2
<1>15. CASE Kill
  <2>1. kills' \in 0..MaxKills
    BY <1>15 DEF Kill
  <2>2. UNCHANGED <<historyVars, drops>> /\ Die
    BY <1>15 DEF Kill
  <2>3. attempts \in 1..MaxAttempts
    BY <1>15 DEF Kill
  <2>4. QED
    BY <2>1, <2>2, <2>3, DieTypes
<1>16. CASE UNCHANGED vars
  BY <1>16
<1>17. QED
  BY <1>1, <1>2, <1>3, <1>4, <1>5, <1>6, <1>7, <1>8, <1>9, <1>10, <1>11,
     <1>12, <1>13, <1>14, <1>15, <1>16
     DEF Next, BrokerStep, ClientStep, HandlerStep

LEMMA Typing == Spec => []TypeInv
  BY InitTypes, NextTypes, PTL DEF Spec

(***************************************************************************)
(* The state of the worker, the session and the launcher has its type in   *)
(* every reachable state, for every value of the constants.                *)
(***************************************************************************)
THEOREM TypeCorrect == Spec => []TypeOK
<1>1. TypeInv => TypeOK
  BY DEF TypeInv
<1>2. QED
  BY <1>1, Typing, PTL
-----------------------------------------------------------------------------
(***************************************************************************)
(* With QoS 1 there are only PUBLISH and PUBACK packets, and a PUBACK      *)
(* exists only for a message whose work was done.                          *)
(***************************************************************************)
AckedIsHandled ==
  /\ \A p \in wire : p.type = "PUBLISH"
  /\ \A p \in acks : p.type = "PUBACK" /\ handled[p.msg] > 0
  /\ \A m \in Msgs : broker[m] # "released"
  /\ stage = "returned" => handled[cur] > 0
  /\ NoSilentLoss

\* The count of a message that was handled stays positive.
LEMMA AgainGrows == \A n \in 0..2 : Again(n) \in 1..2
  BY DEF Again

LEMMA AckedIsHandledStep ==
  ASSUME QoS = 1, TypeInv, AckedIsHandled, [Next]_vars
  PROVE  AckedIsHandled'
<1>a. TypeOK
  BY DEF TypeInv
<1>. USE <1>a, NoMsgIsNoMsg
     DEF AckedIsHandled, NoSilentLoss, vars, brokerVars, netVars, clientVars,
         launchVars, historyVars, faultVars
<1>1. ASSUME NEW m \in Msgs, Publish(m)
      PROVE  AckedIsHandled'
  BY <1>1 DEF Publish, TypeOK
<1>2. ASSUME NEW m \in Msgs, Send(m)
      PROVE  AckedIsHandled'
  BY <1>2 DEF Send, PublishPacket, TypeOK
<1>3. ASSUME NEW m \in Msgs, BrokerPuback(m)
      PROVE  AckedIsHandled'
  <2>1. handled[m] > 0
    BY <1>3 DEF BrokerPuback, OldestOf, AckPacket
  <2>2. QED
    BY <1>3, <2>1 DEF BrokerPuback, TypeOK
<1>4. ASSUME NEW m \in Msgs, BrokerPubrec(m)
      PROVE  AckedIsHandled'
  BY <1>4 DEF BrokerPubrec, OldestOf, AckPacket
<1>5. ASSUME NEW m \in Msgs, BrokerPubcomp(m)
      PROVE  AckedIsHandled'
  BY <1>5 DEF BrokerPubcomp, OldestOf, AckPacket
<1>6. CASE Connect
  <2>1. \A p \in Resent : p.type = "PUBLISH"
    BY DEF Resent, InState, PublishPacket, PubrelPacket
  <2>2. QED
    BY <1>6, <2>1 DEF Connect
<1>7. ASSUME NEW m \in Msgs, RecvPublish(m)
      PROVE  AckedIsHandled'
  <2>1. wire' \in SUBSET wire /\ stage' = "act"
    BY <1>7, QoS = 1 DEF RecvPublish
  <2>2. UNCHANGED <<broker, acks, handled>>
    BY <1>7, QoS = 1 DEF RecvPublish
  <2>3. QED
    BY <2>1, <2>2
<1>8. ASSUME NEW m \in Msgs, RecvPubrel(m)
      PROVE  AckedIsHandled'
  BY <1>8 DEF RecvPubrel, OldestOf, PubrelPacket
<1>9. ASSUME NEW m \in Msgs, Acknowledge(m)
      PROVE  AckedIsHandled'
  <2>1. handled[m] > 0
    BY <1>9 DEF Acknowledge
  <2>2. \A p \in acks' : p.type = "PUBACK" /\ handled[p.msg] > 0
    BY <1>9, <2>1, QoS = 1 DEF Acknowledge, AckPacket
  <2>3. UNCHANGED <<broker, wire, handled>> /\ stage' = "idle"
    BY <1>9 DEF Acknowledge
  <2>4. QED
    BY <2>2, <2>3
<1>10. ASSUME NEW m \in Msgs,
              handled' = [handled EXCEPT ![m] = Again(@)]
       PROVE  handled'[m] > 0 /\ \A k \in Msgs : handled[k] > 0 => handled'[k] > 0
  BY <1>10, AgainGrows DEF TypeOK
<1>11. ASSUME NEW m \in Msgs, ActEnds(m)
       PROVE  AckedIsHandled'
  <2>1. handled'[m] > 0 /\ \A k \in Msgs : handled[k] > 0 => handled'[k] > 0
    BY <1>10, <1>11 DEF ActEnds, TypeOK
  <2>2. UNCHANGED <<broker, wire, acks>> /\ cur' = m
    BY <1>11 DEF ActEnds
  <2>3. \A p \in acks : p.msg \in Msgs
    BY DEF TypeOK, Ack
  <2>4. QED
    BY <2>1, <2>2, <2>3
<1>12. ASSUME NEW m \in Msgs, ActExits(m)
       PROVE  AckedIsHandled'
  <2>1. \A k \in Msgs : handled[k] > 0 => handled'[k] > 0
    BY <1>10, <1>12 DEF ActExits, TypeOK
  <2>2. UNCHANGED <<broker, acks>> /\ wire' = {} /\ stage' = "idle"
    BY <1>12 DEF ActExits, Die
  <2>3. \A p \in acks : p.msg \in Msgs
    BY DEF TypeOK, Ack
  <2>4. QED
    BY <2>1, <2>2, <2>3
<1>13. CASE Start \/ ContainerRestart
  BY <1>13 DEF Start, ContainerRestart
<1>14. CASE Disconnect
  BY <1>14 DEF Disconnect
<1>15. CASE Kill
  BY <1>15 DEF Kill, Die
<1>16. CASE UNCHANGED vars
  BY <1>16
<1>17. QED
  BY <1>1, <1>2, <1>3, <1>4, <1>5, <1>6, <1>7, <1>8, <1>9, <1>11, <1>12,
     <1>13, <1>14, <1>15, <1>16
     DEF Next, BrokerStep, ClientStep, HandlerStep

(***************************************************************************)
(* With QoS 1 the broker forgets no message before the work on it was done.*)
(***************************************************************************)
THEOREM QoS1LosesNothing ==
  ASSUME QoS = 1
  PROVE  Spec => []NoSilentLoss
<1>1. Init => AckedIsHandled
  BY DEF Init, AckedIsHandled, NoSilentLoss
<1>2. TypeInv /\ AckedIsHandled /\ [Next]_vars => AckedIsHandled'
  BY AckedIsHandledStep
<1>3. AckedIsHandled => NoSilentLoss
  BY DEF AckedIsHandled
<1>4. QED
  BY <1>1, <1>2, <1>3, Typing, PTL DEF Spec
-----------------------------------------------------------------------------
(***************************************************************************)
(* With QoS 2 a message has left the client's memory, and is beyond the    *)
(* state in which the broker would send it again, before its work is done. *)
(***************************************************************************)
Beyond == {"released", "done"}

OnceInv ==
  /\ AtMostOnce
  /\ \A m \in Msgs : (handled[m] > 0 \/ cur = m) => broker[m] \in Beyond
  /\ \A m \in stored : handled[m] = 0 /\ cur # m
  /\ stage = "act" => handled[cur] = 0
  /\ \A p \in wire : IF p.type = "PUBLISH" THEN broker[p.msg] = "sent"
                                           ELSE broker[p.msg] \in Beyond
  /\ \A p \in acks : p.type # "PUBACK"
  /\ \A p \in acks : p.type = "PUBREC" =>
       broker[p.msg] \in Beyond \cup {"sent"} /\ PublishPacket(p.msg) \notin wire

LEMMA OnceInvStep ==
  ASSUME QoS = 2, TypeInv, OnceInv, [Next]_vars
  PROVE  OnceInv'
<1>a. TypeOK
  BY DEF TypeInv
<1>. USE <1>a, NoMsgIsNoMsg
     DEF OnceInv, AtMostOnce, Beyond, vars, brokerVars, netVars, clientVars,
         launchVars, historyVars, faultVars
<1>b. /\ \A p \in wire : p \in Packet /\ p.msg \in Msgs
      /\ \A p \in acks : p \in Ack /\ p.msg \in Msgs
  BY DEF TypeOK, Packet, Ack
<1>1. ASSUME NEW m \in Msgs, Publish(m)
      PROVE  OnceInv'
  BY <1>1, <1>b DEF Publish, TypeOK, PublishPacket
<1>2. ASSUME NEW m \in Msgs, Send(m)
      PROVE  OnceInv'
  <2>1. broker[m] = "queued" /\ broker' = [broker EXCEPT ![m] = "sent"]
    BY <1>2 DEF Send, InState
  <2>2. wire' = wire \cup {PublishPacket(m)}
    BY <1>2 DEF Send
  <2>3. UNCHANGED <<acks, stored, cur, stage, handled>>
    BY <1>2 DEF Send
  <2>4. \A p \in wire' : IF p.type = "PUBLISH" THEN broker'[p.msg] = "sent"
                                               ELSE broker'[p.msg] \in Beyond
    BY <2>1, <2>2, <1>b DEF PublishPacket, TypeOK
  <2>5. \A p \in acks : p.type = "PUBREC" =>
          broker'[p.msg] \in Beyond \cup {"sent"} /\ PublishPacket(p.msg) \notin wire'
    BY <2>1, <2>2, <1>b DEF PublishPacket, TypeOK
  <2>6. QED
    BY <2>1, <2>3, <2>4, <2>5 DEF TypeOK
<1>3. ASSUME NEW m \in Msgs, BrokerPuback(m)
      PROVE  OnceInv'
  BY <1>3 DEF BrokerPuback, OldestOf, AckPacket
<1>4. ASSUME NEW m \in Msgs, BrokerPubrec(m)
      PROVE  OnceInv'
  <2>. DEFINE p == AckPacket("PUBREC", m)
  <2>1. p \in acks /\ acks' = acks \ {p}
    BY <1>4 DEF BrokerPubrec, OldestOf
  <2>2. broker[m] \in Beyond \cup {"sent"} /\ PublishPacket(m) \notin wire
    BY <2>1 DEF AckPacket
  <2>3. broker' = [broker EXCEPT ![m] = IF @ = "sent" THEN "released" ELSE @]
    BY <1>4 DEF BrokerPubrec
  <2>4. broker'[m] \in Beyond /\ \A k \in Msgs \ {m} : broker'[k] = broker[k]
    BY <2>2, <2>3 DEF TypeOK
  <2>5. wire' \in SUBSET (wire \cup {PubrelPacket(m)})
    BY <1>4 DEF BrokerPubrec
  <2>6. UNCHANGED <<stored, cur, stage, handled>>
    BY <1>4 DEF BrokerPubrec
  <2>7. \A q \in wire : q.msg = m => q.type # "PUBLISH"
    BY <2>2, <1>b DEF PublishPacket, Packet
  <2>8. \A q \in wire' : IF q.type = "PUBLISH" THEN broker'[q.msg] = "sent"
                                               ELSE broker'[q.msg] \in Beyond
    BY <2>4, <2>5, <2>7, <1>b DEF PubrelPacket
  <2>9. \A q \in acks' : q.type = "PUBREC" =>
          broker'[q.msg] \in Beyond \cup {"sent"} /\ PublishPacket(q.msg) \notin wire'
    BY <2>1, <2>4, <2>5, <1>b DEF PubrelPacket, PublishPacket
  <2>10. QED
    BY <2>1, <2>4, <2>6, <2>8, <2>9
<1>5. ASSUME NEW m \in Msgs, BrokerPubcomp(m)
      PROVE  OnceInv'
  <2>1. broker' = [broker EXCEPT ![m] = IF @ = "released" THEN "done" ELSE @]
    BY <1>5 DEF BrokerPubcomp
  <2>2. \A k \in Msgs : /\ broker'[k] = "sent" <=> broker[k] = "sent"
                        /\ broker'[k] \in Beyond <=> broker[k] \in Beyond
    BY <2>1 DEF TypeOK
  <2>3. acks' \in SUBSET acks /\ UNCHANGED <<wire, stored, cur, stage, handled>>
    BY <1>5 DEF BrokerPubcomp
  <2>4. QED
    BY <2>2, <2>3, <1>b
<1>6. CASE Connect
  <2>1. \A p \in Resent : IF p.type = "PUBLISH" THEN broker[p.msg] = "sent"
                                                ELSE broker[p.msg] \in Beyond
    BY DEF Resent, InState, PublishPacket, PubrelPacket
  <2>2. wire' = Resent /\ acks' = {} /\ UNCHANGED <<broker, stored, cur, stage, handled>>
    BY <1>6 DEF Connect
  <2>3. QED
    BY <2>1, <2>2
<1>7. ASSUME NEW m \in Msgs, RecvPublish(m)
      PROVE  OnceInv'
  <2>1. PublishPacket(m) \in wire /\ wire' = wire \ {PublishPacket(m)}
    BY <1>7 DEF RecvPublish, OldestOf
  <2>2. broker[m] = "sent"
    BY <2>1 DEF PublishPacket
  <2>3. stored' = stored \cup {m} /\ acks' = acks \cup {AckPacket("PUBREC", m)}
    BY <1>7, QoS = 2 DEF RecvPublish
  <2>4. UNCHANGED <<broker, cur, stage, handled>>
    BY <1>7, QoS = 2 DEF RecvPublish
  <2>5. handled[m] = 0 /\ cur # m
    BY <2>2 DEF TypeOK
  <2>6. \A p \in acks' : p.type = "PUBREC" =>
          broker[p.msg] \in Beyond \cup {"sent"} /\ PublishPacket(p.msg) \notin wire'
    BY <2>1, <2>2, <2>3 DEF AckPacket
  <2>7. \A p \in acks' : p.type # "PUBACK"
    BY <2>3 DEF AckPacket
  <2>8. QED
    BY <2>1, <2>3, <2>4, <2>5, <2>6, <2>7
<1>8. ASSUME NEW m \in Msgs, RecvPubrel(m)
      PROVE  OnceInv'
  <2>1. PubrelPacket(m) \in wire /\ wire' \in SUBSET wire
    BY <1>8 DEF RecvPubrel, OldestOf
  <2>2. broker[m] \in Beyond
    BY <2>1 DEF PubrelPacket
  <2>3. UNCHANGED <<broker, handled>>
    BY <1>8 DEF RecvPubrel
  <2>4. CASE m \in stored
    <3>1. stored' = stored \ {m} /\ cur' = m /\ stage' = "act" /\ UNCHANGED acks
      BY <1>8, <2>4 DEF RecvPubrel
    <3>2. handled[m] = 0
      BY <2>4
    <3>3. QED
      BY <2>1, <2>2, <2>3, <3>1, <3>2
  <2>5. CASE m \notin stored
    <3>1. /\ acks' = acks \cup {AckPacket("PUBCOMP", m)}
          /\ UNCHANGED <<stored, cur, stage>>
      BY <1>8, <2>5 DEF RecvPubrel
    <3>2. QED
      BY <2>1, <2>3, <3>1 DEF AckPacket
  <2>6. QED
    BY <2>4, <2>5
<1>9. ASSUME NEW m \in Msgs, Acknowledge(m)
      PROVE  OnceInv'
  <2>1. cur' = NoMsg /\ stage' = "idle" /\ UNCHANGED <<broker, wire, stored, handled>>
    BY <1>9 DEF Acknowledge
  <2>2. acks' \in SUBSET (acks \cup {AckPacket("PUBCOMP", m)})
    BY <1>9, QoS = 2 DEF Acknowledge
  <2>3. \A p \in acks' : p \in acks \/ p.type = "PUBCOMP"
    BY <2>2 DEF AckPacket
  <2>4. \A k \in Msgs : cur' # k
    BY <2>1
  <2>5. \A k \in stored : k \in Msgs
    BY DEF TypeOK
  <2>6. QED
    BY <2>1, <2>3, <2>4, <2>5
<1>10. ASSUME NEW m \in Msgs, cur = m, stage = "act",
              handled' = [handled EXCEPT ![m] = Again(@)]
       PROVE  handled'[m] = 1 /\ \A k \in Msgs \ {m} : handled'[k] = handled[k]
  BY <1>10 DEF TypeOK, Again
<1>11. ASSUME NEW m \in Msgs, ActEnds(m)
       PROVE  OnceInv'
  <2>1. handled'[m] = 1 /\ \A k \in Msgs \ {m} : handled'[k] = handled[k]
    BY <1>10, <1>11 DEF ActEnds
  <2>2. cur = m /\ stage' = "returned" /\ UNCHANGED <<broker, wire, acks, stored, cur>>
    BY <1>11 DEF ActEnds
  <2>3. \A k \in stored : k \in Msgs
    BY DEF TypeOK
  <2>4. QED
    BY <2>1, <2>2, <2>3
<1>12. ASSUME NEW m \in Msgs, ActExits(m)
       PROVE  OnceInv'
  <2>1. \/ UNCHANGED handled
        \/ handled'[m] = 1 /\ \A k \in Msgs \ {m} : handled'[k] = handled[k]
    BY <1>10, <1>12 DEF ActExits
  <2>2. cur = m /\ broker[m] \in Beyond
    BY <1>12 DEF ActExits
  <2>3. /\ wire' = {} /\ stored' = {} /\ cur' = NoMsg /\ stage' = "idle"
        /\ UNCHANGED <<broker, acks>>
    BY <1>12 DEF ActExits, Die
  <2>4. QED
    BY <2>1, <2>2, <2>3
<1>13. CASE Start \/ ContainerRestart
  BY <1>13 DEF Start, ContainerRestart
<1>14. CASE Disconnect
  BY <1>14 DEF Disconnect
<1>15. CASE Kill
  <2>1. /\ wire' = {} /\ stored' = {} /\ cur' = NoMsg /\ stage' = "idle"
        /\ UNCHANGED <<broker, acks, handled>>
    BY <1>15 DEF Kill, Die
  <2>2. QED
    BY <2>1
<1>16. CASE UNCHANGED vars
  BY <1>16
<1>17. QED
  BY <1>1, <1>2, <1>3, <1>4, <1>5, <1>6, <1>7, <1>8, <1>9, <1>11, <1>12,
     <1>13, <1>14, <1>15, <1>16
     DEF Next, BrokerStep, ClientStep, HandlerStep

(***************************************************************************)
(* With QoS 2 the work on a message is done at most once, whatever is lost *)
(* on the way and however often the worker is restarted.                   *)
(***************************************************************************)
THEOREM QoS2RepeatsNothing ==
  ASSUME QoS = 2
  PROVE  Spec => []AtMostOnce
<1>1. Init => OnceInv
  BY NoMsgIsNoMsg DEF Init, OnceInv, AtMostOnce
<1>2. TypeInv /\ OnceInv /\ [Next]_vars => OnceInv'
  BY OnceInvStep
<1>3. OnceInv => AtMostOnce
  BY DEF OnceInv
<1>4. QED
  BY <1>1, <1>2, <1>3, Typing, PTL DEF Spec
-----------------------------------------------------------------------------
(***************************************************************************)
(* The refinement.  Most steps change neither what the publisher is told   *)
(* of a message nor how often it was handled; two lemmas say which do.     *)
(***************************************************************************)
LEMMA StatusChanges ==
  ASSUME TypeOK, NEW m \in Msgs, NEW s \in BrokerState,
         broker' = [broker EXCEPT ![m] = s]
  PROVE  Status' = [Status EXCEPT ![m] = StatusOf(s)]
BY DEF TypeOK, Status

\* Handling a message that the broker still holds is a step of the channel.
LEMMA HandlingHandles ==
  ASSUME TypeOK, NEW m \in Msgs, UNCHANGED broker,
         broker[m] \in {"sent", "released"},
         QoS = 1 \/ handled[m] = 0,
         handled' = [handled EXCEPT ![m] = Again(@)]
  PROVE  Abstract!Handle(m)
<1>1. Status[m] = "held" /\ UNCHANGED Status
  BY DEF Status, StatusOf
<1>2. QED
  BY <1>1 DEF Abstract!Handle, Abstract!Again, Again

\* Forgetting a message that was handled, or that may be lost.
LEMMA ForgettingForgets ==
  ASSUME TypeOK, NEW m \in Msgs, UNCHANGED handled,
         broker[m] \in {"sent", "released"},
         (QoS = 2 /\ MayDie) \/ handled[m] > 0,
         broker' = [broker EXCEPT ![m] = "done"]
  PROVE  Abstract!Forget(m)
<1>1. Status' = [Status EXCEPT ![m] = StatusOf("done")]
  BY StatusChanges DEF BrokerState
<1>2. Status[m] = "held" /\ StatusOf("done") = "gone"
  BY DEF Status, StatusOf
<1>3. QED
  BY <1>1, <1>2 DEF Abstract!Forget

\* A publication is accepted or refused, whatever the QoS.
LEMMA PublishingOffers ==
  ASSUME TypeOK, NEW m \in Msgs, Publish(m)
  PROVE  Abstract!Accept(m) \/ Abstract!Refuse(m)
<1>1. broker[m] = "unsent" /\ UNCHANGED handled
  BY DEF Publish, historyVars
<1>2. Status[m] = "new"
  BY <1>1 DEF Status, StatusOf
<1>3. \/ broker' = [broker EXCEPT ![m] = "queued"]
      \/ broker' = [broker EXCEPT ![m] = "dropped"]
  BY DEF Publish
<1>4. CASE broker' = [broker EXCEPT ![m] = "queued"]
  <2>1. Status' = [Status EXCEPT ![m] = StatusOf("queued")]
    BY <1>4, StatusChanges DEF BrokerState
  <2>2. StatusOf("queued") = "held"
    BY DEF StatusOf
  <2>3. QED
    BY <1>1, <1>2, <2>1, <2>2 DEF Abstract!Accept
<1>5. CASE broker' = [broker EXCEPT ![m] = "dropped"]
  <2>1. Status' = [Status EXCEPT ![m] = StatusOf("dropped")]
    BY <1>5, StatusChanges DEF BrokerState
  <2>2. StatusOf("dropped") = "refused"
    BY DEF StatusOf
  <2>3. QED
    BY <1>1, <1>2, <2>1, <2>2 DEF Abstract!Refuse
<1>6. QED
  BY <1>3, <1>4, <1>5

\* Steps between the states of the broker in which a message is held.
HeldState == {"queued", "sent", "released"}

LEMMA HoldingStutters ==
  ASSUME TypeOK, UNCHANGED handled, NEW m \in Msgs, NEW s \in HeldState,
         broker[m] \in HeldState, broker' = [broker EXCEPT ![m] = s]
  PROVE  UNCHANGED Abstract!vars
<1>a. s \in BrokerState
  BY DEF BrokerState, HeldState
<1>1. Status' = [Status EXCEPT ![m] = StatusOf(s)]
  BY <1>a, StatusChanges
<1>2. Status[m] = "held" /\ StatusOf(s) = "held"
  BY DEF Status, StatusOf, HeldState
<1>3. Status' = Status
  BY <1>1, <1>2 DEF Status
<1>4. QED
  BY <1>3 DEF Abstract!vars

\* Steps that leave the broker and the history alone.
LEMMA NothingStutters ==
  ASSUME UNCHANGED <<broker, handled>>
  PROVE  UNCHANGED Abstract!vars
BY DEF Abstract!vars, Status

(***************************************************************************)
(* With QoS 1 a message that is under way, or in work, was sent and is not *)
(* acknowledged: the broker cannot forget it before on_message returns.    *)
(***************************************************************************)
Unacked(m) == broker[m] = "sent" /\ AckPacket("PUBACK", m) \notin acks

HeldInv ==
  /\ \A p \in wire : Unacked(p.msg)
  /\ cur # NoMsg => Unacked(cur) /\ PublishPacket(cur) \notin wire
  /\ \A p \in acks : broker[p.msg] \in {"sent", "done"}

LEMMA HeldInvStep ==
  ASSUME QoS = 1, TypeInv, AckedIsHandled, HeldInv, [Next]_vars
  PROVE  HeldInv'
<1>a. /\ \A p \in wire : p \in Packet /\ p.msg \in Msgs /\ p.type = "PUBLISH"
      /\ \A p \in acks : p \in Ack /\ p.msg \in Msgs /\ p.type = "PUBACK"
      /\ broker \in [Msgs -> BrokerState] /\ cur \in Msgs \cup {NoMsg}
      /\ \A m \in Msgs : broker[m] # "released"
  BY DEF TypeInv, TypeOK, Packet, Ack, AckedIsHandled
<1>b. \A p \in wire : p = PublishPacket(p.msg)
  BY <1>a DEF Packet, PublishPacket
<1>. USE NoMsgIsNoMsg, <1>a, <1>b
     DEF HeldInv, Unacked, vars, brokerVars, netVars, clientVars, launchVars,
         historyVars, faultVars
<1>1. ASSUME NEW m \in Msgs, Publish(m)
      PROVE  HeldInv'
  <2>1. broker[m] = "unsent" /\ UNCHANGED <<wire, acks, cur>>
    BY <1>1 DEF Publish
  <2>2. \A k \in Msgs \ {m} : broker'[k] = broker[k]
    BY <1>1 DEF Publish
  <2>3. QED
    BY <2>1, <2>2
<1>2. ASSUME NEW m \in Msgs, Send(m)
      PROVE  HeldInv'
  <2>1. broker[m] = "queued" /\ wire' = wire \cup {PublishPacket(m)}
    BY <1>2 DEF Send, InState
  <2>2. broker'[m] = "sent" /\ \A k \in Msgs \ {m} : broker'[k] = broker[k]
    BY <1>2 DEF Send
  <2>3. UNCHANGED <<acks, cur>>
    BY <1>2 DEF Send
  <2>4. PublishPacket(m).msg = m /\ \A k \in Msgs : PublishPacket(k) = PublishPacket(m) => k = m
    BY DEF PublishPacket
  <2>5. AckPacket("PUBACK", m) \notin acks
    BY <2>1 DEF AckPacket
  <2>6. cur # m
    BY <2>1
  <2>7. QED
    BY <2>1, <2>2, <2>3, <2>4, <2>5, <2>6
<1>3. ASSUME NEW m \in Msgs, BrokerPuback(m)
      PROVE  HeldInv'
  <2>1. AckPacket("PUBACK", m) \in acks /\ acks' \in SUBSET acks
    BY <1>3 DEF BrokerPuback, OldestOf
  <2>2. broker[m] \in {"sent", "done"} /\ broker'[m] = "done"
    BY <1>3, <2>1 DEF BrokerPuback, AckPacket
  <2>3. \A k \in Msgs \ {m} : broker'[k] = broker[k]
    BY <1>3 DEF BrokerPuback
  <2>4. UNCHANGED <<wire, cur>>
    BY <1>3 DEF BrokerPuback
  <2>5. cur # m /\ \A p \in wire : p.msg # m
    BY <2>1
  <2>6. QED
    BY <2>1, <2>2, <2>3, <2>4, <2>5
<1>4. ASSUME NEW m \in Msgs, BrokerPubrec(m) \/ BrokerPubcomp(m)
      PROVE  HeldInv'
  BY <1>4 DEF BrokerPubrec, BrokerPubcomp, OldestOf, AckPacket
<1>5. CASE Connect
  <2>1. wire' = Resent /\ acks' = {} /\ cur = NoMsg /\ UNCHANGED <<broker, cur>>
    BY <1>5 DEF Connect
  <2>2. \A p \in Resent : broker[p.msg] = "sent"
    BY DEF Resent, InState, PublishPacket, PubrelPacket
  <2>3. QED
    BY <2>1, <2>2
<1>6. ASSUME NEW m \in Msgs, RecvPublish(m)
      PROVE  HeldInv'
  <2>1. PublishPacket(m) \in wire /\ wire' = wire \ {PublishPacket(m)} /\ cur' = m
    BY <1>6, QoS = 1 DEF RecvPublish, OldestOf
  <2>2. UNCHANGED <<broker, acks>>
    BY <1>6, QoS = 1 DEF RecvPublish
  <2>3. Unacked(m)
    BY <2>1 DEF PublishPacket
  <2>4. QED
    BY <2>1, <2>2, <2>3
<1>7. ASSUME NEW m \in Msgs, RecvPubrel(m)
      PROVE  HeldInv'
  BY <1>7 DEF RecvPubrel, OldestOf, PubrelPacket
<1>8. ASSUME NEW m \in Msgs, Acknowledge(m)
      PROVE  HeldInv'
  <2>1. cur = m /\ cur' = NoMsg /\ UNCHANGED <<broker, wire>>
    BY <1>8 DEF Acknowledge
  <2>2. acks' \in SUBSET (acks \cup {AckPacket("PUBACK", m)})
    BY <1>8, QoS = 1 DEF Acknowledge
  <2>3. broker[m] = "sent" /\ \A p \in wire : p.msg # m
    BY <2>1
  <2>4. \A k \in Msgs : AckPacket("PUBACK", k) = AckPacket("PUBACK", m) => k = m
    BY DEF AckPacket
  <2>5. AckPacket("PUBACK", m).msg = m
    BY DEF AckPacket
  <2>6. QED
    BY <2>1, <2>2, <2>3, <2>4, <2>5
<1>9. ASSUME NEW m \in Msgs, ActEnds(m)
      PROVE  HeldInv'
  BY <1>9 DEF ActEnds
<1>10. ASSUME NEW m \in Msgs, ActExits(m)
       PROVE  HeldInv'
  BY <1>10 DEF ActExits, Die
<1>11. CASE Start \/ ContainerRestart \/ Disconnect \/ Kill
  BY <1>11 DEF Start, ContainerRestart, Disconnect, Kill, Die
<1>12. CASE UNCHANGED vars
  BY <1>12
<1>13. QED
  BY <1>1, <1>2, <1>3, <1>4, <1>5, <1>6, <1>7, <1>8, <1>9, <1>10, <1>11, <1>12
     DEF Next, BrokerStep, ClientStep, HandlerStep

\* With QoS 1 every step of the worker is a step of the channel or a stutter.
LEMMA QoS1Simulates ==
  ASSUME QoS = 1, TypeInv, AckedIsHandled, HeldInv, [Next]_vars
  PROVE  [Abstract!Next]_(Abstract!vars)
<1>a. TypeOK
  BY DEF TypeInv
<1>. USE <1>a, NoMsgIsNoMsg DEF vars, brokerVars, historyVars
<1>1. ASSUME NEW m \in Msgs, Publish(m)
      PROVE  Abstract!Next
  BY <1>1, PublishingOffers DEF Abstract!Next
<1>2. ASSUME NEW m \in Msgs, Send(m)
      PROVE  UNCHANGED Abstract!vars
  <2>1. broker[m] = "queued" /\ broker' = [broker EXCEPT ![m] = "sent"] /\ UNCHANGED handled
    BY <1>2 DEF Send, InState
  <2>2. QED
    BY <2>1, HoldingStutters DEF HeldState
<1>3. ASSUME NEW m \in Msgs, BrokerPuback(m)
      PROVE  Abstract!Next \/ UNCHANGED Abstract!vars
  <2>1. AckPacket("PUBACK", m) \in acks /\ UNCHANGED handled
    BY <1>3 DEF BrokerPuback, OldestOf
  <2>2. handled[m] > 0 /\ broker[m] \in {"sent", "done"}
    BY <2>1 DEF AckedIsHandled, HeldInv, AckPacket
  <2>3. CASE broker[m] = "sent"
    <3>1. broker' = [broker EXCEPT ![m] = "done"]
      BY <1>3, <2>3 DEF BrokerPuback, TypeOK
    <3>2. Abstract!Forget(m)
      BY <2>1, <2>2, <2>3, <3>1, ForgettingForgets
    <3>3. QED
      BY <3>2 DEF Abstract!Next
  <2>4. CASE broker[m] = "done"
    <3>1. UNCHANGED broker
      BY <1>3, <2>4 DEF BrokerPuback, TypeOK
    <3>2. QED
      BY <2>1, <3>1, NothingStutters
  <2>5. QED
    BY <2>2, <2>3, <2>4
<1>4. ASSUME NEW m \in Msgs, BrokerPubrec(m) \/ BrokerPubcomp(m)
      PROVE  FALSE
  BY <1>4 DEF BrokerPubrec, BrokerPubcomp, OldestOf, AckPacket, AckedIsHandled
<1>5. ASSUME NEW m \in Msgs, cur = m
      PROVE  broker[m] = "sent"
  BY <1>5 DEF HeldInv, Unacked
<1>6. ASSUME NEW m \in Msgs, ActEnds(m)
      PROVE  Abstract!Next
  <2>1. cur = m /\ UNCHANGED broker /\ handled' = [handled EXCEPT ![m] = Again(@)]
    BY <1>6 DEF ActEnds
  <2>2. Abstract!Handle(m)
    BY <1>5, <2>1, HandlingHandles
  <2>3. QED
    BY <2>2 DEF Abstract!Next
<1>7. ASSUME NEW m \in Msgs, ActExits(m)
      PROVE  Abstract!Next \/ UNCHANGED Abstract!vars
  <2>1. cur = m /\ UNCHANGED broker
    BY <1>7 DEF ActExits, Die
  <2>2. CASE UNCHANGED handled
    BY <2>1, <2>2, NothingStutters
  <2>3. CASE handled' = [handled EXCEPT ![m] = Again(@)]
    <3>1. Abstract!Handle(m)
      BY <1>5, <2>1, <2>3, HandlingHandles
    <3>2. QED
      BY <3>1 DEF Abstract!Next
  <2>4. QED
    BY <1>7, <2>2, <2>3 DEF ActExits
<1>8. ASSUME \/ ClientStep
             \/ Start \/ ContainerRestart \/ Disconnect \/ Kill
             \/ UNCHANGED vars
      PROVE  UNCHANGED Abstract!vars
  <2>1. UNCHANGED <<broker, handled>>
    BY <1>8 DEF ClientStep, Connect, RecvPublish, RecvPubrel, Acknowledge, Start,
       ContainerRestart, Disconnect, Kill, Die
  <2>2. QED
    BY <2>1, NothingStutters
<1>9. QED
  BY <1>1, <1>2, <1>3, <1>4, <1>6, <1>7, <1>8
     DEF Next, BrokerStep, HandlerStep

\* The initial state of the worker is that of the channel.
LEMMA InitSimulates == Init => Abstract!Init
  BY DEF Init, Abstract!Init, Status, StatusOf

(***************************************************************************)
(* With QoS 1 the worker and its session are a channel that delivers at    *)
(* least once.                                                             *)
(***************************************************************************)
THEOREM QoS1IsAtLeastOnce ==
  ASSUME QoS = 1
  PROVE  Spec => ImplementsDelivery
<1>1. Init => AckedIsHandled /\ HeldInv
  BY DEF Init, AckedIsHandled, NoSilentLoss, HeldInv
<1>2. TypeInv /\ AckedIsHandled /\ HeldInv /\ [Next]_vars => AckedIsHandled' /\ HeldInv'
  BY AckedIsHandledStep, HeldInvStep
<1>3. TypeInv /\ AckedIsHandled /\ HeldInv /\ [Next]_vars => [Abstract!Next]_(Abstract!vars)
  BY QoS1Simulates
<1>4. QED
  BY <1>1, <1>2, <1>3, Typing, InitSimulates, PTL
     DEF Spec, ImplementsDelivery, Abstract!Spec
-----------------------------------------------------------------------------
(***************************************************************************)
(* With QoS 2 the broker cannot forget a message that the client has in    *)
(* its memory or works on: a PUBCOMP is sent for others only.              *)
(***************************************************************************)
ReleasedInv ==
  /\ \A m \in stored :
       broker[m] \in {"sent", "released"} /\ AckPacket("PUBCOMP", m) \notin acks
  /\ \A p \in acks : p.type = "PUBCOMP" => broker[p.msg] \in Beyond
  /\ stage = "act" => broker[cur] = "released" /\ AckPacket("PUBCOMP", cur) \notin acks

LEMMA ReleasedInvStep ==
  ASSUME QoS = 2, TypeInv, OnceInv, ReleasedInv, [Next]_vars
  PROVE  ReleasedInv'
<1>a. /\ \A p \in wire : p \in Packet /\ p.msg \in Msgs
      /\ \A p \in acks : p \in Ack /\ p.msg \in Msgs /\ p.type # "PUBACK"
      /\ \A m \in stored : m \in Msgs
      /\ broker \in [Msgs -> BrokerState] /\ cur \in Msgs \cup {NoMsg}
      /\ (stage = "idle") <=> (cur = NoMsg)
  BY DEF TypeInv, TypeOK, Packet, Ack, OnceInv
<1>. USE NoMsgIsNoMsg, <1>a
     DEF ReleasedInv, Beyond, vars, brokerVars, netVars, clientVars, launchVars,
         historyVars, faultVars
<1>1. ASSUME NEW m \in Msgs, Publish(m) \/ Send(m)
      PROVE  ReleasedInv'
  <2>1. broker[m] \in {"unsent", "queued"} /\ UNCHANGED <<acks, stored, cur, stage>>
    BY <1>1 DEF Publish, Send, InState
  <2>2. \A k \in Msgs \ {m} : broker'[k] = broker[k]
    BY <1>1 DEF Publish, Send
  <2>3. QED
    BY <2>1, <2>2
<1>2. ASSUME NEW m \in Msgs, BrokerPuback(m)
      PROVE  ReleasedInv'
  BY <1>2 DEF BrokerPuback, OldestOf, AckPacket
<1>3. ASSUME NEW m \in Msgs, BrokerPubrec(m)
      PROVE  ReleasedInv'
  <2>1. acks' \in SUBSET acks /\ UNCHANGED <<stored, cur, stage>>
    BY <1>3 DEF BrokerPubrec
  <2>2. broker' = [broker EXCEPT ![m] = IF @ = "sent" THEN "released" ELSE @]
    BY <1>3 DEF BrokerPubrec
  <2>3. QED
    BY <2>1, <2>2
<1>4. ASSUME NEW m \in Msgs, BrokerPubcomp(m)
      PROVE  ReleasedInv'
  <2>1. AckPacket("PUBCOMP", m) \in acks /\ acks' \in SUBSET acks
    BY <1>4 DEF BrokerPubcomp, OldestOf
  <2>2. broker' = [broker EXCEPT ![m] = IF @ = "released" THEN "done" ELSE @]
    BY <1>4 DEF BrokerPubcomp
  <2>3. m \notin stored /\ ~(stage = "act" /\ cur = m)
    BY <2>1
  <2>4. UNCHANGED <<stored, cur, stage>>
    BY <1>4 DEF BrokerPubcomp
  <2>5. QED
    BY <2>1, <2>2, <2>3, <2>4
<1>5. CASE Connect
  BY <1>5 DEF Connect
<1>6. ASSUME NEW m \in Msgs, RecvPublish(m)
      PROVE  ReleasedInv'
  <2>1. stored' = stored \cup {m} /\ acks' = acks \cup {AckPacket("PUBREC", m)}
    BY <1>6, QoS = 2 DEF RecvPublish
  <2>2. UNCHANGED <<broker, cur, stage>>
    BY <1>6, QoS = 2 DEF RecvPublish
  <2>3. broker[m] = "sent"
    BY <1>6 DEF RecvPublish, OldestOf, PublishPacket, OnceInv
  <2>4. AckPacket("PUBCOMP", m) \notin acks
    BY <2>3 DEF AckPacket
  <2>5. \A k \in Msgs : AckPacket("PUBCOMP", k) # AckPacket("PUBREC", m)
    BY DEF AckPacket
  <2>6. AckPacket("PUBREC", m).type = "PUBREC"
    BY DEF AckPacket
  <2>7. QED
    BY <2>1, <2>2, <2>3, <2>4, <2>5, <2>6
<1>7. ASSUME NEW m \in Msgs, RecvPubrel(m)
      PROVE  ReleasedInv'
  <2>1. cur = NoMsg /\ broker[m] \in Beyond /\ UNCHANGED broker
    BY <1>7 DEF RecvPubrel, Reading, OldestOf, PubrelPacket, OnceInv
  <2>2. CASE m \in stored
    <3>1. stored' = stored \ {m} /\ cur' = m /\ stage' = "act" /\ UNCHANGED acks
      BY <1>7, <2>2 DEF RecvPubrel
    <3>2. broker[m] = "released" /\ AckPacket("PUBCOMP", m) \notin acks
      BY <2>1, <2>2
    <3>3. QED
      BY <2>1, <3>1, <3>2
  <2>3. CASE m \notin stored
    <3>1. /\ acks' = acks \cup {AckPacket("PUBCOMP", m)}
          /\ UNCHANGED <<stored, cur, stage>>
      BY <1>7, <2>3 DEF RecvPubrel
    <3>2. \A k \in Msgs : AckPacket("PUBCOMP", k) = AckPacket("PUBCOMP", m) => k = m
      BY DEF AckPacket
    <3>3. AckPacket("PUBCOMP", m).msg = m
      BY DEF AckPacket
    <3>4. stage = "idle"
      BY <2>1
    <3>5. QED
      BY <2>1, <2>3, <3>1, <3>2, <3>3, <3>4
  <2>4. QED
    BY <2>2, <2>3
<1>8. ASSUME NEW m \in Msgs, Acknowledge(m)
      PROVE  ReleasedInv'
  <2>1. cur = m /\ stage' = "idle" /\ UNCHANGED <<broker, stored>>
    BY <1>8 DEF Acknowledge
  <2>2. acks' \in SUBSET (acks \cup {AckPacket("PUBCOMP", m)})
    BY <1>8, QoS = 2 DEF Acknowledge
  <2>3. broker[m] \in Beyond /\ m \notin stored
    BY <2>1 DEF OnceInv
  <2>4. \A k \in Msgs : AckPacket("PUBCOMP", k) = AckPacket("PUBCOMP", m) => k = m
    BY DEF AckPacket
  <2>5. AckPacket("PUBCOMP", m).msg = m
    BY DEF AckPacket
  <2>6. QED
    BY <2>1, <2>2, <2>3, <2>4, <2>5
<1>9. ASSUME NEW m \in Msgs, ActEnds(m)
      PROVE  ReleasedInv'
  BY <1>9 DEF ActEnds
<1>10. ASSUME NEW m \in Msgs, ActExits(m)
       PROVE  ReleasedInv'
  BY <1>10 DEF ActExits, Die
<1>11. CASE Start \/ ContainerRestart \/ Disconnect \/ Kill
  BY <1>11 DEF Start, ContainerRestart, Disconnect, Kill, Die
<1>12. CASE UNCHANGED vars
  BY <1>12
<1>13. QED
  BY <1>1, <1>2, <1>3, <1>4, <1>5, <1>6, <1>7, <1>8, <1>9, <1>10, <1>11, <1>12
     DEF Next, BrokerStep, ClientStep, HandlerStep

(***************************************************************************)
(* As long as the process does not die nothing leaves its memory but to be *)
(* worked on: what was confirmed is kept, in work, or handled.             *)
(***************************************************************************)
Kept(m) == m \in stored \/ cur = m \/ handled[m] > 0

KeptInv ==
  /\ \A m \in Msgs : broker[m] = "released" => Kept(m)
  /\ \A p \in acks : p.type = "PUBREC" => Kept(p.msg)
  /\ \A p \in acks : p.type = "PUBCOMP" => handled[p.msg] > 0
  /\ stage = "returned" => handled[cur] > 0
  /\ NoSilentLoss

LEMMA KeptInvStep ==
  ASSUME QoS = 2, ~MayDie, TypeInv, OnceInv, KeptInv, [Next]_vars
  PROVE  KeptInv'
<1>a. /\ \A p \in acks : p \in Ack /\ p.msg \in Msgs /\ p.type # "PUBACK"
      /\ \A m \in stored : m \in Msgs
      /\ broker \in [Msgs -> BrokerState] /\ cur \in Msgs \cup {NoMsg}
      /\ handled \in [Msgs -> 0..2]
      /\ (stage = "idle") <=> (cur = NoMsg)
  BY DEF TypeInv, TypeOK, Ack, OnceInv
<1>. USE NoMsgIsNoMsg, <1>a
     DEF KeptInv, NoSilentLoss, Kept, vars, brokerVars, netVars, clientVars,
         launchVars, historyVars, faultVars
<1>1. ASSUME NEW m \in Msgs, Publish(m) \/ Send(m)
      PROVE  KeptInv'
  <2>1. UNCHANGED <<acks, stored, cur, stage, handled>>
    BY <1>1 DEF Publish, Send
  <2>2. \A k \in Msgs \ {m} : broker'[k] = broker[k]
    BY <1>1 DEF Publish, Send
  <2>3. broker'[m] \in {"queued", "dropped", "sent"}
    BY <1>1 DEF Publish, Send
  <2>4. QED
    BY <2>1, <2>2, <2>3
<1>2. ASSUME NEW m \in Msgs, BrokerPuback(m)
      PROVE  KeptInv'
  BY <1>2 DEF BrokerPuback, OldestOf, AckPacket
<1>3. ASSUME NEW m \in Msgs, BrokerPubrec(m)
      PROVE  KeptInv'
  <2>1. AckPacket("PUBREC", m) \in acks /\ acks' \in SUBSET acks
    BY <1>3 DEF BrokerPubrec, OldestOf
  <2>2. broker' = [broker EXCEPT ![m] = IF @ = "sent" THEN "released" ELSE @]
    BY <1>3 DEF BrokerPubrec
  <2>3. Kept(m)
    BY <2>1 DEF AckPacket
  <2>4. UNCHANGED <<stored, cur, stage, handled>>
    BY <1>3 DEF BrokerPubrec
  <2>5. QED
    BY <2>1, <2>2, <2>3, <2>4
<1>4. ASSUME NEW m \in Msgs, BrokerPubcomp(m)
      PROVE  KeptInv'
  <2>1. AckPacket("PUBCOMP", m) \in acks /\ acks' \in SUBSET acks
    BY <1>4 DEF BrokerPubcomp, OldestOf
  <2>2. broker' = [broker EXCEPT ![m] = IF @ = "released" THEN "done" ELSE @]
    BY <1>4 DEF BrokerPubcomp
  <2>3. handled[m] > 0
    BY <2>1 DEF AckPacket
  <2>4. UNCHANGED <<stored, cur, stage, handled>>
    BY <1>4 DEF BrokerPubcomp
  <2>5. QED
    BY <2>1, <2>2, <2>3, <2>4
<1>5. CASE Connect
  BY <1>5 DEF Connect
<1>6. ASSUME NEW m \in Msgs, RecvPublish(m)
      PROVE  KeptInv'
  <2>1. stored' = stored \cup {m} /\ acks' = acks \cup {AckPacket("PUBREC", m)}
    BY <1>6, QoS = 2 DEF RecvPublish
  <2>2. UNCHANGED <<broker, cur, stage, handled>>
    BY <1>6, QoS = 2 DEF RecvPublish
  <2>3. AckPacket("PUBREC", m).msg = m /\ AckPacket("PUBREC", m).type = "PUBREC"
    BY DEF AckPacket
  <2>4. QED
    BY <2>1, <2>2, <2>3
<1>7. ASSUME NEW m \in Msgs, RecvPubrel(m)
      PROVE  KeptInv'
  <2>1. cur = NoMsg /\ broker[m] \in Beyond /\ UNCHANGED <<broker, handled>>
    BY <1>7 DEF RecvPubrel, Reading, OldestOf, PubrelPacket, OnceInv
  <2>2. CASE m \in stored
    <3>1. stored' = stored \ {m} /\ cur' = m /\ stage' = "act" /\ UNCHANGED acks
      BY <1>7, <2>2 DEF RecvPubrel
    <3>2. QED
      BY <2>1, <3>1
  <2>3. CASE m \notin stored
    <3>1. /\ acks' = acks \cup {AckPacket("PUBCOMP", m)}
          /\ UNCHANGED <<stored, cur, stage>>
      BY <1>7, <2>3 DEF RecvPubrel
    <3>2. handled[m] > 0
      BY <2>1, <2>3 DEF Beyond
    <3>3. AckPacket("PUBCOMP", m).msg = m /\ AckPacket("PUBCOMP", m).type = "PUBCOMP"
      BY DEF AckPacket
    <3>4. QED
      BY <2>1, <3>1, <3>2, <3>3
  <2>4. QED
    BY <2>2, <2>3
<1>8. ASSUME NEW m \in Msgs, Acknowledge(m)
      PROVE  KeptInv'
  <2>1. cur = m /\ stage' = "idle" /\ cur' = NoMsg /\ UNCHANGED <<broker, stored, handled>>
    BY <1>8 DEF Acknowledge
  <2>2. acks' \in SUBSET (acks \cup {AckPacket("PUBCOMP", m)})
    BY <1>8, QoS = 2 DEF Acknowledge
  <2>3. handled[m] > 0
    BY <1>8 DEF Acknowledge
  <2>4. AckPacket("PUBCOMP", m).msg = m /\ AckPacket("PUBCOMP", m).type = "PUBCOMP"
    BY DEF AckPacket
  <2>5. QED
    BY <2>1, <2>2, <2>3, <2>4
<1>9. ASSUME NEW m \in Msgs, ActEnds(m)
      PROVE  KeptInv'
  <2>1. handled' = [handled EXCEPT ![m] = Again(@)] /\ cur = m
    BY <1>9 DEF ActEnds
  <2>2. handled'[m] > 0 /\ \A k \in Msgs \ {m} : handled'[k] = handled[k]
    BY <2>1, AgainGrows
  <2>3. UNCHANGED <<broker, acks, stored, cur>>
    BY <1>9 DEF ActEnds
  <2>4. QED
    BY <2>1, <2>2, <2>3
<1>10. ASSUME NEW m \in Msgs, ActExits(m)
       PROVE  FALSE
  BY <1>10 DEF ActExits, MayDie
<1>11. CASE Kill
  BY <1>11, WorkerAssumption DEF Kill, MayDie, TypeInv, TypeOK
<1>12. CASE Start \/ ContainerRestart \/ Disconnect
  BY <1>12 DEF Start, ContainerRestart, Disconnect
<1>13. CASE UNCHANGED vars
  BY <1>13
<1>14. QED
  BY <1>1, <1>2, <1>3, <1>4, <1>5, <1>6, <1>7, <1>8, <1>9, <1>10, <1>11, <1>12, <1>13
     DEF Next, BrokerStep, ClientStep, HandlerStep

\* With QoS 2 every step of the worker is a step of the channel or a stutter.
LEMMA QoS2Simulates ==
  ASSUME QoS = 2, TypeInv, OnceInv, ReleasedInv, MayDie \/ KeptInv, [Next]_vars
  PROVE  [Abstract!Next]_(Abstract!vars)
<1>a. TypeOK
  BY DEF TypeInv
<1>. USE <1>a, NoMsgIsNoMsg DEF vars, brokerVars, historyVars
<1>1. ASSUME NEW m \in Msgs, Publish(m)
      PROVE  Abstract!Next
  BY <1>1, PublishingOffers DEF Abstract!Next
<1>2. ASSUME NEW m \in Msgs, Send(m)
      PROVE  UNCHANGED Abstract!vars
  <2>1. broker[m] = "queued" /\ broker' = [broker EXCEPT ![m] = "sent"] /\ UNCHANGED handled
    BY <1>2 DEF Send, InState
  <2>2. QED
    BY <2>1, HoldingStutters DEF HeldState
<1>3. ASSUME NEW m \in Msgs, BrokerPuback(m)
      PROVE  FALSE
  BY <1>3 DEF BrokerPuback, OldestOf, AckPacket, OnceInv
<1>4. ASSUME NEW m \in Msgs, BrokerPubrec(m)
      PROVE  UNCHANGED Abstract!vars
  <2>1. UNCHANGED handled
    BY <1>4 DEF BrokerPubrec
  <2>2. CASE broker[m] = "sent"
    <3>1. broker' = [broker EXCEPT ![m] = "released"]
      BY <1>4, <2>2 DEF BrokerPubrec, TypeOK
    <3>2. QED
      BY <2>1, <2>2, <3>1, HoldingStutters DEF HeldState
  <2>3. CASE broker[m] # "sent"
    <3>1. UNCHANGED broker
      BY <1>4, <2>3 DEF BrokerPubrec, TypeOK
    <3>2. QED
      BY <2>1, <3>1, NothingStutters
  <2>4. QED
    BY <2>2, <2>3
<1>5. ASSUME NEW m \in Msgs, BrokerPubcomp(m)
      PROVE  Abstract!Next \/ UNCHANGED Abstract!vars
  <2>1. AckPacket("PUBCOMP", m) \in acks /\ UNCHANGED handled
    BY <1>5 DEF BrokerPubcomp, OldestOf
  <2>2. MayDie \/ handled[m] > 0
    BY <2>1 DEF KeptInv, AckPacket
  <2>3. CASE broker[m] = "released"
    <3>1. broker' = [broker EXCEPT ![m] = "done"]
      BY <1>5, <2>3 DEF BrokerPubcomp, TypeOK
    <3>2. Abstract!Forget(m)
      BY <2>1, <2>2, <2>3, <3>1, ForgettingForgets, QoS = 2
    <3>3. QED
      BY <3>2 DEF Abstract!Next
  <2>4. CASE broker[m] # "released"
    <3>1. UNCHANGED broker
      BY <1>5, <2>4 DEF BrokerPubcomp, TypeOK
    <3>2. QED
      BY <2>1, <3>1, NothingStutters
  <2>5. QED
    BY <2>3, <2>4
<1>6. ASSUME NEW m \in Msgs, cur = m, stage = "act"
      PROVE  broker[m] = "released" /\ handled[m] = 0
  BY <1>6 DEF ReleasedInv, OnceInv
<1>7. ASSUME NEW m \in Msgs, ActEnds(m)
      PROVE  Abstract!Next
  <2>1. /\ cur = m /\ stage = "act" /\ UNCHANGED broker
        /\ handled' = [handled EXCEPT ![m] = Again(@)]
    BY <1>7 DEF ActEnds
  <2>2. Abstract!Handle(m)
    BY <1>6, <2>1, HandlingHandles
  <2>3. QED
    BY <2>2 DEF Abstract!Next
<1>8. ASSUME NEW m \in Msgs, ActExits(m)
      PROVE  Abstract!Next \/ UNCHANGED Abstract!vars
  <2>1. cur = m /\ stage = "act" /\ UNCHANGED broker
    BY <1>8 DEF ActExits, Die
  <2>2. CASE UNCHANGED handled
    BY <2>1, <2>2, NothingStutters
  <2>3. CASE handled' = [handled EXCEPT ![m] = Again(@)]
    <3>1. Abstract!Handle(m)
      BY <1>6, <2>1, <2>3, HandlingHandles
    <3>2. QED
      BY <3>1 DEF Abstract!Next
  <2>4. QED
    BY <1>8, <2>2, <2>3 DEF ActExits
<1>9. ASSUME \/ ClientStep
             \/ Start \/ ContainerRestart \/ Disconnect \/ Kill
             \/ UNCHANGED vars
      PROVE  UNCHANGED Abstract!vars
  <2>1. UNCHANGED <<broker, handled>>
    BY <1>9 DEF ClientStep, Connect, RecvPublish, RecvPubrel, Acknowledge, Start,
       ContainerRestart, Disconnect, Kill, Die
  <2>2. QED
    BY <2>1, NothingStutters
<1>10. QED
  BY <1>1, <1>2, <1>3, <1>4, <1>5, <1>7, <1>8, <1>9
     DEF Next, BrokerStep, HandlerStep

(***************************************************************************)
(* With QoS 2 the worker and its session are a channel that delivers at    *)
(* most once, and exactly once if the process never dies.                  *)
(***************************************************************************)
THEOREM QoS2IsAtMostOnce ==
  ASSUME QoS = 2
  PROVE  Spec => ImplementsDelivery
<1>. DEFINE SafeInv == OnceInv /\ ReleasedInv /\ (MayDie \/ KeptInv)
<1>1. Init => SafeInv
  BY NoMsgIsNoMsg
     DEF Init, OnceInv, AtMostOnce, ReleasedInv, KeptInv, NoSilentLoss
<1>2. TypeInv /\ SafeInv /\ [Next]_vars => SafeInv'
  <2>1. MayDie' <=> MayDie
    BY DEF MayDie
  <2>2. QED
    BY <2>1, OnceInvStep, ReleasedInvStep, KeptInvStep
<1>3. TypeInv /\ SafeInv /\ [Next]_vars => [Abstract!Next]_(Abstract!vars)
  BY QoS2Simulates
<1>. HIDE DEF SafeInv
<1>4. QED
  BY <1>1, <1>2, <1>3, Typing, InitSimulates, PTL
     DEF Spec, ImplementsDelivery, Abstract!Spec

(***************************************************************************)
(* The worker and its session implement the delivery that their QoS stands *)
(* for, for all messages, handlers, windows, queues and faults: at least   *)
(* once with QoS 1, at most once with QoS 2, exactly once with QoS 2 as    *)
(* long as the process does not die.                                       *)
(***************************************************************************)
THEOREM DeliversAsPromised == Spec => ImplementsDelivery
  BY WorkerAssumption, QoS1IsAtLeastOnce, QoS2IsAtMostOnce
-----------------------------------------------------------------------------
(***************************************************************************)
(* A message is doomed when the broker will not send it again and the      *)
(* client has forgotten it before its work was done.                       *)
(***************************************************************************)
Forgotten(m) == handled[m] = 0 /\ m \notin stored /\ cur # m
Confirmed(m) == broker[m] \in {"released", "done"} \/ AckPacket("PUBREC", m) \in acks
Doomed == {m \in Msgs : Forgotten(m) /\ Confirmed(m)}
Exited == {m \in Msgs : exits[m] > 0}

(***************************************************************************)
(* The window bounds what is in flight, and so what one death can doom;    *)
(* and no message makes the worker exit twice, because the broker is       *)
(* beyond it and the memory is gone, so that every exit counts as a death. *)
(***************************************************************************)
LossInv ==
  /\ stage = "returned" => handled[cur] > 0
  /\ \A m \in Exited : m \notin stored /\ cur # m /\ broker[m] \in {"released", "done"}
  /\ Cardinality(Inflight) <= MaxInflight
  /\ Cardinality(Doomed) <= MaxInflight * Deaths

\* Sets of messages are finite.
LEMMA MsgSets ==
  ASSUME NEW S \in SUBSET Msgs
  PROVE  IsFiniteSet(S) /\ Cardinality(S) \in Nat
<1>1. IsFiniteSet(Msgs)
  BY WorkerAssumption, FS_Interval DEF Msgs
<1>2. IsFiniteSet(S)
  BY <1>1, FS_Subset
<1>3. QED
  BY <1>2, FS_CardinalityType

LEMMA MsgSubsets ==
  ASSUME NEW S \in SUBSET Msgs, NEW T \in SUBSET S
  PROVE  Cardinality(T) <= Cardinality(S)
<1>1. IsFiniteSet(S)
  BY MsgSets
<1>2. QED
  BY <1>1, FS_Subset

\* A death dooms no more than what is in flight.
LEMMA OneMoreDeath ==
  ASSUME NEW S \in SUBSET Msgs, NEW D \in SUBSET Msgs, NEW I \in SUBSET Msgs, S \subseteq D \cup I,
         NEW n \in Nat, Cardinality(D) <= MaxInflight * n, Cardinality(I) <= MaxInflight
  PROVE  Cardinality(S) <= MaxInflight * (n + 1)
<1>1. IsFiniteSet(D) /\ IsFiniteSet(I) /\ Cardinality(D) \in Nat /\ Cardinality(I) \in Nat
      /\ Cardinality(S) \in Nat
  BY MsgSets
<1>2. Cardinality(D \cap I) \in Nat /\ Cardinality(D \cup I) \in Nat
  <2>1. D \cap I \in SUBSET Msgs /\ D \cup I \in SUBSET Msgs
    OBVIOUS
  <2>2. QED
    BY <2>1, MsgSets
<1>3. Cardinality(D \cup I) <= Cardinality(D) + Cardinality(I)
  <2>1. Cardinality(D \cup I) = Cardinality(D) + Cardinality(I) - Cardinality(D \cap I)
    BY <1>1, FS_Union
  <2>2. QED
    BY <1>1, <1>2, <2>1
<1>4. Cardinality(S) <= Cardinality(D \cup I)
  BY MsgSubsets
<1>5. MaxInflight \in Nat /\ MaxInflight * n \in Nat
      /\ MaxInflight * (n + 1) = MaxInflight * n + MaxInflight
  BY WorkerAssumption
<1>6. QED
  BY <1>1, <1>2, <1>3, <1>4, <1>5

LEMMA LossInvInit == Init => LossInv
<1>. SUFFICES ASSUME Init PROVE LossInv
  OBVIOUS
<1>1. Inflight = {} /\ Doomed = {} /\ Exited = {}
  BY DEF Init, Inflight, InState, Doomed, Confirmed, Exited
<1>2. Cardinality({}) = 0
  BY FS_EmptySet
<1>3. Deaths = 0
  BY <1>1, <1>2 DEF Deaths, Exited, Init
<1>4. Cardinality(Inflight) <= MaxInflight /\ Cardinality(Doomed) <= MaxInflight * Deaths
  BY <1>1, <1>2, <1>3, WorkerAssumption
<1>5. stage # "returned"
  BY DEF Init
<1>6. QED
  BY <1>1, <1>4, <1>5 DEF LossInv

\* What the invariants say, in the form in which the steps need it.
LEMMA LossFacts ==
  ASSUME QoS = 2, TypeInv, OnceInv, ReleasedInv, LossInv
  PROVE  /\ broker \in [Msgs -> BrokerState] /\ handled \in [Msgs -> 0..2]
         /\ exits \in [Msgs -> 0..2] /\ kills \in Nat
         /\ stored \subseteq Inflight /\ stored \subseteq Msgs
         /\ cur \in Msgs \cup {NoMsg} /\ NoMsg \notin Msgs
         /\ stage = "act" => cur \in Inflight
         /\ (stage = "idle") <=> (cur = NoMsg)
         /\ stage \in {"idle", "act", "returned"}
         /\ \A m \in Msgs : PublishPacket(m) \in wire => broker[m] = "sent"
         /\ \A m \in Msgs : AckPacket("PUBREC", m) \in acks =>
              broker[m] \in {"sent", "released", "done"}
         /\ \A m \in Msgs : AckPacket("PUBCOMP", m) \in acks =>
              (m \notin stored /\ cur # m) \/ handled[m] > 0
<1>1. TypeOK /\ NoMsg \notin Msgs
  BY NoMsgIsNoMsg DEF TypeInv
<1>2. stored \subseteq Inflight /\ (stage = "act" => cur \in Inflight)
  BY <1>1 DEF ReleasedInv, Inflight, InState, TypeOK
<1>3. \A m \in Msgs : PublishPacket(m) \in wire => broker[m] = "sent"
  BY DEF OnceInv, PublishPacket
<1>4. \A m \in Msgs : AckPacket("PUBREC", m) \in acks => broker[m] \in {"sent", "released", "done"}
  BY DEF OnceInv, AckPacket, Beyond
<1>5. \A m \in Msgs : AckPacket("PUBCOMP", m) \in acks =>
        (m \notin stored /\ cur # m) \/ handled[m] > 0
  BY <1>1 DEF ReleasedInv, LossInv, TypeOK
<1>6. QED
  BY <1>1, <1>2, <1>3, <1>4, <1>5 DEF TypeOK

\* A step in which nobody dies dooms nothing.
LEMMA NobodyDies ==
  ASSUME QoS = 2, TypeInv, OnceInv, ReleasedInv, LossInv, UNCHANGED <<exits, kills>>,
         stage' = "returned" => handled'[cur'] > 0,
         \A m \in Exited : m \notin stored' /\ cur' # m /\ broker'[m] \in {"released", "done"},
         Cardinality(Inflight') <= MaxInflight,
         Doomed' \subseteq Doomed
  PROVE  LossInv'
<1>1. Deaths' = Deaths /\ Exited' = Exited
  BY DEF Deaths, Exited
<1>2. Deaths \in Nat
  <2>1. Exited \in SUBSET Msgs /\ kills \in Nat
    BY LossFacts DEF Exited
  <2>2. QED
    BY <2>1, MsgSets DEF Deaths, Exited
<1>3. Cardinality(Doomed') <= Cardinality(Doomed) /\ Cardinality(Doomed') \in Nat
      /\ Cardinality(Doomed) \in Nat
  <2>1. Doomed \in SUBSET Msgs /\ Doomed' \in SUBSET Doomed
    BY DEF Doomed
  <2>2. QED
    BY <2>1, MsgSets, MsgSubsets
<1>4. Cardinality(Doomed') <= MaxInflight * Deaths'
  <2>1. MaxInflight * Deaths \in Nat
    BY <1>2, WorkerAssumption
  <2>2. QED
    BY <1>1, <1>3, <2>1 DEF LossInv
<1>5. QED
  BY <1>1, <1>4 DEF LossInv

\* The death of the process.
LEMMA SomebodyDies ==
  ASSUME QoS = 2, TypeInv, OnceInv, ReleasedInv, LossInv, Die, Deaths' = Deaths + 1,
         \A m \in Msgs : handled'[m] = 0 => handled[m] = 0,
         \A m \in Exited' : m \in Exited \/ (cur = m /\ stage = "act")
  PROVE  LossInv'
<1>1. stored' = {} /\ cur' = NoMsg /\ stage' = "idle" /\ UNCHANGED <<broker, acks>>
  BY DEF Die, brokerVars
<1>2. Deaths \in Nat
  <2>1. Exited \in SUBSET Msgs /\ kills \in Nat
    BY LossFacts DEF Exited
  <2>2. QED
    BY <2>1, MsgSets DEF Deaths, Exited
<1>3. Inflight' = Inflight /\ Inflight \in SUBSET Msgs
  BY <1>1 DEF Inflight, InState
<1>4. Doomed' \subseteq Doomed \cup Inflight
  <2>. SUFFICES ASSUME NEW m \in Msgs, Forgotten(m)', Confirmed(m), m \notin Inflight
                PROVE  Forgotten(m)
    BY <1>1 DEF Doomed, Confirmed
  <2>1. handled[m] = 0
    BY DEF Forgotten
  <2>2. m \notin stored
    BY LossFacts
  <2>3. cur # m
    <3>1. stage = "act" => cur # m
      BY LossFacts
    <3>2. stage = "returned" => cur # m
      BY <2>1 DEF LossInv
    <3>3. stage = "idle" => cur # m
      BY LossFacts
    <3>4. QED
      BY <3>1, <3>2, <3>3, LossFacts
  <2>4. QED
    BY <2>1, <2>2, <2>3 DEF Forgotten
<1>5. Cardinality(Doomed') <= MaxInflight * Deaths'
  <2>1. Doomed' \in SUBSET Msgs /\ Doomed \in SUBSET Msgs
    BY DEF Doomed
  <2>2. QED
    BY <1>2, <1>3, <1>4, <2>1, OneMoreDeath DEF LossInv
<1>6. \A m \in Exited' : m \notin stored' /\ cur' # m /\ broker'[m] \in {"released", "done"}
  <2>. SUFFICES ASSUME NEW m \in Exited' PROVE cur' # m /\ broker[m] \in {"released", "done"}
    BY <1>1
  <2>1. m \in Msgs
    BY DEF Exited
  <2>2. m \in Exited => broker[m] \in {"released", "done"}
    BY DEF LossInv
  <2>3. cur = m /\ stage = "act" => broker[m] \in {"released", "done"}
    BY <2>1 DEF ReleasedInv
  <2>4. QED
    BY <1>1, <2>1, <2>2, <2>3, NoMsgIsNoMsg
<1>7. QED
  BY <1>1, <1>3, <1>5, <1>6 DEF LossInv

LEMMA LossInvStep ==
  ASSUME QoS = 2, TypeInv, OnceInv, ReleasedInv, LossInv, [Next]_vars
  PROVE  LossInv'
<1>a. /\ broker \in [Msgs -> BrokerState] /\ handled \in [Msgs -> 0..2]
      /\ exits \in [Msgs -> 0..2] /\ kills \in Nat
      /\ stored \subseteq Inflight /\ stored \subseteq Msgs
      /\ cur \in Msgs \cup {NoMsg} /\ NoMsg \notin Msgs
      /\ stage = "act" => cur \in Inflight
      /\ (stage = "idle") <=> (cur = NoMsg)
      /\ stage \in {"idle", "act", "returned"}
  BY LossFacts
<1>b. /\ stage = "returned" => handled[cur] > 0
      /\ \A m \in Exited : m \notin stored /\ cur # m /\ broker[m] \in {"released", "done"}
      /\ Cardinality(Inflight) <= MaxInflight
  BY DEF LossInv
<1>c. Inflight \in SUBSET Msgs
  BY DEF Inflight, InState
<1>d. ASSUME Inflight' \subseteq Inflight PROVE Cardinality(Inflight') <= MaxInflight
  <2>1. Cardinality(Inflight') <= Cardinality(Inflight) /\ Cardinality(Inflight') \in Nat
        /\ Cardinality(Inflight) \in Nat
    <3>1. Inflight' \in SUBSET Inflight /\ Inflight' \in SUBSET Msgs
      BY <1>c, <1>d
    <3>2. QED
      BY <1>c, <3>1, MsgSets, MsgSubsets
  <2>2. QED
    BY <1>b, <2>1, WorkerAssumption
<1>e. ASSUME NEW m \in Msgs, broker' = [broker EXCEPT ![m] = broker'[m]],
             broker[m] \in {"unsent", "queued"}, UNCHANGED <<acks, handled, stored, cur, stage, exits>>,
             broker'[m] \notin {"released", "done"}
      PROVE  /\ Doomed' \subseteq Doomed
             /\ \A k \in Exited : k \notin stored' /\ cur' # k /\ broker'[k] \in {"released", "done"}
  <2>1. \A k \in Msgs \ {m} : broker'[k] = broker[k]
    BY <1>a, <1>e
  <2>2. Doomed' \subseteq Doomed
    BY <2>1, <1>e DEF Doomed, Forgotten, Confirmed
  <2>3. \A k \in Exited : k # m /\ k \in Msgs
    BY <1>b, <1>e DEF Exited
  <2>4. QED
    BY <2>1, <2>2, <2>3, <1>b, <1>e
<1>1. ASSUME NEW m \in Msgs, Publish(m) PROVE LossInv'
  <2>1. /\ broker[m] = "unsent" /\ broker'[m] \in {"queued", "dropped"}
        /\ broker' = [broker EXCEPT ![m] = broker'[m]]
        /\ UNCHANGED <<acks, handled, stored, cur, stage, exits, kills>>
    BY <1>1, <1>a DEF Publish, netVars, clientVars, historyVars, faultVars
  <2>2. Inflight' \subseteq Inflight
    BY <1>a, <2>1 DEF Inflight, InState
  <2>3. Cardinality(Inflight') <= MaxInflight
    BY <2>2, <1>d
  <2>4. Doomed' \subseteq Doomed
        /\ \A k \in Exited : k \notin stored' /\ cur' # k /\ broker'[k] \in {"released", "done"}
    BY <2>1, <1>e
  <2>5. QED
    BY <1>b, <2>1, <2>3, <2>4, NobodyDies
<1>2. ASSUME NEW m \in Msgs, Send(m) PROVE LossInv'
  <2>1. /\ broker[m] = "queued" /\ broker'[m] = "sent"
        /\ broker' = [broker EXCEPT ![m] = broker'[m]]
        /\ UNCHANGED <<acks, handled, stored, cur, stage, exits, kills>>
        /\ Cardinality(Inflight) < MaxInflight
    BY <1>2, <1>a DEF Send, InState, clientVars, historyVars, faultVars
  <2>2. Inflight' = Inflight \cup {m}
    BY <1>a, <2>1 DEF Inflight, InState
  <2>3. Cardinality(Inflight') <= MaxInflight
    <3>1. Cardinality(Inflight') <= Cardinality(Inflight) + 1
      <4>1. IsFiniteSet(Inflight) /\ Cardinality(Inflight) \in Nat
        BY <1>c, MsgSets
      <4>2. QED
        BY <2>2, <4>1, FS_AddElement
    <3>2. Cardinality(Inflight) \in Nat /\ Cardinality(Inflight') \in Nat
      <4>1. Inflight' \in SUBSET Msgs
        BY <1>c, <2>2
      <4>2. QED
        BY <1>c, <4>1, MsgSets
    <3>3. QED
      BY <2>1, <3>1, <3>2, WorkerAssumption
  <2>4. Doomed' \subseteq Doomed
        /\ \A k \in Exited : k \notin stored' /\ cur' # k /\ broker'[k] \in {"released", "done"}
    BY <2>1, <1>e
  <2>5. QED
    BY <1>b, <2>1, <2>3, <2>4, NobodyDies
<1>3. ASSUME NEW m \in Msgs, BrokerPuback(m) \/ BrokerPubrec(m) \/ BrokerPubcomp(m) PROVE LossInv'
  <2>1. /\ acks' \subseteq acks
        /\ UNCHANGED <<handled, stored, cur, stage, exits, kills>>
    BY <1>3 DEF BrokerPuback, BrokerPubrec, BrokerPubcomp, clientVars, historyVars, faultVars
  <2>2. ~BrokerPuback(m)
    BY DEF BrokerPuback, OldestOf, OnceInv, AckPacket
  <2>3. /\ \A k \in Msgs : broker'[k] # broker[k] =>
             \/ broker[k] = "sent" /\ broker'[k] = "released" /\ AckPacket("PUBREC", k) \in acks
             \/ broker[k] = "released" /\ broker'[k] = "done"
    <3>1. CASE BrokerPubrec(m)
      BY <1>a, <3>1 DEF BrokerPubrec, OldestOf
    <3>2. CASE BrokerPubcomp(m)
      BY <1>a, <3>2 DEF BrokerPubcomp, OldestOf
    <3>3. QED
      BY <1>3, <2>2, <3>1, <3>2
  <2>4. Inflight' \subseteq Inflight
    BY <2>3 DEF Inflight, InState
  <2>5. Cardinality(Inflight') <= MaxInflight
    BY <2>4, <1>d
  <2>6. Doomed' \subseteq Doomed
    BY <2>1, <2>3 DEF Doomed, Forgotten, Confirmed
  <2>7. \A k \in Exited : k \notin stored' /\ cur' # k /\ broker'[k] \in {"released", "done"}
    <3>1. \A k \in Exited : k \in Msgs
      BY DEF Exited
    <3>2. QED
      BY <1>b, <2>1, <2>3, <3>1
  <2>8. QED
    BY <1>b, <2>1, <2>5, <2>6, <2>7, NobodyDies
<1>f. ASSUME UNCHANGED <<broker, exits, kills>>,
             stage' = "returned" => handled'[cur'] > 0,
             Doomed' \subseteq Doomed,
             \A k \in Exited : k \notin stored' /\ cur' # k
      PROVE  LossInv'
  <2>1. Inflight' \subseteq Inflight
    BY <1>f DEF Inflight, InState
  <2>2. Cardinality(Inflight') <= MaxInflight
    BY <2>1, <1>d
  <2>3. \A k \in Exited : broker'[k] \in {"released", "done"}
    BY <1>b, <1>f
  <2>4. QED
    BY <1>f, <2>2, <2>3, NobodyDies
<1>4. CASE Connect
  <2>1. UNCHANGED <<broker, exits, kills, handled, stored, cur, stage>> /\ acks' = {}
    BY <1>4 DEF Connect, clientVars, historyVars, faultVars
  <2>2. Doomed' \subseteq Doomed
    BY <2>1 DEF Doomed, Forgotten, Confirmed
  <2>3. QED
    BY <1>b, <1>f, <2>1, <2>2
<1>5. ASSUME NEW m \in Msgs, RecvPublish(m) PROVE LossInv'
  <2>1. /\ stored' = stored \cup {m} /\ acks' = acks \cup {AckPacket("PUBREC", m)}
        /\ UNCHANGED <<broker, exits, kills, handled, cur, stage>>
        /\ PublishPacket(m) \in wire
    BY <1>5, QoS = 2
    DEF RecvPublish, OldestOf, brokerVars, historyVars, faultVars
  <2>2. broker[m] = "sent"
    BY <2>1, LossFacts
  <2>3. Doomed' \subseteq Doomed
    <3>1. \A k \in Msgs : AckPacket("PUBREC", k) = AckPacket("PUBREC", m) => k = m
      BY DEF AckPacket
    <3>2. QED
      BY <2>1, <3>1 DEF Doomed, Forgotten, Confirmed
  <2>4. m \notin Exited
    BY <2>2, <1>b
  <2>5. QED
    BY <1>b, <1>f, <2>1, <2>3, <2>4
<1>6. ASSUME NEW m \in Msgs, RecvPubrel(m) PROVE LossInv'
  <2>1. cur = NoMsg /\ UNCHANGED <<broker, exits, kills, handled>> /\ stage = "idle"
    BY <1>6, <1>a DEF RecvPubrel, Reading, brokerVars, historyVars, faultVars
  <2>2. CASE m \in stored
    <3>1. stored' = stored \ {m} /\ cur' = m /\ stage' = "act" /\ UNCHANGED acks
      BY <1>6, <2>2 DEF RecvPubrel
    <3>2. Doomed' \subseteq Doomed
      BY <1>a, <2>1, <3>1 DEF Doomed, Forgotten, Confirmed
    <3>3. m \notin Exited
      BY <2>2, <1>b
    <3>4. QED
      BY <1>b, <1>f, <2>1, <3>1, <3>2, <3>3
  <2>3. CASE m \notin stored
    <3>1. acks' = acks \cup {AckPacket("PUBCOMP", m)} /\ UNCHANGED <<stored, cur, stage>>
      BY <1>6, <2>3 DEF RecvPubrel
    <3>2. \A k \in Msgs : AckPacket("PUBREC", k) # AckPacket("PUBCOMP", m)
      BY DEF AckPacket
    <3>3. Doomed' \subseteq Doomed
      BY <2>1, <3>1, <3>2 DEF Doomed, Forgotten, Confirmed
    <3>4. QED
      BY <1>b, <1>f, <2>1, <3>1, <3>3
  <2>4. QED
    BY <2>2, <2>3
<1>7. ASSUME NEW m \in Msgs, Acknowledge(m) PROVE LossInv'
  <2>1. /\ cur = m /\ stage = "returned" /\ cur' = NoMsg /\ stage' = "idle"
        /\ UNCHANGED <<broker, exits, kills, handled, stored>>
        /\ acks' \subseteq acks \cup {AckPacket("PUBCOMP", m)}
    BY <1>7, QoS = 2 DEF Acknowledge, brokerVars, historyVars, faultVars
  <2>2. handled[m] > 0
    BY <1>b, <2>1
  <2>3. \A k \in Msgs : AckPacket("PUBREC", k) # AckPacket("PUBCOMP", m)
    BY DEF AckPacket
  <2>4. Doomed' \subseteq Doomed
    BY <2>1, <2>2, <2>3 DEF Doomed, Forgotten, Confirmed
  <2>5. \A k \in Exited : cur' # k
    BY <1>a, <2>1 DEF Exited
  <2>6. QED
    BY <1>b, <1>f, <2>1, <2>4, <2>5
<1>8. ASSUME NEW m \in Msgs, ActEnds(m) PROVE LossInv'
  <2>1. /\ cur = m /\ stage' = "returned" /\ handled' = [handled EXCEPT ![m] = Again(@)]
        /\ UNCHANGED <<broker, exits, kills, stored, cur, acks>>
    BY <1>8 DEF ActEnds, brokerVars, netVars, faultVars
  <2>2. handled'[m] > 0 /\ \A k \in Msgs \ {m} : handled'[k] = handled[k]
    BY <1>a, <2>1 DEF Again
  <2>3. Doomed' \subseteq Doomed
    BY <2>1, <2>2 DEF Doomed, Forgotten, Confirmed
  <2>4. QED
    BY <1>b, <1>f, <2>1, <2>2, <2>3
<1>9. ASSUME NEW m \in Msgs, ActExits(m) PROVE LossInv'
  <2>1. /\ cur = m /\ stage = "act" /\ exits' = [exits EXCEPT ![m] = Again(@)] /\ Die
        /\ UNCHANGED kills
    BY <1>9 DEF ActExits, faultVars
  <2>2. m \notin Exited
    BY <2>1, <1>b
  <2>3. Exited' = Exited \cup {m}
    BY <1>a, <2>1 DEF Exited, Again
  <2>4. Deaths' = Deaths + 1
    <3>1. Exited \in SUBSET Msgs
      BY DEF Exited
    <3>2. Cardinality(Exited') = Cardinality(Exited) + 1 /\ Cardinality(Exited) \in Nat
      BY <2>2, <2>3, <3>1, MsgSets, FS_AddElement
    <3>3. Deaths = kills + Cardinality(Exited) /\ Deaths' = kills' + Cardinality(Exited')
      BY DEF Deaths, Exited
    <3>4. QED
      BY <1>a, <2>1, <3>2, <3>3
  <2>5. \A k \in Msgs : handled'[k] = 0 => handled[k] = 0
    <3>1. \/ handled' = handled
          \/ handled' = [handled EXCEPT ![m] = Again(@)]
      BY <1>9 DEF ActExits
    <3>2. QED
      BY <1>a, <3>1 DEF Again
  <2>6. QED
    BY <2>1, <2>3, <2>4, <2>5, SomebodyDies
<1>10. CASE Kill
  <2>1. kills' = kills + 1 /\ Die /\ UNCHANGED <<handled, exits>>
    BY <1>10 DEF Kill, historyVars
  <2>2. Exited' = Exited
    BY <2>1 DEF Exited
  <2>3. Deaths' = Deaths + 1
    <3>1. Exited \in SUBSET Msgs
      BY DEF Exited
    <3>2. Cardinality(Exited) \in Nat
      BY <3>1, MsgSets
    <3>3. Deaths = kills + Cardinality(Exited) /\ Deaths' = kills' + Cardinality(Exited')
      BY DEF Deaths, Exited
    <3>4. QED
      BY <1>a, <2>1, <2>2, <3>2, <3>3
  <2>4. QED
    BY <2>1, <2>2, <2>3, SomebodyDies
<1>11. CASE Start \/ ContainerRestart \/ Disconnect \/ UNCHANGED vars
  <2>1. UNCHANGED <<broker, exits, kills, handled, stored, cur, stage, acks>>
    BY <1>11 DEF Start, ContainerRestart, Disconnect, vars, brokerVars, netVars, clientVars,
                 launchVars, historyVars, faultVars
  <2>2. Doomed' \subseteq Doomed
    BY <2>1 DEF Doomed, Forgotten, Confirmed
  <2>3. QED
    BY <1>b, <1>f, <2>1, <2>2
<1>12. QED
  BY <1>1, <1>2, <1>3, <1>4, <1>5, <1>6, <1>7, <1>8, <1>9, <1>10, <1>11
     DEF Next, BrokerStep, ClientStep, HandlerStep

(***************************************************************************)
(* With QoS 2 what is lost is no more than one window of the broker        *)
(* (max_inflight_messages of mosquitto.conf) per death of the process, for *)
(* any number of messages, kills and exits: a death only forgets what was  *)
(* in flight.                                                              *)
(***************************************************************************)
THEOREM LossIsBounded ==
  ASSUME QoS = 2
  PROVE  Spec => []LossBounded
<1>. DEFINE Inv == OnceInv /\ ReleasedInv /\ LossInv
<1>1. Init => Inv
  BY NoMsgIsNoMsg, LossInvInit DEF Init, OnceInv, AtMostOnce, ReleasedInv
<1>2. TypeInv /\ Inv /\ [Next]_vars => Inv'
  BY OnceInvStep, ReleasedInvStep, LossInvStep
<1>3. TypeInv /\ Inv => LossBounded
  <2>. SUFFICES ASSUME TypeInv, Inv PROVE LossBounded
    OBVIOUS
  <2>1. Lost \subseteq Doomed
    <3>. SUFFICES ASSUME NEW m \in Msgs, broker[m] = "done", handled[m] = 0
                  PROVE  m \notin stored /\ cur # m
      BY DEF Lost, Doomed, Forgotten, Confirmed
    <3>1. m \notin stored
      BY DEF ReleasedInv
    <3>2. stage = "act" => cur # m
      BY DEF ReleasedInv
    <3>3. stage = "returned" => cur # m
      BY DEF LossInv
    <3>4. QED
      BY <3>1, <3>2, <3>3, NoMsgIsNoMsg DEF TypeInv, TypeOK
  <2>2. Cardinality(Lost) <= Cardinality(Doomed) /\ Cardinality(Lost) \in Nat
        /\ Cardinality(Doomed) \in Nat
    <3>1. Doomed \in SUBSET Msgs /\ Lost \in SUBSET Doomed /\ Lost \in SUBSET Msgs
      BY <2>1 DEF Doomed, Lost
    <3>2. QED
      BY <3>1, MsgSets, MsgSubsets
  <2>3. MaxInflight * Deaths \in Nat
    <3>1. Exited \in SUBSET Msgs /\ kills \in Nat
      BY DEF Exited, TypeInv, TypeOK
    <3>2. Deaths \in Nat
      BY <3>1, MsgSets DEF Deaths, Exited
    <3>3. QED
      BY <3>2, WorkerAssumption
  <2>4. QED
    BY <2>2, <2>3 DEF LossBounded, LossInv
<1>. HIDE DEF Inv
<1>4. QED
  BY <1>1, <1>2, <1>3, Typing, PTL DEF Spec
-----------------------------------------------------------------------------
(***************************************************************************)
(* The order.  Messages leave the queue of the broker in the order of      *)
(* their numbers, whatever the QoS.                                        *)
(***************************************************************************)
QueueInv ==
  \A m, k \in Msgs : m < k =>
    /\ broker[m] = "unsent" => broker[k] = "unsent"
    /\ broker[m] = "queued" => broker[k] \in {"unsent", "queued", "dropped"}

LEMMA QueueInvStep ==
  ASSUME TypeInv, QueueInv, [Next]_vars
  PROVE  QueueInv'
<1>a. broker \in [Msgs -> BrokerState] /\ \A m, k \in Msgs : m \in Int /\ (m < k \/ k < m \/ m = k)
  BY WorkerAssumption DEF TypeInv, TypeOK, Msgs
<1>1. ASSUME NEW m \in Msgs, Publish(m) PROVE QueueInv'
  <2>1. /\ broker[m] = "unsent" /\ broker'[m] \in {"queued", "dropped"}
        /\ \A k \in Msgs : k < m => broker[k] # "unsent"
        /\ \A k \in Msgs \ {m} : broker'[k] = broker[k]
    BY <1>1, <1>a DEF Publish
  <2>2. \A k \in Msgs : m < k => broker[k] = "unsent"
    BY <2>1 DEF QueueInv
  <2>3. QED
    BY <2>1, <2>2, <1>a DEF QueueInv
<1>2. ASSUME NEW m \in Msgs, Send(m) PROVE QueueInv'
  <2>1. /\ broker[m] = "queued" /\ broker'[m] = "sent"
        /\ \A k \in Msgs : broker[k] = "queued" => m <= k
        /\ \A k \in Msgs \ {m} : broker'[k] = broker[k]
    BY <1>2, <1>a DEF Send, InState
  <2>2. \A k \in Msgs : k < m => broker[k] \notin {"unsent", "queued"}
    BY <2>1, <1>a DEF QueueInv
  <2>3. QED
    BY <2>1, <2>2, <1>a DEF QueueInv
<1>3. CASE \A m \in Msgs : broker'[m] = broker[m] \/
             (broker[m] \in {"sent", "released"} /\ broker'[m] \in {"released", "done"})
  BY <1>3 DEF QueueInv
<1>4. ASSUME NEW m \in Msgs, BrokerPuback(m) \/ BrokerPubrec(m) \/ BrokerPubcomp(m)
      PROVE  QueueInv'
  <2>1. \A k \in Msgs : broker'[k] = broker[k] \/
          (broker[k] \in {"sent", "released"} /\ broker'[k] \in {"released", "done"})
    BY <1>4, <1>a DEF BrokerPuback, BrokerPubrec, BrokerPubcomp
  <2>2. QED
    BY <2>1, <1>3
<1>5. CASE UNCHANGED broker
  BY <1>5, <1>3
<1>6. QED
  BY <1>1, <1>2, <1>4, <1>5
  DEF Next, BrokerStep, ClientStep, HandlerStep, Connect, RecvPublish, RecvPubrel, Acknowledge,
      ActEnds, ActExits, Start, ContainerRestart, Disconnect, Kill, Die, vars, brokerVars

\* Only a packet that is read gives a message to on_message.
LEMMA OnMessage ==
  ASSUME TypeInv, [Next]_vars, NEW m \in Msgs, cur' = m, cur # m
  PROVE  RecvPublish(m) \/ RecvPubrel(m)
<1>1. CASE \E k \in Msgs : RecvPublish(k) \/ RecvPubrel(k)
  <2>1. PICK k \in Msgs : RecvPublish(k) \/ RecvPubrel(k)
    BY <1>1
  <2>2. cur' = k \/ UNCHANGED cur
    BY <2>1 DEF RecvPublish, RecvPubrel
  <2>3. QED
    BY <2>1, <2>2
<1>2. CASE cur' = NoMsg \/ UNCHANGED cur
  BY <1>2, NoMsgIsNoMsg
<1>3. QED
  BY <1>1, <1>2
  DEF Next, BrokerStep, ClientStep, HandlerStep, Publish, Send, BrokerPuback, BrokerPubrec,
      BrokerPubcomp, Connect, Acknowledge, ActEnds, ActExits, Start, ContainerRestart,
      Disconnect, Kill, Die, vars, clientVars

(***************************************************************************)
(* With QoS 1, what was sent is on its way again after every reconnect, so *)
(* that nothing is worked on before what is older was handled.             *)
(***************************************************************************)
Order1Inv ==
  /\ conn => \A m \in Msgs :
       broker[m] = "sent" /\ handled[m] = 0 => PublishPacket(m) \in wire \/ cur = m
  /\ \A m, k \in Msgs :
       m < k /\ (handled[k] > 0 \/ cur = k) /\ broker[m] # "dropped" => handled[m] > 0

LEMMA Order1InvStep ==
  ASSUME QoS = 1, TypeInv, AckedIsHandled, HeldInv, QueueInv, Order1Inv, [Next]_vars
  PROVE  Order1Inv'
<1>a. /\ broker \in [Msgs -> BrokerState] /\ handled \in [Msgs -> 0..2]
      /\ \A m \in Msgs : m \in Int /\ m # NoMsg /\ broker[m] # "released"
      /\ \A m \in Msgs : broker[m] = "done" => handled[m] > 0
      /\ \A m, k \in Msgs : PublishPacket(m) = PublishPacket(k) => m = k
  BY WorkerAssumption, NoMsgIsNoMsg
  DEF TypeInv, TypeOK, Msgs, AckedIsHandled, NoSilentLoss, PublishPacket
<1>1. ASSUME NEW m \in Msgs, Publish(m) PROVE Order1Inv'
  <2>1. /\ broker[m] = "unsent" /\ broker'[m] \in {"queued", "dropped"}
        /\ \A k \in Msgs \ {m} : broker'[k] = broker[k]
        /\ UNCHANGED <<conn, wire, cur, handled>>
    BY <1>1, <1>a DEF Publish, netVars, clientVars, historyVars
  <2>2. QED
    BY <2>1 DEF Order1Inv
<1>2. ASSUME NEW m \in Msgs, Send(m) PROVE Order1Inv'
  <2>1. /\ broker[m] = "queued" /\ broker'[m] = "sent" /\ wire' = wire \cup {PublishPacket(m)}
        /\ \A k \in Msgs \ {m} : broker'[k] = broker[k]
        /\ UNCHANGED <<conn, cur, handled>>
    BY <1>2, <1>a DEF Send, InState, clientVars, historyVars
  <2>2. QED
    BY <2>1 DEF Order1Inv
<1>3. ASSUME NEW m \in Msgs, BrokerPuback(m) \/ BrokerPubrec(m) \/ BrokerPubcomp(m)
      PROVE  Order1Inv'
  <2>1. /\ \A k \in Msgs : broker'[k] = broker[k] \/ broker'[k] \in {"released", "done"}
        /\ \A k \in Msgs : broker'[k] # "dropped" => broker[k] # "dropped"
        /\ wire \subseteq wire' /\ UNCHANGED <<conn, cur, handled>>
    BY <1>3, <1>a DEF BrokerPuback, BrokerPubrec, BrokerPubcomp, clientVars, historyVars
  <2>2. QED
    BY <2>1 DEF Order1Inv
<1>4. CASE Connect
  <2>1. wire' = Resent /\ UNCHANGED <<broker, cur, handled>>
    BY <1>4 DEF Connect, clientVars, historyVars
  <2>2. \A m \in Msgs : broker[m] = "sent" => PublishPacket(m) \in Resent
    BY DEF Resent, InState
  <2>3. QED
    BY <2>1, <2>2 DEF Order1Inv
<1>5. ASSUME NEW m \in Msgs, RecvPublish(m) PROVE Order1Inv'
  <2>1. /\ conn /\ cur = NoMsg /\ OldestOf(wire, PublishPacket(m)) /\ cur' = m
        /\ wire' = wire \ {PublishPacket(m)} /\ UNCHANGED <<conn, broker, handled>>
    BY <1>5, QoS = 1 DEF RecvPublish, Reading, brokerVars, historyVars
  <2>2. broker[m] = "sent"
    <3>1. PublishPacket(m).msg = m /\ PublishPacket(m) \in wire
      BY <2>1 DEF OldestOf, PublishPacket
    <3>2. QED
      BY <3>1 DEF HeldInv, Unacked
  <2>3. ASSUME NEW k \in Msgs, k < m, broker[k] # "dropped" PROVE handled[k] > 0
    <3>1. broker[k] \in {"sent", "done"}
      BY <2>2, <2>3, <1>a DEF QueueInv, BrokerState
    <3>2. PublishPacket(k) \notin wire
      <4>1. PublishPacket(k).type = PublishPacket(m).type /\ PublishPacket(k).msg = k
            /\ PublishPacket(m).msg = m
        BY DEF PublishPacket
      <4>2. QED
        BY <2>1, <2>3, <4>1, <1>a DEF OldestOf
    <3>3. broker[k] = "sent" => handled[k] > 0
      BY <2>1, <3>2, <1>a DEF Order1Inv
    <3>4. QED
      BY <3>1, <3>3, <1>a
  <2>4. QED
    BY <2>1, <2>3, <1>a DEF Order1Inv
<1>6. ASSUME NEW m \in Msgs, RecvPubrel(m) PROVE Order1Inv'
  <2>1. FALSE
    BY <1>6 DEF RecvPubrel, OldestOf, PubrelPacket, AckedIsHandled
  <2>2. QED
    BY <2>1
<1>7. ASSUME NEW m \in Msgs, Acknowledge(m) PROVE Order1Inv'
  <2>1. cur = m /\ handled[m] > 0 /\ cur' = NoMsg /\ UNCHANGED <<conn, wire, broker, handled>>
    BY <1>7 DEF Acknowledge, AckedIsHandled, brokerVars, historyVars
  <2>2. QED
    BY <2>1, <1>a DEF Order1Inv
<1>8. ASSUME NEW m \in Msgs, ActEnds(m) PROVE Order1Inv'
  <2>1. cur = m /\ handled' = [handled EXCEPT ![m] = Again(@)] /\ UNCHANGED <<conn, wire, broker, cur>>
    BY <1>8 DEF ActEnds, brokerVars, netVars
  <2>2. handled'[m] > 0 /\ \A k \in Msgs \ {m} : handled'[k] = handled[k]
    BY <2>1, <1>a DEF Again
  <2>3. QED
    BY <2>1, <2>2, <1>a DEF Order1Inv
<1>9. ASSUME NEW m \in Msgs, ActExits(m) PROVE Order1Inv'
  <2>1. cur = m /\ ~conn' /\ cur' = NoMsg /\ UNCHANGED broker
    BY <1>9 DEF ActExits, Die, brokerVars
  <2>2. handled' = handled \/ handled' = [handled EXCEPT ![m] = Again(@)]
    BY <1>9 DEF ActExits
  <2>3. \A k \in Msgs : (handled[k] > 0 => handled'[k] > 0) /\ (handled'[k] > 0 => handled[k] > 0 \/ cur = k)
    BY <2>1, <2>2, <1>a DEF Again
  <2>4. QED
    BY <2>1, <2>3, <1>a DEF Order1Inv
<1>10. CASE Kill
  <2>1. ~conn' /\ cur' = NoMsg /\ UNCHANGED <<broker, handled>>
    BY <1>10 DEF Kill, Die, brokerVars, historyVars
  <2>2. QED
    BY <2>1, <1>a DEF Order1Inv
<1>11. CASE Disconnect
  <2>1. ~conn' /\ UNCHANGED <<broker, handled, cur>>
    BY <1>11 DEF Disconnect, brokerVars, clientVars, historyVars
  <2>2. QED
    BY <2>1 DEF Order1Inv
<1>12. CASE Start \/ ContainerRestart \/ UNCHANGED vars
  <2>1. UNCHANGED <<conn, wire, broker, handled, cur>>
    BY <1>12 DEF Start, ContainerRestart, vars, brokerVars, netVars, clientVars, historyVars
  <2>2. QED
    BY <2>1 DEF Order1Inv
<1>13. QED
  BY <1>1, <1>2, <1>3, <1>4, <1>5, <1>6, <1>7, <1>8, <1>9, <1>10, <1>11, <1>12
     DEF Next, BrokerStep, ClientStep, HandlerStep

(***************************************************************************)
(* With QoS 2 the broker releases messages in the order of their numbers,  *)
(* and a released message in the memory of the client has its PUBREL on    *)
(* the way.                                                                *)
(***************************************************************************)
Order2Inv ==
  /\ \A m, k \in Msgs : m < k /\ broker[k] \in Beyond => broker[m] \in Beyond \cup {"dropped"}
  /\ \A m, k \in Msgs : m < k /\ AckPacket("PUBREC", k) \in acks /\ broker[m] = "sent"
       => AckPacket("PUBREC", m) \in acks
  /\ conn => \A m \in Msgs :
       /\ broker[m] = "sent" => PublishPacket(m) \in wire \/ AckPacket("PUBREC", m) \in acks
       /\ broker[m] = "released" /\ m \in stored => PubrelPacket(m) \in wire
  /\ \A m \in stored, k \in Msgs : m < k => handled[k] = 0 /\ cur # k

LEMMA Order2InvStep ==
  ASSUME QoS = 2, TypeInv, OnceInv, ReleasedInv, QueueInv, Order2Inv, [Next]_vars
  PROVE  Order2Inv'
<1>a. /\ broker \in [Msgs -> BrokerState] /\ handled \in [Msgs -> 0..2] /\ stored \subseteq Msgs
      /\ \A m \in Msgs : m \in Int /\ m # NoMsg
      /\ \A m, k \in Msgs : PublishPacket(m) = PublishPacket(k) => m = k
      /\ \A m, k \in Msgs : PubrelPacket(m) = PubrelPacket(k) => m = k
      /\ \A m, k \in Msgs : PubrelPacket(m) # PublishPacket(k)
      /\ \A m, k \in Msgs : AckPacket("PUBREC", m) = AckPacket("PUBREC", k) => m = k
      /\ \A m, k \in Msgs : AckPacket("PUBREC", m) # AckPacket("PUBCOMP", k)
  BY WorkerAssumption, NoMsgIsNoMsg
  DEF TypeInv, TypeOK, Msgs, PublishPacket, PubrelPacket, AckPacket
<1>b. /\ \A m \in Msgs : PublishPacket(m) \in wire => broker[m] = "sent"
      /\ \A m \in Msgs : PubrelPacket(m) \in wire => broker[m] \in Beyond
      /\ \A m \in Msgs : AckPacket("PUBREC", m) \in acks => broker[m] \in Beyond \cup {"sent"}
      /\ \A m \in Msgs : handled[m] > 0 \/ cur = m => broker[m] \in Beyond
      /\ \A m \in stored : broker[m] \in {"sent", "released"}
  BY <1>a DEF OnceInv, ReleasedInv, PublishPacket, PubrelPacket, AckPacket
<1>1. ASSUME NEW m \in Msgs, Publish(m) PROVE Order2Inv'
  <2>1. /\ broker[m] = "unsent" /\ broker'[m] \in {"queued", "dropped"}
        /\ \A k \in Msgs \ {m} : broker'[k] = broker[k]
        /\ UNCHANGED <<conn, wire, acks, stored, cur, handled>>
    BY <1>1, <1>a DEF Publish, netVars, clientVars, historyVars
  <2>2. \A k \in Msgs : m < k => broker[k] = "unsent"
    BY <2>1 DEF QueueInv
  <2>3. QED
    BY <2>1, <2>2, <1>a DEF Order2Inv, Beyond
<1>2. ASSUME NEW m \in Msgs, Send(m) PROVE Order2Inv'
  <2>1. /\ broker[m] = "queued" /\ broker'[m] = "sent" /\ wire' = wire \cup {PublishPacket(m)}
        /\ \A k \in Msgs \ {m} : broker'[k] = broker[k]
        /\ UNCHANGED <<conn, acks, stored, cur, handled>>
    BY <1>2, <1>a DEF Send, InState, clientVars, historyVars
  <2>2. \A k \in Msgs : m < k => broker[k] \in {"unsent", "queued", "dropped"}
    BY <2>1 DEF QueueInv
  <2>3. m \notin stored /\ AckPacket("PUBREC", m) \notin acks
    BY <1>b, <2>1 DEF Beyond
  <2>4. QED
    BY <2>1, <2>2, <2>3, <1>a, <1>b DEF Order2Inv, Beyond
<1>3. ASSUME NEW m \in Msgs, BrokerPuback(m) PROVE Order2Inv'
  <2>1. FALSE
    BY <1>3 DEF BrokerPuback, OldestOf, OnceInv, AckPacket
  <2>2. QED
    BY <2>1
<1>4. ASSUME NEW m \in Msgs, BrokerPubrec(m) PROVE Order2Inv'
  <2>1. /\ OldestOf(acks, AckPacket("PUBREC", m)) /\ acks' = acks \ {AckPacket("PUBREC", m)}
        /\ broker'[m] = IF broker[m] = "sent" THEN "released" ELSE broker[m]
        /\ \A k \in Msgs \ {m} : broker'[k] = broker[k]
        /\ wire' = IF conn THEN wire \cup {PubrelPacket(m)} ELSE wire
        /\ UNCHANGED <<conn, stored, cur, handled>>
    BY <1>4, <1>a DEF BrokerPubrec, clientVars, historyVars
  <2>2. broker[m] \in Beyond \cup {"sent"} /\ broker'[m] \in Beyond
    BY <1>b, <2>1 DEF OldestOf, Beyond
  <2>3. ASSUME NEW k \in Msgs, k < m PROVE broker[k] \in Beyond \cup {"dropped"}
    <3>1. AckPacket("PUBREC", k) \notin acks
      <4>1. AckPacket("PUBREC", k).msg = k /\ AckPacket("PUBREC", m).msg = m
            /\ AckPacket("PUBREC", k).type = AckPacket("PUBREC", m).type
        BY DEF AckPacket
      <4>2. QED
        BY <2>1, <2>3, <4>1, <1>a DEF OldestOf
    <3>2. broker[k] # "sent"
      BY <2>1, <2>3, <3>1 DEF OldestOf, Order2Inv
    <3>3. broker[k] \notin {"unsent", "queued"}
      BY <2>2, <2>3 DEF QueueInv, Beyond
    <3>4. QED
      BY <3>2, <3>3, <1>a DEF BrokerState, Beyond
  <2>4. QED
    BY <2>1, <2>2, <2>3, <1>a DEF Order2Inv, Beyond
<1>5. ASSUME NEW m \in Msgs, BrokerPubcomp(m) PROVE Order2Inv'
  <2>1. /\ acks' = acks \ {AckPacket("PUBCOMP", m)}
        /\ \A k \in Msgs : broker'[k] = broker[k] \/ (broker[k] = "released" /\ broker'[k] = "done")
        /\ UNCHANGED <<conn, wire, stored, cur, handled>>
    BY <1>5, <1>a DEF BrokerPubcomp, clientVars, historyVars
  <2>2. QED
    BY <2>1, <1>a DEF Order2Inv, Beyond
<1>6. CASE Connect
  <2>1. wire' = Resent /\ acks' = {} /\ UNCHANGED <<broker, stored, cur, handled>>
    BY <1>6 DEF Connect, clientVars, historyVars
  <2>2. \A m \in Msgs : /\ broker[m] = "sent" => PublishPacket(m) \in Resent
                        /\ broker[m] = "released" => PubrelPacket(m) \in Resent
    BY DEF Resent, InState
  <2>3. QED
    BY <2>1, <2>2 DEF Order2Inv
<1>7. ASSUME NEW m \in Msgs, RecvPublish(m) PROVE Order2Inv'
  <2>1. /\ conn /\ OldestOf(wire, PublishPacket(m)) /\ wire' = wire \ {PublishPacket(m)}
        /\ stored' = stored \cup {m} /\ acks' = acks \cup {AckPacket("PUBREC", m)}
        /\ UNCHANGED <<conn, broker, cur, handled>>
    BY <1>7, QoS = 2 DEF RecvPublish, Reading, brokerVars, historyVars
  <2>2. broker[m] = "sent"
    BY <2>1, <1>b DEF OldestOf
  <2>3. ASSUME NEW k \in Msgs, k < m, broker[k] = "sent" PROVE AckPacket("PUBREC", k) \in acks
    <3>1. PublishPacket(k) \notin wire
      <4>1. PublishPacket(k).type = PublishPacket(m).type /\ PublishPacket(k).msg = k
            /\ PublishPacket(m).msg = m
        BY DEF PublishPacket
      <4>2. QED
        BY <2>1, <2>3, <4>1, <1>a DEF OldestOf
    <3>2. QED
      BY <2>1, <2>3, <3>1 DEF Order2Inv
  <2>4. ASSUME NEW k \in Msgs, m < k PROVE handled[k] = 0 /\ cur # k
    <3>1. broker[k] \notin Beyond
      BY <2>2, <2>4 DEF Order2Inv, Beyond
    <3>2. QED
      BY <3>1, <1>a, <1>b
  <2>5. \A k \in Msgs : broker[k] = "sent" => PublishPacket(k) \in wire' \/ AckPacket("PUBREC", k) \in acks'
    BY <2>1, <1>a DEF Order2Inv
  <2>6. \A k \in Msgs : broker[k] = "released" /\ k \in stored' => PubrelPacket(k) \in wire'
    BY <2>1, <2>2, <1>a DEF Order2Inv
  <2>7. \A k, l \in Msgs : k < l /\ AckPacket("PUBREC", l) \in acks' /\ broker[k] = "sent"
          => AckPacket("PUBREC", k) \in acks'
    BY <2>1, <2>3, <1>a DEF Order2Inv
  <2>8. QED
    BY <2>1, <2>4, <2>5, <2>6, <2>7 DEF Order2Inv
<1>8. ASSUME NEW m \in Msgs, RecvPubrel(m) PROVE Order2Inv'
  <2>1. /\ conn /\ cur = NoMsg /\ OldestOf(wire, PubrelPacket(m)) /\ wire' = wire \ {PubrelPacket(m)}
        /\ UNCHANGED <<conn, broker, handled>>
    BY <1>8 DEF RecvPubrel, Reading, brokerVars, historyVars
  <2>2. broker[m] \in Beyond
    BY <2>1, <1>b DEF OldestOf
  <2>3. CASE m \in stored
    <3>1. stored' = stored \ {m} /\ cur' = m /\ UNCHANGED acks
      BY <1>8, <2>3 DEF RecvPubrel
    <3>2. ASSUME NEW k \in stored, k < m PROVE FALSE
      <4>1. k \in Msgs /\ broker[k] = "released"
        BY <2>2, <3>2, <1>a, <1>b DEF Order2Inv, Beyond
      <4>2. PubrelPacket(k) \in wire
        BY <2>1, <3>2, <4>1 DEF Order2Inv
      <4>3. PubrelPacket(k).type = PubrelPacket(m).type /\ PubrelPacket(k).msg = k
            /\ PubrelPacket(m).msg = m
        BY DEF PubrelPacket
      <4>4. QED
        BY <2>1, <3>2, <4>1, <4>2, <4>3, <1>a DEF OldestOf
    <3>3. QED
      BY <2>1, <3>1, <3>2, <1>a DEF Order2Inv
  <2>4. CASE m \notin stored
    <3>1. acks' = acks \cup {AckPacket("PUBCOMP", m)} /\ UNCHANGED <<stored, cur>>
      BY <1>8, <2>4 DEF RecvPubrel
    <3>2. QED
      BY <2>1, <2>4, <3>1, <1>a DEF Order2Inv
  <2>5. QED
    BY <2>3, <2>4
<1>9. ASSUME NEW m \in Msgs, Acknowledge(m) PROVE Order2Inv'
  <2>1. /\ cur' = NoMsg /\ UNCHANGED <<conn, wire, broker, handled, stored>>
        /\ acks' \in {acks, acks \cup {AckPacket("PUBCOMP", m)}}
    BY <1>9, QoS = 2 DEF Acknowledge, brokerVars, historyVars
  <2>2. QED
    BY <2>1, <1>a DEF Order2Inv
<1>10. ASSUME NEW m \in Msgs, ActEnds(m) PROVE Order2Inv'
  <2>1. /\ cur = m /\ handled' = [handled EXCEPT ![m] = Again(@)]
        /\ UNCHANGED <<conn, wire, acks, broker, stored, cur>>
    BY <1>10 DEF ActEnds, brokerVars, netVars
  <2>2. \A k \in Msgs \ {m} : handled'[k] = handled[k]
    BY <2>1, <1>a
  <2>3. QED
    BY <2>1, <2>2, <1>a DEF Order2Inv
<1>11. ASSUME NEW m \in Msgs, ActExits(m) PROVE Order2Inv'
  <2>1. ~conn' /\ stored' = {} /\ UNCHANGED <<broker, acks>>
    BY <1>11 DEF ActExits, Die, brokerVars
  <2>2. QED
    BY <2>1 DEF Order2Inv
<1>12. CASE Kill
  <2>1. ~conn' /\ stored' = {} /\ UNCHANGED <<broker, acks>>
    BY <1>12 DEF Kill, Die, brokerVars
  <2>2. QED
    BY <2>1 DEF Order2Inv
<1>13. CASE Disconnect
  <2>1. ~conn' /\ UNCHANGED <<broker, acks, stored, handled, cur>>
    BY <1>13 DEF Disconnect, brokerVars, clientVars, historyVars
  <2>2. QED
    BY <2>1 DEF Order2Inv
<1>14. CASE Start \/ ContainerRestart \/ UNCHANGED vars
  <2>1. UNCHANGED <<conn, wire, acks, broker, stored, handled, cur>>
    BY <1>14 DEF Start, ContainerRestart, vars, brokerVars, netVars, clientVars, historyVars
  <2>2. QED
    BY <2>1 DEF Order2Inv
<1>15. QED
  BY <1>1, <1>2, <1>3, <1>4, <1>5, <1>6, <1>7, <1>8, <1>9, <1>10, <1>11, <1>12, <1>13, <1>14
     DEF Next, BrokerStep, ClientStep, HandlerStep

\* What InOrder says of a step.
InOrderStep ==
  \A m \in Msgs : (cur' = m /\ cur # m) =>
     \/ handled[m] > 0
     \/ \A k \in Msgs : k > m => handled[k] = 0

LEMMA QoS1KeepsOrder ==
  ASSUME QoS = 1
  PROVE  Spec => InOrder
<1>. DEFINE Inv == AckedIsHandled /\ HeldInv /\ QueueInv /\ Order1Inv
<1>1. Init => Inv
  BY NoMsgIsNoMsg DEF Init, AckedIsHandled, NoSilentLoss, HeldInv, QueueInv, Order1Inv
<1>2. TypeInv /\ Inv /\ [Next]_vars => Inv'
  BY AckedIsHandledStep, HeldInvStep, QueueInvStep, Order1InvStep
<1>3. TypeInv /\ Inv /\ [Next]_vars => [InOrderStep]_vars
  <2>. SUFFICES ASSUME TypeInv, Inv, [Next]_vars, NEW m \in Msgs, cur' = m, cur # m, handled[m] = 0,
                       NEW k \in Msgs, k > m
                PROVE  handled[k] = 0
    BY DEF InOrderStep, TypeInv, TypeOK
  <2>1. RecvPublish(m) \/ RecvPubrel(m)
    BY OnMessage
  <2>2. PublishPacket(m) \in wire
    BY <2>1 DEF RecvPublish, RecvPubrel, OldestOf, AckedIsHandled, PubrelPacket
  <2>3. broker[m] = "sent"
    BY <2>2 DEF HeldInv, Unacked, PublishPacket
  <2>4. m < k /\ m \in Int /\ k \in Int /\ handled \in [Msgs -> 0..2]
    BY WorkerAssumption DEF Msgs, TypeInv, TypeOK
  <2>5. QED
    BY <2>3, <2>4 DEF Order1Inv
<1>. HIDE DEF Inv
<1>4. QED
  BY <1>1, <1>2, <1>3, Typing, PTL DEF Spec, InOrder, InOrderStep

LEMMA QoS2KeepsOrder ==
  ASSUME QoS = 2
  PROVE  Spec => InOrder
<1>. DEFINE Inv == OnceInv /\ ReleasedInv /\ QueueInv /\ Order2Inv
<1>1. Init => Inv
  BY NoMsgIsNoMsg
  DEF Init, OnceInv, AtMostOnce, ReleasedInv, QueueInv, Order2Inv, Beyond
<1>2. TypeInv /\ Inv /\ [Next]_vars => Inv'
  BY OnceInvStep, ReleasedInvStep, QueueInvStep, Order2InvStep
<1>3. TypeInv /\ Inv /\ [Next]_vars => [InOrderStep]_vars
  <2>. SUFFICES ASSUME TypeInv, Inv, [Next]_vars, NEW m \in Msgs, cur' = m, cur # m,
                       NEW k \in Msgs, k > m
                PROVE  handled[k] = 0
    BY DEF InOrderStep
  <2>1. RecvPublish(m) \/ RecvPubrel(m)
    BY OnMessage
  <2>2. m \in stored
    BY <2>1, QoS = 2 DEF RecvPublish, RecvPubrel
  <2>3. m < k
    BY WorkerAssumption DEF Msgs
  <2>4. QED
    BY <2>2, <2>3 DEF Order2Inv
<1>. HIDE DEF Inv
<1>4. QED
  BY <1>1, <1>2, <1>3, Typing, PTL DEF Spec, InOrder, InOrderStep

(***************************************************************************)
(* on_message never sees a message for the first time after it saw a later *)
(* one, with either QoS and for all messages, handlers, windows and        *)
(* faults: neither retransmission after a reconnect nor restarts of the    *)
(* worker reorder its work.                                                *)
(***************************************************************************)
THEOREM WorkInOrder == Spec => InOrder
  BY WorkerAssumption, QoS1KeepsOrder, QoS2KeepsOrder
=============================================================================
