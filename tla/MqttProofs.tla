----------------------------- MODULE MqttProofs -----------------------------
(***************************************************************************)
(* The MQTT client: life of the worker, of the session and of the          *)
(* subscription table.                                                     *)
(***************************************************************************)
EXTENDS MqttClient, TLAPS

(* Where the worker has an established session, as far as it knows.        *)
InSession == {"resub", "suback", "online", "sync", "respond", "puback",
              "stuck", "disconnect", "exit"} \union Selecting

(* A worker that has not set up its pipe yet finds, and one that has ended *)
(* leaves, nothing; in between the pipe exists, the socket is open from    *)
(* net_connect to the disconnect, and isconnected is not set outside.  The *)
(* pipe devices are this pipe and those that could not be opened.          *)
SessionInv ==
    /\ workers \in Nat /\ (workers = 0 <=> wpc = "dead")
    /\ idx \in Nat \ {0}
    /\ handlers \in [1 .. Slots -> TopicSet \union {NONE}]
    /\ wpc \in {"dead", "pipe"} =>
          /\ ~sock /\ ~pipe_open /\ pipe = <<>>
          /\ \A i \in 1 .. Slots : handlers[i] = NONE
    /\ wpc \notin {"dead", "pipe"} => pipe_open
    /\ wpc \in InSession \union {"connect"} => sock
    /\ isconnected => wpc \in InSession
    /\ devices \in Nat /\ unopened \in Nat
    /\ devices = IF pipe_open THEN unopened + 1 ELSE unopened

LEMMA SessionInit == Init => SessionInv
  BY DEF Init, SessionInv, InSession, Selecting

LEMMA SessionWorker == SessionInv /\ workers <= 1 /\ WorkerStep => SessionInv'
  <1> SUFFICES ASSUME SessionInv, workers <= 1, WorkerStep  PROVE SessionInv'
    OBVIOUS
  <1> USE DEF connection, writers, aside, bounds, SessionInv, InSession,
              Selecting, Reselect
  <1>1. CASE mqtt_pipe_init  BY <1>1 DEF mqtt_pipe_init
  <1>2. CASE net_connect  BY <1>2 DEF net_connect
  <1>3. CASE MQTTConnect
    <2>1. /\ wpc = "connect" /\ idx' = 1
          /\ UNCHANGED <<workers, handlers, pipe_open, pipe, sock, devices,
                         unopened>>
      BY <1>3 DEF MQTTConnect
    <2>2. ~isconnected  BY <2>1
    <2>3. wpc' = "resub" \/ (wpc' = "restart" /\ UNCHANGED isconnected)
      BY <1>3, Zenon DEF MQTTConnect
    <2> QED  BY <2>1, <2>2, <2>3
  <1>4. CASE MQTTSubscribe
    <2>1. /\ wpc = "resub" /\ wpc' \in {"online", "resub", "suback", "disconnect"}
          /\ idx' \in {1, idx, idx + 1}
      BY <1>4 DEF MQTTSubscribe
    <2>2. UNCHANGED <<workers, handlers, pipe_open, pipe, sock, isconnected,
                      devices, unopened>>
      BY <1>4 DEF MQTTSubscribe
    <2> QED  BY <2>1, <2>2
  <1>5. CASE WaitSuback  BY <1>5 DEF WaitSuback
  <1>6. CASE paho_mqtt_subscribe
    <2>1. /\ wpc = "online" /\ wpc' \in {"online", "sync"} /\ idx' = idx + 1
          /\ UNCHANGED <<workers, pipe_open, pipe, devices, unopened>>
      BY <1>6 DEF paho_mqtt_subscribe
    <2>2. (UNCHANGED isconnected \/ ~isconnected') /\ UNCHANGED sock
      BY <1>6, Zenon DEF paho_mqtt_subscribe
    <2>3. Topics[idx] \in TopicSet
      BY <1>6 DEF paho_mqtt_subscribe, TopicSet, Topics
    <2>4. \/ UNCHANGED handlers
          \/ \E i \in 1 .. Slots : handlers' = [handlers EXCEPT ![i] = Topics[idx]]
      BY <1>6, Zenon DEF paho_mqtt_subscribe
    <2>5. handlers' \in [1 .. Slots -> TopicSet \union {NONE}]
      BY <2>3, <2>4
    <2> QED  BY <2>1, <2>2, <2>5
  <1>7. CASE Publish_Sync_Request
    BY <1>7 DEF Publish_Sync_Request, PublishByWorker, PutInto
  <1>8. CASE MQTT_cycle  BY <1>8 DEF MQTT_cycle
  <1>9. CASE LinkDead  BY <1>9 DEF LinkDead
  <1>10. CASE Respond  BY <1>10 DEF Respond, PublishByWorker, PutInto
  <1>11. CASE SendPuback  BY <1>11 DEF SendPuback
  <1>12. CASE ReadPipe  BY <1>12 DEF ReadPipe
  <1>13. CASE MQTTDisconnect  BY <1>13 DEF MQTTDisconnect, DisconnectedFlag
  <1>14. CASE net_disconnect  BY <1>14 DEF net_disconnect
  <1>15. CASE net_disconnect_exit
    BY <1>15 DEF net_disconnect_exit, ClearedHandlers, DeviceDeleted
  <1> QED
    BY <1>1, <1>2, <1>3, <1>4, <1>5, <1>6, <1>7, <1>8, <1>9, <1>10, <1>11,
       <1>12, <1>13, <1>14, <1>15 DEF WorkerStep

LEMMA SessionOthers == SessionInv /\ (Others \/ Network) => SessionInv'
  <1> SUFFICES ASSUME SessionInv, Others \/ Network  PROVE SessionInv'
    OBVIOUS
  <1> USE DEF connection, writers, aside, bounds, client, outside,
              SessionInv, InSession, Selecting, Reselect
  <1>1. CASE \E p \in Publishers : MQTTPublish(p)  BY <1>1 DEF MQTTPublish
  <1>2. CASE \E w \in OtherWriters : Write(w)
    <2>1. PICK w \in OtherWriters : Write(w)  BY <1>2
    <2>2. UNCHANGED <<client, sock, devices, unopened>> /\ (~pipe_open => UNCHANGED pipe)
      BY <2>1 DEF Write
    <2> QED  BY <2>2
  <1>3. CASE mqtt_stop  BY <1>3 DEF mqtt_stop, Order
  <1>4. CASE mqtt_start  BY <1>4 DEF mqtt_start, Order
  <1>5. CASE Started  BY <1>5 DEF Started
  <1>6. CASE \E i \in 1 .. Slots, exact \in BOOLEAN :
                paho_mqtt_unsubscribe(i, exact)
    <2>1. PICK i \in 1 .. Slots, exact \in BOOLEAN :
                paho_mqtt_unsubscribe(i, exact)
      BY <1>6
    <2>2. /\ UNCHANGED isconnected \/ ~isconnected'
          /\ UNCHANGED <<workers, wpc, idx, handlers, pipe_open, pipe, sock,
                         devices, unopened>>
      BY <2>1 DEF paho_mqtt_unsubscribe
    <2> QED  BY <2>2
  <1>7. CASE ClearHandler
    <2>1. /\ handlers' = [handlers EXCEPT ![clearing] = NONE]
          /\ UNCHANGED <<isconnected, workers, wpc, idx, pipe_open, pipe, sock,
                         devices, unopened>>
      BY <1>7 DEF ClearHandler
    <2>2. handlers' \in [1 .. Slots -> TopicSet \union {NONE}]  BY <2>1
    <2>3. (\A j \in 1 .. Slots : handlers[j] = NONE)
             => \A j \in 1 .. Slots : handlers'[j] = NONE
      BY <2>1
    <2> QED  BY <2>1, <2>2, <2>3
  <1>8. CASE LateWakeup
    <2>1. /\ UNCHANGED <<isconnected, workers, idx, handlers, pipe_open, pipe,
                         sock, devices, unopened>>
          /\ wpc' = wpc \/ (wpc \in Reselect /\ wpc' = "spinning")
      BY <1>8 DEF LateWakeup
    <2> QED  BY <2>1
  <1>9. CASE Drop  BY <1>9 DEF Drop
  <1>10. CASE Push  BY <1>10 DEF Push
  <1> QED
    BY <1>1, <1>2, <1>3, <1>4, <1>5, <1>6, <1>7, <1>8, <1>9, <1>10
       DEF Others, Network

LEMMA SessionStep == SessionInv /\ [Next]_vars => SessionInv'
  <1>1. CASE UNCHANGED vars
    BY <1>1 DEF vars, connection, aside, SessionInv, InSession
  <1> QED  BY <1>1, SessionWorker, SessionOthers DEF Next

LEMMA SessionInvariant == Spec => []SessionInv
  BY SessionInit, SessionStep, PTL DEF Spec

(***************************************************************************)
(* isconnected, which every publisher tests, is set only between a CONNACK *)
(* and the next disconnect, on an open socket and with a pipe to write to, *)
(* whatever the shell, the network and failing allocations do.             *)
(***************************************************************************)
THEOREM ConnectedCorrect == Spec => []ConnectedMeansSession
  <1>1. SessionInv => ConnectedMeansSession
    BY DEF SessionInv, InSession, ConnectedMeansSession
  <1> QED  BY <1>1, SessionInvariant, PTL

(***************************************************************************)
(* A worker that has ended leaves no session, socket, pipe or handler for  *)
(* the next one to find, and no pipe device but one for every time it      *)
(* could not be opened.                                                    *)
(***************************************************************************)
THEOREM DeadCorrect == Spec => []DeadMeansReleased
  <1>1. SessionInv => DeadMeansReleased
    BY DEF SessionInv, InSession, Selecting, DeadMeansReleased
  <1> QED  BY <1>1, SessionInvariant, PTL

----------------------------------------------------------------------------
(* The broker has the topics of the slots below n, but for the slot that   *)
(* the shell is about to clear.                                            *)
SubscribedBelow(n) ==
    \A i \in 1 .. Slots :
        i < n /\ handlers[i] # NONE /\ i # clearing => handlers[i] \in subs

(* How far the resubscription has come.  NoTopicTwice is needed because an *)
(* unsubscribe takes the topic from the broker and from one slot only.     *)
TableInv ==
    /\ NoTopicTwice
    /\ link /\ wpc = "resub" => SubscribedBelow(idx)
    /\ link /\ wpc = "suback" => SubscribedBelow(idx + 1)
    /\ Resubscribed

LEMMA TableInit == Init => TableInv
  BY DEF Init, TableInv, NoTopicTwice, Resubscribed, Listening

(* A step that leaves table and subscriptions alone and brings the worker  *)
(* no nearer to serving the connection keeps the invariant.                *)
LEMMA TableKept ==
    ASSUME TableInv, UNCHANGED <<handlers, subs, clearing>>,
           link' => link,
           wpc' = "resub" => wpc = "resub" /\ UNCHANGED idx,
           wpc' = "suback" => wpc = "suback" /\ UNCHANGED idx,
           Listening' => Listening
    PROVE  TableInv'
  BY DEF TableInv, NoTopicTwice, SubscribedBelow, Resubscribed

LEMMA TableWorker == SessionInv /\ TableInv /\ WorkerStep => TableInv'
  <1> SUFFICES ASSUME SessionInv, TableInv, WorkerStep  PROVE TableInv'
    OBVIOUS
  <1> USE DEF connection, aside, Selecting, Reselect
  <1>1. CASE mqtt_pipe_init  BY <1>1, TableKept DEF mqtt_pipe_init, Listening
  <1>2. CASE net_connect
    BY <1>2 DEF net_connect, TableInv, NoTopicTwice, Resubscribed, Listening
  <1>3. CASE MQTTConnect
    <2>1. /\ idx' = 1 /\ wpc' \in {"restart", "resub"}
          /\ UNCHANGED <<handlers, subs, link, clearing>>
      BY <1>3 DEF MQTTConnect
    <2> QED
      BY <2>1 DEF TableInv, NoTopicTwice, SubscribedBelow, Resubscribed, Listening
  <1>4. CASE MQTTSubscribe
    <2>1. wpc = "resub" /\ UNCHANGED <<handlers, link, clearing>>
      BY <1>4 DEF MQTTSubscribe
    <2>2. CASE idx > Slots
      <3>1. wpc' = "online" /\ UNCHANGED subs
        BY <1>4, <2>2, ClientAssumption DEF MQTTSubscribe, LastSlot, SessionInv
      <3> QED
        BY <2>1, <2>2, <3>1, ClientAssumption
        DEF TableInv, NoTopicTwice, SubscribedBelow, Resubscribed, SessionInv
    <2>3. CASE idx <= Slots /\ handlers[idx] = NONE
      <3>1. wpc' = "resub" /\ idx' = idx + 1 /\ UNCHANGED subs
        BY <1>4, <2>3, ClientAssumption DEF MQTTSubscribe, LastSlot, SessionInv
      <3> QED
        BY <2>1, <2>3, <3>1, ClientAssumption
        DEF TableInv, NoTopicTwice, SubscribedBelow, Resubscribed, SessionInv,
            Listening
    <2>4. CASE idx <= Slots /\ handlers[idx] # NONE
      <3>1. \/ /\ wpc' = "suback" /\ subs' = subs \union {handlers[idx]}
               /\ UNCHANGED idx
            \/ wpc' = "disconnect" /\ UNCHANGED subs
        BY <1>4, <2>4, ClientAssumption DEF MQTTSubscribe, LastSlot, SessionInv
      <3> QED
        BY <2>1, <2>4, <3>1, ClientAssumption
        DEF TableInv, NoTopicTwice, SubscribedBelow, Resubscribed, SessionInv,
            Listening
    <2> QED  BY <2>2, <2>3, <2>4, ClientAssumption DEF SessionInv
  <1>5. CASE WaitSuback
    <2>1. /\ wpc = "suback" /\ wpc' \in {"resub", "disconnect"} /\ idx' = idx + 1
          /\ UNCHANGED <<handlers, subs, link, clearing>>
      BY <1>5 DEF WaitSuback
    <2> QED
      BY <2>1 DEF TableInv, NoTopicTwice, SubscribedBelow, Resubscribed, Listening
  <1>6. CASE paho_mqtt_subscribe
    <2> DEFINE t == Topics[idx]
    <2>1. wpc = "online" /\ wpc' \in {"online", "sync"} /\ UNCHANGED <<link, clearing>>
      BY <1>6 DEF paho_mqtt_subscribe
    <2>2. \/ UNCHANGED <<handlers, subs>>
          \/ /\ ~Subscribed(t)
             /\ \/ UNCHANGED handlers
                \/ \E i \in 1 .. Slots : handlers' = [handlers EXCEPT ![i] = t]
             /\ IF link THEN subs' = subs \union {t} ELSE UNCHANGED subs
      BY <1>6, Zenon DEF paho_mqtt_subscribe
    <2>3. CASE UNCHANGED <<handlers, subs>>
      BY <2>1, <2>3, TableKept DEF Listening
    <2>4. CASE ~UNCHANGED <<handlers, subs>>
      <3>1. NoTopicTwice'
        BY <2>2, <2>4 DEF TableInv, NoTopicTwice, Subscribed, SessionInv
      <3>2. Resubscribed'
        BY <2>1, <2>2, <2>4 DEF TableInv, Resubscribed, Listening, SessionInv
      <3> QED  BY <2>1, <3>1, <3>2 DEF TableInv
    <2> QED  BY <2>3, <2>4
  <1>7. CASE Publish_Sync_Request
    BY <1>7, TableKept DEF Publish_Sync_Request, PublishByWorker, Listening
  <1>8. CASE MQTT_cycle  BY <1>8, TableKept DEF MQTT_cycle, Listening
  <1>9. CASE LinkDead  BY <1>9, TableKept DEF LinkDead, Listening
  <1>10. CASE Respond
    BY <1>10, TableKept DEF Respond, PublishByWorker, Listening
  <1>11. CASE SendPuback  BY <1>11, TableKept DEF SendPuback, Listening
  <1>12. CASE ReadPipe  BY <1>12, TableKept DEF ReadPipe, Listening
  <1>13. CASE MQTTDisconnect  BY <1>13, TableKept DEF MQTTDisconnect, Listening
  <1>14. CASE net_disconnect
    BY <1>14 DEF net_disconnect, TableInv, NoTopicTwice, Resubscribed, Listening
  <1>15. CASE net_disconnect_exit
    BY <1>15 DEF net_disconnect_exit, ClearedHandlers, TableInv, NoTopicTwice,
                 Resubscribed, Listening
  <1> QED
    BY <1>1, <1>2, <1>3, <1>4, <1>5, <1>6, <1>7, <1>8, <1>9, <1>10, <1>11,
       <1>12, <1>13, <1>14, <1>15 DEF WorkerStep

LEMMA TableOthers == SessionInv /\ TableInv /\ (Others \/ Network) => TableInv'
  <1> SUFFICES ASSUME SessionInv, TableInv, Others \/ Network  PROVE TableInv'
    OBVIOUS
  <1> USE DEF connection, client, outside, aside, Listening,
              Selecting, Reselect
  <1>1. CASE \E p \in Publishers : MQTTPublish(p)
    BY <1>1, TableKept DEF MQTTPublish
  <1>2. CASE \E w \in OtherWriters : Write(w)  BY <1>2, TableKept DEF Write
  <1>3. CASE mqtt_stop  BY <1>3, TableKept DEF mqtt_stop
  <1>4. CASE mqtt_start  BY <1>4, TableKept DEF mqtt_start
  <1>5. CASE Started  BY <1>5, TableKept DEF Started
  <1>6. CASE \E i \in 1 .. Slots, exact \in BOOLEAN :
                paho_mqtt_unsubscribe(i, exact)
    <2>1. PICK i \in 1 .. Slots, exact \in BOOLEAN :
                paho_mqtt_unsubscribe(i, exact)
      BY <1>6
    <2>2. UNCHANGED <<wpc, idx, handlers>>  BY <2>1 DEF paho_mqtt_unsubscribe
    <2>3. CASE UNCHANGED <<clearing, subs, link>>  BY <2>2, <2>3, TableKept
    <2>4. CASE ~UNCHANGED <<clearing, subs, link>>
      <3>1. /\ clearing' = i /\ clearing = 0
            /\ subs' \in {subs, subs \ {handlers[i]}}
            /\ link' => link /\ handlers[i] # NONE
        BY <2>1, <2>4, Zenon DEF paho_mqtt_unsubscribe, Order
      <3>2. \A j \in 1 .. Slots :
               j # i /\ handlers[j] # NONE => handlers[j] # handlers[i]
        BY <2>1 DEF TableInv, NoTopicTwice, paho_mqtt_unsubscribe
      <3>3. NoTopicTwice'  BY <2>2 DEF TableInv, NoTopicTwice
      <3>4. \A j \in 1 .. Slots :
               /\ j # clearing' => j # clearing
               /\ j # clearing' /\ handlers[j] # NONE /\ handlers[j] \in subs
                     => handlers[j] \in subs'
        BY <3>1, <3>2
      <3> QED
        BY <2>2, <3>1, <3>3, <3>4 DEF TableInv, SubscribedBelow, Resubscribed
    <2> QED  BY <2>3, <2>4
  <1>7. CASE ClearHandler
    <2>1. /\ handlers' = [handlers EXCEPT ![clearing] = NONE] /\ clearing' = 0
          /\ UNCHANGED <<wpc, idx, subs, link>>
      BY <1>7 DEF ClearHandler
    <2>2. \A j \in 1 .. Slots :
             handlers'[j] # NONE => j # clearing /\ handlers'[j] = handlers[j]
      BY <2>1 DEF SessionInv
    <2>3. NoTopicTwice'  BY <2>1, <2>2 DEF TableInv, NoTopicTwice, SessionInv
    <2> QED
      BY <2>1, <2>2, <2>3 DEF TableInv, SubscribedBelow, Resubscribed
  <1>8. CASE LateWakeup  BY <1>8, TableKept DEF LateWakeup
  <1>9. CASE Drop  BY <1>9, TableKept DEF Drop
  <1>10. CASE Push  BY <1>10, TableKept DEF Push
  <1> QED
    BY <1>1, <1>2, <1>3, <1>4, <1>5, <1>6, <1>7, <1>8, <1>9, <1>10
       DEF Others, Network

LEMMA TableInvariant == Spec => []TableInv
  <1>1. SessionInv /\ TableInv /\ [Next]_vars => TableInv'
    <2>1. SessionInv /\ TableInv /\ UNCHANGED vars => TableInv'
      BY TableKept DEF vars, connection, aside, Listening
    <2> QED  BY <2>1, TableWorker, TableOthers DEF Next
  <1> QED  BY <1>1, TableInit, SessionInvariant, PTL DEF Spec

(***************************************************************************)
(* Once the worker serves a working connection the broker has every topic  *)
(* of the table, whatever was lost, refused, pushed or unsubscribed, but   *)
(* for the one the shell is about to clear.                                *)
(***************************************************************************)
THEOREM ResubscribedCorrect == Spec => []Resubscribed
  <1>1. TableInv => Resubscribed  BY DEF TableInv
  <1> QED  BY <1>1, TableInvariant, PTL

(***************************************************************************)
(* No topic is twice in the table, so a command runs its callback once.    *)
(***************************************************************************)
THEOREM NoTopicTwiceCorrect == Spec => []NoTopicTwice
  <1>1. TableInv => NoTopicTwice  BY DEF TableInv
  <1> QED  BY <1>1, TableInvariant, PTL

----------------------------------------------------------------------------
(* What a writer has still to put: cells of its own, the last ones of its  *)
(* current message or the command; nothing when it is in no write.         *)
RestOf(w) ==
    /\ wstate[w] \in {"checked", "writing"} <=> wrest[w] # <<>>
    /\ Len(wrest[w]) <= IF w = "shell" THEN 1 ELSE 2
    /\ \A j \in 1 .. Len(wrest[w]) :
          /\ wrest[w][j].from = w
          /\ w = "shell" => wrest[w][j].part = "cmd"
          /\ w # "shell" =>
                /\ wrest[w][j].n = count[w]
                /\ wrest[w][j].part = IF j = Len(wrest[w]) THEN "tail" ELSE "head"

WriterInv == \A w \in OtherWriters : RestOf(w)

HeadFrom(c, p) == c.part = "head" /\ c.from = p

(* All messages of a publisher that were sent are older than n.            *)
SentBefore(p, n) == \A i \in 1 .. Len(sent) : sent[i][1] = p => sent[i][2] < n

(* A message in the pipe, or one still to be put, is newer than those of   *)
(* its publisher that were sent.                                           *)
SentInv ==
    /\ SentInOrder
    /\ \A i \in 1 .. Len(sent) : sent[i][2] <= count[sent[i][1]]
    /\ \A p \in Publishers : \A j \in 1 .. Len(pipe) :
          HeadFrom(pipe[j], p) => pipe[j].n <= count[p] /\ SentBefore(p, pipe[j].n)
    /\ \A p \in Publishers : Len(wrest[p]) = 2 =>
          /\ SentBefore(p, count[p])
          /\ \A j \in 1 .. Len(pipe) : HeadFrom(pipe[j], p) => pipe[j].n < count[p]

(* As long as nothing was mixed the pipe begins with a whole record and    *)
(* every writer has a whole one.                                           *)
MixInv ==
    /\ JunkNeedsMixing
    /\ ~mixed =>
          /\ pipe = <<>> \/ IsDisconnect(pipe) \/ IsMessage(pipe)
          /\ \A p \in Publishers : wrest[p] = <<>> \/ Len(wrest[p]) = 2

(* Commands come from the shell; a session without a lost connection has   *)
(* one that works.                                                         *)
LinkInv ==
    /\ \A j \in 1 .. Len(pipe) : pipe[j].part = "cmd" => pipe[j].from = "shell"
    /\ faults <= MaxFaults
    /\ faults = MaxFaults /\ wpc \in InSession => link

----------------------------------------------------------------------------
(* Facts about the operators of MqttPipe.                                  *)
Cell == Cells(Writers, Nat)

(* A put appends the first t cells and keeps the others; either all of     *)
(* them fit or the pipe is full.                                           *)
LEMMA TakenFacts ==
    ASSUME NEW S, NEW q \in Seq(S), NEW d \in Seq(S), NEW room \in Nat,
           Len(q) <= room
    PROVE  /\ Taken(q, d, room) \in 0 .. Len(d)
           /\ Len(q) + Taken(q, d, room) <= room
           /\ Taken(q, d, room) = Len(d) \/ Len(q) + Taken(q, d, room) = room
  BY DEF Taken, Least

LEMMA PutFacts ==
    ASSUME NEW S, NEW q \in Seq(S), NEW d \in Seq(S), NEW room \in Nat,
           NEW t \in 0 .. Len(d), t = Taken(q, d, room)
    PROVE  /\ Put(q, d, room) \in Seq(S) /\ Len(Put(q, d, room)) = Len(q) + t
           /\ \A j \in 1 .. Len(q) : Put(q, d, room)[j] = q[j]
           /\ \A j \in 1 .. t : Put(q, d, room)[Len(q) + j] = d[j]
  <1> DEFINE a == SubSeq(d, 1, t)
  <1>1. a \in Seq(S) /\ Len(a) = t /\ \A j \in 1 .. t : a[j] = d[j]
    OBVIOUS
  <1>2. Put(q, d, room) = q \o a  BY DEF Put
  <1> HIDE DEF a
  <1>3. q \o a \in Seq(S) /\ Len(q \o a) = Len(q) + t  BY <1>1
  <1>4. \A j \in 1 .. Len(q) : (q \o a)[j] = q[j]  BY <1>1
  <1>5. ASSUME NEW j \in 1 .. t  PROVE (q \o a)[Len(q) + j] = d[j]
    <2>1. (q \o a)[Len(q) + j] = a[j]  BY <1>1
    <2> QED  BY <1>1, <2>1
  <1> QED  BY <1>2, <1>3, <1>4, <1>5

LEMMA RestFacts ==
    ASSUME NEW S, NEW q \in Seq(S), NEW d \in Seq(S), NEW room \in Nat,
           NEW t \in 0 .. Len(d), t = Taken(q, d, room)
    PROVE  /\ Rest(q, d, room) \in Seq(S) /\ Len(Rest(q, d, room)) = Len(d) - t
           /\ \A j \in 1 .. Len(d) - t : Rest(q, d, room)[j] = d[t + j]
           /\ Rest(q, d, room) = <<>> <=> t = Len(d)
  <1> DEFINE b == SubSeq(d, t + 1, Len(d))
  <1>1. b \in Seq(S) /\ Len(b) = Len(d) - t /\ \A j \in 1 .. Len(d) - t : b[j] = d[t + j]
    OBVIOUS
  <1>2. Rest(q, d, room) = b  BY DEF Rest
  <1> HIDE DEF b
  <1>3. b = <<>> <=> t = Len(d)  BY <1>1
  <1> QED  BY <1>1, <1>2, <1>3

LEMMA RecordType ==
    ASSUME NEW w \in Writers, NEW k \in Nat
    PROVE  /\ Record(w, k) \in Seq(Cell) /\ Len(Record(w, k)) = 2
           /\ \A j \in 1 .. 2 :
                 /\ Record(w, k)[j].from = w /\ Record(w, k)[j].n = k
                 /\ Record(w, k)[j].part = IF j = 2 THEN "tail" ELSE "head"
  BY DEF Record, Cell, Cells

LEMMA CommandType ==
    ASSUME NEW w \in Writers
    PROVE  /\ Disconnect(w) \in Seq(Cell) /\ Len(Disconnect(w)) = 1
           /\ Disconnect(w)[1].from = w /\ Disconnect(w)[1].part = "cmd"
  BY DEF Disconnect, Cell, Cells

----------------------------------------------------------------------------
(* Type correctness.                                                       *)
LEMMA ClientTypeInit == Init => TypeOK
  <1> SUFFICES ASSUME Init  PROVE TypeOK
    OBVIOUS
  <1> <<>> \in Seq(Packets) /\ <<>> \in Seq(Cells(Writers, Nat))
        /\ <<>> \in Seq(Publishers \X Nat)
    OBVIOUS
  <1>1. /\ handlers \in [1 .. Slots -> TopicSet \union {NONE}]
        /\ wstate \in [OtherWriters -> WriterState]
        /\ wrest \in [OtherWriters -> Seq(Cells(Writers, Nat))]
        /\ count \in [Publishers -> Nat]
    BY DEF Init, WriterState
  <1>2. Len(pipe) <= PipeRoom  BY ClientAssumption DEF Init
  <1>3. /\ workers \in 0 .. 2 /\ idx \in Nat /\ wpc \in WorkerPC
        /\ faults \in Nat /\ pushes \in Nat /\ orders \in Nat
        /\ clearing \in 0 .. Slots /\ devices \in Nat /\ unopened \in Nat
    BY ClientAssumption DEF Init, WorkerPC
  <1>4. accepted \subseteq Publishers \X Nat /\ subs \subseteq TopicSet
    BY DEF Init
  <1> QED  BY <1>1, <1>2, <1>3, <1>4 DEF Init, TypeOK

(* The part of the type invariant that puts into the pipe touch.           *)
PipeType ==
    /\ pipe \in Seq(Cells(Writers, Nat)) /\ Len(pipe) <= PipeRoom
    /\ mixed \in BOOLEAN

LEMMA PutType ==
    ASSUME TypeOK, NEW d \in Seq(Cells(Writers, Nat)), PutInto(d)
    PROVE  PipeType' /\ Rest(pipe, d, PipeRoom) \in Seq(Cells(Writers, Nat))
  <1>1. pipe \in Seq(Cells(Writers, Nat)) /\ Len(pipe) <= PipeRoom /\ mixed \in BOOLEAN
    BY DEF TypeOK
  <1>2. PipeRoom \in Nat  BY ClientAssumption
  <1>3. pipe' = Put(pipe, d, PipeRoom)  BY DEF PutInto
  <1>4. mixed' \in BOOLEAN  BY DEF PutInto
  <1>5. /\ Put(pipe, d, PipeRoom) \in Seq(Cells(Writers, Nat))
        /\ Len(Put(pipe, d, PipeRoom)) <= PipeRoom
        /\ Rest(pipe, d, PipeRoom) \in Seq(Cells(Writers, Nat))
    BY <1>1, <1>2, TakenFacts, PutFacts, RestFacts
  <1> QED  BY <1>3, <1>4, <1>5 DEF PipeType

LEMMA PublishType ==
    ASSUME TypeOK, NEW next \in WorkerPC, PublishByWorker(next)
    PROVE  PipeType' /\ wpc' \in WorkerPC
  <1>1. Record("worker", 0) \in Seq(Cells(Writers, Nat))
    BY RecordType DEF Writers, Cell
  <1>2. wpc' \in WorkerPC  BY DEF PublishByWorker, WorkerPC
  <1>3. PutInto(Record("worker", 0)) \/ UNCHANGED <<pipe, mixed>>
    BY DEF PublishByWorker
  <1>4. PipeType  BY DEF TypeOK, PipeType
  <1> QED  BY <1>1, <1>2, <1>3, <1>4, PutType DEF PipeType

LEMMA ClientTypeWorker ==
    ASSUME TypeOK, SessionInv, workers <= 1, WorkerStep
    PROVE  TypeOK'
  <1> USE DEF connection, writers, aside, bounds
  <1> <<>> \in Seq(Packets) /\ <<>> \in Seq(Cells(Writers, Nat)) /\ 0 <= PipeRoom
    BY ClientAssumption
  <1>0. inbox \in Seq(Packets) /\ idx \in Nat /\ workers \in 0 .. 1 /\ faults \in Nat
    BY DEF TypeOK
  <1>a. inbox # <<>> => Tail(inbox) \in Seq(Packets)  BY <1>0
  <1>b. ASSUME NEW c \in Packets  PROVE Append(inbox, c) \in Seq(Packets)
    BY <1>0
  <1>c. workers # 0 => workers - 1 \in 0 .. 2  BY <1>0
  <1>1. CASE mqtt_pipe_init
    <2>1. workers # 0  BY <1>1 DEF mqtt_pipe_init, SessionInv
    <2>2. /\ workers' \in {workers, workers - 1}
          /\ wpc' \in {"start", "dead"} /\ pipe' \in {<<>>, pipe}
      BY <1>1 DEF mqtt_pipe_init
    <2>6. workers' \in 0 .. 2  BY <1>0, <1>c, <2>1, <2>2
    <2>7. pipe_open' \in BOOLEAN
      <3>1. pipe_open' = TRUE \/ pipe_open' = pipe_open
        BY <1>1, Zenon DEF mqtt_pipe_init
      <3> QED  BY <3>1 DEF TypeOK
    <2>4. devices' \in Nat /\ unopened' \in Nat
      <3>1. devices \in Nat /\ unopened \in Nat  BY DEF TypeOK
      <3>2. devices' \in {devices, devices + 1} /\ unopened' \in {unopened, unopened + 1}
        BY <1>1 DEF mqtt_pipe_init
      <3> QED  BY <3>1, <3>2
    <2>3. pipe' \in Seq(Cells(Writers, Nat)) /\ Len(pipe') <= PipeRoom
      <3>1. pipe \in Seq(Cells(Writers, Nat)) /\ Len(pipe) <= PipeRoom  BY DEF TypeOK
      <3> QED  BY <2>2, <3>1
    <2>5. UNCHANGED <<is_started, isconnected, idx, handlers, connection, writers,
                      bounds, clearing, late, sent, merged, junk, mixed>>
      BY <1>1 DEF mqtt_pipe_init
    <2> QED  BY <2>2, <2>3, <2>4, <2>5, <2>6, <2>7 DEF TypeOK, WorkerPC
  <1>2. CASE net_connect
    <2>1. faults' \in Nat  BY <1>0, <1>2 DEF net_connect
    <2>2. sock' \in BOOLEAN /\ link' \in BOOLEAN  BY <1>2, Zenon DEF net_connect
    <2>3. wpc' \in {"connect", "restart"}  BY <1>2 DEF net_connect
    <2> QED  BY <1>2, <2>1, <2>2, <2>3 DEF net_connect, TypeOK, WorkerPC
  <1>3. CASE MQTTConnect
    <2>1. wpc' \in {"restart", "resub"} /\ idx' = 1
      BY <1>3 DEF MQTTConnect
    <2>2. isconnected' = isconnected \/ isconnected' = TRUE
      BY <1>3, Zenon DEF MQTTConnect
    <2>3. isconnected' \in BOOLEAN  BY <2>2 DEF TypeOK
    <2>4. UNCHANGED <<is_started, workers, handlers, pipe_open, pipe, connection,
                      writers, bounds, aside, mixed>>
      BY <1>3 DEF MQTTConnect
    <2> QED  BY <2>1, <2>3, <2>4 DEF TypeOK, WorkerPC
  <1>4. CASE MQTTSubscribe
    <2>1. wpc' \in {"online", "resub", "suback", "disconnect"} /\ idx' \in Nat
      BY <1>0, <1>4 DEF MQTTSubscribe
    <2>2. \/ UNCHANGED <<subs, inbox>>
          \/ /\ idx <= Slots /\ handlers[idx] # NONE
             /\ subs' = subs \union {handlers[idx]} /\ inbox' = Append(inbox, "ACK")
      BY <1>4 DEF MQTTSubscribe, LastSlot
    <2>3. idx <= Slots /\ handlers[idx] # NONE => handlers[idx] \in TopicSet
      BY ClientAssumption DEF SessionInv
    <2>4. Append(inbox, "ACK") \in Seq(Packets)  BY <1>b DEF Packets
    <2>5. subs' \subseteq TopicSet /\ inbox' \in Seq(Packets)
      <3>1. subs \subseteq TopicSet  BY DEF TypeOK
      <3> QED  BY <1>0, <2>2, <2>3, <2>4, <3>1
    <2>6. /\ UNCHANGED <<sock, link>>
          /\ UNCHANGED <<is_started, workers, isconnected, handlers, pipe_open, pipe,
                         writers, bounds, aside, mixed>>
      BY <1>4 DEF MQTTSubscribe
    <2> QED  BY <2>1, <2>5, <2>6 DEF TypeOK, WorkerPC
  <1>5. CASE WaitSuback
    <2>1. wpc' \in {"resub", "disconnect"} /\ idx' \in Nat /\ inbox' \in Seq(Packets)
      BY <1>0, <1>a, <1>5 DEF WaitSuback
    <2> QED  BY <1>5, <2>1 DEF WaitSuback, TypeOK, WorkerPC
  <1>6. CASE paho_mqtt_subscribe
    <2>0. wpc' \in {"online", "sync"} /\ idx' \in Nat
      BY <1>0, <1>6 DEF paho_mqtt_subscribe
    <2>1. /\ UNCHANGED <<sock, link>>
          /\ isconnected' = isconnected \/ isconnected' = FALSE
      BY <1>6, Zenon DEF paho_mqtt_subscribe
    <2>2. Topics[idx] \in TopicSet
      BY <1>6 DEF paho_mqtt_subscribe, TopicSet, Topics, SessionInv
    <2>3. \/ UNCHANGED <<subs, inbox>>
          \/ subs' = subs \union {Topics[idx]} /\ inbox' = Append(inbox, "ACK")
      BY <1>6, Zenon DEF paho_mqtt_subscribe
    <2>4. Append(inbox, "ACK") \in Seq(Packets)  BY <1>b DEF Packets
    <2>5. subs' \subseteq TopicSet /\ inbox' \in Seq(Packets)
      <3>1. subs \subseteq TopicSet  BY DEF TypeOK
      <3> QED  BY <1>0, <2>2, <2>3, <2>4, <3>1
    <2>6. \/ UNCHANGED handlers
          \/ \E i \in 1 .. Slots : handlers' = [handlers EXCEPT ![i] = Topics[idx]]
      BY <1>6, Zenon DEF paho_mqtt_subscribe
    <2>7. handlers' \in [1 .. Slots -> TopicSet \union {NONE}]
      BY <2>2, <2>6 DEF SessionInv
    <2>8. isconnected' \in BOOLEAN  BY <2>1 DEF TypeOK
    <2>9. UNCHANGED <<sock, link, is_started, workers, pipe_open, pipe, writers,
                      bounds, aside, mixed>>
      BY <1>6, <2>1 DEF paho_mqtt_subscribe
    <2> QED  BY <2>0, <2>5, <2>7, <2>8, <2>9 DEF TypeOK, WorkerPC
  <1>7. CASE Publish_Sync_Request
    <2>1. PipeType' /\ wpc' \in WorkerPC
      BY <1>7, PublishType DEF Publish_Sync_Request, WorkerPC
    <2> QED  BY <1>7, <2>1 DEF Publish_Sync_Request, TypeOK, PipeType
  <1>8. CASE MQTT_cycle
    <2>1. /\ wpc' \in {"respond", "puback", "disconnect"} \union Reselect
          /\ inbox' \in Seq(Packets)
      BY <1>a, <1>8 DEF MQTT_cycle
    <2> QED  BY <1>8, <2>1 DEF MQTT_cycle, Reselect, TypeOK, WorkerPC
  <1>9. CASE LinkDead  BY <1>9 DEF LinkDead, TypeOK, WorkerPC
  <1>10. CASE Respond
    <2>1. PipeType' /\ wpc' \in WorkerPC
      BY <1>10, PublishType DEF Respond, WorkerPC
    <2> QED  BY <1>10, <2>1 DEF Respond, TypeOK, PipeType
  <1>11. CASE SendPuback  BY <1>11 DEF SendPuback, Reselect, TypeOK, WorkerPC
  <1>12. CASE ReadPipe
    <2>1. /\ wpc' \in {"select", "asleep", "disconnect", "exit"} /\ pipe' = <<>>
          /\ junk' \in {junk, TRUE} /\ late' \in {late, TRUE}
      BY <1>12 DEF ReadPipe, Reselect, LeftAfterRead
    <2>2. sent' \in Seq(Publishers \X Nat)
      <3>1. sent \in Seq(Publishers \X Nat) /\ pipe \in Seq(Cells(Writers, Nat))
        BY DEF TypeOK
      <3>2. pipe # <<>> => pipe[1] \in Cells(Writers, Nat)  BY <3>1
      <3>3. \/ sent' = sent
            \/ /\ pipe # <<>> /\ pipe[1].from \in Publishers
               /\ sent' = Append(sent, <<pipe[1].from, pipe[1].n>>)
        BY <1>12 DEF ReadPipe
      <3>4. pipe # <<>> /\ pipe[1].from \in Publishers =>
               <<pipe[1].from, pipe[1].n>> \in Publishers \X Nat
        BY <3>2 DEF Cells
      <3>5. CASE sent' = sent  BY <3>1, <3>5
      <3>6. CASE sent' # sent
        <4> DEFINE m == <<pipe[1].from, pipe[1].n>>
        <4>1. m \in Publishers \X Nat /\ sent' = Append(sent, m)  BY <3>3, <3>4, <3>6
        <4> HIDE DEF m
        <4> QED  BY <3>1, <4>1
      <3> QED  BY <3>5, <3>6
    <2>3. merged' \in BOOLEAN  BY <1>12 DEF ReadPipe, TypeOK, IsMerged
    <2>4. UNCHANGED <<is_started, workers, isconnected, idx, handlers, pipe_open,
                      connection, writers, bounds, clearing, devices, unopened, mixed>>
      BY <1>12 DEF ReadPipe
    <2>5. wpc' \in WorkerPC /\ junk' \in BOOLEAN /\ late' \in BOOLEAN
      BY <2>1 DEF TypeOK, WorkerPC
    <2> QED  BY <2>1, <2>2, <2>3, <2>4, <2>5 DEF TypeOK
  <1>13. CASE MQTTDisconnect
    BY <1>13 DEF MQTTDisconnect, DisconnectedFlag, TypeOK, WorkerPC
  <1>14. CASE net_disconnect  BY <1>14 DEF net_disconnect, TypeOK, WorkerPC
  <1>15. CASE net_disconnect_exit
    <2>1. workers' \in 0 .. 2
      BY <1>15, <1>c DEF net_disconnect_exit, SessionInv
    <2>2. handlers' \in [1 .. Slots -> TopicSet \union {NONE}]
      BY <1>15 DEF net_disconnect_exit, ClearedHandlers, DeviceDeleted
    <2>3. wstate' \in [OtherWriters -> WriterState]
      BY <1>15 DEF net_disconnect_exit, TypeOK, WriterState
    <2>4. wrest' \in [OtherWriters -> Seq(Cells(Writers, Nat))]
      <3>1. wrest \in [OtherWriters -> Seq(Cells(Writers, Nat))]  BY DEF TypeOK
      <3> QED  BY <1>15, <3>1 DEF net_disconnect_exit
    <2>5. devices' \in Nat
      BY <1>15 DEF net_disconnect_exit, DeviceDeleted, SessionInv
    <2> QED
      BY <1>15, <2>1, <2>2, <2>3, <2>4, <2>5
         DEF net_disconnect_exit, TypeOK, WorkerPC
  <1> QED
    BY <1>1, <1>2, <1>3, <1>4, <1>5, <1>6, <1>7, <1>8, <1>9, <1>10, <1>11,
       <1>12, <1>13, <1>14, <1>15 DEF WorkerStep

LEMMA ClientTypeOthers ==
    ASSUME TypeOK, workers <= 1, Others \/ Network
    PROVE  TypeOK'
  <1> USE DEF connection, writers, aside, bounds, client, outside
  <1> <<>> \in Seq(Packets) /\ <<>> \in Seq(Cells(Writers, Nat))
    OBVIOUS
  <1>0. /\ inbox \in Seq(Packets) /\ workers \in 0 .. 1
        /\ faults \in Nat /\ pushes \in Nat /\ orders \in Nat
    BY DEF TypeOK
  <1>a. /\ wstate \in [OtherWriters -> WriterState]
        /\ wrest \in [OtherWriters -> Seq(Cells(Writers, Nat))]
        /\ count \in [Publishers -> Nat] /\ accepted \subseteq Publishers \X Nat
    BY DEF TypeOK
  <1>b. ASSUME NEW c \in Packets  PROVE Append(inbox, c) \in Seq(Packets)
    BY <1>0
  <1>1. ASSUME NEW p \in Publishers, MQTTPublish(p)  PROVE TypeOK'
    <2>1. count' \in [Publishers -> Nat]  BY <1>a, <1>1 DEF MQTTPublish
    <2>2. wstate' \in [OtherWriters -> WriterState]
      BY <1>a, <1>1 DEF MQTTPublish, WriterState
    <2>3. wrest' \in [OtherWriters -> Seq(Cells(Writers, Nat))]
      <3>1. count[p] + 1 \in Nat /\ p \in Writers  BY <1>a DEF Writers
      <3>2. Record(p, count[p] + 1) \in Seq(Cells(Writers, Nat))
        BY <3>1, RecordType DEF Cell
      <3>3. wrest' = wrest \/ wrest' = [wrest EXCEPT ![p] = Record(p, count[p] + 1)]
        BY <1>1 DEF MQTTPublish
      <3> QED  BY <1>a, <3>2, <3>3
    <2>4. UNCHANGED <<client, pipe, outside, orders, accepted, mixed>>
      BY <1>1 DEF MQTTPublish
    <2> QED  BY <2>1, <2>2, <2>3, <2>4 DEF TypeOK
  <1>2. ASSUME NEW w \in OtherWriters, Write(w)  PROVE TypeOK'
    <2>1. UNCHANGED <<client, outside, orders, count>>  BY <1>2 DEF Write
    <2>2. wrest[w] \in Seq(Cells(Writers, Nat))  BY <1>a
    <2>3. CASE ~pipe_open
      <3>1. /\ wstate' = [wstate EXCEPT ![w] = "idle"]
            /\ wrest' = [wrest EXCEPT ![w] = <<>>]
            /\ UNCHANGED <<pipe, accepted, mixed>>
        BY <1>2, <2>3 DEF Write
      <3>2. wstate' \in [OtherWriters -> WriterState]  BY <1>a, <3>1 DEF WriterState
      <3>3. wrest' \in [OtherWriters -> Seq(Cells(Writers, Nat))]  BY <1>a, <3>1
      <3> QED  BY <2>1, <3>1, <3>2, <3>3 DEF TypeOK
    <2>4. CASE pipe_open
      <3> DEFINE left == Rest(pipe, wrest[w], PipeRoom)
      <3>1. /\ PutInto(wrest[w])
            /\ wrest' = [wrest EXCEPT ![w] = left]
            /\ wstate' = [wstate EXCEPT ![w] = IF left = <<>> THEN "idle" ELSE "writing"]
            /\ accepted' = IF left = <<>> /\ w \in Publishers
                           THEN accepted \union {<<w, count[w]>>} ELSE accepted
        BY <1>2, <2>4 DEF Write
      <3>2. PipeType' /\ left \in Seq(Cells(Writers, Nat))
        BY <2>2, <3>1, PutType
      <3> HIDE DEF left
      <3>3. wstate' \in [OtherWriters -> WriterState]  BY <1>a, <3>1 DEF WriterState
      <3>4. wrest' \in [OtherWriters -> Seq(Cells(Writers, Nat))]  BY <1>a, <3>1, <3>2
      <3>5. accepted' \subseteq Publishers \X Nat  BY <1>a, <3>1
      <3> QED  BY <2>1, <3>2, <3>3, <3>4, <3>5 DEF TypeOK, PipeType
    <2> QED  BY <2>3, <2>4
  <1>3. CASE mqtt_stop
    <2>1. orders' \in Nat  BY <1>0, <1>3 DEF mqtt_stop, Order
    <2>2. Disconnect("shell") \in Seq(Cells(Writers, Nat))
      BY CommandType DEF Writers, Cell
    <2>3. wstate' \in [OtherWriters -> WriterState]
      BY <1>a, <1>3 DEF mqtt_stop, WriterState
    <2>4. wrest' = wrest \/ wrest' = [wrest EXCEPT !["shell"] = Disconnect("shell")]
      BY <1>3 DEF mqtt_stop
    <2>5. wrest' \in [OtherWriters -> Seq(Cells(Writers, Nat))]
      BY <1>a, <2>2, <2>4
    <2>6. /\ is_started' = FALSE
          /\ UNCHANGED <<workers, isconnected, wpc, idx, handlers, pipe_open, pipe,
                         outside, count, accepted, mixed>>
      BY <1>3 DEF mqtt_stop
    <2> QED  BY <2>1, <2>3, <2>5, <2>6 DEF TypeOK
  <1>4. CASE mqtt_start
    <2>1. orders' \in Nat  BY <1>0, <1>4 DEF mqtt_start, Order
    <2>2. workers' \in 0 .. 2 /\ wpc' \in {wpc, "pipe"}
      BY <1>0, <1>4 DEF mqtt_start
    <2>3. wstate' \in [OtherWriters -> WriterState]
      BY <1>a, <1>4 DEF mqtt_start, WriterState
    <2>4. /\ isconnected' = FALSE
          /\ UNCHANGED <<is_started, idx, handlers, pipe_open, pipe, outside, wrest,
                         count, accepted, mixed>>
      BY <1>4 DEF mqtt_start
    <2>5. wpc' \in WorkerPC  BY <2>2 DEF TypeOK, WorkerPC
    <2> QED  BY <2>1, <2>2, <2>3, <2>4, <2>5 DEF TypeOK
  <1>5. CASE Started
    <2>1. wstate' \in [OtherWriters -> WriterState]
      BY <1>a, <1>5 DEF Started, WriterState
    <2>2. /\ is_started' = TRUE
          /\ UNCHANGED <<workers, isconnected, wpc, idx, handlers, pipe_open, pipe,
                         outside, orders, wrest, count, accepted, mixed>>
      BY <1>5 DEF Started
    <2> QED  BY <2>1, <2>2 DEF TypeOK
  <1>6. ASSUME NEW i \in 1 .. Slots, NEW exact \in BOOLEAN,
               paho_mqtt_unsubscribe(i, exact)
        PROVE  TypeOK'
    <2>1. orders' \in Nat  BY <1>0, <1>6 DEF paho_mqtt_unsubscribe, Order
    <2>2. /\ clearing' \in {clearing, i}
          /\ subs' \subseteq subs
          /\ inbox' \in {inbox, Append(inbox, "UNSUBACK")}
      BY <1>6 DEF paho_mqtt_unsubscribe
    <2>3. clearing' \in 0 .. Slots
      BY <2>2, ClientAssumption DEF TypeOK
    <2>4. inbox' \in Seq(Packets)  BY <1>0, <1>b, <2>2 DEF Packets
    <2>5. isconnected' = isconnected \/ isconnected' = FALSE
      BY <1>6, Zenon DEF paho_mqtt_unsubscribe
    <2>6. link' \in BOOLEAN
      <3>1. link' = (link /\ wpc # "connect") \/ link' = link
        BY <1>6, Zenon DEF paho_mqtt_unsubscribe
      <3> QED  BY <3>1 DEF TypeOK
    <2>7. isconnected' \in BOOLEAN  BY <2>5 DEF TypeOK
    <2>8. subs' \subseteq TopicSet  BY <2>2 DEF TypeOK
    <2>9. UNCHANGED <<is_started, workers, wpc, idx, handlers, pipe_open, pipe,
                      sock, faults, pushes, late, devices, unopened, sent, merged,
                      junk, writers, mixed>>
      BY <1>6 DEF paho_mqtt_unsubscribe
    <2> QED  BY <2>1, <2>3, <2>4, <2>6, <2>7, <2>8, <2>9 DEF TypeOK
  <1>7. CASE Drop
    <2>1. faults' \in Nat  BY <1>0, <1>7 DEF Drop
    <2>2. inbox' = inbox \/ inbox' = <<>> \/ inbox' = Append(inbox, "FIN")
      BY <1>7 DEF Drop
    <2>3. Append(inbox, "FIN") \in Seq(Packets)  BY <1>b DEF Packets
    <2>4. inbox' \in Seq(Packets)  BY <1>0, <2>2, <2>3
    <2> QED  BY <1>7, <2>1, <2>4 DEF Drop, TypeOK
  <1>8. CASE Push
    <2>1. pushes' \in Nat  BY <1>0, <1>8 DEF Push
    <2>2. \E t \in subs : inbox' = Append(inbox, t)  BY <1>8 DEF Push
    <2>3. inbox' \in Seq(Packets)  BY <1>b, <2>2 DEF TypeOK, Packets
    <2> QED  BY <1>8, <2>1, <2>3 DEF Push, TypeOK
  <1>9. CASE ClearHandler
    <2>1. handlers' \in [1 .. Slots -> TopicSet \union {NONE}]
      BY <1>9 DEF ClearHandler, TypeOK
    <2>2. clearing' \in 0 .. Slots  BY <1>9, ClientAssumption DEF ClearHandler
    <2> QED  BY <1>9, <2>1, <2>2 DEF ClearHandler, TypeOK
  <1>10. CASE LateWakeup
    BY <1>10 DEF LateWakeup, TypeOK, WorkerPC
  <1> QED
    BY <1>1, <1>2, <1>3, <1>4, <1>5, <1>6, <1>7, <1>8, <1>9, <1>10
       DEF Others, Network

LEMMA ClientTypeStep == TypeOK /\ SessionInv /\ [Next]_vars => TypeOK'
  <1>1. TypeOK /\ UNCHANGED vars => TypeOK'
    BY DEF vars, connection, writers, aside, bounds, TypeOK
  <1> QED  BY <1>1, ClientTypeWorker, ClientTypeOthers DEF Next

(***************************************************************************)
(* Every variable of the client keeps its type, and however many threads   *)
(* write into the pipe and however their writes are cut, it never holds    *)
(* more than its room.                                                     *)
(***************************************************************************)
THEOREM ClientTypeCorrect == Spec => []TypeOK
  BY ClientTypeInit, ClientTypeStep, SessionInvariant, PTL DEF Spec

----------------------------------------------------------------------------
(* What the writers hold.                                                  *)
LEMMA WriterInit == Init => WriterInv
  BY DEF Init, WriterInv, RestOf

(* Of the worker's steps only its end touches the writers.                 *)
LEMMA WorkerLeavesWriters ==
    ASSUME WorkerStep, ~net_disconnect_exit
    PROVE  UNCHANGED writers
  BY DEF WorkerStep, writers, mqtt_pipe_init, net_connect, MQTTConnect,
         MQTTSubscribe, WaitSuback, paho_mqtt_subscribe, Publish_Sync_Request,
         MQTT_cycle, LinkDead, Respond, SendPuback, ReadPipe, MQTTDisconnect,
         net_disconnect

(* What a put of d does to the pipe and leaves of d.                       *)
LEMMA PutAndRest ==
    ASSUME TypeOK, NEW d \in Seq(Cells(Writers, Nat)), NEW t,
           t = Taken(pipe, d, PipeRoom)
    PROVE  /\ t \in 0 .. Len(d) /\ Len(pipe) + t <= PipeRoom
           /\ t = Len(d) \/ Len(pipe) + t = PipeRoom
           /\ Len(Put(pipe, d, PipeRoom)) = Len(pipe) + t
           /\ \A j \in 1 .. Len(pipe) : Put(pipe, d, PipeRoom)[j] = pipe[j]
           /\ \A j \in 1 .. t : Put(pipe, d, PipeRoom)[Len(pipe) + j] = d[j]
           /\ Len(Rest(pipe, d, PipeRoom)) = Len(d) - t
           /\ \A j \in 1 .. Len(d) - t : Rest(pipe, d, PipeRoom)[j] = d[t + j]
           /\ Rest(pipe, d, PipeRoom) = <<>> <=> t = Len(d)
  <1>1. pipe \in Seq(Cells(Writers, Nat)) /\ Len(pipe) <= PipeRoom
    BY DEF TypeOK
  <1>2. PICK room \in Nat : room = PipeRoom  BY ClientAssumption
  <1>3. PICK S : S = Cells(Writers, Nat)  OBVIOUS
  <1>4. PICK q \in Seq(S) : q = pipe  BY <1>1, <1>3
  <1>5. t = Taken(q, d, room) /\ Len(q) <= room /\ d \in Seq(S)
    BY <1>1, <1>2, <1>3, <1>4
  <1>6. /\ t \in 0 .. Len(d) /\ Len(q) + t <= room
        /\ t = Len(d) \/ Len(q) + t = room
    BY <1>5, TakenFacts
  <1>7. /\ Len(Put(q, d, room)) = Len(q) + t
        /\ \A j \in 1 .. Len(q) : Put(q, d, room)[j] = q[j]
        /\ \A j \in 1 .. t : Put(q, d, room)[Len(q) + j] = d[j]
    BY <1>5, <1>6, PutFacts
  <1>8. Len(Rest(q, d, room)) = Len(d) - t  BY <1>5, <1>6, RestFacts
  <1>9. Rest(q, d, room) = <<>> <=> t = Len(d)  BY <1>5, <1>6, RestFacts
  <1>10. \A j \in 1 .. Len(d) - t : Rest(q, d, room)[j] = d[t + j]
    BY <1>5, <1>6 DEF Rest
  <1> QED  BY <1>2, <1>4, <1>6, <1>7, <1>8, <1>9, <1>10

LEMMA WriterStep == TypeOK /\ WriterInv /\ [Next]_vars => WriterInv'
  <1> SUFFICES ASSUME TypeOK, WriterInv, [Next]_vars, NEW v \in OtherWriters
               PROVE  RestOf(v)'
    BY DEF WriterInv
  <1> USE DEF writers
  <1>0. RestOf(v)  BY DEF WriterInv
  <1>a. /\ wstate \in [OtherWriters -> WriterState]
        /\ wrest \in [OtherWriters -> Seq(Cells(Writers, Nat))]
        /\ count \in [Publishers -> Nat]
    BY DEF TypeOK
  <1>b. v # "shell" => v \in Publishers  BY DEF OtherWriters
  <1>c. "shell" \in OtherWriters /\ "shell" \notin Publishers
    BY ClientAssumption DEF OtherWriters
  <1>1. ASSUME UNCHANGED <<wstate, wrest, count>>  PROVE RestOf(v)'
    BY <1>0, <1>1 DEF RestOf
  <1>2. CASE net_disconnect_exit
    <2>1. \/ wstate'[v] = wstate[v] /\ wrest'[v] = wrest[v]
          \/ wstate'[v] \in {"idle", "lost"} /\ wrest'[v] = <<>>
      BY <1>2 DEF net_disconnect_exit
    <2>2. UNCHANGED count  BY <1>2 DEF net_disconnect_exit
    <2> QED  BY <1>0, <2>1, <2>2 DEF RestOf
  <1>3. ASSUME NEW p \in Publishers, MQTTPublish(p)  PROVE RestOf(v)'
    <2>1. /\ wstate[p] = "idle" /\ count' = [count EXCEPT ![p] = @ + 1]
          /\ \/ UNCHANGED <<wstate, wrest>>
             \/ /\ wstate' = [wstate EXCEPT ![p] = "checked"]
                /\ wrest' = [wrest EXCEPT ![p] = Record(p, count[p] + 1)]
      BY <1>3 DEF MQTTPublish
    <2>2. CASE v # p
      <3>1. wstate'[v] = wstate[v] /\ wrest'[v] = wrest[v]  BY <1>a, <2>1, <2>2
      <3>2. v # "shell" => count'[v] = count[v]  BY <1>a, <1>b, <2>1, <2>2
      <3> QED  BY <1>0, <3>1, <3>2 DEF RestOf
    <2>3. CASE v = p
      <3>1. v # "shell"  BY <1>c, <2>3
      <3>2. CASE UNCHANGED <<wstate, wrest>>
        <4>1. wrest[v] = <<>>  BY <1>0, <2>1, <2>3 DEF RestOf
        <4> QED  BY <2>1, <2>3, <3>2, <4>1 DEF RestOf
      <3>3. CASE /\ wstate' = [wstate EXCEPT ![p] = "checked"]
                 /\ wrest' = [wrest EXCEPT ![p] = Record(p, count[p] + 1)]
        <4>1. count[p] + 1 \in Nat /\ p \in Writers  BY <1>a DEF Writers
        <4>2. wstate'[v] = "checked" /\ wrest'[v] = Record(v, count'[v])
                /\ count'[v] = count[v] + 1
          BY <1>a, <2>1, <2>3, <3>3 DEF OtherWriters
        <4>3. /\ Len(wrest'[v]) = 2 /\ wrest'[v] # <<>>
              /\ \A j \in 1 .. 2 :
                    /\ wrest'[v][j].from = v /\ wrest'[v][j].n = count'[v]
                    /\ wrest'[v][j].part = IF j = 2 THEN "tail" ELSE "head"
          <5>1. Record(v, count'[v]) # <<>>  BY DEF Record
          <5> QED  BY <2>3, <4>1, <4>2, <5>1, RecordType
        <4>4. ASSUME NEW j \in 1 .. Len(wrest'[v])
              PROVE  /\ wrest'[v][j].from = v /\ wrest'[v][j].n = count'[v]
                     /\ wrest'[v][j].part = IF j = Len(wrest'[v]) THEN "tail" ELSE "head"
          BY <4>3
        <4>5. Len(wrest'[v]) <= 2  BY <4>3
        <4> QED  BY <3>1, <4>2, <4>3, <4>4, <4>5, Zenon DEF RestOf
      <3> QED  BY <2>1, <3>2, <3>3
    <2> QED  BY <2>2, <2>3
  <1>4. ASSUME NEW w \in OtherWriters, Write(w)  PROVE RestOf(v)'
    <2>1. UNCHANGED count  BY <1>4 DEF Write
    <2>2. CASE v # w
      <3>1. wstate'[v] = wstate[v] /\ wrest'[v] = wrest[v]
        BY <1>a, <1>4, <2>2 DEF Write
      <3> QED  BY <1>0, <2>1, <3>1 DEF RestOf
    <2>3. CASE v = w /\ ~pipe_open
      <3>1. wstate'[v] = "idle" /\ wrest'[v] = <<>>
        BY <1>a, <1>4, <2>3 DEF Write
      <3> QED  BY <3>1 DEF RestOf
    <2>4. CASE v = w /\ pipe_open
      <3>1. PICK left : left = Rest(pipe, wrest[v], PipeRoom)  OBVIOUS
      <3>2. wrest'[v] = left /\ wstate'[v] = IF left = <<>> THEN "idle" ELSE "writing"
        BY <1>a, <1>4, <2>4, <3>1 DEF Write
      <3>3. PICK t : t = Taken(pipe, wrest[v], PipeRoom)  OBVIOUS
      <3>4. /\ t \in 0 .. Len(wrest[v])
            /\ Len(left) = Len(wrest[v]) - t
            /\ \A j \in 1 .. Len(wrest[v]) - t : left[j] = wrest[v][t + j]
        <4>1. PICK d \in Seq(Cells(Writers, Nat)) : d = wrest[v]  BY <1>a
        <4>2. t = Taken(pipe, d, PipeRoom) /\ left = Rest(pipe, d, PipeRoom)
          BY <3>1, <3>3, <4>1
        <4>3. /\ t \in 0 .. Len(d) /\ Len(left) = Len(d) - t
              /\ \A j \in 1 .. Len(d) - t : left[j] = d[t + j]
          BY <4>2, PutAndRest
        <4> QED  BY <4>1, <4>3
      <3>5. Len(wrest[v]) \in Nat /\ Len(wrest[v]) <= IF v = "shell" THEN 1 ELSE 2
        BY <1>0, <1>a DEF RestOf
      <3>6. Len(left) <= IF v = "shell" THEN 1 ELSE 2  BY <3>4, <3>5
      <3>7. ASSUME NEW j \in 1 .. Len(left)
            PROVE  /\ left[j].from = v
                   /\ v = "shell" => left[j].part = "cmd"
                   /\ v # "shell" =>
                         /\ left[j].n = count[v]
                         /\ left[j].part = IF j = Len(left) THEN "tail" ELSE "head"
        <4>1. PICK k : k = t + j  OBVIOUS
        <4>2. /\ k \in 1 .. Len(wrest[v]) /\ left[j] = wrest[v][k]
              /\ k = Len(wrest[v]) <=> j = Len(left)
          BY <3>4, <3>5, <4>1
        <4> QED  BY <1>0, <4>2 DEF RestOf
      <3> QED  BY <2>1, <3>2, <3>6, <3>7 DEF RestOf
    <2> QED  BY <2>2, <2>3, <2>4
  <1>5. CASE mqtt_stop
    <2>1. /\ UNCHANGED count /\ wstate["shell"] = "idle"
          /\ \/ UNCHANGED <<wstate, wrest>>
             \/ /\ wstate' = [wstate EXCEPT !["shell"] = "checked"]
                /\ wrest' = [wrest EXCEPT !["shell"] = Disconnect("shell")]
      BY <1>5 DEF mqtt_stop, Order
    <2>2. CASE v # "shell"
      BY <1>0, <1>a, <2>1, <2>2 DEF RestOf
    <2>3. CASE v = "shell" /\ ~UNCHANGED <<wstate, wrest>>
      <3>1. wstate'[v] = "checked" /\ wrest'[v] = Disconnect("shell")
        BY <1>a, <2>1, <2>3
      <3>2. Disconnect("shell") # <<>>  BY DEF Disconnect
      <3>3. "shell" \in Writers  BY DEF Writers
      <3>4. Len(wrest'[v]) = 1 /\ wrest'[v][1].from = v /\ wrest'[v][1].part = "cmd"
        BY <2>3, <3>1, <3>3, CommandType
      <3>5. ASSUME NEW j \in 1 .. Len(wrest'[v])
            PROVE  wrest'[v][j].from = v /\ wrest'[v][j].part = "cmd"
        <4>1. j = 1  BY <3>4
        <4> QED  BY <3>4, <4>1
      <3>6. wrest'[v] # <<>>  BY <3>1, <3>2
      <3> QED  BY <2>3, <3>1, <3>4, <3>5, <3>6 DEF RestOf
    <2> QED  BY <1>1, <2>1, <2>2, <2>3
  <1>6. CASE mqtt_start \/ Started
    <2>1. /\ UNCHANGED <<count, wrest>> /\ wstate["shell"] \in {"idle", "starting"}
          /\ \/ UNCHANGED wstate
             \/ wstate' = [wstate EXCEPT !["shell"] = "starting"]
             \/ wstate' = [wstate EXCEPT !["shell"] = "idle"]
      BY <1>6 DEF mqtt_start, Started, Order
    <2> QED  BY <1>0, <1>a, <2>1 DEF RestOf
  <1>7. CASE \E i \in 1 .. Slots, exact \in BOOLEAN : paho_mqtt_unsubscribe(i, exact)
    BY <1>1, <1>7 DEF paho_mqtt_unsubscribe
  <1>8. CASE Drop \/ Push
    BY <1>1, <1>8 DEF Drop, Push
  <1>9. CASE WorkerStep /\ ~net_disconnect_exit
    BY <1>1, <1>9, WorkerLeavesWriters
  <1>10. CASE UNCHANGED vars  BY <1>1, <1>10 DEF vars
  <1>11. CASE LateWakeup \/ ClearHandler
    BY <1>1, <1>11 DEF LateWakeup, ClearHandler
  <1> QED
    BY <1>2, <1>3, <1>4, <1>5, <1>6, <1>7, <1>8, <1>9, <1>10, <1>11
       DEF Next, Others, Network

LEMMA WriterInvariant == Spec => []WriterInv
  BY WriterInit, WriterStep, ClientTypeCorrect, PTL DEF Spec

(* A put into the pipe as a relation between old and new pipe: it keeps    *)
(* what is there and appends t cells of d.                                 *)
Appended(d, t) ==
    /\ t \in 0 .. Len(d) /\ Len(pipe) + t <= PipeRoom
    /\ t = Len(d) \/ Len(pipe) + t = PipeRoom
    /\ Len(pipe') = Len(pipe) + t
    /\ \A j \in 1 .. Len(pipe) : pipe'[j] = pipe[j]
    /\ \A j \in 1 .. t : pipe'[Len(pipe) + j] = d[j]

LEMMA PutAppends ==
    ASSUME TypeOK, NEW d \in Seq(Cells(Writers, Nat)), NEW t,
           t = Taken(pipe, d, PipeRoom), PutInto(d)
    PROVE  /\ Appended(d, t)
           /\ Rest(pipe, d, PipeRoom) = <<>> <=> t = Len(d)
           /\ mixed' = (mixed \/ t # Len(d)
                          \/ (pipe # <<>> /\ \E i \in 1 .. Len(pipe \o d) :
                                                 (pipe \o d)[i].part = "cmd"))
  <1>1. pipe' = Put(pipe, d, PipeRoom)  BY DEF PutInto
  <1>2. Appended(d, t)
    <2>1. /\ t \in 0 .. Len(d) /\ Len(pipe) + t <= PipeRoom
          /\ t = Len(d) \/ Len(pipe) + t = PipeRoom
      BY PutAndRest
    <2>2. /\ Len(Put(pipe, d, PipeRoom)) = Len(pipe) + t
          /\ \A j \in 1 .. Len(pipe) : Put(pipe, d, PipeRoom)[j] = pipe[j]
          /\ \A j \in 1 .. t : Put(pipe, d, PipeRoom)[Len(pipe) + j] = d[j]
      BY PutAndRest
    <2> QED  BY <1>1, <2>1, <2>2 DEF Appended
  <1>3. Rest(pipe, d, PipeRoom) = <<>> <=> t = Len(d)  BY PutAndRest
  <1>4. mixed' = (mixed \/ Rest(pipe, d, PipeRoom) # <<>>
                    \/ (pipe # <<>> /\ \E i \in 1 .. Len(pipe \o d) :
                                           (pipe \o d)[i].part = "cmd"))
    BY Zenon DEF PutInto
  <1> QED  BY <1>2, <1>3, <1>4

(* What pipe_fops_write does in an open pipe.                              *)
LEMMA WriteAppends ==
    ASSUME TypeOK, NEW w \in OtherWriters, Write(w), pipe_open,
           NEW d, d = wrest[w], NEW t, t = Taken(pipe, d, PipeRoom)
    PROVE  /\ d \in Seq(Cells(Writers, Nat))
           /\ Appended(d, t) /\ PutInto(d)
           /\ Len(wrest'[w]) = Len(d) - t /\ (wrest'[w] = <<>> <=> t = Len(d))
           /\ wstate' = [wstate EXCEPT ![w] = IF t = Len(d) THEN "idle" ELSE "writing"]
           /\ \A v \in OtherWriters : v # w => wrest'[v] = wrest[v]
           /\ accepted' = IF t = Len(d) /\ w \in Publishers
                          THEN accepted \union {<<w, count[w]>>} ELSE accepted
           /\ UNCHANGED <<client, outside, orders, count>>
  <1>1. wrest \in [OtherWriters -> Seq(Cells(Writers, Nat))]  BY DEF TypeOK
  <1>2. d \in Seq(Cells(Writers, Nat))  BY <1>1
  <1>3. PICK left : left = Rest(pipe, d, PipeRoom)  OBVIOUS
  <1>4. /\ PutInto(d) /\ wrest' = [wrest EXCEPT ![w] = left]
        /\ wstate' = [wstate EXCEPT ![w] = IF left = <<>> THEN "idle" ELSE "writing"]
        /\ accepted' = IF left = <<>> /\ w \in Publishers
                       THEN accepted \union {<<w, count[w]>>} ELSE accepted
        /\ UNCHANGED <<client, outside, orders, count>>
    BY <1>3 DEF Write
  <1>5. Appended(d, t) /\ (left = <<>> <=> t = Len(d))
    BY <1>2, <1>3, <1>4, PutAppends
  <1>6. Len(left) = Len(d) - t  BY <1>2, <1>3, PutAndRest
  <1> QED  BY <1>1, <1>2, <1>4, <1>5, <1>6

----------------------------------------------------------------------------
(* Messages are sent in order.                                             *)
LEMMA SentInit == Init => SentInv
  BY DEF Init, SentInv, SentInOrder, OtherWriters

(* A step that sends nothing keeps the order, if what it puts into the     *)
(* pipe is the head of a message that was not there before.                *)
LEMMA SentKept ==
    ASSUME TypeOK, SentInv, UNCHANGED <<sent, count>>,
           \A p \in Publishers : Len(wrest'[p]) = 2 => Len(wrest[p]) = 2,
           \A j \in 1 .. Len(pipe') :
              \/ \E k \in 1 .. Len(pipe) : pipe'[j] = pipe[k]
              \/ \A p \in Publishers : HeadFrom(pipe'[j], p) =>
                    Len(wrest[p]) = 2 /\ Len(wrest'[p]) # 2 /\ pipe'[j].n = count[p]
    PROVE  SentInv'
  <1>1. count \in [Publishers -> Nat]  BY DEF TypeOK
  <1>2. SentInOrder' /\ \A i \in 1 .. Len(sent') : sent'[i][2] <= count'[sent'[i][1]]
    BY DEF SentInv, SentInOrder
  <1>3. ASSUME NEW p \in Publishers, NEW j \in 1 .. Len(pipe'), HeadFrom(pipe'[j], p)
        PROVE  /\ pipe'[j].n <= count'[p]
               /\ \A i \in 1 .. Len(sent') : sent'[i][1] = p => sent'[i][2] < pipe'[j].n
    <2>1. pipe'[j].n <= count[p] /\ SentBefore(p, pipe'[j].n)
      <3>1. CASE \E k \in 1 .. Len(pipe) : pipe'[j] = pipe[k]
        BY <1>3, <3>1 DEF SentInv
      <3>2. CASE Len(wrest[p]) = 2 /\ pipe'[j].n = count[p]
        BY <1>1, <3>2 DEF SentInv
      <3> QED  BY <1>3, <3>1, <3>2
    <2> QED  BY <2>1 DEF SentBefore
  <1>4. ASSUME NEW p \in Publishers, Len(wrest'[p]) = 2
        PROVE  /\ \A i \in 1 .. Len(sent') : sent'[i][1] = p => sent'[i][2] < count'[p]
               /\ \A j \in 1 .. Len(pipe') :
                     HeadFrom(pipe'[j], p) => pipe'[j].n < count'[p]
    <2>1. SentBefore(p, count[p])  BY <1>4 DEF SentInv
    <2>2. ASSUME NEW j \in 1 .. Len(pipe'), HeadFrom(pipe'[j], p)
          PROVE  pipe'[j].n < count[p]
      <3>1. PICK k \in 1 .. Len(pipe) : pipe'[j] = pipe[k]  BY <1>4, <2>2
      <3> QED  BY <1>4, <2>2, <3>1 DEF SentInv
    <2> QED  BY <2>1, <2>2 DEF SentBefore
  <1> QED  BY <1>2, <1>3, <1>4 DEF SentInv, SentBefore, HeadFrom

(* The worker's own message is nobody's.                                   *)
LEMMA SentPublish ==
    ASSUME TypeOK, SentInv, NEW next, PublishByWorker(next),
           UNCHANGED <<sent, count, wrest>>
    PROVE  SentInv'
  <1>1. CASE UNCHANGED pipe  BY <1>1, SentKept
  <1>2. CASE PutInto(Record("worker", 0))
    <2>1. PICK d : d = Record("worker", 0)  OBVIOUS
    <2>2. /\ d \in Seq(Cells(Writers, Nat)) /\ Len(d) = 2
          /\ \A j \in 1 .. 2 : d[j].from = "worker"
      <3>1. "worker" \in Writers /\ 0 \in Nat  BY DEF Writers
      <3> QED  BY <2>1, <3>1, RecordType DEF Cell
    <2>3. PICK t : t = Taken(pipe, d, PipeRoom)  OBVIOUS
    <2>4. Appended(d, t)  BY <1>2, <2>1, <2>2, <2>3, PutAppends
    <2>5. Len(pipe) \in Nat  BY DEF TypeOK
    <2>6. ASSUME NEW j \in 1 .. Len(pipe')
          PROVE  \/ \E k \in 1 .. Len(pipe) : pipe'[j] = pipe[k]
                 \/ pipe'[j].from = "worker"
      <3>1. CASE j \in 1 .. Len(pipe)  BY <2>4, <3>1 DEF Appended
      <3>2. CASE j \notin 1 .. Len(pipe)
        <4>1. PICK k : k = j - Len(pipe)  OBVIOUS
        <4>2. k \in 1 .. t /\ j = Len(pipe) + k /\ k \in 1 .. 2
          BY <2>2, <2>4, <2>5, <3>2, <4>1 DEF Appended
        <4>3. pipe'[j] = d[k]  BY <2>4, <4>2 DEF Appended
        <4> QED  BY <2>2, <4>2, <4>3
      <3> QED  BY <3>1, <3>2
    <2> QED  BY <2>6, SentKept, ClientAssumption DEF HeadFrom
  <1> QED  BY <1>1, <1>2 DEF PublishByWorker

(* The message that goes out is newer than all its publisher sent before.  *)
LEMMA SentRead ==
    ASSUME TypeOK, SentInv, ReadPipe
    PROVE  SentInv'
  <1>1. UNCHANGED <<count, wrest>> /\ pipe' = <<>> /\ pipe # <<>>
    BY DEF ReadPipe, LeftAfterRead, writers
  <1>2. CASE UNCHANGED sent
    BY <1>1, <1>2, SentKept
  <1>3. CASE sent' # sent
    <2>1. PICK c : c = pipe[1]  OBVIOUS
    <2>2. /\ c.part = "head" /\ c.from \in Publishers
          /\ sent' = Append(sent, <<c.from, c.n>>)
      BY <1>3, <2>1 DEF ReadPipe, IsMessage
    <2>3. /\ sent \in Seq(Publishers \X Nat) /\ pipe \in Seq(Cells(Writers, Nat))
          /\ count \in [Publishers -> Nat]
      BY DEF TypeOK
    <2>4. 1 \in 1 .. Len(pipe) /\ c.n \in Nat
      <3>1. 1 \in 1 .. Len(pipe)  BY <1>1, <2>3
      <3>2. c \in Cells(Writers, Nat)  BY <2>1, <2>3, <3>1
      <3> QED  BY <3>1, <3>2 DEF Cells
    <2>5. PICK p \in Publishers : p = c.from  BY <2>2
    <2>6. PICK k \in Nat : k = c.n  BY <2>4
    <2>7. k <= count[p] /\ SentBefore(p, k)
      BY <2>1, <2>2, <2>4, <2>5, <2>6 DEF SentInv, HeadFrom
    <2>8. PICK m \in Publishers \X Nat : m = <<p, k>>  OBVIOUS
    <2>9. PICK l \in Nat : l = Len(sent)  BY <2>3
    <2>10. /\ Len(sent') = l + 1 /\ sent'[l + 1] = m
           /\ \A i \in 1 .. l : sent'[i] = sent[i]
      BY <2>2, <2>3, <2>5, <2>6, <2>8, <2>9
    <2>11. m[1] = p /\ m[2] = k  BY <2>8
    <2>a. ASSUME NEW i \in 1 .. l  PROVE sent[i] \in Publishers \X Nat
      BY <2>3, <2>9
    <2>12. SentInOrder'
      <3> SUFFICES ASSUME NEW i \in 1 .. Len(sent'), NEW j \in 1 .. Len(sent'),
                          i < j, sent'[i][1] = sent'[j][1]
                   PROVE  sent'[i][2] < sent'[j][2]
        BY DEF SentInOrder
      <3>1. i \in 1 .. l /\ sent'[i] = sent[i]  BY <2>9, <2>10
      <3>2. CASE j \in 1 .. l
        BY <2>9, <2>10, <3>1, <3>2 DEF SentInv, SentInOrder
      <3>3. CASE j = l + 1
        BY <2>7, <2>9, <2>10, <2>11, <3>1, <3>3 DEF SentBefore
      <3> QED  BY <2>10, <3>2, <3>3
    <2>13. ASSUME NEW i \in 1 .. Len(sent')
           PROVE  sent'[i][2] <= count'[sent'[i][1]]
      <3>1. CASE i \in 1 .. l  BY <1>1, <2>9, <2>10, <3>1 DEF SentInv
      <3>2. CASE i = l + 1  BY <1>1, <2>7, <2>10, <2>11, <3>2
      <3> QED  BY <2>10, <3>1, <3>2
    <2>14. ASSUME NEW r \in Publishers, Len(wrest'[r]) = 2
           PROVE  SentBefore(r, count[r])'
      <3>1. SentBefore(r, count[r])  BY <1>1, <2>14 DEF SentInv
      <3>2. r = p => k < count[r]
        BY <1>1, <2>1, <2>2, <2>4, <2>5, <2>6, <2>14 DEF SentInv, HeadFrom
      <3>3. ASSUME NEW i \in 1 .. Len(sent'), sent'[i][1] = r
            PROVE  sent'[i][2] < count[r]
        <4>1. CASE i \in 1 .. l  BY <2>9, <2>10, <3>1, <3>3, <4>1 DEF SentBefore
        <4>2. CASE i = l + 1  BY <2>10, <2>11, <3>2, <3>3, <4>2
        <4> QED  BY <2>10, <4>1, <4>2
      <3> QED  BY <1>1, <3>3 DEF SentBefore
    <2>15. \A j \in 1 .. Len(pipe') : FALSE  BY <1>1
    <2> QED  BY <2>12, <2>13, <2>14, <2>15 DEF SentInv
  <1> QED  BY <1>2, <1>3

(* pipe_fops_write puts at most one head, of the writer's newest message,  *)
(* and then has less than a whole message left.                            *)
LEMMA SentWrite ==
    ASSUME TypeOK, WriterInv, SentInv, NEW w \in OtherWriters, Write(w)
    PROVE  SentInv'
  <1>1. wrest \in [OtherWriters -> Seq(Cells(Writers, Nat))] /\ Len(pipe) \in Nat
    BY DEF TypeOK
  <1>a. Publishers \subseteq OtherWriters  BY DEF OtherWriters
  <1>2. UNCHANGED <<sent, count>>  BY DEF Write, outside, aside
  <1>3. CASE ~pipe_open
    <2>1. UNCHANGED pipe /\ wrest' = [wrest EXCEPT ![w] = <<>>]
      BY <1>3 DEF Write
    <2>2. \A p \in Publishers : Len(wrest'[p]) = 2 => Len(wrest[p]) = 2
      BY <1>1, <1>a, <2>1
    <2> QED  BY <1>2, <2>1, <2>2, SentKept
  <1>4. CASE pipe_open
    <2>1. PICK d : d = wrest[w]  OBVIOUS
    <2>2. PICK t : t = Taken(pipe, d, PipeRoom)  OBVIOUS
    <2>3. /\ Appended(d, t) /\ Len(wrest'[w]) = Len(d) - t
          /\ \A v \in OtherWriters : v # w => wrest'[v] = wrest[v]
      BY <1>4, <2>1, <2>2, WriteAppends
    <2>4. Len(d) \in 0 .. 2 /\ t \in 0 .. Len(d)
      <3>1. Len(d) \in Nat /\ (Len(d) <= 1 \/ Len(d) <= 2)
        BY <1>1, <2>1 DEF WriterInv, RestOf
      <3>2. t \in 0 .. Len(d)  BY <2>3 DEF Appended
      <3>3. PICK l \in Nat : l = Len(d)  BY <3>1
      <3>4. l \in 0 .. 2  BY <3>1, <3>3
      <3> QED  BY <3>2, <3>3, <3>4
    <2>5. ASSUME NEW p \in Publishers, Len(wrest'[p]) = 2  PROVE Len(wrest[p]) = 2
      <3>1. CASE p = w
        <4>1. PICK l \in 0 .. 2 : l = Len(d)  BY <2>4
        <4>2. l - t = 2 /\ t \in 0 .. l  BY <2>3, <2>4, <2>5, <3>1, <4>1
        <4>3. l = 2  BY <4>2
        <4> QED  BY <2>1, <3>1, <4>1, <4>3
      <3>2. CASE p # w
        BY <1>a, <2>3, <2>5, <3>2
      <3> QED  BY <3>1, <3>2
    <2>6. ASSUME NEW j \in 1 .. Len(pipe'), NEW p \in Publishers,
                 HeadFrom(pipe'[j], p), ~\E k \in 1 .. Len(pipe) : pipe'[j] = pipe[k]
          PROVE  Len(wrest[p]) = 2 /\ Len(wrest'[p]) # 2 /\ pipe'[j].n = count[p]
      <3>1. j \notin 1 .. Len(pipe)  BY <2>3, <2>6 DEF Appended
      <3>2. PICK k : k = j - Len(pipe)  OBVIOUS
      <3>3. k \in 1 .. t /\ j = Len(pipe) + k
        BY <1>1, <2>3, <2>4, <3>1, <3>2 DEF Appended
      <3>4. pipe'[j] = d[k] /\ k \in 1 .. Len(d)  BY <2>3, <2>4, <3>3 DEF Appended
      <3>5. /\ d[k].from = w /\ d[k].part = "head"
            /\ w = p /\ w # "shell"
        BY <2>1, <2>6, <3>4, ClientAssumption DEF WriterInv, RestOf, HeadFrom
      <3>6. d[k].n = count[w] /\ k # Len(d)
        BY <2>1, <3>4, <3>5 DEF WriterInv, RestOf
      <3>7. Len(d) = 2 /\ Len(d) - t # 2
        <4>1. PICK l \in 0 .. 2 : l = Len(d)  BY <2>4
        <4>2. k \in 1 .. l /\ k # l /\ t \in 0 .. l /\ k \in 1 .. t
          BY <2>4, <3>3, <3>4, <3>6, <4>1
        <4>3. l = 2 /\ l - t # 2  BY <4>2
        <4> QED  BY <4>1, <4>3
      <3> QED  BY <2>1, <2>3, <3>4, <3>5, <3>6, <3>7
    <2> QED  BY <1>2, <2>5, <2>6, SentKept
  <1> QED  BY <1>3, <1>4

LEMMA SentNewMessage ==
    ASSUME TypeOK, WriterInv, SentInv, NEW p \in Publishers, MQTTPublish(p)
    PROVE  SentInv'
  <1>1. /\ count \in [Publishers -> Nat] /\ sent \in Seq(Publishers \X Nat)
        /\ wrest \in [OtherWriters -> Seq(Cells(Writers, Nat))]
        /\ pipe \in Seq(Cells(Writers, Nat))
    BY DEF TypeOK
  <1>2. /\ UNCHANGED <<sent, pipe>> /\ count' = [count EXCEPT ![p] = @ + 1]
        /\ wrest' = wrest \/ wrest' = [wrest EXCEPT ![p] = Record(p, count[p] + 1)]
    BY DEF MQTTPublish, outside, aside
  <1>3. \A q \in Publishers : count[q] <= count'[q] /\ (q # p => count'[q] = count[q])
    BY <1>1, <1>2
  <1>4. wrest[p] = <<>>
    BY DEF MQTTPublish, WriterInv, RestOf, OtherWriters
  <1>a. \A i \in 1 .. Len(sent) : sent[i][1] \in Publishers /\ sent[i][2] \in Nat
    BY <1>1
  <1>b. ASSUME NEW j \in 1 .. Len(pipe)  PROVE pipe[j].n \in Nat
    <2>1. pipe[j] \in Cells(Writers, Nat)  BY <1>1
    <2> QED  BY <2>1 DEF Cells
  <1>5. SentInOrder'  BY <1>2 DEF SentInv, SentInOrder
  <1>6. ASSUME NEW i \in 1 .. Len(sent)  PROVE sent[i][2] <= count'[sent[i][1]]
    <2>1. sent[i][2] <= count[sent[i][1]]  BY DEF SentInv
    <2>2. PICK q \in Publishers : q = sent[i][1]  BY <1>a
    <2> QED  BY <1>1, <1>2, <1>3, <1>a, <2>1, <2>2
  <1>7. ASSUME NEW q \in Publishers, NEW j \in 1 .. Len(pipe), HeadFrom(pipe[j], q)
        PROVE  pipe[j].n <= count'[q] /\ SentBefore(q, pipe[j].n)
    <2>1. pipe[j].n <= count[q] /\ SentBefore(q, pipe[j].n)  BY <1>7 DEF SentInv
    <2> QED  BY <1>1, <1>2, <1>3, <1>b, <2>1
  <1>8. ASSUME NEW q \in Publishers, Len(wrest'[q]) = 2
        PROVE  /\ \A i \in 1 .. Len(sent) : sent[i][1] = q => sent[i][2] < count'[q]
               /\ \A j \in 1 .. Len(pipe) : HeadFrom(pipe[j], q) => pipe[j].n < count'[q]
    <2>1. CASE q # p
      <3>1. Len(wrest[q]) = 2 /\ count'[q] = count[q]
        BY <1>1, <1>2, <1>3, <1>8, <2>1 DEF OtherWriters
      <3> QED  BY <3>1 DEF SentInv, SentBefore
    <2>2. CASE q = p
      <3>1. count'[q] = count[q] + 1 /\ count[q] \in Nat  BY <1>1, <1>2, <2>2
      <3>2. \A i \in 1 .. Len(sent) : sent[i][1] = q => sent[i][2] < count'[q]
        BY <1>a, <3>1 DEF SentInv
      <3>3. \A j \in 1 .. Len(pipe) : HeadFrom(pipe[j], q) => pipe[j].n < count'[q]
        BY <1>b, <3>1 DEF SentInv
      <3> QED  BY <3>2, <3>3
    <2> QED  BY <2>1, <2>2
  <1> QED  BY <1>2, <1>5, <1>6, <1>7, <1>8 DEF SentInv, SentBefore, HeadFrom

LEMMA SentStep == TypeOK /\ SessionInv /\ WriterInv /\ SentInv /\ [Next]_vars => SentInv'
  <1> SUFFICES ASSUME TypeOK, SessionInv, WriterInv, SentInv, [Next]_vars
               PROVE  SentInv'
    OBVIOUS
  <1> USE DEF writers, aside
  <1>0. /\ wrest \in [OtherWriters -> Seq(Cells(Writers, Nat))]
        /\ Publishers \subseteq OtherWriters
        /\ "shell" \notin Publishers
    BY ClientAssumption DEF TypeOK, OtherWriters
  <1>1. ASSUME UNCHANGED <<sent, count, wrest>>, pipe' = pipe \/ pipe' = <<>>
        PROVE  SentInv'
    BY <1>1, SentKept
  <1>2. CASE mqtt_pipe_init  BY <1>1, <1>2 DEF mqtt_pipe_init
  <1>3. CASE net_connect \/ MQTTConnect \/ MQTTSubscribe \/ WaitSuback
    BY <1>1, <1>3 DEF net_connect, MQTTConnect, MQTTSubscribe, WaitSuback
  <1>4. CASE paho_mqtt_subscribe \/ MQTT_cycle \/ LinkDead \/ SendPuback
    BY <1>1, <1>4 DEF paho_mqtt_subscribe, MQTT_cycle, LinkDead, SendPuback
  <1>5. CASE Publish_Sync_Request
    BY <1>5, SentPublish DEF Publish_Sync_Request
  <1>6. CASE Respond  BY <1>6, SentPublish DEF Respond
  <1>7. CASE ReadPipe  BY <1>7, SentRead
  <1>8. CASE MQTTDisconnect \/ net_disconnect
    BY <1>1, <1>8 DEF MQTTDisconnect, net_disconnect
  <1>9. CASE net_disconnect_exit
    <2>1. /\ UNCHANGED <<sent, count>> /\ pipe' = <<>>
          /\ wrest' = [w \in OtherWriters |->
                          IF wstate[w] = "writing" THEN <<>> ELSE wrest[w]]
      BY <1>9 DEF net_disconnect_exit
    <2>2. \A p \in Publishers : Len(wrest'[p]) = 2 => Len(wrest[p]) = 2
      BY <1>0, <2>1
    <2> QED  BY <2>1, <2>2, SentKept
  <1>10. CASE \E p \in Publishers : MQTTPublish(p)  BY <1>10, SentNewMessage
  <1>11. CASE \E w \in OtherWriters : Write(w)  BY <1>11, SentWrite
  <1>12. CASE mqtt_stop
    <2>1. /\ UNCHANGED <<sent, count, pipe>>
          /\ wrest' = wrest \/ wrest' = [wrest EXCEPT !["shell"] = Disconnect("shell")]
      BY <1>12 DEF mqtt_stop, outside
    <2>2. \A p \in Publishers : wrest'[p] = wrest[p]  BY <1>0, <2>1
    <2> QED  BY <2>1, <2>2, SentKept
  <1>13. CASE mqtt_start \/ Started
    BY <1>1, <1>13 DEF mqtt_start, Started, outside
  <1>14. CASE \E i \in 1 .. Slots, exact \in BOOLEAN : paho_mqtt_unsubscribe(i, exact)
    BY <1>1, <1>14 DEF paho_mqtt_unsubscribe
  <1>15. CASE Drop \/ Push  BY <1>1, <1>15 DEF Drop, Push
  <1>16. CASE UNCHANGED vars  BY <1>1, <1>16 DEF vars
  <1>17. CASE LateWakeup \/ ClearHandler
    BY <1>1, <1>17 DEF LateWakeup, ClearHandler
  <1> QED
    BY <1>2, <1>3, <1>4, <1>5, <1>6, <1>7, <1>8, <1>9, <1>10, <1>11, <1>12,
       <1>13, <1>14, <1>15, <1>16, <1>17 DEF Next, WorkerStep, Others, Network

(***************************************************************************)
(* What the worker sends of one publisher's messages it sends in the order *)
(* they were published and never twice, through every reconnect, stop and  *)
(* restart and however the writes into the pipe are cut and mixed.         *)
(***************************************************************************)
THEOREM SentInOrderCorrect == Spec => []SentInOrder
  <1>1. SentInv => SentInOrder  BY DEF SentInv
  <1>2. Spec => []SentInv
    BY SentInit, SentStep, SessionInvariant, ClientTypeCorrect, WriterInvariant, PTL
       DEF Spec
  <1> QED  BY <1>1, <1>2, PTL

----------------------------------------------------------------------------
(* Bytes that are no record need mixing.                                   *)
LEMMA MixInit == Init => MixInv
  BY DEF Init, MixInv, JunkNeedsMixing, OtherWriters

(* A put of a whole record that mixes nothing leaves a whole record at the *)
(* front of the pipe.                                                      *)
LEMMA MixPut ==
    ASSUME TypeOK, MixInv, NEW d \in Seq(Cells(Writers, Nat)), PutInto(d),
           IsMessage(d) \/ IsDisconnect(d), ~mixed',
           NEW t, t = Taken(pipe, d, PipeRoom)
    PROVE  /\ ~mixed /\ t = Len(d)
           /\ IsMessage(pipe') \/ IsDisconnect(pipe')
  <1>1. pipe \in Seq(Cells(Writers, Nat))  BY DEF TypeOK
  <1>2. /\ ~mixed /\ t = Len(d)
        /\ ~(pipe # <<>> /\ \E i \in 1 .. Len(pipe \o d) : (pipe \o d)[i].part = "cmd")
    <2>1. mixed' = (mixed \/ t # Len(d)
                      \/ (pipe # <<>> /\ \E i \in 1 .. Len(pipe \o d) :
                                             (pipe \o d)[i].part = "cmd"))
      BY PutAppends
    <2> QED  BY <2>1
  <1>3. Appended(d, t)  BY PutAppends
  <1>4. CASE pipe = <<>>
    <2>1. Len(pipe') = Len(d) /\ \A j \in 1 .. Len(d) : pipe'[j] = d[j]
      BY <1>2, <1>3, <1>4 DEF Appended
    <2> QED  BY <1>2, <2>1 DEF IsMessage, IsDisconnect
  <1>5. CASE pipe # <<>>
    <2>1. ASSUME NEW i \in 1 .. Len(pipe)  PROVE pipe[i].part # "cmd"
      <3>1. i \in 1 .. Len(pipe \o d) /\ (pipe \o d)[i] = pipe[i]  BY <1>1
      <3> QED  BY <1>2, <1>5, <3>1
    <2>2. Len(pipe) \in Nat /\ Len(pipe) > 0  BY <1>1, <1>5
    <2>3. ~IsDisconnect(pipe)  BY <2>1, <2>2 DEF IsDisconnect
    <2>4. IsMessage(pipe)  BY <1>2, <1>5, <2>3 DEF MixInv
    <2>5. /\ Len(pipe') >= Len(pipe) /\ Len(pipe') \in Nat
          /\ \A j \in 1 .. Len(pipe) : pipe'[j] = pipe[j]
      BY <1>3, <2>2 DEF Appended
    <2> QED  BY <1>2, <2>2, <2>4, <2>5 DEF IsMessage
  <1> QED  BY <1>4, <1>5

LEMMA MixPublish ==
    ASSUME TypeOK, MixInv, NEW next, PublishByWorker(next),
           UNCHANGED <<wrest, junk>>
    PROVE  MixInv'
  <1>1. CASE UNCHANGED <<pipe, mixed>>
    BY <1>1 DEF MixInv, JunkNeedsMixing
  <1>2. CASE PutInto(Record("worker", 0))
    <2>1. PICK d : d = Record("worker", 0)  OBVIOUS
    <2>2. d \in Seq(Cells(Writers, Nat)) /\ IsMessage(d)
      <3>1. "worker" \in Writers /\ 0 \in Nat  BY DEF Writers
      <3>2. d \in Seq(Cells(Writers, Nat))  BY <2>1, <3>1, RecordType DEF Cell
      <3>3. IsMessage(d)  BY <2>1 DEF Record, IsMessage
      <3> QED  BY <3>2, <3>3
    <2>3. ~mixed' => ~mixed /\ (IsMessage(pipe') \/ IsDisconnect(pipe'))
      BY <1>2, <2>1, <2>2, MixPut
    <2>4. (junk => mixed) /\ (~mixed' => ~mixed)
      BY <2>3 DEF MixInv, JunkNeedsMixing
    <2>5. JunkNeedsMixing'  BY <2>4 DEF JunkNeedsMixing
    <2>6. ~mixed' => \A p \in Publishers : wrest'[p] = <<>> \/ Len(wrest'[p]) = 2
      BY <2>3 DEF MixInv
    <2> QED  BY <2>3, <2>5, <2>6 DEF MixInv, IsMessage, IsDisconnect
  <1> QED  BY <1>1, <1>2 DEF PublishByWorker

LEMMA MixWrite ==
    ASSUME TypeOK, WriterInv, MixInv, NEW w \in OtherWriters, Write(w)
    PROVE  MixInv'
  <1>1. wrest \in [OtherWriters -> Seq(Cells(Writers, Nat))]  BY DEF TypeOK
  <1>a. Publishers \subseteq OtherWriters  BY DEF OtherWriters
  <1>2. UNCHANGED junk  BY DEF Write, outside, aside
  <1>3. CASE ~pipe_open
    <2>1. UNCHANGED <<pipe, mixed>> /\ wrest' = [wrest EXCEPT ![w] = <<>>]
      BY <1>3 DEF Write
    <2>2. ~mixed => \A p \in Publishers : wrest'[p] = <<>> \/ Len(wrest'[p]) = 2
      BY <1>1, <1>a, <2>1 DEF MixInv
    <2> QED  BY <1>2, <2>1, <2>2 DEF MixInv, JunkNeedsMixing
  <1>4. CASE pipe_open
    <2>1. PICK d : d = wrest[w]  OBVIOUS
    <2>2. PICK t : t = Taken(pipe, d, PipeRoom)  OBVIOUS
    <2>3. /\ d \in Seq(Cells(Writers, Nat)) /\ PutInto(d)
          /\ wrest'[w] = <<>> <=> t = Len(d)
          /\ \A v \in OtherWriters : v # w => wrest'[v] = wrest[v]
      BY <1>4, <2>1, <2>2, WriteAppends
    <2>4. ASSUME ~mixed  PROVE IsMessage(d) \/ IsDisconnect(d)
      <3>1. RestOf(w)  BY DEF WriterInv
      <3>2. d # <<>>  BY <2>1, <3>1 DEF RestOf, Write
      <3>3. PICK l \in Nat : l = Len(d)  BY <2>3
      <3>4. l > 0  BY <2>3, <3>2, <3>3
      <3>5. CASE w = "shell"
        <4>1. Len(wrest[w]) <= 1  BY <3>1, <3>5 DEF RestOf
        <4>2. l <= 1  BY <2>1, <3>3, <4>1
        <4>3. l = 1  BY <3>4, <4>2
        <4> QED  BY <2>1, <3>1, <3>3, <3>5, <4>3 DEF RestOf, IsDisconnect
      <3>6. CASE w # "shell"
        <4>1. w \in Publishers  BY <3>6 DEF OtherWriters
        <4>2. l = 2  BY <2>1, <2>4, <3>2, <3>3, <4>1 DEF MixInv
        <4>3. /\ d[1].part = "head" /\ d[2].part = "tail"
              /\ d[1].from = d[2].from /\ d[1].n = d[2].n
          <5>1. 1 \in 1 .. Len(d) /\ 2 \in 1 .. Len(d) /\ 1 # Len(d) /\ 2 = Len(d)
            BY <3>3, <4>2
          <5> QED  BY <2>1, <3>1, <3>6, <5>1 DEF RestOf
        <4> QED  BY <3>3, <4>2, <4>3 DEF IsMessage
      <3> QED  BY <3>5, <3>6
    <2>5. ~mixed' => ~mixed
      <3>1. mixed' = (mixed \/ t # Len(d)
                        \/ (pipe # <<>> /\ \E i \in 1 .. Len(pipe \o d) :
                                               (pipe \o d)[i].part = "cmd"))
        BY <2>2, <2>3, PutAppends
      <3> QED  BY <3>1
    <2>6. ~mixed' => t = Len(d) /\ (IsMessage(pipe') \/ IsDisconnect(pipe'))
      BY <2>2, <2>3, <2>4, <2>5, MixPut
    <2>7. ~mixed' => \A p \in Publishers : wrest'[p] = <<>> \/ Len(wrest'[p]) = 2
      BY <1>a, <2>3, <2>5, <2>6 DEF MixInv
    <2>8. JunkNeedsMixing'  BY <1>2, <2>5 DEF MixInv, JunkNeedsMixing
    <2> QED  BY <2>6, <2>7, <2>8 DEF MixInv, IsMessage, IsDisconnect
  <1> QED  BY <1>3, <1>4

LEMMA MixStep == TypeOK /\ WriterInv /\ MixInv /\ [Next]_vars => MixInv'
  <1> SUFFICES ASSUME TypeOK, WriterInv, MixInv, [Next]_vars  PROVE MixInv'
    OBVIOUS
  <1> USE DEF writers, aside
  <1>0. /\ wrest \in [OtherWriters -> Seq(Cells(Writers, Nat))]
        /\ count \in [Publishers -> Nat]
        /\ Publishers \subseteq OtherWriters /\ "shell" \notin Publishers
    BY ClientAssumption DEF TypeOK, OtherWriters
  <1>1. ASSUME UNCHANGED <<junk, mixed>>, pipe' = pipe \/ pipe' = <<>>,
               \A p \in Publishers :
                  wrest'[p] = wrest[p] \/ wrest'[p] = <<>> \/ Len(wrest'[p]) = 2
        PROVE  MixInv'
    BY <1>1 DEF MixInv, JunkNeedsMixing, IsMessage, IsDisconnect
  <1>2. CASE mqtt_pipe_init  BY <1>1, <1>2 DEF mqtt_pipe_init
  <1>3. CASE net_connect \/ MQTTConnect \/ MQTTSubscribe \/ WaitSuback
    BY <1>1, <1>3 DEF net_connect, MQTTConnect, MQTTSubscribe, WaitSuback
  <1>4. CASE paho_mqtt_subscribe \/ MQTT_cycle \/ LinkDead \/ SendPuback
    BY <1>1, <1>4 DEF paho_mqtt_subscribe, MQTT_cycle, LinkDead, SendPuback
  <1>5. CASE Publish_Sync_Request
    BY <1>5, MixPublish DEF Publish_Sync_Request
  <1>6. CASE Respond  BY <1>6, MixPublish DEF Respond
  <1>7. CASE ReadPipe
    <2>1. /\ pipe # <<>> /\ pipe' = <<>> /\ UNCHANGED <<mixed, wrest>>
          /\ UNCHANGED junk \/ (~IsMessage(pipe) /\ ~IsDisconnect(pipe))
      BY <1>7 DEF ReadPipe, LeftAfterRead
    <2>2. JunkNeedsMixing'  BY <2>1 DEF MixInv, JunkNeedsMixing
    <2> QED  BY <2>1, <2>2 DEF MixInv
  <1>8. CASE MQTTDisconnect \/ net_disconnect
    BY <1>1, <1>8 DEF MQTTDisconnect, net_disconnect
  <1>9. CASE net_disconnect_exit
    <2>1. /\ UNCHANGED <<junk, mixed>> /\ pipe' = <<>>
          /\ wrest' = [w \in OtherWriters |->
                          IF wstate[w] = "writing" THEN <<>> ELSE wrest[w]]
      BY <1>9 DEF net_disconnect_exit
    <2> QED  BY <1>0, <1>1, <2>1
  <1>10. ASSUME NEW p \in Publishers, MQTTPublish(p)  PROVE MixInv'
    <2>1. /\ UNCHANGED <<junk, mixed, pipe>>
          /\ wrest' = wrest \/ wrest' = [wrest EXCEPT ![p] = Record(p, count[p] + 1)]
      BY <1>10 DEF MQTTPublish, outside
    <2>2. count[p] + 1 \in Nat /\ p \in Writers  BY <1>0 DEF Writers
    <2>3. Len(Record(p, count[p] + 1)) = 2  BY <2>2, RecordType
    <2> QED  BY <1>0, <1>1, <2>1, <2>3
  <1>11. CASE \E w \in OtherWriters : Write(w)  BY <1>11, MixWrite
  <1>12. CASE mqtt_stop
    <2>1. /\ UNCHANGED <<junk, mixed, pipe>>
          /\ wrest' = wrest \/ wrest' = [wrest EXCEPT !["shell"] = Disconnect("shell")]
      BY <1>12 DEF mqtt_stop, outside
    <2>2. \A p \in Publishers : wrest'[p] = wrest[p]  BY <1>0, <2>1
    <2> QED  BY <1>1, <2>1, <2>2
  <1>13. CASE mqtt_start \/ Started
    BY <1>1, <1>13 DEF mqtt_start, Started, outside
  <1>14. CASE \E i \in 1 .. Slots, exact \in BOOLEAN : paho_mqtt_unsubscribe(i, exact)
    BY <1>1, <1>14 DEF paho_mqtt_unsubscribe
  <1>15. CASE Drop \/ Push  BY <1>1, <1>15 DEF Drop, Push
  <1>16. CASE UNCHANGED vars  BY <1>1, <1>16 DEF vars
  <1>17. CASE LateWakeup \/ ClearHandler
    BY <1>1, <1>17 DEF LateWakeup, ClearHandler
  <1> QED
    BY <1>2, <1>3, <1>4, <1>5, <1>6, <1>7, <1>8, <1>9, <1>10, <1>11, <1>12,
       <1>13, <1>14, <1>15, <1>16, <1>17 DEF Next, WorkerStep, Others, Network

(***************************************************************************)
(* The worker takes bytes for a record that are none only after a record   *)
(* was cut or the shell's command went into a pipe that was not empty: as  *)
(* long as records fit, boundaries hold without being kept in the stream.  *)
(***************************************************************************)
THEOREM JunkNeedsMixingCorrect == Spec => []JunkNeedsMixing
  <1>1. MixInv => JunkNeedsMixing  BY DEF MixInv
  <1>2. Spec => []MixInv
    BY MixInit, MixStep, ClientTypeCorrect, WriterInvariant, PTL DEF Spec
  <1> QED  BY <1>1, <1>2, PTL

----------------------------------------------------------------------------
(* No accepted message is lost without a cause.                            *)
LEMMA LinkInit == Init => LinkInv
  BY ClientAssumption DEF Init, LinkInv, InSession, Selecting

LEMMA LinkPublish ==
    ASSUME TypeOK, LinkInv, NEW next, PublishByWorker(next)
    PROVE  \A j \in 1 .. Len(pipe') : pipe'[j].part = "cmd" => pipe'[j].from = "shell"
  <1>1. CASE UNCHANGED pipe  BY <1>1 DEF LinkInv
  <1>2. CASE PutInto(Record("worker", 0))
    <2>1. PICK d : d = Record("worker", 0)  OBVIOUS
    <2>2. /\ d \in Seq(Cells(Writers, Nat)) /\ Len(d) = 2
          /\ \A j \in 1 .. 2 : d[j].part # "cmd"
      <3>1. "worker" \in Writers /\ 0 \in Nat  BY DEF Writers
      <3> QED  BY <2>1, <3>1, RecordType DEF Cell
    <2>3. PICK t : t = Taken(pipe, d, PipeRoom)  OBVIOUS
    <2>4. Appended(d, t)  BY <1>2, <2>1, <2>2, <2>3, PutAppends
    <2>5. Len(pipe) \in Nat  BY DEF TypeOK
    <2>6. ASSUME NEW j \in 1 .. Len(pipe'), pipe'[j].part = "cmd"
          PROVE  pipe'[j].from = "shell"
      <3>1. CASE j \in 1 .. Len(pipe)  BY <2>4, <2>6, <3>1 DEF Appended, LinkInv
      <3>2. CASE j \notin 1 .. Len(pipe)
        <4>1. PICK k : k = j - Len(pipe)  OBVIOUS
        <4>2. k \in 1 .. t /\ j = Len(pipe) + k /\ k \in 1 .. 2
          BY <2>2, <2>4, <2>5, <3>2, <4>1 DEF Appended
        <4>3. pipe'[j] = d[k]  BY <2>4, <4>2 DEF Appended
        <4> QED  BY <2>2, <2>6, <4>2, <4>3
      <3> QED  BY <3>1, <3>2
    <2> QED  BY <2>6
  <1> QED  BY <1>1, <1>2 DEF PublishByWorker

LEMMA LinkWrite ==
    ASSUME TypeOK, WriterInv, LinkInv, NEW w \in OtherWriters, Write(w)
    PROVE  \A j \in 1 .. Len(pipe') : pipe'[j].part = "cmd" => pipe'[j].from = "shell"
  <1>1. CASE ~pipe_open  BY <1>1 DEF Write, LinkInv
  <1>2. CASE pipe_open
    <2>1. PICK d : d = wrest[w]  OBVIOUS
    <2>2. PICK t : t = Taken(pipe, d, PipeRoom)  OBVIOUS
    <2>3. Appended(d, t) /\ d \in Seq(Cells(Writers, Nat))
      BY <1>2, <2>1, <2>2, WriteAppends
    <2>4. Len(pipe) \in Nat  BY DEF TypeOK
    <2>5. \A k \in 1 .. Len(d) : d[k].part = "cmd" => d[k].from = "shell"
      BY <2>1 DEF WriterInv, RestOf
    <2>6. ASSUME NEW j \in 1 .. Len(pipe'), pipe'[j].part = "cmd"
          PROVE  pipe'[j].from = "shell"
      <3>1. CASE j \in 1 .. Len(pipe)  BY <2>3, <2>6, <3>1 DEF Appended, LinkInv
      <3>2. CASE j \notin 1 .. Len(pipe)
        <4>1. PICK k : k = j - Len(pipe)  OBVIOUS
        <4>2. k \in 1 .. t /\ j = Len(pipe) + k /\ t \in 0 .. Len(d)
          BY <2>3, <2>4, <3>2, <4>1 DEF Appended
        <4>3. pipe'[j] = d[k] /\ k \in 1 .. Len(d)
          <5>1. pipe'[j] = d[k]  BY <2>3, <4>2 DEF Appended
          <5>2. PICK l \in Nat : l = Len(d)  BY <2>3
          <5>3. k \in 1 .. l  BY <4>2, <5>2
          <5> QED  BY <5>1, <5>2, <5>3
        <4> QED  BY <2>5, <2>6, <4>3
      <3> QED  BY <3>1, <3>2
    <2> QED  BY <2>6
  <1> QED  BY <1>1, <1>2

LEMMA LinkStep ==
    TypeOK /\ SessionInv /\ WriterInv /\ LinkInv /\ [Next]_vars => LinkInv'
  <1> SUFFICES ASSUME TypeOK, SessionInv, WriterInv, LinkInv, [Next]_vars
               PROVE  LinkInv'
    OBVIOUS
  <1> USE DEF connection, bounds
  <1>0. faults \in Nat /\ MaxFaults \in Nat /\ faults <= MaxFaults
    BY ClientAssumption DEF TypeOK, LinkInv
  <1>1. ASSUME pipe' = pipe \/ pipe' = <<>>,
               faults' = faults,
               wpc' \in InSession => wpc \in InSession \/ link,
               wpc' \in InSession /\ link => link'
        PROVE  LinkInv'
    <2>1. \A j \in 1 .. Len(pipe') : pipe'[j].part = "cmd" => pipe'[j].from = "shell"
      BY <1>1 DEF LinkInv
    <2>2. faults' <= MaxFaults  BY <1>0, <1>1
    <2>3. faults' = MaxFaults /\ wpc' \in InSession => link'
      BY <1>1 DEF LinkInv
    <2> QED  BY <2>1, <2>2, <2>3 DEF LinkInv
  <1>2. CASE mqtt_pipe_init  BY <1>1, <1>2 DEF mqtt_pipe_init, InSession, Selecting
  <1>3. CASE net_connect
    <2>1. /\ UNCHANGED pipe /\ wpc' \notin InSession
          /\ faults' = faults \/ (faults > 0 /\ faults' = faults - 1)
      BY <1>3 DEF net_connect, InSession, Selecting
    <2>2. faults' <= MaxFaults  BY <1>0, <2>1
    <2> QED  BY <2>1, <2>2 DEF LinkInv
  <1>4. CASE MQTTConnect
    <2>1. UNCHANGED <<pipe, faults, link>>  BY <1>4 DEF MQTTConnect
    <2>2. wpc' = "restart" \/ link  BY <1>4, Zenon DEF MQTTConnect
    <2>3. wpc' \in InSession => link  BY <2>2 DEF InSession, Selecting
    <2> QED  BY <1>1, <2>1, <2>3
  <1>5. CASE MQTTSubscribe
    <2>1. UNCHANGED <<pipe, faults>> /\ wpc \in InSession
      BY <1>5 DEF MQTTSubscribe, InSession, Selecting
    <2>2. UNCHANGED link  BY <1>5 DEF MQTTSubscribe
    <2> QED  BY <1>1, <2>1, <2>2
  <1>6. CASE WaitSuback \/ MQTT_cycle \/ LinkDead \/ SendPuback
    BY <1>1, <1>6 DEF WaitSuback, MQTT_cycle, LinkDead, SendPuback, Reselect,
                      InSession, Selecting
  <1>7. CASE paho_mqtt_subscribe
    <2>1. UNCHANGED <<pipe, faults>> /\ wpc \in InSession
      BY <1>7 DEF paho_mqtt_subscribe, InSession, Selecting
    <2>2. UNCHANGED link  BY <1>7, Zenon DEF paho_mqtt_subscribe
    <2> QED  BY <1>1, <2>1, <2>2
  <1>8. CASE Publish_Sync_Request \/ Respond
    <2>1. UNCHANGED <<faults, link>> /\ wpc \in InSession
      BY <1>8 DEF Publish_Sync_Request, Respond, InSession, Selecting
    <2>2. \A j \in 1 .. Len(pipe') : pipe'[j].part = "cmd" => pipe'[j].from = "shell"
      BY <1>8, LinkPublish DEF Publish_Sync_Request, Respond
    <2> QED  BY <2>1, <2>2 DEF LinkInv
  <1>9. CASE ReadPipe
    BY <1>1, <1>9 DEF ReadPipe, LeftAfterRead, Reselect, InSession,
                      Selecting
  <1>10. CASE MQTTDisconnect \/ net_disconnect
    BY <1>1, <1>10 DEF MQTTDisconnect, net_disconnect, InSession, Selecting
  <1>11. CASE net_disconnect_exit
    BY <1>1, <1>11 DEF net_disconnect_exit, InSession, Selecting
  <1>12. CASE \E p \in Publishers : MQTTPublish(p)
    BY <1>1, <1>12 DEF MQTTPublish, client, outside
  <1>13. CASE \E w \in OtherWriters : Write(w)
    <2>1. UNCHANGED <<faults, link, wpc>>  BY <1>13 DEF Write, client, outside
    <2>2. \A j \in 1 .. Len(pipe') : pipe'[j].part = "cmd" => pipe'[j].from = "shell"
      BY <1>13, LinkWrite
    <2> QED  BY <2>1, <2>2 DEF LinkInv
  <1>14. CASE mqtt_stop \/ mqtt_start \/ Started
    BY <1>1, <1>14 DEF mqtt_stop, mqtt_start, Started, outside, InSession, Selecting
  <1>15. CASE \E i \in 1 .. Slots, exact \in BOOLEAN : paho_mqtt_unsubscribe(i, exact)
    <2>1. UNCHANGED <<pipe, faults, wpc>>  BY <1>15 DEF paho_mqtt_unsubscribe
    <2>2. UNCHANGED link \/ link' = (link /\ wpc # "connect")
      BY <1>15, Zenon DEF paho_mqtt_unsubscribe
    <2>3. wpc' \in InSession /\ link => link'  BY <2>1, <2>2 DEF InSession, Selecting
    <2> QED  BY <1>1, <2>1, <2>3
  <1>16. CASE Drop
    <2>1. UNCHANGED pipe /\ faults > 0 /\ faults' = faults - 1
      BY <1>16 DEF Drop
    <2>2. faults' < MaxFaults  BY <1>0, <2>1
    <2>3. faults' <= MaxFaults /\ faults' # MaxFaults  BY <1>0, <2>1, <2>2
    <2> QED  BY <2>1, <2>3 DEF LinkInv
  <1>17. CASE Push  BY <1>1, <1>17 DEF Push, client
  <1>18. CASE UNCHANGED vars  BY <1>1, <1>18 DEF vars
  <1>19. CASE LateWakeup
    <2>1. /\ UNCHANGED <<pipe, faults, link>>
          /\ wpc' = wpc \/ (wpc \in Reselect /\ wpc' = "spinning")
      BY <1>19 DEF LateWakeup
    <2>2. wpc' \in InSession => wpc \in InSession
      BY <2>1 DEF InSession, Selecting, Reselect
    <2> QED  BY <1>1, <2>1, <2>2
  <1>20. CASE ClearHandler  BY <1>1, <1>20 DEF ClearHandler
  <1> QED
    BY <1>2, <1>3, <1>4, <1>5, <1>6, <1>7, <1>8, <1>9, <1>10, <1>11, <1>12,
       <1>13, <1>14, <1>15, <1>16, <1>17, <1>18, <1>19, <1>20
       DEF Next, WorkerStep, Others, Network

LEMMA LinkInvariant == Spec => []LinkInv
  BY LinkInit, LinkStep, SessionInvariant, ClientTypeCorrect, WriterInvariant, PTL
     DEF Spec

IsSent(m) == \E i \in 1 .. Len(sent) : sent[i] = m

(* A step after which the cause is still missing, accepts nothing new and  *)
(* takes nothing out of the pipe.                                          *)
LEMMA LossKept ==
    ASSUME TypeOK, LinkInv, LossNeedsCause,
           faults' <= faults, merged => merged', junk => junk',
           workers' = 1 => workers = 1,
           UNCHANGED <<accepted, sent>>,
           \A j \in 1 .. Len(pipe) : \E k \in 1 .. Len(pipe') : pipe'[k] = pipe[j]
    PROVE  LossNeedsCause'
  <1> SUFFICES ASSUME faults' = MaxFaults, ~merged', ~junk', workers' = 1,
                      NEW m \in accepted'
               PROVE  InPipe(m)' \/ IsSent(m)'
    BY DEF LossNeedsCause, IsSent
  <1>1. faults \in Nat /\ MaxFaults \in Nat  BY ClientAssumption DEF TypeOK
  <1>2. faults = MaxFaults  BY <1>1 DEF LinkInv
  <1>3. InPipe(m) \/ IsSent(m)  BY <1>2 DEF LossNeedsCause, IsSent
  <1> QED  BY <1>3 DEF InPipe, IsSent

(* The worker's own message goes behind what is in the pipe.               *)
LEMMA PublishKeepsPipe ==
    ASSUME TypeOK, NEW next, PublishByWorker(next)
    PROVE  \A j \in 1 .. Len(pipe) : \E k \in 1 .. Len(pipe') : pipe'[k] = pipe[j]
  <1>1. CASE UNCHANGED pipe  BY <1>1
  <1>2. CASE PutInto(Record("worker", 0))
    <2>1. PICK d : d = Record("worker", 0)  OBVIOUS
    <2>2. d \in Seq(Cells(Writers, Nat)) /\ Len(d) = 2
      <3>1. "worker" \in Writers /\ 0 \in Nat  BY DEF Writers
      <3> QED  BY <2>1, <3>1, RecordType DEF Cell
    <2>3. PICK t : t = Taken(pipe, d, PipeRoom)  OBVIOUS
    <2>4. Appended(d, t)  BY <1>2, <2>1, <2>2, <2>3, PutAppends
    <2>5. Len(pipe) \in Nat  BY DEF TypeOK
    <2> QED  BY <2>2, <2>4, <2>5 DEF Appended
  <1> QED  BY <1>1, <1>2 DEF PublishByWorker

(* A read of one message sends it, a command is nobody's message.          *)
LEMMA LossRead ==
    ASSUME TypeOK, LinkInv, LossNeedsCause, ReadPipe
    PROVE  LossNeedsCause'
  <1> SUFFICES ASSUME faults' = MaxFaults, ~merged', ~junk', workers' = 1,
                      NEW m \in accepted'
               PROVE  IsSent(m)'
    BY DEF LossNeedsCause, IsSent
  <1>1. UNCHANGED <<faults, workers, accepted>> /\ pipe # <<>> /\ wpc \in Selecting
    BY DEF ReadPipe, bounds, writers
  <1>2. merged' = (merged \/ IsMerged(pipe))  BY DEF ReadPipe
  <1>3. ~IsMerged(pipe) /\ ~merged  BY <1>2
  <1>4. /\ ~junk
        /\ \/ /\ IsMessage(pipe)
              /\ sent' = IF link /\ pipe[1].from \in Publishers
                         THEN Append(sent, <<pipe[1].from, pipe[1].n>>) ELSE sent
           \/ IsDisconnect(pipe) /\ sent' = sent
    BY DEF ReadPipe
  <1>5. link  BY <1>1 DEF LinkInv, InSession
  <1>6. InPipe(m) \/ IsSent(m)  BY <1>1, <1>3, <1>4 DEF LossNeedsCause, IsSent
  <1>7. /\ sent \in Seq(Publishers \X Nat) /\ pipe \in Seq(Cells(Writers, Nat))
        /\ m \in Publishers \X Nat
    BY <1>1 DEF TypeOK
  <1>8. CASE IsMessage(pipe)
    <2>1. PICK x : x = <<pipe[1].from, pipe[1].n>>  OBVIOUS
    <2>2. PICK l \in Nat : l = Len(sent)  BY <1>7
    <2>3. Len(pipe) = 2
      <3>1. pipe[1].part # "cmd" /\ Len(pipe) >= 2  BY <1>8 DEF IsMessage
      <3>2. ~(Len(pipe) > 2)  BY <1>3, <3>1 DEF IsMerged
      <3>3. PICK c \in Nat : c = Len(pipe)  BY <1>7
      <3>4. c >= 2 /\ ~(c > 2)  BY <3>1, <3>2, <3>3
      <3>5. c = 2  BY <3>4
      <3> QED  BY <3>3, <3>5
    <2>4. IsDisconnect(pipe) => FALSE  BY <2>3 DEF IsDisconnect
    <2>5. CASE IsSent(m)
      <3>1. PICK i \in 1 .. l : sent[i] = m  BY <2>2, <2>5 DEF IsSent
      <3>2. i \in 1 .. Len(sent') /\ sent'[i] = sent[i]
        BY <1>4, <1>7, <2>2, <2>4, <3>1
      <3> QED  BY <3>1, <3>2 DEF IsSent
    <2>6. CASE InPipe(m)
      <3>1. PICK j \in 1 .. 2 : pipe[j].from = m[1] /\ pipe[j].n = m[2]
        BY <2>3, <2>6 DEF InPipe
      <3>2. pipe[1].from = m[1] /\ pipe[1].n = m[2]
        BY <1>8, <3>1 DEF IsMessage
      <3>3. x = m /\ pipe[1].from \in Publishers  BY <1>7, <2>1, <3>2
      <3>4. sent' = Append(sent, x)  BY <1>4, <1>5, <2>1, <2>4, <3>3
      <3>5. Len(sent') = l + 1 /\ sent'[l + 1] = x  BY <1>7, <2>2, <3>4
      <3>6. l + 1 \in 1 .. Len(sent')  BY <3>5
      <3> QED  BY <3>3, <3>5, <3>6 DEF IsSent
    <2> QED  BY <1>6, <2>5, <2>6
  <1>9. CASE IsDisconnect(pipe)
    <2>1. Len(pipe) = 1 /\ pipe[1].part = "cmd"  BY <1>9 DEF IsDisconnect
    <2>2. ~IsMessage(pipe)  BY <2>1 DEF IsMessage
    <2>3. pipe[1].from = "shell"  BY <2>1 DEF LinkInv
    <2>4. ~InPipe(m)
      <3>1. m[1] # "shell"  BY <1>7, ClientAssumption
      <3> QED  BY <2>1, <2>3, <3>1 DEF InPipe
    <2> QED  BY <1>4, <1>6, <2>2, <2>4 DEF IsSent
  <1> QED  BY <1>4, <1>8, <1>9

(* An accepted message is in the pipe: its last cell was put just then.    *)
LEMMA LossWrite ==
    ASSUME TypeOK, WriterInv, LinkInv, LossNeedsCause, NEW w \in OtherWriters, Write(w)
    PROVE  LossNeedsCause'
  <1>1. UNCHANGED <<faults, workers, merged, junk, sent>>
    BY DEF Write, client, outside, aside
  <1>2. CASE ~pipe_open
    <2>1. UNCHANGED <<pipe, accepted>>  BY <1>2 DEF Write
    <2> QED  BY <1>1, <2>1 DEF LossNeedsCause, InPipe
  <1>3. CASE pipe_open
    <2>1. PICK d : d = wrest[w]  OBVIOUS
    <2>2. PICK t : t = Taken(pipe, d, PipeRoom)  OBVIOUS
    <2>3. /\ Appended(d, t) /\ d \in Seq(Cells(Writers, Nat))
          /\ accepted' = IF t = Len(d) /\ w \in Publishers
                         THEN accepted \union {<<w, count[w]>>} ELSE accepted
      BY <1>3, <2>1, <2>2, WriteAppends
    <2>4. Len(pipe) \in Nat /\ Len(d) \in Nat  BY <2>3 DEF TypeOK
    <2>5. SUFFICES ASSUME faults = MaxFaults, ~merged, ~junk, workers = 1,
                          NEW m \in accepted'
                   PROVE  InPipe(m)' \/ IsSent(m)'
      BY <1>1 DEF LossNeedsCause, IsSent
    <2>6. CASE m \in accepted
      <3>1. InPipe(m) \/ IsSent(m)  BY <2>5, <2>6 DEF LossNeedsCause, IsSent
      <3>2. InPipe(m) => InPipe(m)'
        <4>1. \A j \in 1 .. Len(pipe) : j \in 1 .. Len(pipe') /\ pipe'[j] = pipe[j]
          BY <2>3, <2>4 DEF Appended
        <4> QED  BY <4>1 DEF InPipe
      <3> QED  BY <1>1, <3>1, <3>2 DEF IsSent
    <2>7. CASE m \notin accepted
      <3>1. t = Len(d) /\ w \in Publishers /\ m = <<w, count[w]>>
        BY <2>3, <2>7
      <3>2. RestOf(w) /\ w # "shell"  BY <3>1, ClientAssumption DEF WriterInv
      <3>3. d # <<>>  BY <2>1, <3>2 DEF RestOf, Write
      <3>4. PICK l \in Nat : l = Len(d)  BY <2>4
      <3>5. l > 0  BY <2>3, <3>3, <3>4
      <3>6. l \in 1 .. Len(d) /\ l \in 1 .. t  BY <3>1, <3>4, <3>5
      <3>7. d[l].from = w /\ d[l].n = count[w]  BY <2>1, <3>2, <3>6 DEF RestOf
      <3>8. PICK i : i = Len(pipe) + l  OBVIOUS
      <3>9. pipe'[i] = d[l] /\ i \in 1 .. Len(pipe')
        BY <2>3, <2>4, <3>1, <3>4, <3>5, <3>6, <3>8 DEF Appended
      <3>10. m[1] = w /\ m[2] = count[w]  BY <3>1
      <3>11. pipe'[i].from = m[1] /\ pipe'[i].n = m[2]  BY <3>7, <3>9, <3>10
      <3> QED  BY <3>9, <3>11 DEF InPipe
    <2> QED  BY <2>6, <2>7
  <1> QED  BY <1>2, <1>3

LEMMA LossStep ==
    ASSUME "start" \notin Operator,
           TypeOK, SessionInv, WriterInv, LinkInv, LossNeedsCause, [Next]_vars
    PROVE  LossNeedsCause'
  <1> USE DEF writers, aside, bounds
  <1>0. faults \in Nat /\ workers \in 0 .. 2  BY DEF TypeOK
  <1>1. ASSUME UNCHANGED <<pipe, faults, merged, junk, workers, accepted, sent>>
        PROVE  LossNeedsCause'
    BY <1>1 DEF LossNeedsCause, InPipe
  <1>2. CASE mqtt_pipe_init
    <2>1. wpc = "pipe" /\ pipe = <<>>  BY <1>2 DEF mqtt_pipe_init, SessionInv
    <2>2. pipe' = pipe /\ (workers' = workers \/ workers' = workers - 1)
      BY <1>2, <2>1 DEF mqtt_pipe_init
    <2>3. UNCHANGED <<faults, merged, junk, accepted, sent>>
      BY <1>2 DEF mqtt_pipe_init
    <2>4. workers' = 1 => workers = 1
      <3>1. workers <= 1
        <4>1. ~UNCHANGED vars  BY <1>2, <2>1 DEF mqtt_pipe_init, vars
        <4> QED  BY <4>1 DEF Next
      <3> QED  BY <1>0, <2>2, <3>1
    <2> QED  BY <2>2, <2>3, <2>4 DEF LossNeedsCause, InPipe
  <1>3. CASE net_connect
    <2>1. UNCHANGED <<pipe, merged, junk, workers, accepted, sent>>
      BY <1>3 DEF net_connect
    <2>2. faults' <= faults  BY <1>0, <1>3 DEF net_connect
    <2> QED  BY <2>1, <2>2, LossKept
  <1>4. CASE MQTTConnect \/ MQTTSubscribe \/ WaitSuback \/ paho_mqtt_subscribe
    BY <1>1, <1>4 DEF MQTTConnect, MQTTSubscribe, WaitSuback, paho_mqtt_subscribe
  <1>5. CASE MQTT_cycle \/ LinkDead \/ SendPuback \/ MQTTDisconnect \/ net_disconnect
    BY <1>1, <1>5 DEF MQTT_cycle, LinkDead, SendPuback, MQTTDisconnect, net_disconnect
  <1>6. CASE Publish_Sync_Request \/ Respond
    <2>1. UNCHANGED <<faults, merged, junk, workers, accepted, sent>>
      BY <1>6 DEF Publish_Sync_Request, Respond
    <2>2. \A j \in 1 .. Len(pipe) : \E k \in 1 .. Len(pipe') : pipe'[k] = pipe[j]
      BY <1>6, PublishKeepsPipe DEF Publish_Sync_Request, Respond
    <2> QED  BY <1>0, <2>1, <2>2, LossKept
  <1>7. CASE ReadPipe  BY <1>7, LossRead
  <1>8. CASE net_disconnect_exit
    <2>1. workers' # 1
      <3>1. ~UNCHANGED vars  BY <1>8 DEF net_disconnect_exit, vars
      <3>2. workers <= 1  BY <3>1 DEF Next
      <3>3. workers' = workers - 1  BY <1>8 DEF net_disconnect_exit
      <3> QED  BY <1>0, <3>2, <3>3
    <2> QED  BY <2>1 DEF LossNeedsCause
  <1>9. CASE \E p \in Publishers : MQTTPublish(p)
    BY <1>1, <1>9 DEF MQTTPublish, client, outside
  <1>10. CASE \E w \in OtherWriters : Write(w)  BY <1>10, LossWrite
  <1>11. CASE mqtt_stop \/ Started  BY <1>1, <1>11 DEF mqtt_stop, Started, outside
  <1>12. ~mqtt_start  BY DEF mqtt_start, Order
  <1>13. CASE \E i \in 1 .. Slots, exact \in BOOLEAN : paho_mqtt_unsubscribe(i, exact)
    BY <1>1, <1>13 DEF paho_mqtt_unsubscribe
  <1>14. CASE Drop
    <2>1. UNCHANGED <<pipe, merged, junk, workers, accepted, sent>>
      BY <1>14 DEF Drop, client
    <2>2. faults' <= faults  BY <1>0, <1>14 DEF Drop
    <2> QED  BY <2>1, <2>2, LossKept
  <1>15. CASE Push  BY <1>1, <1>15 DEF Push, client
  <1>16. CASE UNCHANGED vars  BY <1>1, <1>16 DEF vars
  <1>17. CASE LateWakeup \/ ClearHandler
    BY <1>1, <1>17 DEF LateWakeup, ClearHandler
  <1> QED
    BY <1>2, <1>3, <1>4, <1>5, <1>6, <1>7, <1>8, <1>9, <1>10, <1>11, <1>12,
       <1>13, <1>14, <1>15, <1>16, <1>17 DEF Next, WorkerStep, Others, Network

(***************************************************************************)
(* A publish that was told "success" is sent or still in the pipe, unless  *)
(* a connection was lost, the worker read more than one record at once or  *)
(* took bytes for a record.  Among the causes the shell's stop is none for *)
(* as long as the worker lives; a client that is stopped and started again *)
(* begins with an empty pipe, hence the hypothesis.                        *)
(***************************************************************************)
THEOREM LossNeedsCauseCorrect ==
    ASSUME "start" \notin Operator
    PROVE  Spec => []LossNeedsCause
  <1>1. Init => LossNeedsCause  BY DEF Init, LossNeedsCause
  <1>2. TypeOK /\ SessionInv /\ WriterInv /\ LinkInv /\ LossNeedsCause /\ [Next]_vars
           => LossNeedsCause'
    BY LossStep
  <1> QED
    BY <1>1, <1>2, SessionInvariant, ClientTypeCorrect, WriterInvariant,
       LinkInvariant, PTL DEF Spec

----------------------------------------------------------------------------
(* The client implements PublishService.  What the publishers see of it:   *)
ServiceWorker ==
    IF ~pipe_open THEN "none" ELSE IF wpc \in {"stuck", "spinning"} THEN wpc ELSE "up"
ServiceCall == [p \in Publishers |-> wstate[p]]
ServiceOwed == [p \in Publishers |-> Len(wrest[p])]

(* The worker begins to spin on an empty pipe, and then nobody writes.     *)
SpinInv == wpc = "spinning" => pipe = <<>>

LEMMA SpinStep == SpinInv /\ [Next]_vars => SpinInv'
  <1> SUFFICES ASSUME SpinInv, [Next]_vars  PROVE SpinInv'
    OBVIOUS
  <1> USE DEF SpinInv, Reselect, client
  <1>1. CASE WorkerStep
    <2>1. wpc' # "spinning"
      BY <1>1 DEF WorkerStep, mqtt_pipe_init, net_connect, MQTTConnect,
         MQTTSubscribe, WaitSuback, paho_mqtt_subscribe, Publish_Sync_Request,
         PublishByWorker, MQTT_cycle, LinkDead, Respond, SendPuback, ReadPipe,
         MQTTDisconnect, net_disconnect, net_disconnect_exit
    <2> QED  BY <2>1
  <1>2. CASE Network  BY <1>2 DEF Network, Drop, Push
  <1>3. CASE wpc # "spinning" /\ Others
    <2>1. wpc' = wpc \/ wpc' = "pipe" \/ LateWakeup
      BY <1>3 DEF Others, MQTTPublish, Write, mqtt_stop, mqtt_start, Started,
                  paho_mqtt_unsubscribe, ClearHandler
    <2>2. LateWakeup => UNCHANGED pipe /\ (wpc' = wpc \/ pipe = <<>>)
      BY DEF LateWakeup
    <2> QED  BY <1>3, <2>1, <2>2
  <1>4. CASE UNCHANGED vars  BY <1>4 DEF vars
  <1> QED  BY <1>1, <1>2, <1>3, <1>4 DEF Next

(* A step that moves no data and touches no publisher can only change      *)
(* isconnected.                                                            *)
LEMMA ServiceQuiet ==
    ASSUME TypeOK, TypeOK', UNCHANGED <<ServiceWorker, ServiceCall, ServiceOwed>>,
           Len(pipe') = Len(pipe),
           isconnected' = isconnected
              \/ (isconnected' = FALSE /\ ServiceWorker # "spinning")
              \/ (isconnected' = TRUE /\ ServiceWorker = "up")
    PROVE  [Service!ServiceNext]_(Service!service)
  <1>1. CASE isconnected' = isconnected
    BY <1>1 DEF Service!service, ServiceWorker, ServiceCall, ServiceOwed
  <1>2. CASE isconnected' # isconnected /\ isconnected' = FALSE
    <2>1. isconnected = TRUE /\ ServiceWorker # "spinning"  BY <1>2 DEF TypeOK
    <2>2. Service!Disconnect
      BY <1>2, <2>1 DEF Service!Disconnect, ServiceWorker, ServiceCall, ServiceOwed
    <2> QED  BY <2>2 DEF Service!ServiceNext, Service!Worker
  <1>3. CASE isconnected' # isconnected /\ isconnected' = TRUE
    <2>1. isconnected = FALSE /\ ServiceWorker = "up"  BY <1>3 DEF TypeOK
    <2>2. Service!Connect
      BY <1>3, <2>1 DEF Service!Connect, ServiceWorker, ServiceCall, ServiceOwed
    <2> QED  BY <2>2 DEF Service!ServiceNext, Service!Worker
  <1> QED  BY <1>1, <1>2, <1>3

(* The worker's own message fits, or the worker is stuck.                  *)
LEMMA ServicePublish ==
    ASSUME TypeOK, NEW next \in {"select", "puback"}, PublishByWorker(next),
           wpc \notin {"stuck", "spinning"}, pipe_open,
           UNCHANGED <<pipe_open, isconnected, wstate, wrest>>
    PROVE  [Service!ServiceNext]_(Service!service)
  <1>1. CASE wpc' = next /\ UNCHANGED pipe
    BY <1>1 DEF Service!service
  <1>2. CASE /\ isconnected /\ PutInto(Record("worker", 0))
             /\ wpc' = IF Rest(pipe, Record("worker", 0), PipeRoom) = <<>>
                       THEN next ELSE "stuck"
    <2>1. PICK d : d = Record("worker", 0)  OBVIOUS
    <2>2. d \in Seq(Cells(Writers, Nat)) /\ Len(d) = 2
      <3>1. "worker" \in Writers /\ 0 \in Nat  BY DEF Writers
      <3> QED  BY <2>1, <3>1, RecordType DEF Cell
    <2>3. PICK t : t = Taken(pipe, d, PipeRoom)  OBVIOUS
    <2>4. Appended(d, t) /\ (Rest(pipe, d, PipeRoom) = <<>> <=> t = Len(d))
      BY <1>2, <2>1, <2>2, <2>3, PutAppends
    <2>5. Len(pipe) \in Nat /\ PipeRoom \in Nat  BY ClientAssumption DEF TypeOK
    <2>6. /\ t \in 0 .. 2 /\ Len(pipe) + t <= PipeRoom
          /\ t = 2 \/ Len(pipe) + t = PipeRoom
          /\ Len(pipe') = Len(pipe) + t
          /\ wpc' = IF t = 2 THEN next ELSE "stuck"
      BY <1>2, <2>1, <2>2, <2>4 DEF Appended
    <2>7. CASE t = 2
      <3>1. Service!Alien(2)
        BY <2>5, <2>6, <2>7 DEF Service!Alien
      <3>2. 2 \in 1 .. Len(Record("worker", 0))  BY <2>1, <2>2
      <3> QED  BY <3>1, <3>2 DEF Service!ServiceNext, Service!Worker
    <2>8. CASE t # 2
      <3>1. Len(pipe) + Len(Record("worker", 0)) > PipeRoom /\ Len(pipe') = PipeRoom
        <4>1. PICK l \in Nat : l = Len(pipe)  BY <2>5
        <4>2. l + t = PipeRoom /\ l + 2 > PipeRoom  BY <2>5, <2>6, <2>8, <4>1
        <4> QED  BY <2>1, <2>2, <2>6, <4>1, <4>2
      <3>2. Service!Stick
        BY <1>2, <2>6, <2>8, <3>1 DEF Service!Stick
      <3> QED  BY <3>2 DEF Service!ServiceNext, Service!Worker
    <2> QED  BY <2>7, <2>8
  <1> QED  BY <1>1, <1>2 DEF PublishByWorker

(* pipe_fops_write by a publisher is the service's Write, by the shell it  *)
(* is foreign data.                                                        *)
LEMMA ServiceWrite ==
    ASSUME TypeOK, WriterInv, wpc # "spinning", NEW w \in OtherWriters, Write(w)
    PROVE  [Service!ServiceNext]_(Service!service)
  <1>1. /\ wstate \in [OtherWriters -> WriterState]
        /\ wrest \in [OtherWriters -> Seq(Cells(Writers, Nat))]
        /\ Len(pipe) \in Nat /\ PipeRoom \in Nat
        /\ Publishers \subseteq OtherWriters /\ "shell" \notin Publishers
    BY ClientAssumption DEF TypeOK, OtherWriters
  <1>2. UNCHANGED <<isconnected, wpc, pipe_open>>  BY DEF Write, client
  <1>3. wstate[w] = "checked" \/ (wstate[w] = "writing" /\ Len(pipe) < PipeRoom)
    BY DEF Write
  <1>4. CASE ~pipe_open
    <2>1. /\ wstate' = [wstate EXCEPT ![w] = "idle"]
          /\ wrest' = [wrest EXCEPT ![w] = <<>>] /\ UNCHANGED pipe
      BY <1>4 DEF Write
    <2>2. CASE w \in Publishers
      <3>1. /\ ServiceCall' = [ServiceCall EXCEPT ![w] = "idle"]
            /\ ServiceOwed' = [ServiceOwed EXCEPT ![w] = 0]
        BY <1>1, <2>1, <2>2 DEF ServiceCall, ServiceOwed
      <3>2. Service!Write(w)
        BY <1>1, <1>2, <1>3, <1>4, <2>1, <2>2, <3>1
        DEF Service!Write, Service!MayWrite, ServiceCall, ServiceOwed
      <3> QED  BY <2>2, <3>2 DEF Service!ServiceNext
    <2>3. CASE w \notin Publishers
      <3>1. UNCHANGED <<ServiceCall, ServiceOwed>>
        BY <1>1, <2>1, <2>3 DEF ServiceCall, ServiceOwed
      <3> QED  BY <1>2, <2>1, <3>1 DEF Service!service, ServiceCall, ServiceOwed
    <2> QED  BY <2>2, <2>3
  <1>5. CASE pipe_open
    <2>1. PICK d : d = wrest[w]  OBVIOUS
    <2>2. PICK t : t = Taken(pipe, d, PipeRoom)  OBVIOUS
    <2>3. /\ Appended(d, t) /\ d \in Seq(Cells(Writers, Nat))
          /\ Len(wrest'[w]) = Len(d) - t
          /\ wstate' = [wstate EXCEPT ![w] = IF t = Len(d) THEN "idle" ELSE "writing"]
          /\ \A v \in OtherWriters : v # w => wrest'[v] = wrest[v]
      BY <1>5, <2>1, <2>2, WriteAppends
    <2>4. PICK l \in Nat : l = Len(d)  BY <2>3
    <2>5. /\ t \in 0 .. l /\ Len(pipe) + t <= PipeRoom
          /\ t = l \/ Len(pipe) + t = PipeRoom
          /\ Len(pipe') = Len(pipe) + t
      BY <2>3, <2>4 DEF Appended
    <2>6. CASE w \in Publishers
      <3>1. /\ ServiceCall' = [ServiceCall EXCEPT ![w] =
                                  IF t = ServiceOwed[w] THEN "idle" ELSE "writing"]
            /\ ServiceOwed' = [ServiceOwed EXCEPT ![w] = @ - t]
            /\ ServiceOwed[w] = l
        BY <1>1, <2>1, <2>3, <2>4, <2>6 DEF ServiceCall, ServiceOwed
      <3>2. t \in 0 .. ServiceOwed[w] /\ (t = ServiceOwed[w] \/ Len(pipe) + t = PipeRoom)
        BY <2>5, <3>1
      <3>3. Service!Write(w)
        BY <1>1, <1>2, <1>3, <1>5, <2>5, <2>6, <3>1, <3>2
        DEF Service!Write, Service!MayWrite, ServiceCall, ServiceOwed
      <3> QED  BY <2>6, <3>3 DEF Service!ServiceNext
    <2>7. CASE w \notin Publishers
      <3>1. w = "shell"  BY <2>7 DEF OtherWriters
      <3>2. UNCHANGED <<ServiceCall, ServiceOwed>>
        BY <1>1, <2>3, <2>7 DEF ServiceCall, ServiceOwed
      <3>3. l <= 1
        <4>1. Len(wrest[w]) <= 1  BY <3>1 DEF WriterInv, RestOf
        <4> QED  BY <2>1, <2>4, <4>1
      <3>4. t = 0 \/ t = 1  BY <2>5, <3>3
      <3>5. CASE t = 0
        <4>1. Len(pipe') = Len(pipe)  BY <1>1, <2>5, <3>5
        <4> QED  BY <1>2, <3>2, <4>1 DEF Service!service, ServiceCall, ServiceOwed
      <3>6. CASE t = 1
        <4>1. Service!Alien(1)
          BY <1>1, <1>2, <1>5, <2>5, <3>2, <3>6 DEF Service!Alien, ServiceCall, ServiceOwed
        <4>2. 1 \in 1 .. Len(Record("worker", 0))  BY DEF Record
        <4> QED  BY <4>1, <4>2 DEF Service!ServiceNext, Service!Worker
      <3> QED  BY <3>4, <3>5, <3>6
    <2> QED  BY <2>6, <2>7
  <1> QED  BY <1>4, <1>5

LEMMA ServiceStep ==
    ASSUME TypeOK, TypeOK', SessionInv, WriterInv, SpinInv, [Next]_vars
    PROVE  [Service!ServiceNext]_(Service!service)
  <1>0. /\ wstate \in [OtherWriters -> WriterState]
        /\ wrest \in [OtherWriters -> Seq(Cells(Writers, Nat))]
        /\ Publishers \subseteq OtherWriters /\ "shell" \notin Publishers
        /\ Len(pipe) \in Nat /\ count \in [Publishers -> Nat]
    <2>1. Publishers \subseteq OtherWriters /\ "shell" \notin Publishers
      BY ClientAssumption DEF OtherWriters
    <2>2. /\ wstate \in [OtherWriters -> WriterState]
          /\ wrest \in [OtherWriters -> Seq(Cells(Writers, Nat))]
          /\ count \in [Publishers -> Nat]
      BY Zenon DEF TypeOK
    <2>3. pipe \in Seq(Cells(Writers, Nat))  BY Zenon DEF TypeOK
    <2>4. Len(pipe) \in Nat  BY <2>3
    <2> QED  BY <2>1, <2>2, <2>4
  <1> USE DEF writers, aside, bounds, connection
  <1>1. ASSUME UNCHANGED <<wstate, wrest, pipe, pipe_open>>,
               isconnected' = isconnected \/ (isconnected' = FALSE /\ wpc # "spinning")
                  \/ (isconnected' = TRUE /\ ServiceWorker = "up"),
               \/ UNCHANGED wpc
               \/ wpc \notin {"stuck", "spinning"} /\ wpc' \notin {"stuck", "spinning"}
               \/ ~pipe_open
        PROVE  [Service!ServiceNext]_(Service!service)
    <2>1. UNCHANGED <<ServiceWorker, ServiceCall, ServiceOwed>> /\ Len(pipe') = Len(pipe)
      BY <1>1 DEF ServiceWorker, ServiceCall, ServiceOwed
    <2>2. wpc # "spinning" => ServiceWorker # "spinning"  BY DEF ServiceWorker
    <2> QED  BY <1>1, <2>1, <2>2, ServiceQuiet
  <1>2. CASE mqtt_pipe_init
    <2>1. wpc = "pipe" /\ ~pipe_open /\ UNCHANGED <<wstate, wrest, isconnected>>
      BY <1>2 DEF mqtt_pipe_init, SessionInv
    <2>2. CASE pipe_open' = TRUE /\ pipe' = <<>> /\ wpc' = "start"
      <3>1. Service!Open  BY <2>1, <2>2 DEF Service!Open
      <3> QED  BY <3>1 DEF Service!ServiceNext, Service!Worker
    <2>3. CASE UNCHANGED <<pipe_open, pipe>>  BY <1>1, <2>1, <2>3
    <2> QED  BY <1>2, <2>2, <2>3 DEF mqtt_pipe_init
  <1>3. CASE net_connect \/ MQTTSubscribe \/ WaitSuback
    BY <1>1, <1>3 DEF net_connect, MQTTSubscribe, WaitSuback
  <1>4. CASE LinkDead \/ SendPuback \/ MQTTDisconnect \/ net_disconnect
    BY <1>1, <1>4 DEF LinkDead, SendPuback, MQTTDisconnect, DisconnectedFlag,
                      net_disconnect, Reselect
  <1>17. CASE MQTT_cycle
    <2>1. /\ wpc' \notin {"stuck", "spinning"} /\ wpc # "stuck"
          /\ UNCHANGED <<wstate, wrest, pipe, pipe_open, isconnected>>
      BY <1>17 DEF MQTT_cycle, Reselect, Selecting
    <2>2. CASE wpc = "spinning"
      <3>1. pipe_open  BY <2>2 DEF SessionInv
      <3>2. Service!Recover  BY <2>1, <2>2, <3>1 DEF Service!Recover
      <3> QED  BY <3>2 DEF Service!ServiceNext, Service!Worker
    <2> QED  BY <1>1, <2>1, <2>2
  <1>5. CASE MQTTConnect
    <2>1. /\ wpc = "connect" /\ wpc' \notin {"stuck", "spinning"}
          /\ UNCHANGED <<wstate, wrest, pipe, pipe_open>>
      BY <1>5 DEF MQTTConnect
    <2>2. isconnected' = isconnected \/ isconnected' = TRUE
      BY <1>5, Zenon DEF MQTTConnect
    <2>3. ServiceWorker = "up"  BY <2>1 DEF ServiceWorker, SessionInv
    <2> QED  BY <1>1, <2>1, <2>2, <2>3
  <1>6. CASE paho_mqtt_subscribe
    <2>1. /\ wpc = "online" /\ wpc' \in {"online", "sync"}
          /\ UNCHANGED <<wstate, wrest, pipe, pipe_open>>
      BY <1>6 DEF paho_mqtt_subscribe
    <2>2. isconnected' = isconnected \/ isconnected' = FALSE
      BY <1>6, Zenon DEF paho_mqtt_subscribe
    <2> QED  BY <1>1, <2>1, <2>2
  <1>7. CASE Publish_Sync_Request
    <2>1. wpc = "sync" /\ pipe_open  BY <1>7 DEF Publish_Sync_Request, SessionInv
    <2> QED  BY <1>7, <2>1, ServicePublish DEF Publish_Sync_Request
  <1>8. CASE Respond
    <2>1. wpc = "respond" /\ pipe_open  BY <1>8 DEF Respond, SessionInv
    <2> QED  BY <1>8, <2>1, ServicePublish DEF Respond
  <1>9. CASE ReadPipe
    <2>1. /\ wpc \notin {"stuck", "spinning"} /\ pipe_open
          /\ pipe # <<>> /\ pipe' = <<>> /\ wpc' \notin {"stuck", "spinning"}
          /\ UNCHANGED <<wstate, wrest, isconnected, pipe_open>>
      BY <1>9 DEF ReadPipe, LeftAfterRead, Selecting, Reselect, SessionInv, SpinInv
    <2>2. Len(pipe) > 0 /\ Len(pipe') = 0
      <3>1. pipe \in Seq(Cells(Writers, Nat))  BY DEF TypeOK
      <3> QED  BY <2>1, <3>1
    <2>3. Service!Read  BY <2>1, <2>2 DEF Service!Read
    <2> QED  BY <2>3 DEF Service!ServiceNext, Service!Worker
  <1>10. CASE net_disconnect_exit
    <2>1. /\ wpc = "exit" /\ pipe_open /\ isconnected' = FALSE /\ pipe_open' = FALSE
          /\ pipe' = <<>>
          /\ wrest' = [w \in OtherWriters |->
                          IF wstate[w] = "writing" THEN <<>> ELSE wrest[w]]
      BY <1>10 DEF net_disconnect_exit, SessionInv
    <2>2. PICK fate \in [OtherWriters -> {"idle", "lost"}] :
             wstate' = [w \in OtherWriters |->
                           IF wstate[w] = "writing" THEN fate[w] ELSE wstate[w]]
      BY <1>10 DEF net_disconnect_exit
    <2>3. PICK f \in [Publishers -> {"idle", "lost"}] :
             f = [p \in Publishers |-> fate[p]]
      BY <1>0
    <2>4. ServiceCall' = [p \in Publishers |->
                             IF ServiceCall[p] = "writing" THEN f[p] ELSE ServiceCall[p]]
      BY <1>0, <2>2, <2>3 DEF ServiceCall
    <2>5. ServiceOwed' = [p \in Publishers |->
                             IF ServiceCall[p] = "writing" THEN 0 ELSE ServiceOwed[p]]
      BY <1>0, <2>1 DEF ServiceOwed, ServiceCall
    <2>6. Service!Delete
      BY <2>1, <2>3, <2>4, <2>5 DEF Service!Delete, ServiceCall, ServiceOwed
    <2> QED  BY <2>6 DEF Service!ServiceNext, Service!Worker
  <1>11. ASSUME NEW p \in Publishers, MQTTPublish(p), wpc # "spinning"
         PROVE  [Service!ServiceNext]_(Service!service)
    <2>1. wstate[p] = "idle" /\ UNCHANGED <<isconnected, wpc, pipe, pipe_open>>
      BY <1>11 DEF MQTTPublish, client
    <2>2. CASE UNCHANGED <<wstate, wrest>>  BY <1>1, <2>1, <2>2
    <2>3. CASE /\ isconnected
               /\ wstate' = [wstate EXCEPT ![p] = "checked"]
               /\ wrest' = [wrest EXCEPT ![p] = Record(p, count[p] + 1)]
      <3>1. count[p] + 1 \in Nat /\ p \in Writers /\ 0 \in Nat /\ "worker" \in Writers
        BY <1>0 DEF Writers
      <3>2. Len(Record(p, count[p] + 1)) = Len(Record("worker", 0))
        BY <3>1, RecordType
      <3>3. /\ ServiceCall' = [ServiceCall EXCEPT ![p] = "checked"]
            /\ ServiceOwed' = [ServiceOwed EXCEPT ![p] = Len(Record("worker", 0))]
        BY <1>0, <2>3, <3>2 DEF ServiceCall, ServiceOwed
      <3>4. Service!Publish(p)
        BY <1>11, <2>1, <2>3, <3>3 DEF Service!Publish, ServiceCall, ServiceOwed
      <3> QED  BY <3>4 DEF Service!ServiceNext
    <2> QED  BY <1>11, <2>2, <2>3 DEF MQTTPublish
  <1>12. CASE wpc # "spinning" /\ \E w \in OtherWriters : Write(w)
    BY <1>12, ServiceWrite
  <1>13. CASE wpc # "spinning" /\ (mqtt_stop \/ mqtt_start \/ Started)
    <2>1. /\ UNCHANGED <<pipe, pipe_open>>
          /\ \A p \in Publishers : wstate'[p] = wstate[p] /\ wrest'[p] = wrest[p]
      BY <1>0, <1>13 DEF mqtt_stop, mqtt_start, Started
    <2>2. isconnected' = isconnected \/ isconnected' = FALSE
      BY <1>13 DEF mqtt_stop, mqtt_start, Started
    <2>3. UNCHANGED wpc \/ ~pipe_open
      BY <1>13 DEF mqtt_stop, mqtt_start, Started, SessionInv
    <2>4. UNCHANGED <<ServiceWorker, ServiceCall, ServiceOwed>>
      BY <2>1, <2>3 DEF ServiceWorker, ServiceCall, ServiceOwed
    <2>5. ServiceWorker # "spinning"  BY <1>13 DEF ServiceWorker
    <2> QED  BY <2>1, <2>2, <2>4, <2>5, ServiceQuiet
  <1>14. CASE /\ wpc # "spinning"
              /\ \E i \in 1 .. Slots, exact \in BOOLEAN : paho_mqtt_unsubscribe(i, exact)
    <2>1. UNCHANGED <<wstate, wrest, wpc, pipe, pipe_open>>
      BY <1>14 DEF paho_mqtt_unsubscribe
    <2>2. isconnected' = isconnected \/ isconnected' = FALSE
      BY <1>14, Zenon DEF paho_mqtt_unsubscribe
    <2> QED  BY <1>1, <1>14, <2>1, <2>2
  <1>15. CASE Drop \/ Push  BY <1>1, <1>15 DEF Drop, Push, client
  <1>16. CASE UNCHANGED vars  BY <1>1, <1>16 DEF vars
  <1>18. CASE ClearHandler  BY <1>1, <1>18 DEF ClearHandler
  <1>19. CASE LateWakeup
    <2>1. /\ UNCHANGED <<wstate, wrest, pipe, pipe_open, isconnected>>
          /\ \/ UNCHANGED wpc
             \/ wpc \in Reselect /\ pipe = <<>> /\ wpc' = "spinning"
      BY <1>19 DEF LateWakeup
    <2>2. CASE wpc \in Reselect /\ pipe = <<>> /\ wpc' = "spinning"
      <3>1. pipe_open /\ wpc \notin {"stuck", "spinning"} /\ Len(pipe) = 0
        BY <2>2 DEF SessionInv, Reselect
      <3>2. Service!Spin  BY <2>1, <2>2, <3>1 DEF Service!Spin
      <3> QED  BY <3>2 DEF Service!ServiceNext, Service!Worker
    <2> QED  BY <1>1, <2>1, <2>2
  <1> QED
    BY <1>2, <1>3, <1>4, <1>5, <1>6, <1>7, <1>8, <1>9, <1>10, <1>11, <1>12,
       <1>13, <1>14, <1>15, <1>16, <1>17, <1>18, <1>19
       DEF Next, WorkerStep, Others, Network

(***************************************************************************)
(* For the threads that publish, the whole client is the service of module *)
(* PublishService: every step of worker, shell, network and publishers is  *)
(* a step of that service or none that they could see.                     *)
(***************************************************************************)
THEOREM ServesPublishersCorrect == Spec => ServesPublishers
  <1>1. Init => Service!ServiceInit
    <2>1. Init => /\ ServiceCall = [p \in Publishers |-> "idle"]
                  /\ ServiceOwed = [p \in Publishers |-> 0]
      BY DEF Init, ServiceCall, ServiceOwed, OtherWriters
    <2> QED  BY <2>1 DEF Init, Service!ServiceInit, ServiceCall, ServiceOwed
  <1>2. TypeOK /\ TypeOK' /\ SessionInv /\ WriterInv /\ SpinInv /\ [Next]_vars
           => [Service!ServiceNext]_(Service!service)
    BY ServiceStep
  <1>3. Spec => []SpinInv
    <2>1. Init => SpinInv  BY DEF Init, SpinInv
    <2> QED  BY <2>1, SpinStep, PTL DEF Spec
  <1> QED
    BY <1>1, <1>2, <1>3, SessionInvariant, ClientTypeCorrect, WriterInvariant, PTL
       DEF Spec, ServesPublishers, Service!ServiceSpec
=============================================================================
