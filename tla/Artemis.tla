------------------------------ MODULE Artemis ------------------------------
(***************************************************************************)
(* The Artemis adapter (typescript/src/adapters/artemis.ts) and its        *)
(* management client (artemis-jolokia.ts) on one destination: either the   *)
(* anycast queue of the scheduler port, or the multicast queue of one      *)
(* subscriberId with the dead-letter and expiry addresses beside it.       *)
(*                                                                         *)
(* Everything goes over AMQP and is not confirmed: a frame is written to a *)
(* connection and reaches the broker later, in order, or is lost with the  *)
(* connection.  Cancelling goes over HTTP, past the frames.                *)
(*                                                                         *)
(* External: rhea, which reconnects and grants a receiver new credit when  *)
(* a message arrives, settled or not; and the broker, configured by        *)
(* infra/artemis/broker.xml.                                               *)
(***************************************************************************)
EXTENDS Integers, Sequences, FiniteSets, SequencesExt

CONSTANTS
  Calls,        \* connect() and connectBus() calls, each may open a connection
  Msgs,         \* sendNow(), schedule() and publish() calls, one message each
  Subs,         \* consume() and subscribe() calls
  None,         \* no connection
  Setups,       \* which calls are made, with which options
  MaxAttempts   \* broker.xml: max-delivery-attempts

Addresses == {"queue", "topic", "dla", "expiry"}

(* home: where messages are sent; topic: the address each subscription     *)
(* asks for; later: messages with a delivery time; ttl: with a ttlMs;      *)
(* selected: those the selector takes; transient: the option; drops, a     *)
(* bound: connections refused or lost; dispose: asyncDispose is called;    *)
(* calls, msgs: as above.                                                  *)
Setup == [home: {"queue", "topic"}, topic: [Subs -> {"queue", "topic", ".dlq", ".expiry"}],
          calls: SUBSET Calls, msgs: SUBSET Msgs, later: SUBSET Msgs, ttl: SUBSET Msgs,
          selected: SUBSET Msgs, transient: BOOLEAN, drops: Nat, dispose: BOOLEAN]

\* Only the scheduler port has schedule(), and only subscribe() is transient.
ASSUME ArtemisAssumption ==
  /\ Setups \subseteq Setup /\ MaxAttempts \in Nat \ {0}
  /\ IsFiniteSet(Msgs) /\ Msgs \intersect (Calls \union Subs) = {} /\ None \notin Calls
  /\ \A s \in Setups : IF s.home = "queue" THEN ~s.transient ELSE s.later = {}

VARIABLES
  setup,      \* a member of Setups, never changes
  pc,         \* where each call is
  cancelling, \* where the cancel() of each message is
  connection, \* this.connection: the call that created it
  up,         \* connections that are open
  link,       \* the connection of each call's sender or receiver
  sender,     \* the connection of the cached sender
  wire,       \* frames written to each connection, not yet read
  anycast,    \* broker: the scheduler queue was created as an anycast queue
  exists,     \* broker: addresses with a queue
  queue,      \* broker: the queue at each address
  scheduled,  \* broker: messages waiting for their time
  unsettled,  \* broker: messages each receiver has not settled
  attempts,   \* broker: failed deliveries
  incoming,   \* IncomingMessage objects, with the settled flag
  over,       \* history: how a message ended
  acked,      \* history: messages some handler called ack() for
  due,        \* history: messages whose time has come
  early,      \* history: messages whose cancel() began and ended in between
              \* their arrival and their time
  drops       \* history: connections refused or lost so far

connVars == <<connection, up, link, sender>>
brokerVars == <<anycast, exists, queue, scheduled, unsettled, attempts, over>>
historyVars == <<acked, due, early, drops>>
vars == <<setup, pc, cancelling, connVars, wire, brokerVars, incoming, historyVars>>

Init ==
  /\ setup \in Setups
  /\ pc = [c \in Calls \union Msgs \union Subs |-> "idle"]
  /\ cancelling = [m \in Msgs |-> "no"]
  /\ connection = None /\ up = {} /\ sender = None
  /\ link = [c \in Msgs \union Subs |-> None]
  /\ wire = [c \in Calls |-> <<>>]
  /\ anycast = FALSE /\ exists = {} /\ queue = [a \in Addresses |-> <<>>]
  /\ scheduled = {} /\ unsettled = [s \in Subs |-> {}]
  /\ attempts = [m \in Msgs |-> 0]
  /\ incoming = {} /\ over = [m \in Msgs |-> "no"]
  /\ acked = {} /\ due = {} /\ early = {} /\ drops = 0

Goto(c, to) == pc' = [pc EXCEPT ![c] = to]

\* The dead-letter and expiry addresses of the broker stand for all topics'.
Address(s) ==
  CASE setup.topic[s] = ".dlq" -> "dla"
    [] setup.topic[s] = ".expiry" -> "expiry"
    [] OTHER -> setup.topic[s]

\* auto-delete: the queue goes with its only receiver.
AutoDeleted(s) == setup.transient /\ \A t \in Subs \ {s} : Address(t) # Address(s)

\* The receivers of the connection, whose messages the broker takes back.
Receivers(c) == {s \in Subs : link[s] = c}
Held(c) == UNION {unsettled[s] : s \in Receivers(c)}
Receiving(c) == {s \in Receivers(c) : pc[s] = "receiving"}
-----------------------------------------------------------------------------
(* Connections.  A call that finds no open connection makes one and puts   *)
(* it into the field; the one it replaces is not closed and reconnects.    *)

EnsureConnection(c) ==
  /\ pc[c] = "idle"
  /\ IF connection \in up THEN Goto(c, "done") /\ UNCHANGED connection
     ELSE Goto(c, "opening") /\ connection' = c
  /\ UNCHANGED <<setup, cancelling, up, link, sender, wire, brokerVars, incoming, historyVars>>

\* rhea restores the links, and the broker the queues that went with them.
ConnectionOpens(c) ==
  /\ c \notin up
  /\ \/ pc[c] \in {"opening", "reconnecting"} /\ Goto(c, "done")
     \/ pc[c] = "retrying" /\ Goto(c, "late")
  /\ up' = up \union {c}
  /\ exists' = IF setup.transient THEN exists \union {Address(s) : s \in Receiving(c)} ELSE exists
  /\ UNCHANGED <<setup, cancelling, connection, link, sender, wire, anycast, queue, scheduled,
                 unsettled, attempts, over, incoming, historyVars>>

\* The call is rejected, and the connection in the field goes on trying.
ConnectionFails(c) ==
  /\ pc[c] = "opening" /\ drops < setup.drops
  /\ drops' = drops + 1
  /\ Goto(c, "retrying")
  /\ UNCHANGED <<setup, cancelling, connVars, wire, brokerVars, incoming, acked, due, early>>

\* The users of the adapter wait for a connect() before they call anything.
Connected == \E c \in Calls : pc[c] \in {"done", "reconnecting"}

\* Failed deliveries that have used up the attempts go to the DLA, the others
\* to the head of the queue they came from.
Exhausted(m) == attempts[m] + 1 >= MaxAttempts
-----------------------------------------------------------------------------
(* Senders: opened on this.connection, cached once they are sendable.      *)

\* Mutant: the link asks for no `queue`, so the broker creates a multicast one.
CreatesMulticast == FALSE

\* capabilities: "queue"
CreatesAnycast == setup.home = "queue"

GetSender(m) ==
  /\ pc[m] = "idle" /\ Connected
  /\ link' = [link EXCEPT ![m] = IF sender \in up THEN sender ELSE connection]
  /\ Goto(m, IF sender \in up THEN "send" ELSE "sendable")
  /\ UNCHANGED <<setup, cancelling, connection, up, sender, wire, brokerVars, incoming,
                 historyVars>>

\* The scheduler queue comes into being with the first link to it.
Sendable(m) ==
  /\ pc[m] = "sendable" /\ link[m] \in up
  /\ sender' = link[m]
  /\ Goto(m, "send")
  /\ IF setup.home = "queue" /\ "queue" \notin exists
     THEN exists' = exists \union {"queue"} /\ anycast' = CreatesAnycast
     ELSE UNCHANGED <<exists, anycast>>
  /\ UNCHANGED <<setup, cancelling, connection, up, link, wire, queue, scheduled,
                 unsettled, attempts, incoming, over, historyVars>>

\* Mutant: what goes to a sender of a replaced connection is repeated on the
\* connection in the field.
SendOnBoth(m) ==
  /\ pc[m] = "send"
  /\ Goto(m, "sent")
  /\ wire' = [c \in Calls |-> IF c \in up /\ c \in {link[m], connection}
                              THEN Append(wire[c], [type |-> "send", msg |-> m]) ELSE wire[c]]
  /\ UNCHANGED <<setup, cancelling, connVars, brokerVars, incoming, historyVars>>

\* sendNow(), schedule() and publish() are over when the frame is written,
\* which a connection that is down takes and loses.
Send(m) ==
  /\ pc[m] = "send"
  /\ Goto(m, "sent")
  /\ wire' = IF link[m] \in up
             THEN [wire EXCEPT ![link[m]] = Append(@, [type |-> "send", msg |-> m])]
             ELSE wire
  /\ UNCHANGED <<setup, cancelling, connVars, brokerVars, incoming, historyVars>>
-----------------------------------------------------------------------------
(* Receivers                                                               *)

Subscribe(s) ==
  /\ pc[s] = "idle" /\ Connected
  /\ Goto(s, "opening")
  /\ link' = [link EXCEPT ![s] = connection]
  /\ UNCHANGED <<setup, cancelling, connection, up, sender, wire, brokerVars, incoming,
                 historyVars>>

\* receiver_open: the broker has created the queue.
ReceiverOpens(s) ==
  /\ pc[s] = "opening" /\ link[s] \in up
  /\ Goto(s, "receiving")
  /\ exists' = exists \union {Address(s)}
  /\ anycast' = (anycast \/ (Address(s) = "queue" /\ "queue" \notin exists))
  /\ UNCHANGED <<setup, cancelling, connVars, wire, queue, scheduled, unsettled, attempts,
                 incoming, over, historyVars>>

\* receiver.close(): the broker takes back what was not settled; a transient
\* queue goes with its receiver.
Unsubscribe(s) ==
  LET a == Address(s)
      gone == AutoDeleted(s)
  IN /\ pc[s] = "receiving"
     /\ Goto(s, "closed")
     /\ exists' = IF gone THEN exists \ {a} ELSE exists
     /\ queue' = [queue EXCEPT ![a] = IF gone THEN <<>> ELSE SetToSeq(unsettled[s]) \o @]
     /\ over' = [m \in Msgs |-> IF gone /\ (m \in unsettled[s] \/ Contains(queue[a], m))
                               THEN "deleted" ELSE over[m]]
     /\ unsettled' = [unsettled EXCEPT ![s] = {}]
     /\ UNCHANGED <<setup, cancelling, connVars, wire, anycast, scheduled, attempts, incoming,
                    historyVars>>

Frame(type, r) == [type |-> type, msg |-> r.msg, sub |-> r.sub]
Write(s, f) ==
  wire' = IF link[s] \in up /\ pc[s] = "receiving"
          THEN [wire EXCEPT ![link[s]] = Append(@, f)] ELSE wire

\* consume() leaves settling to the link (autoaccept).
AcceptsAtOnce == TRUE  \* mutant: subscribe() does, too
AutoAccept == setup.home = "queue"

Deliver(s) ==
  LET a == Address(s)
      m == Head(queue[a])
      r == [sub |-> s, msg |-> m, settled |-> AutoAccept]
  IN /\ pc[s] = "receiving" /\ link[s] \in up /\ queue[a] # <<>>
     /\ queue' = [queue EXCEPT ![a] = Tail(@)]
     /\ unsettled' = [unsettled EXCEPT ![s] = @ \union {m}]
     /\ incoming' = {o \in incoming : o.sub # s \/ o.msg # m} \union {r}
     /\ IF AutoAccept THEN Write(s, Frame("accept", r)) ELSE UNCHANGED wire
     /\ acked' = IF setup.home = "queue" THEN acked \union {m} ELSE acked
     /\ UNCHANGED <<setup, pc, cancelling, connVars, anycast, exists, scheduled, attempts,
                    over, due, early, drops>>

\* Mutant: a handler that throws is swallowed without the nack(true).
SettleForgotten(r, how) ==
  /\ ~r.settled
  /\ incoming' = (incoming \ {r}) \union {[r EXCEPT !.settled = TRUE]}
  /\ IF how = "modified" THEN UNCHANGED wire ELSE Write(r.sub, Frame(how, r))
  /\ acked' = IF how = "accept" THEN acked \union {r.msg} ELSE acked
  /\ UNCHANGED <<setup, pc, cancelling, connVars, brokerVars, due, early, drops>>

\* ack(), nack(true) (also for a handler that throws) and nack(false)
Settle(r, how) ==
  /\ ~r.settled
  /\ incoming' = (incoming \ {r}) \union {[r EXCEPT !.settled = TRUE]}
  /\ Write(r.sub, Frame(how, r))
  /\ acked' = IF how = "accept" THEN acked \union {r.msg} ELSE acked
  /\ UNCHANGED <<setup, pc, cancelling, connVars, brokerVars, due, early, drops>>
-----------------------------------------------------------------------------
(* The broker: external                                                    *)

\* To the queue at address a, if there is one.
Route(m, a) ==
  IF a \in exists
  THEN queue' = [queue EXCEPT ![a] = Append(@, m)] /\ UNCHANGED over
  ELSE over' = [over EXCEPT ![m] = "unrouted"] /\ UNCHANGED queue

TakeMessage(m) ==
  /\ IF m \in setup.later \ due
     THEN scheduled' = scheduled \union {m} /\ UNCHANGED <<queue, over>>
     ELSE /\ UNCHANGED scheduled
          /\ Route(m, IF setup.home = "queue" \/ m \in setup.selected THEN setup.home
                                                                     ELSE "nowhere")
  /\ UNCHANGED <<unsettled, attempts>>

\* A disposition of a delivery the broker has taken back is ignored.
TakeDisposition(f) ==
  IF f.msg \notin unsettled[f.sub] THEN UNCHANGED <<queue, unsettled, attempts, over>>
  ELSE
    /\ unsettled' = [unsettled EXCEPT ![f.sub] = @ \ {f.msg}]
    /\ \/ /\ f.type = "accept"
          /\ over' = [over EXCEPT ![f.msg] = "accepted"]
          /\ UNCHANGED <<queue, attempts>>
       \/ /\ f.type = "modified" /\ ~Exhausted(f.msg)
          /\ attempts' = [attempts EXCEPT ![f.msg] = @ + 1]
          /\ queue' = [queue EXCEPT ![Address(f.sub)] = <<f.msg>> \o @]
          /\ UNCHANGED over
       \/ /\ f.type = "reject" \/ (f.type = "modified" /\ Exhausted(f.msg))
          /\ attempts' = [attempts EXCEPT ![f.msg] = 0]
          /\ Route(f.msg, "dla")

BrokerReads(c) ==
  /\ wire[c] # <<>>
  /\ wire' = [wire EXCEPT ![c] = Tail(@)]
  /\ LET f == Head(wire[c]) IN
       IF f.type = "send" THEN TakeMessage(f.msg)
                          ELSE TakeDisposition(f) /\ UNCHANGED scheduled
  /\ UNCHANGED <<setup, pc, cancelling, connVars, anycast, exists, incoming, historyVars>>

\* The broker takes back what the receivers of a connection held, as failed
\* deliveries, and deletes the queues that have lost their only receiver.
Lose(c) ==
  LET gone == {Address(s) : s \in {t \in Receiving(c) : AutoDeleted(t)}}
      dead == {m \in Held(c) : Exhausted(m)}
      back(a) == {m \in Held(c) \ dead : \E s \in Receivers(c) :
                                           m \in unsettled[s] /\ Address(s) = a}
      kept(a) == IF a \in gone THEN <<>> ELSE SetToSeq(back(a)) \o queue[a]
      deadLetters == "dla" \in exists \ gone
  IN /\ up' = up \ {c}
     /\ exists' = exists \ gone
     /\ queue' = [a \in Addresses |->
                    kept(a) \o (IF a = "dla" /\ deadLetters THEN SetToSeq(dead) ELSE <<>>)]
     /\ over' = [m \in Msgs |->
                   IF m \in dead /\ ~deadLetters THEN "unrouted"
                   ELSE IF \E a \in gone : m \in back(a) \/ Contains(queue[a], m) THEN "deleted"
                   ELSE over[m]]
     /\ attempts' = [m \in Msgs |-> IF m \in dead THEN 0
                                    ELSE IF m \in Held(c) THEN attempts[m] + 1 ELSE attempts[m]]
     /\ unsettled' = [s \in Subs |-> IF s \in Receivers(c) THEN {} ELSE unsettled[s]]
     /\ UNCHANGED <<setup, cancelling, connection, link, sender, anycast, scheduled, incoming,
                    acked, due, early>>

\* The frames are lost; rhea connects again and restores the links.
ConnectionDrops(c) ==
  /\ c \in up /\ drops < setup.drops
  /\ drops' = drops + 1
  /\ Goto(c, IF pc[c] = "late" THEN "retrying" ELSE "reconnecting")
  /\ wire' = [wire EXCEPT ![c] = <<>>]
  /\ Lose(c)

\* asyncDispose closes the connection in the field, after what it has written.
Dispose ==
  /\ setup.dispose /\ connection \in up /\ wire[connection] = <<>>
  /\ Goto(connection, "disposed")
  /\ UNCHANGED <<wire, drops>>
  /\ Lose(connection)

TimeComes(m) ==
  /\ m \in setup.later \ due
  /\ due' = due \union {m}
  /\ IF m \in scheduled THEN Route(m, setup.home) ELSE UNCHANGED <<queue, over>>
  /\ scheduled' = scheduled \ {m}
  /\ UNCHANGED <<setup, pc, cancelling, connVars, wire, anycast, exists, unsettled, attempts,
                 incoming, acked, early, drops>>

\* A ttlMs runs out while the message waits.
Expires(m) ==
  /\ m \in setup.ttl /\ Contains(queue["topic"], m)
  /\ LET rest == [queue EXCEPT !["topic"] = RemoveFirst(@, m)] IN
       IF "expiry" \in exists
       THEN queue' = [rest EXCEPT !["expiry"] = Append(@, m)] /\ UNCHANGED over
       ELSE queue' = rest /\ over' = [over EXCEPT ![m] = "unrouted"]
  /\ UNCHANGED <<setup, pc, cancelling, connVars, wire, anycast, exists, scheduled, unsettled,
                 attempts, incoming, historyVars>>
-----------------------------------------------------------------------------
(* cancel(): two management requests                                       *)

\* A schedule() that resolved handed out the id.
Cancel(m) ==
  /\ pc[m] = "sent" /\ m \in setup.later /\ cancelling[m] = "no"
  /\ cancelling' = [cancelling EXCEPT ![m] = "find"]
  /\ early' = IF m \in scheduled THEN early \union {m} ELSE early
  /\ UNCHANGED <<setup, pc, connVars, wire, brokerVars, incoming, acked, due, drops>>

\* The search names an anycast queue; none found counts as nothing removed.
FindQueueMBean(m) ==
  /\ cancelling[m] = "find"
  /\ cancelling' = [cancelling EXCEPT ![m] =
                      IF anycast /\ "queue" \in exists THEN "remove" ELSE "done"]
  /\ early' = early \ due
  /\ UNCHANGED <<setup, pc, connVars, wire, brokerVars, incoming, acked, due, drops>>

\* removeMessages with the id as filter: what waits in the queue, scheduled or
\* not, but not what a receiver holds.
RemoveMessages(m) ==
  /\ cancelling[m] = "remove"
  /\ cancelling' = [cancelling EXCEPT ![m] = "done"]
  /\ early' = early \ due
  /\ scheduled' = scheduled \ {m}
  /\ queue' = [queue EXCEPT !["queue"] = RemoveFirst(@, m)]
  /\ over' = IF m \in scheduled \/ Contains(queue["queue"], m)
             THEN [over EXCEPT ![m] = "removed"] ELSE over
  /\ UNCHANGED <<setup, pc, connVars, wire, anycast, exists, unsettled, attempts, incoming,
                 acked, due, drops>>
-----------------------------------------------------------------------------
Next ==
  \/ \E c \in setup.calls : \/ EnsureConnection(c) \/ ConnectionOpens(c) \/ ConnectionFails(c)
                            \/ ConnectionDrops(c) \/ BrokerReads(c)
  \/ Dispose
  \/ \E m \in setup.msgs : \/ GetSender(m) \/ Sendable(m) \/ Send(m) \/ TimeComes(m) \/ Expires(m)
                           \/ Cancel(m) \/ FindQueueMBean(m) \/ RemoveMessages(m)
  \/ \E s \in Subs : Subscribe(s) \/ ReceiverOpens(s) \/ Unsubscribe(s) \/ Deliver(s)
  \/ \E r \in incoming : Settle(r, "accept") \/ Settle(r, "modified") \/ Settle(r, "reject")

(* The network and the broker go on, and a handler settles what it got.    *)
Fairness ==
  /\ \A c \in Calls : WF_vars(ConnectionOpens(c)) /\ WF_vars(BrokerReads(c))
  /\ \A s \in Subs :
       /\ WF_vars(ReceiverOpens(s)) /\ WF_vars(Deliver(s))
       /\ WF_vars(\E r \in incoming : r.sub = s /\ \/ Settle(r, "accept")
                                                   \/ Settle(r, "modified")
                                                   \/ Settle(r, "reject"))

Spec == Init /\ [][Next]_vars
FairSpec == Spec /\ Fairness
-----------------------------------------------------------------------------
(* Properties                                                              *)

(* A message leaves the broker as consumed only after a handler called     *)
(* ack(), whatever settlements of lost links, redeliveries and dead-letter *)
(* copies are on their way (toIncoming, autoaccept: false).                *)
ConsumedOnlyIfAcked == \A m \in Msgs : over[m] = "accepted" => m \in acked

(* The message is in a queue or with a receiver; in its frame, not read.   *)
Stored(m) ==
  \/ \E a \in Addresses : m \in Range(queue[a])
  \/ \E s \in Subs : m \in unsettled[s]
OnTheWire(m) == \E c \in Calls : \E f \in Range(wire[c]) : f.type = "send" /\ f.msg = m

(* The message has reached a queue, a receiver or a handler.               *)
Out(m) == Stored(m) \/ \E r \in incoming : r.msg = m

(* A message is in one queue, once, or with one receiver.                  *)
Apart(q, u) ==
  /\ \A a \in Addresses : IsInjective(q[a])
  /\ \A a, b \in Addresses, m \in Msgs : m \in Range(q[a]) /\ m \in Range(q[b]) => a = b
  /\ \A a \in Addresses, s \in Subs, m \in Msgs : ~(m \in Range(q[a]) /\ m \in u[s])
  /\ \A s, t \in Subs, m \in Msgs : m \in u[s] /\ m \in u[t] => s = t

(* A message is written to one connection, once.                           *)
OneFrame ==
  \A c, d \in Calls : \A i \in DOMAIN wire[c], j \in DOMAIN wire[d] :
    /\ wire[c][i].type = "send" /\ wire[d][j].type = "send"
    /\ wire[c][i].msg = wire[d][j].msg
    => c = d /\ i = j

(* Not sent, on the wire, scheduled, out: one after the other.             *)
Stages ==
  \A m \in Msgs :
    /\ pc[m] # "sent" => ~OnTheWire(m) /\ m \notin scheduled /\ ~Out(m)
    /\ OnTheWire(m) => m \notin scheduled /\ ~Out(m)
    /\ m \in scheduled => ~Out(m)

(* A message is in one place at a time, on the wire, scheduled, in a queue *)
(* or with a receiver, whatever connections are lost and replaced while    *)
(* senders are cached, messages held and settlements on their way.         *)
OnePlace == OneFrame /\ Stages /\ Apart(queue, unsettled)

(* A cancel() that begins when the broker has the message and ends before  *)
(* its time wins: the message is never handed to a handler.  The AMQP      *)
(* links and the management search must mean the same queue.               *)
EarlyCancelWins ==
  \A m \in early : cancelling[m] = "done" => \A r \in incoming : r.msg # m

Waits(m, a) == Contains(queue[a], m) \/ \E s \in Subs : Address(s) = a /\ m \in unsettled[s]
Attended(a) == \E s \in Subs : setup.topic[s] = a /\ pc[s] = "receiving"

(* A message that waits while the topic and its dead letters are attended  *)
(* is acked in the end or comes to a handler of the dead letters: failed   *)
(* attempts run out, and subscribe() finds where the broker puts the rest. *)
EventuallyHandled ==
  \A m \in Msgs :
    Waits(m, "topic") /\ Attended("topic") /\ Attended(".dlq")
      ~> \/ m \in acked
         \/ \E r \in incoming : r.msg = m /\ setup.topic[r.sub] = ".dlq"
         \/ ~Attended("topic") \/ ~Attended(".dlq")
=============================================================================
