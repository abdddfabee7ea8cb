----------------------------- MODULE SseCluster -----------------------------
(***************************************************************************)
(* The SSE cluster: HTTP adapter, hub and bus port of every instance       *)
(* (typescript/src/sse), on top of a broker with topic routing.            *)
(*                                                                         *)
(* A connection is one GET /events request.  hub.connect awaits two        *)
(* subscribe calls; the client may go away, and the broker may fail,       *)
(* between any two steps.  The broker (external) keeps one queue per       *)
(* subscription and forgets the subscriptions of an instance that is gone  *)
(* (transient: exclusive and auto-delete).                                 *)
(*                                                                         *)
(* An id is the sequence of its dot-delimited words.  No id is checked or  *)
(* escaped, so the routing key of a subscription is a topic pattern, and a *)
(* wildcard in an id is one.                                               *)
(***************************************************************************)
EXTENDS Integers, Sequences, FiniteSets, SequencesExt, TopicMatch

CONSTANTS
  Conns,           \* GET /events requests
  Instances,       \* server processes
  InstOf,          \* the instance a request reaches
  Words,           \* words of ids
  UserOf, OrgOf,   \* userId and orgId of a request
  Msgs,            \* accepted POST /publish bodies
  TargetOf,        \* PublishTarget of each
  Broker,          \* the bus the servers run on
  Flaky,           \* requests whose subscribe and unsubscribe may be rejected
  Patient          \* requests whose client stays until connect() is through

Scopes == {"user", "org"}

ASSUME ClusterAssumption ==
  /\ InstOf \in [Conns -> Instances]
  /\ Scopes \subseteq Words /\ Broker \in {"rabbitmq", "artemis"}
  /\ UserOf \in [Conns -> Seq(Words)] /\ OrgOf \in [Conns -> Seq(Words)]
  /\ TargetOf \in [Msgs -> [type: Words, id: Seq(Words)]]
  /\ Flaky \subseteq Conns /\ Patient \subseteq Conns

routingKeyFor(target) == <<target.type>> \o target.id

\* The routing key a scope of the connection is bound with.
Key(c, scope) ==
  routingKeyFor([type |-> scope, id |-> IF scope = "user" THEN UserOf[c] ELSE OrgOf[c]])

\* RabbitMQ binds with the pattern; the Artemis adapter makes a selector of it.
Matches(pattern, key) ==
  IF Broker = "artemis" THEN SelectorMatches(pattern, key) ELSE Binding(pattern, key)

Bindings == Conns \X Scopes

VARIABLES
  stage,      \* how far handleEvents has come
  socket,     \* the client's connection
  closed,     \* openSseSink: cleanup has run
  subs,       \* subscriptions the broker knows
  unbinding,  \* unsubscribe() calls under way
  queue,      \* broker: messages waiting for each subscription
  frames,     \* frames written to each client, with their scope
  process,    \* state of each instance
  published,  \* history: accepted messages in order
  audience    \* history: the subscriptions that existed at the publish

vars == <<stage, socket, closed, subs, unbinding, queue, frames, process,
          published, audience>>

Init ==
  /\ stage = [c \in Conns |-> "new"]
  /\ socket = [c \in Conns |-> "none"]
  /\ closed = [c \in Conns |-> FALSE]
  /\ subs = {} /\ unbinding = {}
  /\ queue = [b \in Bindings |-> <<>>]
  /\ frames = [c \in Conns |-> <<>>]
  /\ process = [i \in Instances |-> "up"]
  /\ published = <<>>
  /\ audience = [m \in Msgs |-> {}]

Alive(c) == process[InstOf[c]] # "exited"
-----------------------------------------------------------------------------
(* The HTTP adapter                                                        *)

\* The teardown handleEvents has in hand: a no-op until connect() is through.
TeardownNever(c) == {}              \* mutant: onClose is not wired
Teardown(c) == IF stage[c] = "bound" THEN {c} \X Scopes ELSE {}

\* cleanup(): once per connection, stop the heartbeat and call the teardown.
Cleanup(c) ==
  /\ closed' = [closed EXCEPT ![c] = TRUE]
  /\ unbinding' = IF closed[c] THEN unbinding ELSE unbinding \union Teardown(c)

\* GET /events with both parameters: headers and hello are written at once.
OpenStream(c) ==
  /\ process[InstOf[c]] = "up"
  /\ stage[c] = "new"
  /\ stage' = [stage EXCEPT ![c] = "opening"]
  /\ socket' = [socket EXCEPT ![c] = "open"]
  /\ UNCHANGED <<closed, subs, unbinding, queue, frames, process, published, audience>>

\* GET /events without userId or orgId: 400, nothing is bound.
RejectStream(c) ==
  /\ process[InstOf[c]] = "up"
  /\ stage[c] = "new"
  /\ stage' = [stage EXCEPT ![c] = "rejected"]
  /\ socket' = [socket EXCEPT ![c] = "closed"]
  /\ UNCHANGED <<closed, subs, unbinding, queue, frames, process, published, audience>>

\* The client goes away.
Disconnect(c) ==
  /\ Alive(c)
  /\ socket[c] = "open"
  /\ c \in Patient => stage[c] = "bound"
  /\ socket' = [socket EXCEPT ![c] = "closed"]
  /\ Cleanup(c)
  /\ UNCHANGED <<stage, subs, queue, frames, process, published, audience>>
-----------------------------------------------------------------------------
(* SseHub.connect: the user binding, then the org binding                  *)

Bind(c, from, scope, to) ==
  /\ Alive(c)
  /\ stage[c] = from
  /\ stage' = [stage EXCEPT ![c] = to]
  /\ subs' = subs \union {<<c, scope>>}
  /\ UNCHANGED <<socket, closed, unbinding, queue, frames, process, published, audience>>

BindUser(c) == Bind(c, "opening", "user", "userBound")
BindOrg(c) == Bind(c, "userBound", "org", "bound")

\* A subscribe is rejected: handle() ends the response, which closes it.
BindFails(c) ==
  /\ c \in Flaky /\ Alive(c)
  /\ stage[c] \in {"opening", "userBound"}
  /\ stage' = [stage EXCEPT ![c] = "failed"]
  /\ socket' = [socket EXCEPT ![c] = "closed"]
  /\ Cleanup(c)
  /\ UNCHANGED <<subs, queue, frames, process, published, audience>>

\* One unsubscribe of the teardown, settled either way (Promise.allSettled).
Unbind(b) ==
  /\ Alive(b[1])
  /\ b \in unbinding
  /\ unbinding' = unbinding \ {b}
  /\ subs' = subs \ {b}
  /\ queue' = [queue EXCEPT ![b] = <<>>]
  /\ UNCHANGED <<stage, socket, closed, frames, process, published, audience>>

UnbindFails(b) ==
  /\ b[1] \in Flaky /\ Alive(b[1])
  /\ b \in unbinding
  /\ unbinding' = unbinding \ {b}
  /\ UNCHANGED <<stage, socket, closed, subs, queue, frames, process, published, audience>>
-----------------------------------------------------------------------------
(* Publishing and delivery                                                 *)

MatchAll(m) == subs  \* mutant: the routing key is ignored
Matching(m) == {b \in subs : Matches(Key(b[1], b[2]), routingKeyFor(TargetOf[m]))}

\* POST /publish on any running instance; the broker copies the message to
\* every matching subscription of every instance.
Publish(m) ==
  /\ \E i \in Instances : process[i] # "exited"
  /\ ~Contains(published, m)
  /\ published' = Append(published, m)
  /\ audience' = [audience EXCEPT ![m] = Matching(m)]
  /\ queue' = [b \in Bindings |-> IF b \in Matching(m) THEN Append(queue[b], m) ELSE queue[b]]
  /\ UNCHANGED <<stage, socket, closed, subs, unbinding, frames, process>>

\* Mutant: the ack comes first and the frame may be lost.
DeliverAckFirst(b) ==
  LET c == b[1] IN
  /\ Alive(c) /\ b \in subs
  /\ queue[b] # <<>>
  /\ queue' = [queue EXCEPT ![b] = Tail(@)]
  /\ UNCHANGED <<stage, socket, closed, subs, unbinding, frames, process, published, audience>>

\* The subscription handler: sink.send, then ack.  A write to a client that
\* is gone is lost.
Deliver(b) ==
  LET c == b[1] IN
  /\ Alive(c) /\ b \in subs
  /\ queue[b] # <<>>
  /\ queue' = [queue EXCEPT ![b] = Tail(@)]
  /\ frames' = IF socket[c] = "open"
               THEN [frames EXCEPT ![c] = Append(@, [scope |-> b[2], msg |-> Head(queue[b])])]
               ELSE frames
  /\ UNCHANGED <<stage, socket, closed, subs, unbinding, process, published, audience>>
-----------------------------------------------------------------------------
(* The end of an instance                                                  *)

\* srv.close(): no new connections; it resolves when every stream is closed.
CloseServer(i) ==
  /\ process[i] = "up"
  /\ process' = [process EXCEPT ![i] = "closing"]
  /\ UNCHANGED <<stage, socket, closed, subs, unbinding, queue, frames, published, audience>>

\* The process ends and the broker drops what it had subscribed.
Exit(i) ==
  LET mine == {c \in Conns : InstOf[c] = i} IN
  /\ process' = [process EXCEPT ![i] = "exited"]
  /\ socket' = [c \in Conns |-> IF c \in mine /\ socket[c] = "open" THEN "closed" ELSE socket[c]]
  /\ subs' = {b \in subs : b[1] \notin mine}
  /\ unbinding' = {b \in unbinding : b[1] \notin mine}
  /\ queue' = [b \in Bindings |-> IF b[1] \in mine THEN <<>> ELSE queue[b]]
  /\ UNCHANGED <<stage, closed, frames, published, audience>>

\* srv.close() resolved, asyncDispose, process.exit.
FinishClose(i) ==
  /\ process[i] = "closing"
  /\ \A c \in Conns : InstOf[c] = i => socket[c] # "open"
  /\ Exit(i)

\* A second signal makes srv.close() reject, and a crash asks nobody.
Crash(i) ==
  /\ process[i] # "exited"
  /\ Exit(i)
-----------------------------------------------------------------------------
Next ==
  \/ \E c \in Conns :
       \/ OpenStream(c) \/ RejectStream(c) \/ Disconnect(c)
       \/ BindUser(c) \/ BindOrg(c) \/ BindFails(c)
  \/ \E b \in Bindings : Unbind(b) \/ UnbindFails(b) \/ Deliver(b)
  \/ \E m \in Msgs : Publish(m)
  \/ \E i \in Instances : CloseServer(i) \/ FinishClose(i) \/ Crash(i)

Spec == Init /\ [][Next]_vars
-----------------------------------------------------------------------------
Before(s, m, n) == \E i, j \in DOMAIN s : i < j /\ s[i] = m /\ s[j] = n

(* The broker as the only backplane: a connected client has been or will   *)
(* be sent exactly the messages that match its user or organisation key    *)
(* since it was bound, in the order they were accepted (so none twice),    *)
(* whichever instance accepted them.                                       *)
ExactlyTheAudience ==
  \A c \in Conns, scope \in Scopes : socket[c] = "open" =>
    LET waiting == queue[<<c, scope>>]
        sent == {k \in DOMAIN frames[c] : frames[c][k].scope = scope}
    IN  /\ \A m \in Msgs : <<c, scope>> \in audience[m] <=>
             m \in Range(waiting) \/ \E k \in sent : frames[c][k].msg = m
        /\ \A j, k \in sent : j < k => Before(published, frames[c][j].msg, frames[c][k].msg)
        /\ \A k \in sent, j \in DOMAIN waiting : Before(published, frames[c][k].msg, waiting[j])
        /\ \A j, k \in DOMAIN waiting : j < k => Before(published, waiting[j], waiting[k])

Plain(key) == \A i \in DOMAIN key : key[i] \notin {Star, Hash}

(* A publish reaches only the connections of the user or the organisation  *)
(* it names: a client whose id has no wildcard in it is sent, in the scope *)
(* of that id, nothing but messages with exactly its routing key, also by  *)
(* frames still queued when connections come, fail and go.                 *)
OnlyMine ==
  \A c \in Conns : \A k \in DOMAIN frames[c] :
    LET f == frames[c][k] IN
    Plain(Key(c, f.scope)) => routingKeyFor(TargetOf[f.msg]) = Key(c, f.scope)

Leaked(b) ==
  /\ b \in subs \ unbinding
  /\ socket[b[1]] = "closed" /\ stage[b[1]] \in {"bound", "failed"}

Steady == Patient \ Flaky

(* Connections come and go without leaking topology: when a client leaves  *)
(* after connect() is through, both its subscriptions are being torn down, *)
(* whatever the other connections, publishers and instances do meanwhile.  *)
NoLeak == \A b \in Bindings : b[1] \in Steady => ~Leaked(b)

(* No subscription of a closed connection is left behind, also when the    *)
(* client leaves while connect() is still under way.                       *)
NeverLeaks == \A b \in Bindings : ~Leaked(b)
=============================================================================
