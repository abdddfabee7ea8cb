-------------------------- MODULE SseClusterProofs --------------------------
(***************************************************************************)
(* What the SSE cluster guarantees for any number of instances, clients    *)
(* and messages, whichever of them fail.                                   *)
(***************************************************************************)
EXTENDS SseCluster, ArrayLemmas

Stages == {"new", "opening", "rejected", "userBound", "bound", "failed"}
Sent == [scope: Scopes, msg: Msgs]

(* The values the state of the cluster takes.                              *)
Typed ==
  /\ stage \in [Conns -> Stages]
  /\ socket \in [Conns -> {"none", "open", "closed"}]
  /\ closed \in [Conns -> BOOLEAN]
  /\ subs \subseteq Bindings /\ unbinding \subseteq Bindings
  /\ queue \in [Bindings -> Seq(Msgs)]
  /\ frames \in [Conns -> Seq(Sent)]
  /\ process \in [Instances -> {"up", "closing", "exited"}]
  /\ published \in Seq(Msgs)
  /\ audience \in [Msgs -> SUBSET Bindings]

-----------------------------------------------------------------------------
(* Types                                                                   *)

(* A binding is a connection and a scope.                                  *)
LEMMA BindingParts ==
  /\ \A b \in Bindings : b[1] \in Conns /\ b[2] \in Scopes /\ b = <<b[1], b[2]>>
  /\ \A c \in Conns, scope \in Scopes : <<c, scope>> \in Bindings
BY DEF Bindings

(* Cleaning up keeps the types.                                            *)
LEMMA CleanupType ==
  ASSUME Typed, NEW c \in Conns, Cleanup(c)
  PROVE  closed' \in [Conns -> BOOLEAN] /\ unbinding' \subseteq Bindings
<1>1. closed' \in [Conns -> BOOLEAN]
  BY DEF Cleanup, Typed
<1>2. Teardown(c) \subseteq Bindings
  BY DEF Teardown, Bindings
<1> QED BY <1>1, <1>2 DEF Cleanup, Typed

(* Every step keeps the types.                                             *)
LEMMA TypedStep == Typed /\ [Next]_vars => Typed'
<1> SUFFICES ASSUME Typed, [Next]_vars PROVE Typed'
  OBVIOUS
<1>1. ASSUME NEW c \in Conns, OpenStream(c) \/ RejectStream(c) PROVE Typed'
  <2>1. stage' \in [Conns -> Stages] /\ socket' \in [Conns -> {"none", "open", "closed"}]
    BY <1>1 DEF OpenStream, RejectStream, Typed, Stages
  <2> QED BY <1>1, <2>1 DEF OpenStream, RejectStream, Typed
<1>2. ASSUME NEW c \in Conns, Disconnect(c) \/ BindFails(c) PROVE Typed'
  <2>1. socket' \in [Conns -> {"none", "open", "closed"}] /\ stage' \in [Conns -> Stages]
    BY <1>2 DEF Disconnect, BindFails, Typed, Stages
  <2>2. closed' \in [Conns -> BOOLEAN] /\ unbinding' \subseteq Bindings
    BY <1>2, CleanupType DEF Disconnect, BindFails
  <2> QED BY <1>2, <2>1, <2>2 DEF Disconnect, BindFails, Typed
<1>3. ASSUME NEW c \in Conns, BindUser(c) \/ BindOrg(c) PROVE Typed'
  <2>1. subs' \subseteq Bindings
    BY <1>3 DEF BindUser, BindOrg, Bind, Typed, Bindings, Scopes
  <2>2. stage' \in [Conns -> Stages]
    BY <1>3 DEF BindUser, BindOrg, Bind, Typed, Stages
  <2> QED BY <1>3, <2>1, <2>2 DEF BindUser, BindOrg, Bind, Typed
<1>4. ASSUME NEW b \in Bindings, Unbind(b) \/ UnbindFails(b) PROVE Typed'
  <2>1. queue' \in [Bindings -> Seq(Msgs)]
    <3>1. <<>> \in Seq(Msgs)
      OBVIOUS
    <3>2. queue' = queue \/ queue' = [queue EXCEPT ![b] = <<>>]
      BY <1>4 DEF Unbind, UnbindFails
    <3> QED BY <3>1, <3>2 DEF Typed
  <2> QED BY <1>4, <2>1 DEF Unbind, UnbindFails, Typed
<1>5. ASSUME NEW b \in Bindings, Deliver(b) PROVE Typed'
  <2>1. queue[b] \in Seq(Msgs) /\ queue[b] # <<>>
    BY <1>5 DEF Deliver, Typed
  <2>2. Tail(queue[b]) \in Seq(Msgs) /\ Head(queue[b]) \in Msgs
    BY <2>1
  <2>3. queue' \in [Bindings -> Seq(Msgs)]
    <3>1. queue' = [queue EXCEPT ![b] = Tail(queue[b])]
      BY <1>5 DEF Deliver
    <3> QED BY <2>2, <3>1 DEF Typed
  <2>4. [scope |-> b[2], msg |-> Head(queue[b])] \in Sent /\ b[1] \in Conns
    BY <2>2, BindingParts DEF Sent
  <2>5. frames' \in [Conns -> Seq(Sent)]
    <3>1. frames[b[1]] \in Seq(Sent)
      BY <2>4 DEF Typed
    <3>2. Append(frames[b[1]], [scope |-> b[2], msg |-> Head(queue[b])]) \in Seq(Sent)
      BY <2>4, <3>1, AppendRange
    <3>3. \/ frames' = frames
          \/ frames' = [frames EXCEPT ![b[1]] =
                          Append(frames[b[1]], [scope |-> b[2], msg |-> Head(queue[b])])]
      BY <1>5 DEF Deliver
    <3> QED BY <3>2, <3>3 DEF Typed
  <2> QED BY <1>5, <2>3, <2>5 DEF Deliver, Typed
<1>6. ASSUME NEW m \in Msgs, Publish(m) PROVE Typed'
  <2>1. published' \in Seq(Msgs)
    BY <1>6 DEF Publish, Typed
  <2>2. queue' \in [Bindings -> Seq(Msgs)]
    <3>1. ASSUME NEW b \in Bindings PROVE Append(queue[b], m) \in Seq(Msgs)
      BY DEF Typed
    <3> QED BY <1>6, <3>1 DEF Publish, Typed
  <2>3. Matching(m) \subseteq Bindings
    BY DEF Matching, Typed
  <2>4. audience' \in [Msgs -> SUBSET Bindings]
    <3>1. audience' = [audience EXCEPT ![m] = Matching(m)]
      BY <1>6 DEF Publish
    <3> QED BY <2>3, <3>1 DEF Typed
  <2> QED BY <1>6, <2>1, <2>2, <2>4 DEF Publish, Typed
<1>7. ASSUME NEW i \in Instances, CloseServer(i) PROVE Typed'
  BY <1>7 DEF CloseServer, Typed
<1>8. ASSUME NEW i \in Instances, Exit(i) PROVE Typed'
  <2>1. queue' \in [Bindings -> Seq(Msgs)]
    BY <1>8 DEF Exit, Typed
  <2>2. socket' \in [Conns -> {"none", "open", "closed"}]
    BY <1>8 DEF Exit, Typed
  <2> QED BY <1>8, <2>1, <2>2 DEF Exit, Typed
<1>9. CASE UNCHANGED vars
  BY <1>9 DEF vars, Typed
<1> QED BY <1>1, <1>2, <1>3, <1>4, <1>5, <1>6, <1>7, <1>8, <1>9 DEF Next, FinishClose, Crash

(* The types hold throughout.                                              *)
LEMMA TypedInvariant == Spec => []Typed
<1>1. Init => Typed
  BY ClusterAssumption DEF Init, Typed, Stages
<1> QED BY <1>1, TypedStep, PTL DEF Spec

-----------------------------------------------------------------------------
(* Who sees a message                                                      *)

(* A pattern without wildcards matches itself only: every word of it takes *)
(* one word of the key, so the cut goes on word by word.                   *)
LEMMA PlainMatches ==
  ASSUME NEW p \in Seq(Words), NEW k \in Seq(Words), Plain(p), Matches(p, k)
  PROVE  k = p
<1>1. CASE Broker = "artemis"
  <2>1. SelectorMatches(p, k)
    BY <1>1 DEF Matches
  <2> QED BY <2>1 DEF Plain, SelectorMatches
<1>2. CASE Broker # "artemis"
  <2>1. Binding(p, k)
    BY <1>2 DEF Matches
  <2>2. PICK cut \in [0 .. Len(p) -> 0 .. Len(k)] :
          /\ cut[0] = 0 /\ cut[Len(p)] = Len(k)
          /\ \A i \in 1 .. Len(p) :
               /\ cut[i - 1] <= cut[i]
               /\ p[i] # Hash => cut[i] = cut[i - 1] + 1 /\ p[i] \in {Star, k[cut[i]]}
    BY <2>1 DEF Binding
  <2>3. \A i \in 1 .. Len(p) : cut[i] = cut[i - 1] + 1 /\ p[i] = k[cut[i]]
    BY <2>2 DEF Plain
  <2>4. \A i \in 0 .. Len(p) : cut[i] = i
    <3> DEFINE S == {i \in 0 .. Len(p) : cut[i] # i}
    <3> SUFFICES ASSUME S # {} PROVE FALSE
      OBVIOUS
    <3>1. Len(p) \in Nat /\ S \subseteq Nat
      OBVIOUS
    <3>2. PICK i \in S : \A j \in S : ~(<<j, i>> \in OpToRel(<, Nat))
      BY <3>1, WFMin, NatLessThanWellFounded
    <3>3. i \in 0 .. Len(p) /\ cut[i] # i /\ i # 0
      BY <2>2
    <3>4. i - 1 \in 0 .. Len(p) /\ i \in 1 .. Len(p) /\ i - 1 < i
      BY <3>1, <3>3
    <3>5. i - 1 \notin S
      BY <3>1, <3>2, <3>3, <3>4 DEF OpToRel
    <3>6. cut[i - 1] = i - 1
      BY <3>4, <3>5
    <3> QED BY <2>3, <3>3, <3>4, <3>6
  <2>5. Len(p) \in Nat /\ Len(p) = Len(k)
    BY <2>2, <2>4
  <2>6. \A i \in 1 .. Len(p) : p[i] = k[i]
    BY <2>3, <2>4, <2>5
  <2> QED BY <2>5, <2>6
<1> QED BY <1>1, <1>2

(* Routing keys are sequences of words.                                    *)
LEMMA KeyType ==
  /\ \A c \in Conns, scope \in Scopes : Key(c, scope) \in Seq(Words)
  /\ \A m \in Msgs : routingKeyFor(TargetOf[m]) \in Seq(Words)
<1>1. ASSUME NEW w \in Words, NEW s \in Seq(Words) PROVE routingKeyFor([type |-> w, id |-> s]) \in Seq(Words)
  <2>1. <<w>> \in Seq(Words)
    OBVIOUS
  <2> QED BY <2>1 DEF routingKeyFor
<1>2. ASSUME NEW c \in Conns, NEW scope \in Scopes PROVE Key(c, scope) \in Seq(Words)
  <2>1. scope \in Words /\ UserOf[c] \in Seq(Words) /\ OrgOf[c] \in Seq(Words)
    BY ClusterAssumption
  <2> QED BY <1>1, <2>1 DEF Key
<1>3. ASSUME NEW m \in Msgs PROVE routingKeyFor(TargetOf[m]) \in Seq(Words)
  <2>1. TargetOf[m].type \in Words /\ TargetOf[m].id \in Seq(Words)
    BY ClusterAssumption
  <2>2. <<TargetOf[m].type>> \in Seq(Words)
    BY <2>1
  <2> QED BY <2>1, <2>2 DEF routingKeyFor
<1> QED BY <1>2, <1>3

(* The key of the scope takes the message.                                 *)
Fits(c, scope, m) == Matches(Key(c, scope), routingKeyFor(TargetOf[m]))

(* What waits for a subscription, and what was written to a client, fits   *)
(* the key it is bound with.                                               *)
Addressed ==
  /\ \A b \in Bindings : \A m \in Range(queue[b]) : Fits(b[1], b[2], m)
  /\ \A c \in Conns : \A k \in DOMAIN frames[c] : Fits(c, frames[c][k].scope, frames[c][k].msg)

(* Every step keeps the addresses right.                                   *)
LEMMA AddressedStep == Typed /\ Addressed /\ [Next]_vars => Addressed'
<1> SUFFICES ASSUME Typed, Addressed, [Next]_vars PROVE Addressed'
  OBVIOUS
<1>0. Range(<<>>) = {}
  BY DEF Range
<1>1. ASSUME frames' = frames, \A b \in Bindings : queue'[b] = queue[b] \/ queue'[b] = <<>> PROVE Addressed'
  BY <1>0, <1>1 DEF Addressed
<1>2. ASSUME NEW b \in Bindings, Deliver(b) PROVE Addressed'
  <2> DEFINE q == queue[b]
             f == frames[b[1]]
             x == [scope |-> b[2], msg |-> Head(q)]
  <2>1. q \in Seq(Msgs) /\ q # <<>>
    BY <1>2 DEF Deliver, Typed
  <2>2. b[1] \in Conns /\ b[2] \in Scopes /\ f \in Seq(Sent)
    BY BindingParts DEF Typed
  <2>3. Head(q) \in Range(q) /\ Range(Tail(q)) \subseteq Range(q)
    BY <2>1, TailRange
  <2>4. Fits(b[1], b[2], Head(q))
    BY <2>3 DEF Addressed
  <2>5. \A d \in Bindings : queue'[d] = IF d = b THEN Tail(q) ELSE queue[d]
    BY <1>2 DEF Deliver, Typed
  <2>6. \A d \in Bindings : \A m \in Range(queue'[d]) : Fits(d[1], d[2], m)
    BY <2>3, <2>5 DEF Addressed
  <2>7. ASSUME NEW c \in Conns, NEW k \in DOMAIN frames'[c]
        PROVE  Fits(c, frames'[c][k].scope, frames'[c][k].msg)
    <3>1. CASE frames'[c] = frames[c]
      BY <2>7, <3>1 DEF Addressed
    <3>2. CASE c = b[1] /\ frames'[c] = Append(f, x)
      <4>1. (k \in DOMAIN f /\ frames'[c][k] = f[k]) \/ frames'[c][k] = x
        BY <2>2, <2>7, <3>2
      <4>2. x.scope = b[2] /\ x.msg = Head(q)
        OBVIOUS
      <4> QED BY <2>4, <3>2, <4>1, <4>2 DEF Addressed
    <3> QED BY <1>2, <3>1, <3>2 DEF Deliver, Typed
  <2> QED BY <2>6, <2>7 DEF Addressed
<1>3. ASSUME NEW m \in Msgs, Publish(m) PROVE Addressed'
  <2>1. ASSUME NEW b \in Bindings, NEW n \in Range(queue'[b]) PROVE Fits(b[1], b[2], n)
    <3>1. CASE queue'[b] = queue[b]
      BY <2>1, <3>1 DEF Addressed
    <3>2. CASE b \in Matching(m) /\ queue'[b] = Append(queue[b], m)
      <4>1. n \in Range(queue[b]) \/ n = m
        BY <2>1, <3>2, AppendRange DEF Typed
      <4> QED BY <3>2, <4>1 DEF Addressed, Matching, Fits
    <3> QED BY <1>3, <3>1, <3>2 DEF Publish
  <2>2. frames' = frames
    BY <1>3 DEF Publish
  <2> QED BY <2>1, <2>2 DEF Addressed
<1>4. ASSUME NEW c \in Conns,
             \/ OpenStream(c) \/ RejectStream(c) \/ Disconnect(c)
             \/ BindUser(c) \/ BindOrg(c) \/ BindFails(c)
      PROVE  Addressed'
  BY <1>1, <1>4 DEF OpenStream, RejectStream, Disconnect, BindUser, BindOrg, Bind, BindFails
<1>5. ASSUME NEW b \in Bindings, Unbind(b) \/ UnbindFails(b) PROVE Addressed'
  BY <1>1, <1>5 DEF Unbind, UnbindFails, Typed
<1>6. ASSUME NEW i \in Instances, CloseServer(i) \/ FinishClose(i) \/ Crash(i) PROVE Addressed'
  BY <1>1, <1>6 DEF CloseServer, FinishClose, Crash, Exit, Typed
<1>7. CASE UNCHANGED vars
  BY <1>1, <1>7 DEF vars
<1> QED BY <1>2, <1>3, <1>4, <1>5, <1>6, <1>7 DEF Next

(* A publish is seen by nobody but the user or organisation it names, as   *)
(* long as ids hold no wildcard, whatever connections come and go between  *)
(* the accept and the delivery and whichever broker routes: see OnlyMine.  *)
THEOREM PrivacySafety == Spec => []OnlyMine
<1>1. Init => Addressed
  BY DEF Init, Addressed, Range
<1>2. Typed /\ Addressed => OnlyMine
  <2> SUFFICES ASSUME Typed, Addressed, NEW c \in Conns, NEW k \in DOMAIN frames[c],
                      Plain(Key(c, frames[c][k].scope))
               PROVE  routingKeyFor(TargetOf[frames[c][k].msg]) = Key(c, frames[c][k].scope)
    BY DEF OnlyMine
  <2>1. frames[c][k] \in Sent
    BY DEF Typed
  <2>2. frames[c][k].scope \in Scopes /\ frames[c][k].msg \in Msgs
    BY <2>1 DEF Sent
  <2>3. Matches(Key(c, frames[c][k].scope), routingKeyFor(TargetOf[frames[c][k].msg]))
    BY DEF Addressed, Fits
  <2> QED BY <2>2, <2>3, KeyType, PlainMatches
<1> QED BY <1>1, <1>2, AddressedStep, TypedInvariant, PTL DEF Spec

-----------------------------------------------------------------------------
(* What a connection that is closed leaves behind                          *)

(* A cleanup means the client is gone, and an exited instance has no       *)
(* subscription.  A client that waits for connect() is there until it is   *)
(* through, and what it leaves then is being unsubscribed.                 *)
TornDown ==
  /\ \A c \in Conns :
       /\ closed[c] => socket[c] = "closed"
       /\ stage[c] = "new" => socket[c] = "none"
       /\ ~Alive(c) => \A scope \in Scopes : <<c, scope>> \notin subs
  /\ \A c \in Steady :
       /\ stage[c] # "failed"
       /\ stage[c] \in {"opening", "userBound"} /\ Alive(c) => socket[c] = "open"
       /\ stage[c] = "bound" /\ socket[c] # "open" =>
            \A scope \in Scopes : <<c, scope>> \in subs => <<c, scope>> \in unbinding

(* The same of one connection.                                             *)
TornDownFor(c) ==
  /\ closed[c] => socket[c] = "closed"
  /\ stage[c] = "new" => socket[c] = "none"
  /\ ~Alive(c) => \A scope \in Scopes : <<c, scope>> \notin subs
  /\ c \in Steady =>
       /\ stage[c] # "failed"
       /\ stage[c] \in {"opening", "userBound"} /\ Alive(c) => socket[c] = "open"
       /\ stage[c] = "bound" /\ socket[c] # "open" =>
            \A scope \in Scopes : <<c, scope>> \in subs => <<c, scope>> \in unbinding

(* Every step keeps closed connections torn down.                          *)
LEMMA TornDownStep == Typed /\ TornDown /\ [Next]_vars => TornDown'
<1> SUFFICES ASSUME Typed, TornDown, [Next]_vars, NEW c \in Conns PROVE TornDownFor(c)'
  BY ClusterAssumption DEF TornDown, TornDownFor, Steady
<1>0. TornDownFor(c)
  BY DEF TornDown, TornDownFor
<1>1. ASSUME stage'[c] = stage[c], socket'[c] = socket[c], closed'[c] = closed[c],
             process'[InstOf[c]] = process[InstOf[c]] \/ (Alive(c) /\ Alive(c)'),
             \A scope \in Scopes : /\ <<c, scope>> \in subs' => <<c, scope>> \in subs
                                   /\ <<c, scope>> \in unbinding /\ <<c, scope>> \notin unbinding'
                                        => <<c, scope>> \notin subs' \/ c \in Flaky
      PROVE  TornDownFor(c)'
  BY <1>0, <1>1 DEF TornDownFor, Alive, Steady
<1>2. ASSUME NEW d \in Conns, OpenStream(d) \/ RejectStream(d) PROVE TornDownFor(c)'
  <2>1. CASE d = c
    <3>1. stage[c] = "new" /\ socket[c] = "none" /\ ~closed[c] /\ UNCHANGED <<closed, subs, process>>
      BY <1>0, <1>2, <2>1 DEF TornDownFor, OpenStream, RejectStream
    <3>2. \/ stage'[c] = "opening" /\ socket'[c] = "open"
          \/ stage'[c] = "rejected" /\ socket'[c] = "closed"
      BY <1>2, <2>1 DEF OpenStream, RejectStream, Typed
    <3> QED BY <1>0, <3>1, <3>2 DEF TornDownFor, Alive
  <2>2. CASE d # c
    BY <1>1, <1>2, <2>2 DEF OpenStream, RejectStream, Typed
  <2> QED BY <2>1, <2>2
<1>3. ASSUME NEW d \in Conns, Disconnect(d) PROVE TornDownFor(c)'
  <2>1. CASE d = c
    <3>1. /\ Alive(c) /\ socket[c] = "open" /\ ~closed[c] /\ stage[c] # "new"
          /\ c \in Patient => stage[c] = "bound"
          /\ UNCHANGED <<stage, subs, process>>
      BY <1>0, <1>3, <2>1 DEF Disconnect, TornDownFor
    <3>2. socket'[c] = "closed" /\ unbinding' = unbinding \union Teardown(c)
      BY <1>3, <2>1, <3>1 DEF Disconnect, Cleanup, Typed
    <3>3. stage[c] = "bound" => \A scope \in Scopes : <<c, scope>> \in unbinding'
      BY <3>2 DEF Teardown
    <3> QED BY <1>0, <3>1, <3>2, <3>3 DEF TornDownFor, Alive, Steady
  <2>2. CASE d # c
    <3>1. unbinding \subseteq unbinding'
      BY <1>3 DEF Disconnect, Cleanup
    <3> QED BY <1>1, <1>3, <2>2, <3>1 DEF Disconnect, Cleanup, Typed
  <2> QED BY <2>1, <2>2
<1>4. ASSUME NEW d \in Conns, BindFails(d) PROVE TornDownFor(c)'
  <2>1. CASE d = c
    <3>1. /\ Alive(c) /\ c \in Flaky /\ UNCHANGED <<subs, process>>
          /\ stage'[c] = "failed" /\ socket'[c] = "closed"
      BY <1>4, <2>1 DEF BindFails, Typed
    <3> QED BY <3>1 DEF TornDownFor, Alive, Steady
  <2>2. CASE d # c
    <3>1. unbinding \subseteq unbinding'
      BY <1>4 DEF BindFails, Cleanup
    <3> QED BY <1>1, <1>4, <2>2, <3>1 DEF BindFails, Cleanup, Typed
  <2> QED BY <2>1, <2>2
<1>5. ASSUME NEW d \in Conns, BindUser(d) \/ BindOrg(d) PROVE TornDownFor(c)'
  <2>1. CASE d = c
    <3>1. /\ Alive(c) /\ UNCHANGED <<socket, closed, unbinding, process>>
          /\ stage[c] \in {"opening", "userBound"} /\ stage'[c] \in {"userBound", "bound"}
      BY <1>5, <2>1 DEF BindUser, BindOrg, Bind, Typed
    <3>2. c \in Steady => socket'[c] = "open"
      BY <1>0, <3>1 DEF TornDownFor
    <3> QED BY <1>0, <3>1, <3>2 DEF TornDownFor, Alive
  <2>2. CASE d # c
    <3>1. \A scope \in Scopes : <<c, scope>> \in subs' => <<c, scope>> \in subs
      BY <1>5, <2>2 DEF BindUser, BindOrg, Bind
    <3> QED BY <1>1, <1>5, <2>2, <3>1 DEF BindUser, BindOrg, Bind, Typed
  <2> QED BY <2>1, <2>2
<1>6. ASSUME NEW b \in Bindings, Unbind(b) PROVE TornDownFor(c)'
  BY <1>1, <1>6 DEF Unbind
<1>7. ASSUME NEW b \in Bindings, UnbindFails(b) PROVE TornDownFor(c)'
  <2>1. ASSUME NEW scope \in Scopes, b = <<c, scope>> PROVE c \in Flaky
    BY <1>7, <2>1 DEF UnbindFails
  <2> QED BY <1>1, <1>7, <2>1 DEF UnbindFails
<1>8. ASSUME NEW b \in Bindings, Deliver(b) PROVE TornDownFor(c)'
  BY <1>1, <1>8 DEF Deliver
<1>9. ASSUME NEW m \in Msgs, Publish(m) PROVE TornDownFor(c)'
  BY <1>1, <1>9 DEF Publish
<1>10. ASSUME NEW i \in Instances, CloseServer(i) PROVE TornDownFor(c)'
  <2>1. process'[InstOf[c]] = process[InstOf[c]] \/ (Alive(c) /\ Alive(c)')
    BY <1>10, ClusterAssumption DEF CloseServer, Typed, Alive
  <2> QED BY <1>1, <1>10, <2>1 DEF CloseServer
<1>11. ASSUME NEW i \in Instances, Exit(i) PROVE TornDownFor(c)'
  <2>1. CASE InstOf[c] = i
    <3>1. \A scope \in Scopes : <<c, scope>> \notin subs'
      BY <1>11, <2>1 DEF Exit
    <3>2. ~Alive(c)'
      BY <1>11, <2>1, ClusterAssumption DEF Exit, Typed, Alive
    <3>3. /\ socket'[c] = IF socket[c] = "open" THEN "closed" ELSE socket[c]
          /\ UNCHANGED <<stage, closed>>
      BY <1>11, <2>1 DEF Exit
    <3> QED BY <1>0, <3>1, <3>2, <3>3 DEF TornDownFor
  <2>2. CASE InstOf[c] # i
    <3>1. process'[InstOf[c]] = process[InstOf[c]]
      BY <1>11, <2>2, ClusterAssumption DEF Exit, Typed
    <3>2. \A scope \in Scopes : /\ <<c, scope>> \in subs' => <<c, scope>> \in subs
                                /\ <<c, scope>> \in unbinding => <<c, scope>> \in unbinding'
      BY <1>11, <2>2 DEF Exit
    <3>3. socket'[c] = socket[c] /\ UNCHANGED <<stage, closed>>
      BY <1>11, <2>2 DEF Exit
    <3> QED BY <1>1, <3>1, <3>2, <3>3
  <2> QED BY <2>1, <2>2
<1>12. CASE UNCHANGED vars
  BY <1>1, <1>12 DEF vars
<1> QED BY <1>2, <1>3, <1>4, <1>5, <1>6, <1>7, <1>8, <1>9, <1>10, <1>11, <1>12
        DEF Next, FinishClose, Crash

(* A client that leaves after connect() is through leaves no subscription  *)
(* that nobody removes, whatever the rest of the cluster does: see NoLeak. *)
THEOREM TeardownSafety == Spec => []NoLeak
<1>1. Init => TornDown
  BY ClusterAssumption DEF Init, TornDown, Steady
<1>2. TornDown => NoLeak
  <2> SUFFICES ASSUME TornDown, NEW b \in Bindings, b[1] \in Steady, Leaked(b) PROVE FALSE
    BY DEF NoLeak
  <2>1. b = <<b[1], b[2]>> /\ b[2] \in Scopes
    BY BindingParts
  <2> QED BY <2>1 DEF TornDown, Leaked
<1> QED BY <1>1, <1>2, TornDownStep, TypedInvariant, PTL DEF Spec

-----------------------------------------------------------------------------
(* The audience of a message                                               *)

(* Only accepted messages have an audience; a request that was not made    *)
(* yet is in none and was sent nothing; subscriptions are taken down only  *)
(* after the client is gone.                                               *)
Known ==
  /\ \A m \in Msgs : audience[m] # {} => m \in Range(published)
  /\ \A c \in Conns : stage[c] = "new" =>
       /\ socket[c] = "none" /\ frames[c] = <<>>
       /\ \A scope \in Scopes :
            /\ <<c, scope>> \notin subs /\ queue[<<c, scope>>] = <<>>
            /\ \A m \in Msgs : <<c, scope>> \notin audience[m]
  /\ \A b \in unbinding : socket[b[1]] = "closed"

(* What Known says of connection c.                                        *)
KnownNew(c) ==
  stage[c] = "new" =>
    /\ socket[c] = "none" /\ frames[c] = <<>>
    /\ \A scope \in Scopes :
         /\ <<c, scope>> \notin subs /\ queue[<<c, scope>>] = <<>>
         /\ \A m \in Msgs : <<c, scope>> \notin audience[m]

(* Every step keeps that.                                                  *)
LEMMA KnownStep == Typed /\ Known /\ [Next]_vars => Known'
<1> SUFFICES ASSUME Typed, Known, [Next]_vars PROVE Known'
  OBVIOUS
<1>0. \A c \in Conns : KnownNew(c)
  BY DEF Known, KnownNew
<1>1. ASSUME UNCHANGED <<published, audience>>,
             \A c \in Conns : stage'[c] = "new" =>
               /\ stage[c] = "new" /\ socket'[c] = socket[c] /\ frames'[c] = frames[c]
               /\ \A scope \in Scopes : /\ <<c, scope>> \in subs' => <<c, scope>> \in subs
                                        /\ queue'[<<c, scope>>] \in {queue[<<c, scope>>], <<>>},
             \A b \in unbinding' : b \in unbinding \/ socket'[b[1]] = "closed",
             \A c \in Conns : socket[c] = "closed" => socket'[c] = "closed"
      PROVE  Known'
  <2>1. \A c \in Conns : KnownNew(c)'
    BY <1>0, <1>1 DEF KnownNew
  <2>2. \A b \in unbinding' : socket'[b[1]] = "closed"
    BY <1>1, BindingParts DEF Known, Typed
  <2> QED BY <1>1, <2>1, <2>2 DEF Known, KnownNew
<1>2. ASSUME NEW c \in Conns, OpenStream(c) \/ RejectStream(c) PROVE Known'
  <2>1. /\ \A d \in Conns : d # c => stage'[d] = stage[d] /\ socket'[d] = socket[d]
        /\ stage'[c] # "new" /\ socket[c] = "none"
        /\ UNCHANGED <<subs, unbinding, queue, frames, published, audience>>
    BY <1>0, <1>2 DEF OpenStream, RejectStream, Typed, KnownNew
  <2> QED BY <1>1, <2>1
<1>3. ASSUME NEW c \in Conns, Disconnect(c) \/ BindFails(c) PROVE Known'
  <2>1. /\ \A d \in Conns : d # c => stage'[d] = stage[d] /\ socket'[d] = socket[d]
        /\ stage'[c] # "new" /\ socket'[c] = "closed"
        /\ UNCHANGED <<subs, queue, frames, published, audience>>
    BY <1>0, <1>3 DEF Disconnect, BindFails, Typed, KnownNew
  <2>2. \A b \in unbinding' : b \in unbinding \/ b[1] = c
    BY <1>3 DEF Disconnect, BindFails, Cleanup, Teardown
  <2> QED BY <1>1, <2>1, <2>2
<1>4. ASSUME NEW c \in Conns, BindUser(c) \/ BindOrg(c) PROVE Known'
  <2>1. /\ \A d \in Conns : d # c => stage'[d] = stage[d]
        /\ stage'[c] # "new" /\ subs' \subseteq subs \union ({c} \X Scopes)
        /\ UNCHANGED <<socket, unbinding, queue, frames, published, audience>>
    BY <1>4 DEF BindUser, BindOrg, Bind, Typed, Scopes
  <2> QED BY <1>1, <2>1
<1>5. ASSUME NEW b \in Bindings, Unbind(b) \/ UnbindFails(b) PROVE Known'
  <2>1. /\ \A d \in Bindings : queue'[d] \in {queue[d], <<>>}
        /\ subs' \subseteq subs /\ unbinding' \subseteq unbinding
        /\ UNCHANGED <<stage, socket, frames, published, audience>>
    BY <1>5 DEF Unbind, UnbindFails, Typed
  <2> QED BY <1>1, <2>1, BindingParts
<1>6. ASSUME NEW b \in Bindings, Deliver(b) PROVE Known'
  <2>1. /\ \A d \in Bindings : d # b => queue'[d] = queue[d]
        /\ \A d \in Conns : d # b[1] => frames'[d] = frames[d]
        /\ UNCHANGED <<stage, socket, subs, unbinding, published, audience>> /\ b \in subs
    BY <1>6 DEF Deliver, Typed
  <2>2. stage[b[1]] # "new"
    BY <1>0, <2>1, BindingParts DEF KnownNew
  <2> QED BY <1>1, <2>1, <2>2, BindingParts
<1>7. ASSUME NEW m \in Msgs, Publish(m) PROVE Known'
  <2>1. /\ UNCHANGED <<stage, socket, subs, unbinding, frames>>
        /\ \A n \in Msgs : audience'[n] = IF n = m THEN Matching(m) ELSE audience[n]
        /\ \A b \in Bindings : b \notin subs => queue'[b] = queue[b]
    BY <1>7 DEF Publish, Typed, Matching
  <2>2. Range(published') = Range(published) \union {m}
    BY <1>7, AppendRange DEF Publish, Typed
  <2>3. \A n \in Msgs : audience'[n] # {} => n \in Range(published')
    BY <2>1, <2>2 DEF Known
  <2>4. Matching(m) \subseteq subs
    BY DEF Matching
  <2>5. \A c \in Conns : KnownNew(c)'
    BY <1>0, <2>1, <2>4, BindingParts DEF KnownNew
  <2> QED BY <2>1, <2>3, <2>5 DEF Known, KnownNew
<1>8. ASSUME NEW i \in Instances, CloseServer(i) PROVE Known'
  BY <1>1, <1>8 DEF CloseServer
<1>9. ASSUME NEW i \in Instances, Exit(i) PROVE Known'
  <2>1. /\ \A b \in Bindings : queue'[b] \in {queue[b], <<>>}
        /\ \A c \in Conns : socket'[c] = IF InstOf[c] = i /\ socket[c] = "open" THEN "closed" ELSE socket[c]
        /\ subs' \subseteq subs /\ unbinding' \subseteq unbinding
        /\ UNCHANGED <<stage, frames, published, audience>>
    BY <1>9 DEF Exit
  <2>2. \A c \in Conns : stage[c] = "new" => socket[c] = "none"
    BY <1>0 DEF KnownNew
  <2> QED BY <1>1, <2>1, <2>2, BindingParts
<1>10. CASE UNCHANGED vars
  BY <1>1, <1>10 DEF vars
<1> QED BY <1>2, <1>3, <1>4, <1>5, <1>6, <1>7, <1>8, <1>9, <1>10 DEF Next, FinishClose, Crash

(* What ExactlyTheAudience says of one subscription.                       *)
SentTo(c, scope) == {k \in DOMAIN frames[c] : frames[c][k].scope = scope}

AudienceOf(c, scope) ==
  /\ \A m \in Msgs : <<c, scope>> \in audience[m] <=>
       m \in Range(queue[<<c, scope>>]) \/ \E k \in SentTo(c, scope) : frames[c][k].msg = m
  /\ \A j, k \in SentTo(c, scope) : j < k => Before(published, frames[c][j].msg, frames[c][k].msg)
  /\ \A k \in SentTo(c, scope), j \in DOMAIN queue[<<c, scope>>] :
       Before(published, frames[c][k].msg, queue[<<c, scope>>][j])
  /\ \A j, k \in DOMAIN queue[<<c, scope>>] :
       j < k => Before(published, queue[<<c, scope>>][j], queue[<<c, scope>>][k])

(* A delivery takes the first waiting message to the end of what was sent. *)
LEMMA DeliverAudience ==
  ASSUME Typed, NEW c \in Conns, NEW scope \in Scopes, socket[c] = "open",
         AudienceOf(c, scope), Deliver(<<c, scope>>)
  PROVE  AudienceOf(c, scope)'
<1> DEFINE b == <<c, scope>>
           q == queue[b]
           f == frames[c]
           x == [scope |-> scope, msg |-> Head(q)]
           last == Len(f) + 1
<1>1. /\ q # <<>> /\ queue' = [queue EXCEPT ![b] = Tail(q)]
      /\ frames' = [frames EXCEPT ![c] = Append(f, x)] /\ UNCHANGED <<published, audience>>
  BY DEF Deliver
<1>2. q \in Seq(Msgs) /\ f \in Seq(Sent) /\ b \in Bindings
  BY BindingParts DEF Typed
<1>3. queue'[b] = Tail(q) /\ frames'[c] = Append(f, x)
  BY <1>1, <1>2 DEF Typed
<1>4. /\ Head(q) = q[1] /\ Head(q) \in Msgs /\ 1 \in DOMAIN q
      /\ \A i \in DOMAIN Tail(q) : i + 1 \in DOMAIN q /\ Tail(q)[i] = q[i + 1]
      /\ DOMAIN Tail(q) = 1 .. Len(q) - 1 /\ DOMAIN q = 1 .. Len(q) /\ Len(q) \in Nat
  <2>1. DOMAIN q = 1 .. Len(q) /\ Len(q) \in Nat
    BY <1>2
  <2> QED BY <1>1, <1>2, <2>1, TailElements, Zenon
<1>5. Range(q) = {Head(q)} \union Range(Tail(q))
  <2>1. \A n \in Nat : \A i \in 1 .. n : i = 1 \/ (i - 1 \in 1 .. n - 1 /\ (i - 1) + 1 = i)
    OBVIOUS
  <2>2. \A i \in DOMAIN q : q[i] = Head(q) \/ \E j \in DOMAIN Tail(q) : Tail(q)[j] = q[i]
    BY <1>4, <2>1
  <2>3. \A e \in Range(q) : e = Head(q) \/ e \in Range(Tail(q))
    BY <2>2, Zenon DEF Range
  <2> QED BY <1>1, <1>2, <2>3, TailRange
<1>6. x \in Sent /\ x.scope = scope /\ x.msg = Head(q)
  BY <1>4 DEF Sent
<1>7. /\ DOMAIN frames'[c] = DOMAIN f \union {last}
      /\ frames'[c][last] = x /\ ~(last < last)
      /\ \A i \in DOMAIN f : i < last /\ ~(last < i) /\ frames'[c][i] = f[i]
  BY <1>2, <1>3, <1>6, AppendElements
<1>8. SentTo(c, scope)' = SentTo(c, scope) \union {last}
  BY <1>6, <1>7 DEF SentTo
<1>9. \A k \in SentTo(c, scope) : k \in DOMAIN f
  BY DEF SentTo
<1>10. \A m, n : Before(published', m, n) <=> Before(published, m, n)
  BY <1>1 DEF Before
<1>a. \A n \in Nat : \A i \in 1 .. n - 1 : 1 < i + 1 /\ \A j \in 1 .. n - 1 : i < j => i + 1 < j + 1
  OBVIOUS
<1>11. \A m \in Msgs : b \in audience'[m] <=>
         m \in Range(queue'[b]) \/ \E k \in SentTo(c, scope)' : frames'[c][k].msg = m
  <2> TAKE m \in Msgs
  <2>1. (\E k \in SentTo(c, scope)' : frames'[c][k].msg = m)
          <=> m = Head(q) \/ \E k \in SentTo(c, scope) : f[k].msg = m
    BY <1>6, <1>7, <1>8, <1>9
  <2>2. b \in audience'[m] <=> m \in Range(q) \/ \E k \in SentTo(c, scope) : f[k].msg = m
    BY <1>1 DEF AudienceOf
  <2> QED BY <1>3, <1>5, <2>1, <2>2
<1>12. \A j, k \in SentTo(c, scope)' : j < k => Before(published', frames'[c][j].msg, frames'[c][k].msg)
  <2> SUFFICES ASSUME NEW j \in SentTo(c, scope)', NEW k \in SentTo(c, scope)', j < k
               PROVE  Before(published, frames'[c][j].msg, frames'[c][k].msg)
    BY <1>10
  <2>1. j \in SentTo(c, scope) /\ frames'[c][j] = f[j]
    BY <1>7, <1>8, <1>9
  <2>2. CASE k = last
    BY <1>4, <1>6, <1>7, <2>1, <2>2 DEF AudienceOf
  <2>3. CASE k \in SentTo(c, scope)
    <3>1. frames'[c][k] = f[k]
      BY <1>7, <1>9, <2>3
    <3> QED BY <2>1, <2>3, <3>1 DEF AudienceOf
  <2> QED BY <1>8, <2>2, <2>3
<1>13. \A k \in SentTo(c, scope)', j \in DOMAIN queue'[b] : Before(published', frames'[c][k].msg, queue'[b][j])
  <2> SUFFICES ASSUME NEW k \in SentTo(c, scope)', NEW j \in DOMAIN Tail(q)
               PROVE  Before(published, frames'[c][k].msg, q[j + 1])
    BY <1>3, <1>4, <1>10
  <2>1. j + 1 \in DOMAIN q /\ 1 < j + 1
    BY <1>4, <1>a
  <2>2. CASE k = last
    BY <1>4, <1>6, <1>7, <2>1, <2>2 DEF AudienceOf
  <2>3. CASE k \in SentTo(c, scope)
    <3>1. frames'[c][k] = f[k]
      BY <1>7, <1>9, <2>3
    <3> QED BY <2>1, <2>3, <3>1 DEF AudienceOf
  <2> QED BY <1>8, <2>2, <2>3
<1>14. \A j, k \in DOMAIN queue'[b] : j < k => Before(published', queue'[b][j], queue'[b][k])
  <2> SUFFICES ASSUME NEW j \in DOMAIN Tail(q), NEW k \in DOMAIN Tail(q), j < k
               PROVE  Before(published', Tail(q)[j], Tail(q)[k])
    BY <1>3
  <2>0. Tail(q)[j] = q[j + 1] /\ Tail(q)[k] = q[k + 1]
    BY <1>4
  <2>1. j + 1 \in DOMAIN q /\ k + 1 \in DOMAIN q /\ j + 1 < k + 1
    BY <1>4, <1>a
  <2>2. Before(published, q[j + 1], q[k + 1])
    BY <2>1 DEF AudienceOf
  <2> QED BY <1>10, <2>0, <2>2
<1> QED BY <1>11, <1>12, <1>13, <1>14 DEF AudienceOf

(* A frame of the other scope changes nothing.                             *)
LEMMA OtherFrame ==
  ASSUME Typed, NEW c \in Conns, NEW scope \in Scopes, AudienceOf(c, scope),
         NEW x \in Sent, x.scope # scope, frames'[c] = Append(frames[c], x),
         queue'[<<c, scope>>] = queue[<<c, scope>>], UNCHANGED <<published, audience>>
  PROVE  AudienceOf(c, scope)'
<1> DEFINE f == frames[c]
           last == Len(f) + 1
<1>1. /\ DOMAIN frames'[c] = DOMAIN f \union {last} /\ frames'[c][last] = x
      /\ \A i \in DOMAIN f : frames'[c][i] = f[i]
  <2>1. f \in Seq(Sent)
    BY DEF Typed
  <2> QED BY <2>1, AppendElements
<1>2. SentTo(c, scope)' = SentTo(c, scope) /\ \A k \in SentTo(c, scope) : frames'[c][k] = f[k]
  BY <1>1 DEF SentTo
<1>3. \A m \in Msgs : <<c, scope>> \in audience'[m] <=>
        m \in Range(queue'[<<c, scope>>]) \/ \E k \in SentTo(c, scope)' : frames'[c][k].msg = m
  <2> TAKE m \in Msgs
  <2>1. (\E k \in SentTo(c, scope)' : frames'[c][k].msg = m) <=> \E k \in SentTo(c, scope) : f[k].msg = m
    BY <1>2
  <2>2. <<c, scope>> \in audience'[m] <=> <<c, scope>> \in audience[m]
    OBVIOUS
  <2>3. Range(queue'[<<c, scope>>]) = Range(queue[<<c, scope>>])
    OBVIOUS
  <2>4. <<c, scope>> \in audience[m] <=>
          m \in Range(queue[<<c, scope>>]) \/ \E k \in SentTo(c, scope) : f[k].msg = m
    BY DEF AudienceOf
  <2> QED BY <2>1, <2>2, <2>3, <2>4
<1>5. \A j, k \in SentTo(c, scope)' : j < k => Before(published', frames'[c][j].msg, frames'[c][k].msg)
  BY <1>2 DEF AudienceOf
<1>6. \A k \in SentTo(c, scope)', j \in DOMAIN queue'[<<c, scope>>] :
        Before(published', frames'[c][k].msg, queue'[<<c, scope>>][j])
  <2> DEFINE q == queue[<<c, scope>>]
  <2>1. ASSUME NEW k \in SentTo(c, scope), NEW j \in DOMAIN q PROVE Before(published', frames'[c][k].msg, q[j])
    <3>1. Before(published, f[k].msg, q[j])
      BY DEF AudienceOf
    <3>2. frames'[c][k] = f[k] /\ published' = published
      BY <1>2
    <3> QED BY <3>1, <3>2
  <2>2. q = queue'[<<c, scope>>]
    OBVIOUS
  <2> HIDE DEF q
  <2> QED BY <1>2, <2>1, <2>2, Zenon
<1>7. \A j, k \in DOMAIN queue'[<<c, scope>>] :
        j < k => Before(published', queue'[<<c, scope>>][j], queue'[<<c, scope>>][k])
  BY DEF AudienceOf
<1> QED BY <1>3, <1>5, <1>6, <1>7 DEF AudienceOf

(* An accepted message comes after everything that was accepted before.    *)
LEMMA PublishAudience ==
  ASSUME Typed, Known, NEW c \in Conns, NEW scope \in Scopes, AudienceOf(c, scope),
         NEW m \in Msgs, Publish(m)
  PROVE  AudienceOf(c, scope)'
<1> DEFINE b == <<c, scope>>
           q == queue[b]
           f == frames[c]
           last == Len(published) + 1
<1>1. /\ published' = Append(published, m) /\ frames' = frames
      /\ \A n \in Msgs : audience'[n] = IF n = m THEN Matching(m) ELSE audience[n]
      /\ queue'[b] = IF b \in Matching(m) THEN Append(q, m) ELSE q
  BY BindingParts DEF Publish, Typed
<1>2. m \notin Range(published)
  BY DEF Publish, Contains, Range, Typed
<1>3. published \in Seq(Msgs) /\ q \in Seq(Msgs) /\ f \in Seq(Sent)
  BY BindingParts DEF Typed
<1>4. /\ DOMAIN published' = DOMAIN published \union {last} /\ published'[last] = m
      /\ \A i \in DOMAIN published : i < last /\ published'[i] = published[i]
  BY <1>1, <1>3, AppendElements
<1>5. \A k, n : Before(published, k, n) => Before(published', k, n)
  BY <1>4 DEF Before
<1>6. \A n \in Range(published) : Before(published', n, m)
  BY <1>4 DEF Before, Range
<1>7. SentTo(c, scope)' = SentTo(c, scope)
  BY <1>1 DEF SentTo
<1>8. \A k \in SentTo(c, scope) : f[k].msg \in Msgs
  <2>1. \A k \in DOMAIN f : f[k] \in Sent
    BY <1>3
  <2> QED BY <2>1 DEF SentTo, Sent
<1>9. \A n \in Msgs : b \in audience[n] => n \in Range(published)
  BY DEF Known
<1>10. /\ \A k \in SentTo(c, scope) : f[k].msg \in Range(published)
       /\ \A j \in DOMAIN q : q[j] \in Range(published)
  <2>1. \A j \in DOMAIN q : q[j] \in Msgs /\ q[j] \in Range(q)
    <3>1. \A j \in DOMAIN q : q[j] \in Msgs
      BY <1>3
    <3> QED BY <3>1 DEF Range
  <2> QED BY <1>8, <1>9, <2>1 DEF AudienceOf
<1>11. b \notin audience[m]
  BY <1>2, <1>9
<1>12. CASE b \notin Matching(m)
  <2>1. queue'[b] = q /\ \A n \in Msgs : b \in audience'[n] <=> b \in audience[n]
    BY <1>1, <1>11, <1>12
  <2> QED BY <1>1, <1>5, <1>7, <2>1 DEF AudienceOf
<1>13. CASE b \in Matching(m)
  <2> DEFINE end == Len(q) + 1
  <2>1. /\ DOMAIN queue'[b] = DOMAIN q \union {end} /\ queue'[b][end] = m /\ ~(end < end)
        /\ \A i \in DOMAIN q : i < end /\ ~(end < i) /\ queue'[b][i] = q[i]
    BY <1>1, <1>3, <1>13, AppendElements
  <2>2. Range(queue'[b]) = Range(q) \union {m}
    BY <1>1, <1>3, <1>13, AppendRange
  <2>3. \A n \in Msgs : b \in audience'[n] <=> n = m \/ b \in audience[n]
    BY <1>1, <1>13
  <2>4. \A n \in Msgs : b \in audience'[n] <=>
          n \in Range(queue'[b]) \/ \E k \in SentTo(c, scope)' : frames'[c][k].msg = n
    BY <1>1, <1>7, <2>2, <2>3 DEF AudienceOf
  <2>5. \A j, k \in SentTo(c, scope)' : j < k => Before(published', frames'[c][j].msg, frames'[c][k].msg)
    BY <1>1, <1>5, <1>7 DEF AudienceOf
  <2>6. \A k \in SentTo(c, scope)', j \in DOMAIN queue'[b] : Before(published', frames'[c][k].msg, queue'[b][j])
    BY <1>1, <1>5, <1>6, <1>7, <1>10, <2>1 DEF AudienceOf
  <2>7. \A j, k \in DOMAIN queue'[b] : j < k => Before(published', queue'[b][j], queue'[b][k])
    BY <1>5, <1>6, <1>10, <2>1 DEF AudienceOf
  <2> QED BY <2>4, <2>5, <2>6, <2>7 DEF AudienceOf
<1> QED BY <1>12, <1>13

(* Every step keeps what each open stream was and will be sent.            *)
LEMMA AudienceStep ==
  Typed /\ Known /\ ExactlyTheAudience /\ [Next]_vars => ExactlyTheAudience'
<1> SUFFICES ASSUME Typed, Known, ExactlyTheAudience, [Next]_vars,
                    NEW c \in Conns, NEW scope \in Scopes, socket'[c] = "open"
             PROVE  AudienceOf(c, scope)'
  BY DEF ExactlyTheAudience, AudienceOf, SentTo
<1> DEFINE b == <<c, scope>>
<1>0. b \in Bindings
  BY BindingParts
<1>1. socket[c] = "open" => AudienceOf(c, scope)
  BY DEF ExactlyTheAudience, AudienceOf, SentTo
<1>2. ASSUME socket[c] = "open", frames'[c] = frames[c], queue'[b] = queue[b], UNCHANGED <<published, audience>>
      PROVE  AudienceOf(c, scope)'
  BY <1>1, <1>2 DEF AudienceOf, SentTo
<1>3. ASSUME NEW d \in Conns, OpenStream(d) \/ RejectStream(d) PROVE AudienceOf(c, scope)'
  <2>1. UNCHANGED <<queue, frames, published, audience>> /\ stage[d] = "new"
    BY <1>3 DEF OpenStream, RejectStream
  <2>2. CASE d = c
    <3>1. queue'[b] = <<>> /\ frames'[c] = <<>> /\ \A m \in Msgs : b \notin audience'[m]
      BY <2>1, <2>2 DEF Known
    <3>2. Range(queue'[b]) = {} /\ DOMAIN queue'[b] = {} /\ DOMAIN frames'[c] = {}
      BY <3>1 DEF Range
    <3>3. SentTo(c, scope)' = {}
      BY <3>2 DEF SentTo
    <3> QED BY <3>1, <3>2, <3>3 DEF AudienceOf
  <2>3. CASE d # c
    BY <1>2, <1>3, <2>1, <2>3 DEF OpenStream, RejectStream, Typed
  <2> QED BY <2>2, <2>3
<1>4. ASSUME NEW d \in Conns, Disconnect(d) \/ BindFails(d) \/ BindUser(d) \/ BindOrg(d)
      PROVE  AudienceOf(c, scope)'
  <2>1. socket[c] = "open" /\ UNCHANGED <<queue, frames, published, audience>>
    BY <1>4 DEF Disconnect, BindFails, BindUser, BindOrg, Bind, Typed
  <2> QED BY <1>2, <2>1
<1>5. ASSUME NEW d \in Bindings, Unbind(d) \/ UnbindFails(d) PROVE AudienceOf(c, scope)'
  <2>1. d \in unbinding /\ UNCHANGED <<socket, frames, published, audience>>
    BY <1>5 DEF Unbind, UnbindFails
  <2>2. d # b
    BY <2>1 DEF Known
  <2>3. queue'[b] = queue[b]
    BY <1>0, <1>5, <2>2 DEF Unbind, UnbindFails, Typed
  <2> QED BY <1>2, <2>1, <2>3
<1>6. ASSUME NEW d \in Bindings, Deliver(d) PROVE AudienceOf(c, scope)'
  <2>1. UNCHANGED <<socket, published, audience>> /\ queue[d] # <<>>
    BY <1>6 DEF Deliver
  <2>2. CASE d = b
    BY <1>1, <1>6, <2>1, <2>2, DeliverAudience
  <2>3. CASE d # b /\ d[1] = c
    <3>1. d[2] \in Scopes /\ d[2] # scope
      BY <2>3, BindingParts
    <3>2. queue'[b] = queue[b]
      BY <1>0, <1>6, <2>3 DEF Deliver, Typed
    <3>3. frames'[c] = Append(frames[c], [scope |-> d[2], msg |-> Head(queue[d])])
      BY <1>6, <2>1, <2>3 DEF Deliver, Typed
    <3>4. Head(queue[d]) \in Msgs
      BY <2>1 DEF Typed
    <3>5. [scope |-> d[2], msg |-> Head(queue[d])] \in Sent
      BY <3>1, <3>4 DEF Sent
    <3> QED BY <1>1, <2>1, <3>1, <3>2, <3>3, <3>5, OtherFrame
  <2>4. CASE d[1] # c
    <3>1. queue'[b] = queue[b] /\ frames'[c] = frames[c]
      BY <1>0, <1>6, <2>4 DEF Deliver, Typed
    <3> QED BY <1>2, <2>1, <3>1
  <2> QED BY <2>2, <2>3, <2>4
<1>7. ASSUME NEW m \in Msgs, Publish(m) PROVE AudienceOf(c, scope)'
  <2>1. socket[c] = "open"
    BY <1>7 DEF Publish
  <2> QED BY <1>1, <1>7, <2>1, PublishAudience
<1>8. ASSUME NEW i \in Instances, CloseServer(i) PROVE AudienceOf(c, scope)'
  BY <1>2, <1>8 DEF CloseServer
<1>9. ASSUME NEW i \in Instances, Exit(i) PROVE AudienceOf(c, scope)'
  <2>1. InstOf[c] # i /\ socket[c] = "open"
    BY <1>9 DEF Exit
  <2>2. queue'[b] = queue[b] /\ UNCHANGED <<frames, published, audience>>
    BY <1>0, <1>9, <2>1 DEF Exit
  <2> QED BY <1>2, <2>1, <2>2
<1>10. CASE UNCHANGED vars
  BY <1>2, <1>10 DEF vars
<1> QED BY <1>3, <1>4, <1>5, <1>6, <1>7, <1>8, <1>9, <1>10 DEF Next, FinishClose, Crash

(* The broker as the only backplane: an open stream was sent, or has       *)
(* waiting for it, exactly what was addressed to it since it was bound, in *)
(* the order of the accepts.  See ExactlyTheAudience.                      *)
THEOREM AudienceSafety == Spec => []ExactlyTheAudience
<1>1. Init => Known
  <2>1. ASSUME Init, NEW c \in Conns, NEW scope \in Scopes PROVE queue[<<c, scope>>] = <<>>
    BY <2>1, BindingParts DEF Init
  <2> QED BY <2>1 DEF Init, Known
<1>2. Init => ExactlyTheAudience
  BY DEF Init, ExactlyTheAudience
<1> QED BY <1>1, <1>2, KnownStep, AudienceStep, TypedInvariant, PTL DEF Spec
=============================================================================
