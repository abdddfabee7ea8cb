----------------------------- MODULE TopicMatch -----------------------------
(***************************************************************************)
(* Which subscriptions a routing key reaches: topicMatch of the in-process *)
(* bus (in-memory-bus.ts and, line for line the same, InMemoryBus.cs), the *)
(* reference definition of RabbitMQ topic bindings, and the JMS selector   *)
(* the Artemis adapters derive from the same pattern.                      *)
(*                                                                         *)
(* A pattern or key is the sequence of its dot-delimited words.            *)
(***************************************************************************)
EXTENDS Integers, Sequences

Star == "*"
Hash == "#"
-----------------------------------------------------------------------------
\* Mutant: `#` takes at least one word.
HashFrom(ki) == ki + 1
\* for (let n = ki; ...)
HashStart(ki) == ki

\* match(p, pi, k, ki)
TopicMatches(p, k) ==
  LET match[pi \in 1 .. Len(p) + 1, ki \in 1 .. Len(k) + 1] ==
        IF pi > Len(p) THEN ki > Len(k)
        ELSE IF p[pi] = Hash
             THEN \E n \in HashStart(ki) .. Len(k) + 1 : match[pi + 1, n]
        ELSE IF ki > Len(k) THEN FALSE
        ELSE (p[pi] = Star \/ p[pi] = k[ki]) /\ match[pi + 1, ki + 1]
  IN  match[1, 1]

\* s LIKE t: t's tokens cut s into pieces, `%` taking any run.
Like(s, t) ==
  \E cut \in [0 .. Len(t) -> 0 .. Len(s)] :
    /\ cut[0] = 0 /\ cut[Len(t)] = Len(s)
    /\ \A i \in 1 .. Len(t) :
         \/ t[i] = "%" /\ cut[i - 1] <= cut[i]
         \/ t[i] # "%" /\ cut[i] = cut[i - 1] + 1 /\ t[i] = s[cut[i]]

\* The text of a pattern or key: its words with dots between them.
Dotted(ws) == [i \in 1 .. 2 * Len(ws) - 1 |-> IF i % 2 = 1 THEN ws[(i + 1) \div 2] ELSE "."]

\* Mutant: only `#` becomes `%`.
HashOnlyWild == {Hash}
\* pattern.replace(/[*#]/g, "%")
LikeWild == {Star, Hash}

\* toSelector: equality, or LIKE with both wildcards turned into `%`.
SelectorMatches(p, k) ==
  IF \E i \in DOMAIN p : p[i] \in {Star, Hash}
  THEN Like(Dotted(k), Dotted([i \in DOMAIN p |-> IF p[i] \in LikeWild THEN "%" ELSE p[i]]))
  ELSE p = k
-----------------------------------------------------------------------------
(* What a topic binding means: the words of the pattern cut the key into   *)
(* pieces, one word for a plain word or `*`, any number for `#`.           *)
Binding(p, k) ==
  \E cut \in [0 .. Len(p) -> 0 .. Len(k)] :
    /\ cut[0] = 0 /\ cut[Len(p)] = Len(k)
    /\ \A i \in 1 .. Len(p) :
         /\ cut[i - 1] <= cut[i]
         /\ p[i] # Hash => cut[i] = cut[i - 1] + 1 /\ p[i] \in {Star, k[cut[i]]}
=============================================================================
