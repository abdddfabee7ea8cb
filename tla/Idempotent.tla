----------------------------- MODULE Idempotent -----------------------------
(***************************************************************************)
(* idempotentHandler (typescript/src/idempotency/idempotency-store.ts) on  *)
(* consumers that share a queue and a store: mark, process and settle are  *)
(* three steps, and anything may happen in between.  The key is the body.  *)
(*                                                                         *)
(* External: the queue, which delivers at least once (the adapters have    *)
(* modules of their own), and the store's server.                          *)
(***************************************************************************)
EXTENDS Integers, Sequences, FiniteSets

CONSTANTS
  Bodies,        \* message bodies
  Consumers,     \* consumers of the queue
  None,          \* no message
  MaxMishaps     \* bound: consumers lost, handlers that throw, outages of the
                 \* store and windows that pass, taken together

VARIABLES
  queue,      \* bodies waiting
  held,       \* the message each consumer was given
  at,         \* where its handler is
  seen,       \* store: keys in their window
  storeUp,    \* store: it answers
  processed,  \* history: how often the inner handler ran for each body
  broken,     \* history: bodies whose handler was cut short after the mark
  luck        \* history: mishaps of each kind so far

IdempotentInit ==
  /\ held = [k \in Consumers |-> None] /\ at = [k \in Consumers |-> "idle"]
  /\ seen = {} /\ storeUp = TRUE
  /\ processed = [b \in Bodies |-> 0] /\ broken = {}
  /\ luck = [crashes |-> 0, throws |-> 0, outages |-> 0, expiries |-> 0]

Mishap(kind) ==
  /\ luck.crashes + luck.throws + luck.outages + luck.expiries < MaxMishaps
  /\ luck' = [luck EXCEPT ![kind] = @ + 1]

Go(k, to) == at' = [at EXCEPT ![k] = to]

Deliver(k) ==
  /\ at[k] = "idle" /\ queue # <<>>
  /\ held' = [held EXCEPT ![k] = Head(queue)]
  /\ queue' = Tail(queue)
  /\ Go(k, "mark")
  /\ UNCHANGED <<seen, storeUp, processed, broken, luck>>

\* Mutant: the key is looked up and not entered.
LookUpOnly(k) ==
  /\ Go(k, IF held[k] \in seen THEN "duplicate" ELSE "process")
  /\ UNCHANGED seen

\* tryMarkSeen: check and set in one step.
TryMarkSeen(k) ==
  /\ Go(k, IF held[k] \in seen THEN "duplicate" ELSE "process")
  /\ seen' = seen \union {held[k]}

\* A store that throws is logged, and the message processed.
Mark(k) ==
  /\ at[k] = "mark"
  /\ \/ storeUp /\ TryMarkSeen(k)
     \/ ~storeUp /\ Go(k, "process") /\ UNCHANGED seen
  /\ UNCHANGED <<queue, held, storeUp, processed, broken, luck>>

\* await inner(m), up to its side effect
Process(k) ==
  /\ at[k] = "process"
  /\ processed' = [processed EXCEPT ![held[k]] = @ + 1]
  /\ Go(k, "settle")
  /\ UNCHANGED <<queue, held, seen, storeUp, broken, luck>>

\* Mutant: a duplicate is left to the inner handler to settle, which is not run.
AckNothing(k) == at[k] = "settle"

\* The inner handler acks, or the duplicate is acked.
Acks(k) == at[k] \in {"settle", "duplicate"}

Ack(k) ==
  /\ Acks(k)
  /\ held' = [held EXCEPT ![k] = None]
  /\ Go(k, "idle")
  /\ UNCHANGED <<queue, seen, storeUp, processed, broken, luck>>

\* The message goes back to the queue; with its key in the store if it had
\* been marked.
GiveBack(k) ==
  /\ queue' = <<held[k]>> \o queue
  /\ held' = [held EXCEPT ![k] = None]
  /\ broken' = IF at[k] = "process" THEN broken \union {held[k]} ELSE broken
  /\ Go(k, "idle")
  /\ UNCHANGED <<seen, storeUp, processed>>

Crash(k) ==
  /\ at[k] # "idle" /\ Mishap("crashes")
  /\ GiveBack(k)

\* The inner handler throws before its side effect; the adapter nacks.
Throw(k) ==
  /\ at[k] = "process" /\ Mishap("throws")
  /\ GiveBack(k)

StoreFails ==
  /\ storeUp /\ Mishap("outages")
  /\ storeUp' = FALSE
  /\ UNCHANGED <<queue, held, at, seen, processed, broken>>

StoreRecovers ==
  /\ ~storeUp /\ storeUp' = TRUE
  /\ UNCHANGED <<queue, held, at, seen, processed, broken, luck>>

WindowPasses(b) ==
  /\ b \in seen /\ Mishap("expiries")
  /\ seen' = seen \ {b}
  /\ UNCHANGED <<queue, held, at, storeUp, processed, broken>>

IdempotentNext ==
  \/ \E k \in Consumers : \/ Deliver(k) \/ Mark(k) \/ Process(k) \/ Ack(k) \/ Crash(k)
                          \/ Throw(k)
  \/ StoreFails \/ StoreRecovers
  \/ \E b \in Bodies : WindowPasses(b)
=============================================================================
