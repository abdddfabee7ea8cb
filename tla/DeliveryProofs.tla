--------------------------- MODULE DeliveryProofs ---------------------------
(***************************************************************************)
(* Safety of resilient publishers and idempotent consumers, for any number *)
(* of calls, consumers, retries, faults and mishaps.                       *)
(***************************************************************************)
EXTENDS Delivery, FiniteSetTheorems, TLAPS

(* The options of the decorator.                                           *)
LEMMA Options ==
  /\ None \notin Calls
  /\ MaxRetryAttempts \in Nat /\ ConsecutiveFailures \in Nat /\ ConsecutiveFailures > 0
  /\ \A n \in Injections : n \in Nat
  BY ResilienceAssumption

-----------------------------------------------------------------------------
(* Types                                                                   *)

Places == {"idle", "call", "callFault", "test", "testFault", "backoff", "resolved",
           "failed", "unsupported"}

PipeType ==
  /\ pc \in [Calls -> Places] /\ unsupported \subseteq Calls
  /\ retries \in [Calls -> Nat]
  /\ breaker \in {"closed", "open", "half"} /\ count \in Nat
  /\ failuresRemaining \in Nat
  /\ streak \in Nat /\ faults \in Nat /\ errors \in Nat

Kinds == {"crashes", "throws", "outages", "expiries"}

ConsumerType ==
  /\ held \in [Consumers -> Calls \union {None}]
  /\ at \in [Consumers -> {"idle", "mark", "process", "settle", "duplicate"}]
  /\ \A k \in Consumers : at[k] # "idle" => held[k] \in Calls
  /\ seen \subseteq Calls
  /\ processed \in [Calls -> Nat]
  /\ luck \in [Kinds -> Nat]

Type == PipeType /\ queue \in Seq(Calls) /\ ConsumerType

(* What the policies and the fault injector do to their own state.         *)
LEMMA PipeTypeStep ==
  ASSUME PipeType, queue \in Seq(Calls), ResilienceNext
  PROVE  PipeType' /\ queue' \in Seq(Calls)
<1>1. ASSUME NEW c \in Calls, NEW error, RetryOrFail(c, error)
      PROVE  pc' \in [Calls -> Places] /\ retries' \in [Calls -> Nat]
  BY <1>1 DEF RetryOrFail, PipeType, Places
<1>2. ASSUME NEW c \in Calls, NEW as \in {"call", "test"}, Invoke(c, as)
      PROVE  /\ pc' \in [Calls -> Places] /\ retries' \in [Calls -> Nat]
             /\ failuresRemaining' \in Nat
  <2>1. CASE /\ failuresRemaining > 0
             /\ failuresRemaining' = failuresRemaining - 1
             /\ pc' = [pc EXCEPT ![c] = IF as = "call" THEN "callFault" ELSE "testFault"]
             /\ UNCHANGED retries
    BY <2>1 DEF PipeType, Places
  <2>2. CASE /\ pc' = [pc EXCEPT ![c] = as]
             /\ UNCHANGED <<failuresRemaining, retries>>
    BY <2>2 DEF PipeType, Places
  <2> QED BY <1>2, <2>1, <2>2, Zenon DEF Invoke
<1>3. ASSUME NEW c \in Calls, Attempt(c)
      PROVE  PipeType' /\ queue' \in Seq(Calls)
  BY <1>1, <1>2, <1>3 DEF Attempt, PipeType
<1>4. ASSUME NEW c \in Calls, Succeed(c)
      PROVE  PipeType' /\ queue' \in Seq(Calls)
  BY <1>4 DEF Succeed, PipeType, Places
<1>5. ASSUME NEW c \in Calls, Fail(c)
      PROVE  PipeType' /\ queue' \in Seq(Calls)
  <2>1. queue' \in Seq(Calls) /\ errors' \in Nat
    <3>1. queue' = queue \/ queue' = Append(queue, c)
      BY <1>5 DEF Fail
    <3>2. errors' = errors \/ errors' = errors + 1
      BY <1>5 DEF Fail
    <3>3. queue' \in Seq(Calls)
      BY <3>1
    <3>4. errors' \in Nat
      BY <3>2 DEF PipeType
    <3> QED BY <3>3, <3>4
  <2>2. pc' \in [Calls -> Places] /\ retries' \in [Calls -> Nat]
    BY <1>1, <1>5 DEF Fail
  <2> QED BY <1>5, <2>1, <2>2, Options DEF Fail, PipeType, UpTo
<1>6. ASSUME NEW c \in Calls, Refuse(c)
      PROVE  PipeType' /\ queue' \in Seq(Calls)
  BY <1>1, <1>6 DEF Refuse, PipeType
<1>7. ASSUME Cool \/ InjectFailures
      PROVE  PipeType' /\ queue' \in Seq(Calls)
  BY <1>7, Options DEF Cool, InjectFailures, PipeType
<1> QED BY <1>3, <1>4, <1>5, <1>6, <1>7 DEF ResilienceNext, Start, BackoffElapses

(* What the consumers and the store do to theirs.                          *)
LEMMA ConsumerTypeStep ==
  ASSUME ConsumerType, queue \in Seq(Calls), C!IdempotentNext
  PROVE  ConsumerType' /\ queue' \in Seq(Calls)
<1>1. ASSUME NEW kind \in Kinds, C!Mishap(kind)
      PROVE  luck' \in [Kinds -> Nat]
  BY <1>1 DEF C!Mishap, ConsumerType
<1>2. ASSUME NEW k \in Consumers, at[k] # "idle", C!GiveBack(k)
      PROVE  /\ queue' \in Seq(Calls) /\ held' \in [Consumers -> Calls \union {None}]
             /\ at' \in [Consumers -> {"idle", "mark", "process", "settle", "duplicate"}]
             /\ \A j \in Consumers : at'[j] # "idle" => held'[j] \in Calls
             /\ seen' = seen /\ storeUp' = storeUp /\ processed' = processed
  BY <1>2 DEF C!GiveBack, C!Go, ConsumerType
<1>3. ASSUME NEW k \in Consumers, C!Deliver(k)
      PROVE  ConsumerType' /\ queue' \in Seq(Calls)
  BY <1>3 DEF C!Deliver, C!Go, ConsumerType
<1>4. ASSUME NEW k \in Consumers, C!Mark(k) \/ C!Process(k) \/ C!Ack(k)
      PROVE  ConsumerType' /\ queue' \in Seq(Calls)
  <2>1. CASE C!Mark(k)
    BY <2>1 DEF C!Mark, C!TryMarkSeen, C!Go, ConsumerType
  <2>2. CASE C!Process(k)
    BY <2>2 DEF C!Process, C!Go, ConsumerType
  <2>3. CASE C!Ack(k)
    BY <2>3 DEF C!Ack, C!Acks, C!Go, ConsumerType
  <2> QED BY <1>4, <2>1, <2>2, <2>3
<1>5. ASSUME NEW k \in Consumers, C!Crash(k) \/ C!Throw(k)
      PROVE  ConsumerType' /\ queue' \in Seq(Calls)
  BY <1>1, <1>2, <1>5 DEF C!Crash, C!Throw, ConsumerType, Kinds
<1>6. ASSUME C!StoreFails \/ C!StoreRecovers \/ \E b \in Calls : C!WindowPasses(b)
      PROVE  ConsumerType' /\ queue' \in Seq(Calls)
  BY <1>1, <1>6 DEF C!StoreFails, C!StoreRecovers, C!WindowPasses, ConsumerType, Kinds
<1> QED BY <1>3, <1>4, <1>5, <1>6 DEF C!IdempotentNext

(* The variables keep their types, whatever calls and consumers do.        *)
THEOREM Typing == Spec => []Type
<1>1. Init => Type
  <2> SUFFICES ASSUME Init PROVE Type
    OBVIOUS
  <2>1. PipeType /\ queue \in Seq(Calls)
    BY DEF Init, ResilienceInit, PipeType, Places
  <2>2. ConsumerType
    BY DEF Init, C!IdempotentInit, ConsumerType, Kinds
  <2> QED BY <2>1, <2>2 DEF Type
<1>2. Type /\ [Next]_vars => Type'
  <2> SUFFICES ASSUME Type, [Next]_vars PROVE Type'
    OBVIOUS
  <2>1. CASE ResilienceNext /\ UNCHANGED consumerVars
    BY <2>1, PipeTypeStep DEF Type, ConsumerType, consumerVars
  <2>2. CASE C!IdempotentNext /\ UNCHANGED pipeVars
    BY <2>2, ConsumerTypeStep DEF Type, PipeType, pipeVars
  <2>3. CASE UNCHANGED vars
    BY <2>3 DEF Type, PipeType, ConsumerType, vars, pipeVars, consumerVars
  <2> QED BY <2>1, <2>2, <2>3 DEF Next
<1> QED BY <1>1, <1>2, PTL DEF Spec
-----------------------------------------------------------------------------
(* The circuit breaker                                                     *)

(* The breaker's counter is not ahead of the failures that really happened *)
(* in a row, which history counts up to the threshold.                     *)
CountedForCause == count <= streak \/ streak >= ConsecutiveFailures

(* What one attempt that failed does to the counter and the breaker.       *)
LEMMA FailCounts ==
  ASSUME Type, CountedForCause, NEW c \in Calls, Fail(c)
  PROVE  /\ CountedForCause'
         /\ breaker = "closed" /\ breaker' = "open" => Testing(c) \/ streak' >= ConsecutiveFailures
<1>1. /\ count \in Nat /\ streak \in Nat /\ ConsecutiveFailures \in Nat
  BY Options DEF Type, PipeType
<1>2. /\ count' = count \/ count' = count + 1
      /\ streak' = IF streak + 1 > ConsecutiveFailures THEN ConsecutiveFailures ELSE streak + 1
      /\ breaker' = breaker \/ Testing(c) \/ count' >= ConsecutiveFailures
  BY DEF Fail, UpTo
<1> QED BY <1>1, <1>2 DEF CountedForCause

(* Faults are injected into publish() and sendNow(), which are supported.  *)
InjectedWhereSupported ==
  \A c \in unsupported : pc[c] \notin {"callFault", "testFault"}

(* maybeFail() is not reached by an operation the adapter does not have.   *)
LEMMA InjectedStep == Type /\ InjectedWhereSupported /\ [Next]_vars => InjectedWhereSupported'
<1> SUFFICES ASSUME Type, InjectedWhereSupported, [Next]_vars PROVE InjectedWhereSupported'
  OBVIOUS
<1> USE DEF Type, PipeType, InjectedWhereSupported
<1>1. CASE UNCHANGED pipeVars
  BY <1>1 DEF pipeVars
<1>2. ASSUME NEW c \in Calls, NEW error, RetryOrFail(c, error), UNCHANGED unsupported
      PROVE  InjectedWhereSupported'
  BY <1>2 DEF RetryOrFail
<1>3. ASSUME NEW c \in Calls, NEW as \in {"call", "test"}, Invoke(c, as), UNCHANGED unsupported
      PROVE  InjectedWhereSupported'
  BY <1>3 DEF Invoke
<1>4. ASSUME NEW c \in Calls, Attempt(c) PROVE InjectedWhereSupported'
  BY <1>2, <1>3, <1>4 DEF Attempt
<1>5. ASSUME NEW c \in Calls, Succeed(c) PROVE InjectedWhereSupported'
  BY <1>5 DEF Succeed
<1>6. ASSUME NEW c \in Calls, Fail(c) \/ Refuse(c) PROVE InjectedWhereSupported'
  BY <1>2, <1>6 DEF Fail, Refuse
<1>7. CASE Cool \/ InjectFailures
  BY <1>7 DEF Cool, InjectFailures
<1> QED BY <1>1, <1>4, <1>5, <1>6, <1>7 DEF Next, ResilienceNext, Start, BackoffElapses, vars

(* Only a transient failure moves the counter up, and history with it.     *)
LEMMA CountStep == Type /\ CountedForCause /\ [Next]_vars => CountedForCause'
<1> SUFFICES ASSUME Type, CountedForCause, [Next]_vars PROVE CountedForCause'
  OBVIOUS
<1>1. CASE UNCHANGED pipeVars
  BY <1>1 DEF CountedForCause, pipeVars
<1>2. ASSUME NEW c \in Calls, Attempt(c) PROVE CountedForCause'
  BY <1>2 DEF Attempt, CountedForCause
<1>3. ASSUME NEW c \in Calls, Succeed(c) PROVE CountedForCause'
  BY <1>3 DEF Succeed, CountedForCause
<1>4. ASSUME NEW c \in Calls, Refuse(c) PROVE CountedForCause'
  BY <1>4 DEF Refuse, Handled, CountedForCause
<1>5. CASE Cool \/ InjectFailures
  BY <1>5 DEF Cool, InjectFailures, CountedForCause
<1> QED BY <1>1, <1>2, <1>3, <1>4, <1>5, FailCounts
        DEF Next, ResilienceNext, Start, BackoffElapses, vars

(* The breaker opens for cause: see OpensForCause.                         *)
THEOREM BreakerSafety == Spec => OpensForCause
<1> DEFINE ForCause ==
      breaker = "closed" /\ breaker' = "open" =>
        \/ streak' >= ConsecutiveFailures
        \/ \E c \in Calls \ unsupported : Testing(c) /\ pc'[c] # pc[c]
<1>1. Init => CountedForCause /\ InjectedWhereSupported
  BY Options DEF Init, ResilienceInit, CountedForCause, InjectedWhereSupported
<1>2. Type /\ CountedForCause /\ InjectedWhereSupported /\ [Next]_vars => [ForCause]_pipeVars
  <2> SUFFICES ASSUME Type, CountedForCause, InjectedWhereSupported, [Next]_vars,
                      breaker = "closed", breaker' = "open"
               PROVE  \/ streak' >= ConsecutiveFailures
                      \/ \E c \in Calls \ unsupported : Testing(c) /\ pc'[c] # pc[c]
    OBVIOUS
  <2>1. ASSUME NEW c \in Calls, Fail(c)
        PROVE  \/ streak' >= ConsecutiveFailures
               \/ c \notin unsupported /\ Testing(c) /\ pc'[c] # pc[c]
    <3>1. streak' >= ConsecutiveFailures \/ Testing(c)
      BY <2>1, FailCounts
    <3>2. c \notin unsupported
      BY <2>1 DEF Fail, InjectedWhereSupported
    <3>3. Testing(c) => pc'[c] # pc[c]
      BY <2>1 DEF Fail, RetryOrFail, Testing, Type, PipeType
    <3> QED BY <3>1, <3>2, <3>3
  <2>2. \E c \in Calls : Fail(c)
    <3>1. ASSUME NEW c \in Calls, Attempt(c) \/ Succeed(c) \/ Refuse(c) PROVE FALSE
      BY <3>1 DEF Attempt, Succeed, Refuse, Handled
    <3> QED BY <3>1 DEF Next, ResilienceNext, Start, BackoffElapses, Cool, InjectFailures,
                        vars, pipeVars
  <2> QED BY <2>1, <2>2
<1> QED BY <1>1, <1>2, Typing, CountStep, InjectedStep, PTL DEF Spec, OpensForCause
-----------------------------------------------------------------------------
(* Retries                                                                 *)

(* As long as there were too few faults to use up one call's attempts or   *)
(* to open the breaker, every retry answers to one of them.                *)
Calm ==
  faults <= MaxRetryAttempts /\ faults < ConsecutiveFailures =>
    /\ breaker = "closed" /\ count <= faults
    /\ \A c \in Calls : /\ pc[c] \notin {"failed", "test", "testFault"}
                        /\ retries[c] <= faults

(* A fault that the bounds still allow leaves a retry and a closed breaker.*)
LEMMA CalmFail ==
  ASSUME Type, Calm, NEW c \in Calls, Fail(c),
         faults' <= MaxRetryAttempts, faults' < ConsecutiveFailures
  PROVE  Calm'
<1>1. /\ faults \in Nat /\ count \in Nat /\ retries \in [Calls -> Nat]
      /\ MaxRetryAttempts \in Nat /\ ConsecutiveFailures \in Nat
      /\ pc \in [Calls -> Places]
  BY Options DEF Type, PipeType
<1>2. faults' = faults + 1
  BY <1>1 DEF Fail, UpTo
<1>3. /\ breaker = "closed" /\ count <= faults
      /\ \A d \in Calls : /\ pc[d] \notin {"failed", "test", "testFault"}
                          /\ retries[d] <= faults
  BY <1>1, <1>2 DEF Calm
<1>4. MayRetry(c) /\ ~Testing(c)
  BY <1>1, <1>2, <1>3 DEF MayRetry, Testing
<1>5. /\ pc' = [pc EXCEPT ![c] = "backoff"]
      /\ retries' = [retries EXCEPT ![c] = @ + 1]
  BY <1>4 DEF Fail, RetryOrFail, Handled
<1>6. breaker' = "closed" /\ count' <= faults'
  <2>1. count' = count \/ count' = count + 1
    BY DEF Fail
  <2>2. count' < ConsecutiveFailures /\ count' <= faults'
    BY <1>1, <1>2, <1>3, <2>1
  <2>3. breaker' = breaker
    BY <1>1, <1>4, <2>1, <2>2 DEF Fail
  <2> QED BY <1>3, <2>2, <2>3
<1>7. ASSUME NEW d \in Calls
      PROVE  pc'[d] \notin {"failed", "test", "testFault"} /\ retries'[d] <= faults'
  BY <1>1, <1>2, <1>3, <1>5
<1> QED BY <1>6, <1>7 DEF Calm

(* Every other step leaves the faults as they are.                         *)
LEMMA CalmStep == Type /\ Calm /\ [Next]_vars => Calm'
<1> SUFFICES ASSUME Type, Calm, [Next]_vars,
                    faults' <= MaxRetryAttempts, faults' < ConsecutiveFailures
             PROVE  Calm'
  BY DEF Calm
<1>1. CASE UNCHANGED pipeVars
  BY <1>1 DEF Calm, pipeVars
<1>2. ASSUME NEW c \in Calls, Attempt(c) PROVE Calm'
  <2>1. faults' = faults /\ count' = count
    BY <1>2 DEF Attempt
  <2>2. breaker = "closed"
    BY <2>1 DEF Calm
  <2>3. breaker' = breaker /\ Invoke(c, "call")
    BY <1>2, <2>2 DEF Attempt
  <2> QED BY <2>1, <2>3 DEF Invoke, Calm, Type, PipeType
<1>3. ASSUME NEW c \in Calls, Succeed(c) PROVE Calm'
  BY <1>3 DEF Succeed, Calm, Type, PipeType
<1>4. ASSUME NEW c \in Calls, Refuse(c) PROVE Calm'
  BY <1>4 DEF Refuse, RetryOrFail, Handled, Calm, Type, PipeType
<1>5. CASE Cool \/ InjectFailures
  BY <1>5 DEF Cool, InjectFailures, Calm
<1> QED BY <1>1, <1>2, <1>3, <1>4, <1>5, CalmFail
        DEF Next, ResilienceNext, Start, BackoffElapses, vars

(* A blip is absorbed, whatever the options: see BlipAbsorbed.             *)
THEOREM RetrySafety == Spec => []BlipAbsorbed
<1>1. Init => Calm
  BY DEF Init, ResilienceInit, Calm
<1>2. Calm => BlipAbsorbed
  BY DEF Calm, BlipAbsorbed
<1> QED BY <1>1, <1>2, CalmStep, Typing, PTL DEF Spec
-----------------------------------------------------------------------------
(* Idempotent consumption                                                  *)

(* The consumers that have marked a body and not yet processed it.         *)
Underway(b) == {k \in Consumers : at[k] = "process" /\ held[k] = b}

(* As long as the store answers, each time a body was processed, or is     *)
(* about to be, is paid for by its key in the store or a window that       *)
(* passed.  Neither alone is inductive: a consumer between mark and        *)
(* process is entitled to one more.                                        *)
PaidFor ==
  luck.outages = 0 =>
    storeUp /\ \A b \in Calls :
      processed[b] + Cardinality(Underway(b)) <= luck.expiries + (IF b \in seen THEN 1 ELSE 0)

Accounted == PaidFor /\ \A b \in Calls : IsFiniteSet(Underway(b))

(* A step after which no more consumers are about to process b, which was  *)
(* not processed meanwhile, leaves b paid for.                             *)
LEMMA PaidShrink ==
  ASSUME Type, NEW b \in Calls, IsFiniteSet(Underway(b)), Underway(b)' \subseteq Underway(b)
  PROVE  /\ IsFiniteSet(Underway(b)')
         /\ Cardinality(Underway(b)') \in Nat /\ Cardinality(Underway(b)) \in Nat
         /\ Cardinality(Underway(b)') <= Cardinality(Underway(b))
  BY FS_Subset, FS_CardinalityType

(* tryMarkSeen() lets through only whom it pays for.                       *)
LEMMA AccountedMark ==
  ASSUME Type, Accounted, NEW k \in Consumers, C!Mark(k)
  PROVE  Accounted'
<1>1. /\ held[k] \in Calls /\ at[k] = "mark"
      /\ processed' = processed /\ luck' = luck /\ storeUp' = storeUp /\ held' = held
  BY DEF C!Mark, Type, ConsumerType
<1>2. /\ processed \in [Calls -> Nat] /\ luck.expiries \in Nat
      /\ at \in [Consumers -> {"idle", "mark", "process", "settle", "duplicate"}]
  BY DEF Type, ConsumerType, Kinds
<1>3. \A b \in Calls : /\ k \notin Underway(b)
                       /\ IsFiniteSet(Underway(b)) /\ Cardinality(Underway(b)) \in Nat
  BY <1>1, FS_CardinalityType DEF Underway, Accounted
<1>4. CASE at' = [at EXCEPT ![k] = "process"]
  <2>1. \A b \in Calls : Underway(b)' = IF b = held[k] THEN Underway(b) \union {k} ELSE Underway(b)
    BY <1>1, <1>2, <1>4 DEF Underway
  <2>2. /\ IsFiniteSet(Underway(held[k])')
        /\ Cardinality(Underway(held[k])') = Cardinality(Underway(held[k])) + 1
    BY <1>1, <1>3, <2>1, FS_AddElement
  <2>3. ASSUME NEW b \in Calls PROVE IsFiniteSet(Underway(b)')
    <3>1. CASE b = held[k]
      BY <1>1, <2>2, <3>1
    <3>2. CASE b # held[k]
      BY <1>3, <2>1, <3>2
    <3> QED BY <3>1, <3>2
  <2>4. ASSUME luck.outages = 0, NEW b \in Calls
        PROVE  processed[b] + Cardinality(Underway(b)')
                 <= luck.expiries + (IF b \in seen' THEN 1 ELSE 0)
    <3>1. /\ storeUp
          /\ processed[b] + Cardinality(Underway(b)) <= luck.expiries + (IF b \in seen THEN 1 ELSE 0)
      BY <2>4 DEF Accounted, PaidFor
    <3>2. held[k] \notin seen /\ seen' = seen \union {held[k]}
      BY <1>2, <1>4, <3>1 DEF C!Mark, C!TryMarkSeen, C!Go
    <3>3. CASE b = held[k]
      BY <1>1, <1>2, <1>3, <2>2, <3>1, <3>2, <3>3
    <3>4. CASE b # held[k]
      BY <1>2, <1>3, <2>1, <3>1, <3>2, <3>4
    <3> QED BY <3>3, <3>4
  <2> QED BY <1>1, <2>3, <2>4 DEF Accounted, PaidFor
<1>5. CASE at' = [at EXCEPT ![k] = "duplicate"]
  <2>1. \A b \in Calls : Underway(b)' = Underway(b)
    BY <1>1, <1>2, <1>5 DEF Underway
  <2>2. seen \subseteq seen'
    BY DEF C!Mark, C!TryMarkSeen
  <2>3. ASSUME luck.outages = 0, NEW b \in Calls
        PROVE  processed[b] + Cardinality(Underway(b)')
                 <= luck.expiries + (IF b \in seen' THEN 1 ELSE 0)
    <3>1. processed[b] + Cardinality(Underway(b)) <= luck.expiries + (IF b \in seen THEN 1 ELSE 0)
      BY <2>3 DEF Accounted, PaidFor
    <3> QED BY <1>2, <1>3, <2>1, <2>2, <3>1
  <2> QED BY <1>1, <1>3, <2>1, <2>3 DEF Accounted, PaidFor
<1> QED BY <1>4, <1>5 DEF C!Mark, C!TryMarkSeen, C!Go

(* The side effect uses up what the mark has paid for.                     *)
LEMMA AccountedProcess ==
  ASSUME Type, Accounted, NEW k \in Consumers, C!Process(k)
  PROVE  Accounted'
<1>1. /\ held[k] \in Calls /\ at[k] = "process" /\ at' = [at EXCEPT ![k] = "settle"]
      /\ luck' = luck /\ storeUp' = storeUp /\ held' = held /\ seen' = seen
      /\ processed' = [processed EXCEPT ![held[k]] = @ + 1]
  BY DEF C!Process, C!Go, Type, ConsumerType
<1>2. /\ processed \in [Calls -> Nat] /\ luck.expiries \in Nat
      /\ at \in [Consumers -> {"idle", "mark", "process", "settle", "duplicate"}]
  BY DEF Type, ConsumerType, Kinds
<1>3. \A b \in Calls : IsFiniteSet(Underway(b)) /\ Cardinality(Underway(b)) \in Nat
  BY FS_CardinalityType DEF Accounted
<1>4. /\ \A b \in Calls : b # held[k] => Underway(b)' = Underway(b)
      /\ Underway(held[k])' = Underway(held[k]) \ {k} /\ k \in Underway(held[k])
  BY <1>1, <1>2 DEF Underway
<1>5. /\ IsFiniteSet(Underway(held[k])')
      /\ Cardinality(Underway(held[k])') = Cardinality(Underway(held[k])) - 1
  BY <1>1, <1>3, <1>4, FS_RemoveElement
<1>6. ASSUME luck.outages = 0, NEW b \in Calls
      PROVE  processed'[b] + Cardinality(Underway(b)')
               <= luck.expiries + (IF b \in seen THEN 1 ELSE 0)
  <2>1. processed[b] + Cardinality(Underway(b)) <= luck.expiries + (IF b \in seen THEN 1 ELSE 0)
    BY <1>6 DEF Accounted, PaidFor
  <2>2. CASE b = held[k]
    BY <1>1, <1>2, <1>3, <1>5, <2>1, <2>2
  <2>3. CASE b # held[k]
    BY <1>1, <1>2, <1>3, <1>4, <2>1, <2>3
  <2> QED BY <2>2, <2>3
<1>7. ASSUME NEW b \in Calls PROVE IsFiniteSet(Underway(b)')
  <2>1. CASE b = held[k]
    BY <1>1, <1>5, <2>1
  <2>2. CASE b # held[k]
    BY <1>3, <1>4, <2>2
  <2> QED BY <2>1, <2>2
<1> QED BY <1>1, <1>6, <1>7 DEF Accounted, PaidFor

(* Whatever else happens, nobody is added to those about to process, and   *)
(* a key leaves the store only when its window has passed.                 *)
LEMMA AccountedOther ==
  ASSUME Type, Accounted, processed' = processed,
         \A b \in Calls : Underway(b)' \subseteq Underway(b),
         luck' \in [Kinds -> Nat], luck.outages <= luck'.outages,
         luck'.outages = 0 => storeUp' = storeUp,
         \/ seen' = seen /\ luck.expiries <= luck'.expiries
         \/ \E b \in Calls : seen' = seen \ {b} /\ luck'.expiries = luck.expiries + 1
  PROVE  Accounted'
<1>1. /\ processed \in [Calls -> Nat] /\ luck.expiries \in Nat /\ luck.outages \in Nat
      /\ luck'.expiries \in Nat /\ luck'.outages \in Nat
  BY DEF Type, ConsumerType, Kinds
<1>2. ASSUME NEW b \in Calls
      PROVE  /\ IsFiniteSet(Underway(b)')
             /\ Cardinality(Underway(b)') \in Nat /\ Cardinality(Underway(b)) \in Nat
             /\ Cardinality(Underway(b)') <= Cardinality(Underway(b))
  BY <1>2, PaidShrink DEF Accounted
<1>3. ASSUME luck'.outages = 0
      PROVE  /\ storeUp'
             /\ \A b \in Calls : processed[b] + Cardinality(Underway(b))
                                  <= luck.expiries + (IF b \in seen THEN 1 ELSE 0)
  <2>1. luck.outages = 0
    BY <1>1, <1>3
  <2> QED BY <1>3, <2>1 DEF Accounted, PaidFor
<1>4. ASSUME luck'.outages = 0, NEW b \in Calls
      PROVE  processed'[b] + Cardinality(Underway(b)')
               <= luck'.expiries + (IF b \in seen' THEN 1 ELSE 0)
  <2>1. processed[b] + Cardinality(Underway(b)) <= luck.expiries + (IF b \in seen THEN 1 ELSE 0)
    BY <1>3, <1>4
  <2>2. processed'[b] = processed[b] /\ processed[b] \in Nat
    BY <1>1
  <2>3. luck.expiries + (IF b \in seen THEN 1 ELSE 0) <= luck'.expiries + (IF b \in seen' THEN 1 ELSE 0)
    BY <1>1
  <2> QED BY <1>1, <1>2, <2>1, <2>2, <2>3
<1> QED BY <1>2, <1>3, <1>4 DEF Accounted, PaidFor

(* The account holds over every step of publishers, consumers and store.   *)
LEMMA AccountedStep == Type /\ Accounted /\ [Next]_vars => Accounted'
<1> SUFFICES ASSUME Type, Accounted, [Next]_vars PROVE Accounted'
  OBVIOUS
<1>0. /\ luck \in [Kinds -> Nat]
      /\ at \in [Consumers -> {"idle", "mark", "process", "settle", "duplicate"}]
      /\ held \in [Consumers -> Calls \union {None}]
  BY DEF Type, ConsumerType
<1>1. CASE UNCHANGED consumerVars
  BY <1>0, <1>1, AccountedOther DEF consumerVars, Underway, Kinds
<1>2. ASSUME NEW k \in Consumers, C!Deliver(k) \/ C!Ack(k) PROVE Accounted'
  <2>1. /\ processed' = processed /\ luck' = luck /\ storeUp' = storeUp /\ seen' = seen
    BY <1>2 DEF C!Deliver, C!Ack
  <2>2. \A b \in Calls : Underway(b)' \subseteq Underway(b)
    BY <1>0, <1>2 DEF C!Deliver, C!Ack, C!Go, Underway
  <2> QED BY <1>0, <2>1, <2>2, AccountedOther DEF Kinds
<1>3. ASSUME NEW k \in Consumers, C!Crash(k) \/ C!Throw(k) PROVE Accounted'
  <2>1. /\ processed' = processed /\ storeUp' = storeUp /\ seen' = seen
        /\ luck' = [luck EXCEPT !["crashes"] = @ + 1] \/ luck' = [luck EXCEPT !["throws"] = @ + 1]
    BY <1>3 DEF C!Crash, C!Throw, C!GiveBack, C!Mishap
  <2>2. \A b \in Calls : Underway(b)' \subseteq Underway(b)
    BY <1>0, <1>3 DEF C!Crash, C!Throw, C!GiveBack, C!Go, Underway
  <2>3. /\ luck' \in [Kinds -> Nat]
        /\ luck'.outages = luck.outages /\ luck'.expiries = luck.expiries
    BY <1>0, <2>1 DEF Kinds
  <2>4. luck.outages \in Nat /\ luck.expiries \in Nat
    BY <1>0 DEF Kinds
  <2> QED BY <2>1, <2>2, <2>3, <2>4, AccountedOther
<1>4. CASE C!StoreFails
  <2>1. /\ processed' = processed /\ seen' = seen /\ luck' = [luck EXCEPT !["outages"] = @ + 1]
        /\ at' = at /\ held' = held
    BY <1>4 DEF C!StoreFails, C!Mishap
  <2>2. /\ luck' \in [Kinds -> Nat] /\ luck'.outages = luck.outages + 1
        /\ luck'.expiries = luck.expiries
        /\ luck.outages \in Nat /\ luck.expiries \in Nat
    BY <1>0, <2>1 DEF Kinds
  <2> QED BY <2>1, <2>2, AccountedOther DEF Underway
<1>5. CASE C!StoreRecovers
  <2>1. luck.outages # 0
    BY <1>5 DEF Accounted, PaidFor, C!StoreRecovers
  <2>2. /\ processed' = processed /\ seen' = seen /\ luck' = luck
        /\ at' = at /\ held' = held
    BY <1>5 DEF C!StoreRecovers
  <2>3. luck.outages \in Nat /\ luck.expiries \in Nat
    BY <1>0 DEF Kinds
  <2> QED BY <1>0, <2>1, <2>2, <2>3, AccountedOther DEF Underway
<1>6. ASSUME NEW b \in Calls, C!WindowPasses(b) PROVE Accounted'
  <2>1. /\ processed' = processed /\ seen' = seen \ {b} /\ storeUp' = storeUp
        /\ luck' = [luck EXCEPT !["expiries"] = @ + 1]
        /\ at' = at /\ held' = held
    BY <1>6 DEF C!WindowPasses, C!Mishap
  <2>2. /\ luck' \in [Kinds -> Nat] /\ luck'.expiries = luck.expiries + 1
        /\ luck'.outages = luck.outages
        /\ luck.outages \in Nat /\ luck.expiries \in Nat
    BY <1>0, <2>1 DEF Kinds
  <2> QED BY <2>1, <2>2, AccountedOther DEF Underway
<1> QED BY <1>1, <1>2, <1>3, <1>4, <1>5, <1>6, AccountedMark, AccountedProcess
        DEF Next, C!IdempotentNext, vars

(* Retries and redeliveries are processed once, whatever the number of     *)
(* consumers that share the queue: see EffectivelyOnce.                    *)
THEOREM OnceSafety == Spec => []EffectivelyOnce
<1>1. Init => Accounted
  <2> SUFFICES ASSUME Init PROVE Accounted
    OBVIOUS
  <2>1. \A b \in Calls : Underway(b) = {}
    BY DEF Init, C!IdempotentInit, Underway
  <2>2. \A b \in Calls : IsFiniteSet(Underway(b)) /\ Cardinality(Underway(b)) = 0
    BY <2>1, FS_EmptySet
  <2>3. /\ storeUp /\ luck.expiries = 0
        /\ seen = {} /\ \A b \in Calls : processed[b] = 0
    BY DEF Init, C!IdempotentInit
  <2> QED BY <2>2, <2>3 DEF Accounted, PaidFor
<1>2. Type /\ Accounted => EffectivelyOnce
  <2> SUFFICES ASSUME Type, Accounted, luck.outages = 0, NEW b \in Calls
               PROVE  processed[b] <= 1 + luck.expiries
    BY DEF EffectivelyOnce
  <2>1. /\ processed[b] \in Nat /\ luck.expiries \in Nat
        /\ Cardinality(Underway(b)) \in Nat
    BY FS_CardinalityType DEF Accounted, Type, ConsumerType, Kinds
  <2>2. processed[b] + Cardinality(Underway(b)) <= luck.expiries + (IF b \in seen THEN 1 ELSE 0)
    BY DEF Accounted, PaidFor
  <2> QED BY <2>1, <2>2
<1> QED BY <1>1, <1>2, AccountedStep, Typing, PTL DEF Spec
=============================================================================
