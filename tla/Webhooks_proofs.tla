----------------------------- MODULE Webhooks_proofs -----------------------------
(***************************************************************************)
(* Proofs about Webhooks: types with the queue's bound, the order of the   *)
(* attempts of a delivery, and the completeness of its log, for any hooks, *)
(* events, workers, retry settings and bounds.                             *)
(***************************************************************************)
EXTENDS Webhooks, FiniteSetTheorems, SequenceTheorems, TLAPS

LEMMA Attempts == MaxAttempts \in Nat \ {0}
  BY WebhooksAssumption DEF MaxAttempts

LEMMA Capacity == QueueCap \in Nat
  BY WebhooksAssumption, FS_CardinalityType DEF QueueCap

LEMMA InitType == Init => TypeOK
<1> SUFFICES ASSUME Init PROVE TypeOK
  OBVIOUS
<1>1. IdleWorker \in WorkerState
  BY Attempts DEF IdleWorker, WorkerState
<1>2. QED
  BY <1>1, Capacity DEF Init, TypeOK, WorkersBusy, IdleWorker

(***************************************************************************)
(* Every action keeps the types.                                           *)
(***************************************************************************)

\* The key of a test names a hook.
LEMMA TestKey == \A h \in Hooks : TestOf(h) \in Deliveries
  BY DEF TestOf, Deliveries

\* The row an INSERT adds is a numbered outcome.
LEMMA TypeInsert ==
  ASSUME TypeOK, NEW d \in Deliveries, NEW n \in 1..MaxAttempts, NEW ok \in BOOLEAN,
         InsertWebhookDelivery(d, n, ok)
  PROVE  rows' \in [Deliveries -> Seq([attempt : 1..MaxAttempts, ok : BOOLEAN])]
<1> DEFINE R == [attempt : 1..MaxAttempts, ok : BOOLEAN]
<1>1. rows \in [Deliveries -> Seq(R)]
  BY DEF TypeOK
<1>2. [attempt |-> n, ok |-> ok] \in R
  OBVIOUS
<1> HIDE DEF R
<1>3. Append(rows[d], [attempt |-> n, ok |-> ok]) \in Seq(R)
  BY <1>1, <1>2
<1>4. rows' \in [Deliveries -> Seq(R)]
  BY <1>1, <1>3 DEF InsertWebhookDelivery
<1>5. QED
  BY <1>4 DEF R

LEMMA TypePost ==
  ASSUME TypeOK, NEW d \in Deliveries, NEW ok \in BOOLEAN, Post(d, ok)
  PROVE  posts' \in [Deliveries -> Seq(BOOLEAN)]
<1>1. posts[d] \in Seq(BOOLEAN)
  BY DEF TypeOK
<1>2. Append(posts[d], ok) \in Seq(BOOLEAN)
  BY <1>1
<1>3. QED
  BY <1>2 DEF Post, TypeOK

\* A step that moves no worker, or moves one to a proper state, keeps busy
\* workers busy with something.
LEMMA TypeMove ==
  ASSUME TypeOK, NEW w \in Workers, NEW x \in WorkerState,
         x.pc # "idle" => x.delivery \in Deliveries /\ x.attempt > 0,
         worker' = [worker EXCEPT ![w] = x]
  PROVE  worker' \in [Workers -> WorkerState] /\ WorkersBusy'
<1>1. worker \in [Workers -> WorkerState] /\ WorkersBusy
  BY DEF TypeOK
<1>2. \A v \in Workers : worker'[v] = IF v = w THEN x ELSE worker[v]
  BY <1>1
<1>3. QED
  BY <1>1, <1>2 DEF WorkersBusy

LEMMA TypeStay == ASSUME TypeOK, UNCHANGED worker PROVE WorkersBusy'
  BY DEF TypeOK, WorkersBusy

LEMMA TypeEmit ==
  ASSUME TypeOK, NEW e \in Emits, EmitList(e) \/ EmitEnqueue(e)
  PROVE  TypeOK'
<1>1. WorkersBusy'
  BY TypeStay DEF EmitList, EmitEnqueue
<1>2. CASE EmitList(e)
  <2>1. calls' \in [Emits -> SUBSET Hooks] /\ started' \subseteq Emits
    BY <1>2 DEF EmitList, TypeOK
  <2>2. QED
    BY <1>1, <1>2, <2>1 DEF EmitList, TypeOK
<1>3. CASE EmitEnqueue(e)
  <2>1. PICK h \in calls[e] :
          /\ calls' = [calls EXCEPT ![e] = @ \ {h}]
          /\ queue' = IF HasRoom THEN Append(queue, <<e, h>>) ELSE queue
    BY <1>3 DEF EmitEnqueue
  <2>2. <<e, h>> \in Deliveries
    BY <2>1 DEF TypeOK, Deliveries
  <2>3. queue' \in Seq(Deliveries) /\ Len(queue') <= QueueCap
    BY <2>1, <2>2, Capacity DEF TypeOK, HasRoom
  <2>4. calls' \in [Emits -> SUBSET Hooks]
    BY <2>1 DEF TypeOK
  <2>5. QED
    BY <1>1, <1>3, <2>3, <2>4 DEF EmitEnqueue, TypeOK
<1>4. QED
  BY <1>2, <1>3

\* After an attempt a worker is idle, or ready for the next one.
LEMMA TypeAfter ==
  ASSUME NEW x \in WorkerState, x.delivery \in Deliveries, x.attempt \in 1..MaxAttempts
  PROVE  /\ AfterAttempt(x) \in WorkerState
         /\ AfterAttempt(x).pc # "idle" =>
              /\ AfterAttempt(x).delivery \in Deliveries
              /\ AfterAttempt(x).attempt > 0
<1>1. CASE x.ok \/ x.attempt = MaxAttempts
  BY <1>1, Attempts DEF AfterAttempt, IdleWorker, WorkerState
<1>2. CASE ~(x.ok \/ x.attempt = MaxAttempts)
  <2>1. AfterAttempt(x) = [x EXCEPT !.pc = "ready", !.attempt = @ + 1]
    BY <1>2 DEF AfterAttempt
  <2>2. x.attempt + 1 \in 0..MaxAttempts
    BY <1>2, Attempts
  <2>3. PICK n \in 0..MaxAttempts : n = x.attempt + 1
    BY <2>2
  <2>4. AfterAttempt(x) = [x EXCEPT !.pc = "ready", !.attempt = n]
    BY <2>1, <2>3
  <2>5. /\ AfterAttempt(x) \in WorkerState
        /\ AfterAttempt(x).delivery = x.delivery
        /\ AfterAttempt(x).attempt = n
    BY <2>4 DEF WorkerState
  <2>6. QED
    BY <2>3, <2>5, Attempts
<1>3. QED
  BY <1>1, <1>2

LEMMA TypeWorker ==
  ASSUME TypeOK, NEW w \in Workers, WorkerStep(w)
  PROVE  TypeOK'
<1>1. CASE Take(w)
  <2>1. /\ Head(queue) \in Deliveries
        /\ Tail(queue) \in Seq(Deliveries)
        /\ Len(Tail(queue)) <= QueueCap
    BY <1>1, Capacity DEF Take, TypeOK
  <2>2. DEFINE x == [pc |-> "ready", delivery |-> Head(queue), attempt |-> 1, ok |-> FALSE]
  <2>3. x \in WorkerState
    BY <2>1, Attempts DEF WorkerState
  <2>4. x.delivery \in Deliveries /\ x.attempt > 0
    BY <2>1
  <2>5. worker' = [worker EXCEPT ![w] = x]
    BY <1>1 DEF Take
  <2> HIDE DEF x
  <2>6. worker' \in [Workers -> WorkerState] /\ WorkersBusy'
    BY <2>3, <2>4, <2>5, TypeMove
  <2>7. QED
    BY <1>1, <2>1, <2>6 DEF Take, TypeOK
<1>2. CASE Attempt(w)
  <2>1. PICK ok \in BOOLEAN :
          /\ Post(worker[w].delivery, ok)
          /\ worker' = [worker EXCEPT ![w].pc = "log", ![w].ok = ok]
    BY <1>2 DEF Attempt
  <2>2. /\ worker[w] \in WorkerState
        /\ worker[w].delivery \in Deliveries
        /\ worker[w].attempt > 0
    BY <1>2 DEF Attempt, TypeOK, WorkersBusy
  <2>3. posts' \in [Deliveries -> Seq(BOOLEAN)]
    BY <2>1, <2>2, TypePost
  <2>4. DEFINE x == [worker[w] EXCEPT !.pc = "log", !.ok = ok]
  <2>5. /\ x \in WorkerState
        /\ x.delivery = worker[w].delivery
        /\ x.attempt = worker[w].attempt
    BY <2>2 DEF WorkerState
  <2>6. worker' = [worker EXCEPT ![w] = x]
    BY <2>1
  <2> HIDE DEF x
  <2>7. worker' \in [Workers -> WorkerState] /\ WorkersBusy'
    BY <2>2, <2>5, <2>6, TypeMove
  <2>8. QED
    BY <1>2, <2>3, <2>7 DEF Attempt, TypeOK
<1>3. CASE LogAttempt(w)
  <2>1. /\ worker[w] \in WorkerState
        /\ worker[w].delivery \in Deliveries
        /\ worker[w].attempt \in 1..MaxAttempts
        /\ worker[w].ok \in BOOLEAN
    BY <1>3, Attempts DEF LogAttempt, TypeOK, WorkerState, WorkersBusy
  <2>2. InsertWebhookDelivery(worker[w].delivery, worker[w].attempt, worker[w].ok)
    BY <1>3 DEF LogAttempt
  <2>3. rows' \in [Deliveries -> Seq([attempt : 1..MaxAttempts, ok : BOOLEAN])]
    BY <2>1, <2>2, TypeInsert
  <2> DEFINE x == AfterAttempt(worker[w])
  <2>4. x \in WorkerState /\ (x.pc # "idle" => x.delivery \in Deliveries /\ x.attempt > 0)
    BY <2>1, TypeAfter
  <2>5. worker' = [worker EXCEPT ![w] = x]
    BY <1>3 DEF LogAttempt
  <2> HIDE DEF x
  <2>7. worker' \in [Workers -> WorkerState] /\ WorkersBusy'
    BY <2>4, <2>5, TypeMove
  <2>8. QED
    BY <1>3, <2>3, <2>7 DEF LogAttempt, TypeOK
<1>4. QED
  BY <1>1, <1>2, <1>3 DEF WorkerStep

\* Counting a change, a test or a restart.
LEMMA TypeSpent ==
  ASSUME TypeOK,
         \/ spent' = [spent EXCEPT !.change = @ + 1]
         \/ spent' = [spent EXCEPT !.test = @ + 1]
         \/ spent' = [spent EXCEPT !.restart = @ + 1]
  PROVE  spent' \in [change : Nat, test : Nat, restart : Nat]
<1>1. spent \in [change : Nat, test : Nat, restart : Nat]
  BY DEF TypeOK
<1>2. QED
  BY <1>1

LEMMA TypeHook ==
  ASSUME TypeOK, NEW h \in Hooks,
         \/ CreateWebhook(h) \/ UpdateWebhook(h) \/ DeleteWebhook(h)
         \/ TestWebhook(h) \/ LogTest(h) \/ LoseTest(h)
  PROVE  TypeOK'
<1> DEFINE HookRows   == [state : {"absent", "present", "deleted"},
                          events : SUBSET EventTypes]
           Counters   == [change : Nat, test : Nat, restart : Nat]
           LoggedRows == Seq([attempt : 1..MaxAttempts, ok : BOOLEAN])
<1>0. WorkersBusy'
  BY TypeStay DEF CreateWebhook, UpdateWebhook, DeleteWebhook, TestWebhook,
                  LogTest, LoseTest
<1>1. CASE CreateWebhook(h)
  <2>1. hook' \in [Hooks -> HookRows]
    <3>1. hook \in [Hooks -> HookRows]
      BY DEF TypeOK
    <3>2. QED
      BY <1>1, <3>1 DEF CreateWebhook
  <2>2. QED
    BY <1>0, <1>1, <2>1 DEF CreateWebhook, TypeOK
<1>2. CASE UpdateWebhook(h)
  <2>1. spent' \in Counters
    BY <1>2, TypeSpent DEF UpdateWebhook, Change
  <2>2. hook' \in [Hooks -> HookRows]
    <3>1. hook \in [Hooks -> HookRows]
      BY DEF TypeOK
    <3>2. QED
      BY <1>2, <3>1 DEF UpdateWebhook
  <2>3. QED
    BY <1>0, <1>2, <2>1, <2>2 DEF UpdateWebhook, TypeOK
<1>3. CASE DeleteWebhook(h)
  <2>1. spent' \in Counters
    BY <1>3, TypeSpent DEF DeleteWebhook, Change
  <2>2. hook' \in [Hooks -> HookRows]
    <3>1. hook \in [Hooks -> HookRows]
      BY DEF TypeOK
    <3>2. QED
      BY <1>3, <3>1 DEF DeleteWebhook
  <2>3. rows' \in [Deliveries -> LoggedRows]
    <3>1. rows \in [Deliveries -> LoggedRows]
      BY DEF TypeOK
    <3>2. <<>> \in LoggedRows
      OBVIOUS
    <3>3. rows' = [d \in Deliveries |-> IF HookOf(d) = h THEN <<>> ELSE rows[d]]
      BY <1>3 DEF DeleteWebhook
    <3> HIDE DEF LoggedRows
    <3>4. QED
      BY <3>1, <3>2, <3>3
  <2>4. QED
    BY <1>0, <1>3, <2>1, <2>2, <2>3 DEF DeleteWebhook, TypeOK
<1>4. CASE TestWebhook(h)
  <2>1. PICK ok \in BOOLEAN :
          /\ Post(TestOf(h), ok)
          /\ testing' = [testing EXCEPT ![h] = IF ok THEN "ok" ELSE "failed"]
    BY <1>4 DEF TestWebhook
  <2>2. posts' \in [Deliveries -> Seq(BOOLEAN)]
    BY <2>1, TestKey, TypePost
  <2>3. spent' \in Counters
    BY <1>4, TypeSpent DEF TestWebhook
  <2>4. testing' \in [Hooks -> {"none", "ok", "failed"}]
    BY <2>1 DEF TypeOK
  <2>5. QED
    BY <1>0, <1>4, <2>2, <2>3, <2>4 DEF TestWebhook, TypeOK
<1>5. CASE LogTest(h)
  <2>1. rows' \in [Deliveries -> LoggedRows]
    <3>1. InsertWebhookDelivery(TestOf(h), 1, testing[h] = "ok")
      BY <1>5 DEF LogTest
    <3>2. TestOf(h) \in Deliveries /\ 1 \in 1..MaxAttempts /\ (testing[h] = "ok") \in BOOLEAN
      BY TestKey, Attempts
    <3>3. QED
      BY <3>1, <3>2, TypeInsert
  <2>2. testing' \in [Hooks -> {"none", "ok", "failed"}]
    BY <1>5 DEF LogTest, TypeOK
  <2>3. QED
    BY <1>0, <1>5, <2>1, <2>2 DEF LogTest, TypeOK
<1>6. CASE LoseTest(h)
  <2>1. testing' \in [Hooks -> {"none", "ok", "failed"}] /\ cut' \subseteq Deliveries
    BY <1>6, TestKey DEF LoseTest, TypeOK
  <2>2. QED
    BY <1>0, <1>6, <2>1 DEF LoseTest, TypeOK
<1>7. QED
  BY <1>1, <1>2, <1>3, <1>4, <1>5, <1>6

LEMMA TypeStep == TypeOK /\ [Next]_vars => TypeOK'
<1> SUFFICES ASSUME TypeOK, [Next]_vars PROVE TypeOK'
  OBVIOUS
<1>1. CASE Restart
  <2>1. IdleWorker \in WorkerState /\ IdleWorker.pc = "idle"
    BY Attempts DEF IdleWorker, WorkerState
  <2>2. spent' \in [change : Nat, test : Nat, restart : Nat]
    BY <1>1, TypeSpent DEF Restart
  <2>3. cut' \subseteq Deliveries
    BY <1>1, TestKey DEF Restart, TypeOK
  <2>4. queue' \in Seq(Deliveries) /\ Len(queue') <= QueueCap
    BY <1>1, Capacity DEF Restart
  <2>5. worker' \in [Workers -> WorkerState] /\ WorkersBusy'
    BY <1>1, <2>1 DEF Restart, WorkersBusy
  <2>6. /\ calls' \in [Emits -> SUBSET Hooks]
        /\ testing' \in [Hooks -> {"none", "ok", "failed"}]
    BY <1>1 DEF Restart
  <2>7. QED
    BY <1>1, <2>2, <2>3, <2>4, <2>5, <2>6 DEF Restart, TypeOK
<1>2. CASE UNCHANGED vars
  BY <1>2, TypeStay DEF vars, TypeOK
<1>3. QED
  BY <1>1, <1>2, TypeEmit, TypeWorker, TypeHook DEF Next

\* The queue never holds more than its capacity, no attempt has a number beyond
\* MaxAttempts, and every variable keeps its type.
THEOREM TypeCorrect == Spec => []TypeOK
  BY InitType, TypeStep, PTL DEF Spec

--------------------------------------------------------------------------------
(***************************************************************************)
(* AttemptsInOrder is not inductive: that a delivery gets no second series *)
(* of attempts depends on its being in one place at a time, owed by its    *)
(* Emit call, in the queue, with one worker, or nowhere any more.          *)
(***************************************************************************)

EventDeliveries == Emits \X Hooks

Nowhere(d) == ~Queued(d) /\ \A w \in Workers : ~SentBy(w, d)

\* What an Emit call has not enqueued yet is nowhere, and was never attempted.
Owed ==
  \A e \in Emits :
    /\ calls[e] # {} => e \in started
    /\ \A h \in Hooks : e \notin started \/ h \in calls[e]
         => Nowhere(<<e, h>>) /\ posts[<<e, h>>] = <<>>

\* What is in the queue is there once, with no worker, and was never attempted.
Waiting ==
  /\ \A i \in 1..Len(queue) :
       /\ queue[i] \in EventDeliveries
       /\ posts[queue[i]] = <<>>
       /\ \A w \in Workers : ~SentBy(w, queue[i])
  /\ \A i, j \in 1..Len(queue) : queue[i] = queue[j] => i = j

AllFailed(p, n) == \A i \in 1..n : ~p[i]

\* What a worker sends is sent by no other, and has failed so far.
Sending ==
  /\ \A v, w \in Workers : \A d \in Deliveries : SentBy(v, d) /\ SentBy(w, d) => v = w
  /\ \A w \in Workers : worker[w].pc # "idle" =>
       LET x == worker[w]  p == posts[x.delivery] IN
       /\ x.delivery \in EventDeliveries
       /\ x.pc = "ready" => Len(p) = x.attempt - 1 /\ AllFailed(p, Len(p))
       /\ x.pc = "log" => /\ Len(p) = x.attempt
                          /\ AllFailed(p, x.attempt - 1)
                          /\ p[x.attempt] = x.ok

InOrder ==
  \A d \in EventDeliveries :
    Len(posts[d]) <= MaxAttempts /\ AllFailed(posts[d], Len(posts[d]) - 1)

OnePlace == Owed /\ Waiting /\ Sending /\ InOrder

LEMMA EventKey ==
  /\ EventDeliveries \subseteq Deliveries
  /\ \A h \in Hooks : TestOf(h) \notin EventDeliveries
  BY WebhooksAssumption DEF EventDeliveries, Deliveries, TestOf

LEMMA OnePlaceInit == Init => OnePlace
<1> SUFFICES ASSUME Init PROVE OnePlace
  OBVIOUS
<1>1. \A w \in Workers : \A d : ~SentBy(w, d)
  BY DEF Init, SentBy, IdleWorker
<1>2. Owed
  BY <1>1 DEF Init, Owed, Nowhere, Queued, Deliveries
<1>3. Waiting /\ Sending
  BY <1>1 DEF Init, Waiting, Sending, IdleWorker
<1>4. InOrder
  BY Attempts, EventKey DEF Init, InOrder, AllFailed
<1>5. QED
  BY <1>2, <1>3, <1>4 DEF OnePlace

\* A step that leaves the queue, the calls, the workers and the attempts at
\* events alone.
LEMMA OnePlaceFrame ==
  ASSUME TypeOK, OnePlace, UNCHANGED <<started, calls, queue, worker>>,
         \A d \in EventDeliveries : posts'[d] = posts[d]
  PROVE  OnePlace'
<1>1. \A d : (Nowhere(d)' <=> Nowhere(d)) /\ \A w \in Workers : SentBy(w, d)' <=> SentBy(w, d)
  BY DEF Nowhere, Queued, SentBy
<1>2. Owed'
  BY <1>1 DEF OnePlace, Owed, EventDeliveries
<1>3. Waiting'
  BY <1>1 DEF OnePlace, Waiting
<1>4. Sending'
  BY <1>1 DEF OnePlace, Sending
<1>5. InOrder'
  BY DEF OnePlace, InOrder
<1>6. QED
  BY <1>2, <1>3, <1>4, <1>5 DEF OnePlace

LEMMA OnePlaceEmitList ==
  ASSUME TypeOK, OnePlace, NEW e \in Emits, EmitList(e)
  PROVE  OnePlace'
<1>1. /\ e \notin started /\ started' = started \cup {e}
      /\ \A f \in Emits \ {e} : calls'[f] = calls[f]
      /\ UNCHANGED <<queue, worker, posts>>
  BY DEF EmitList, TypeOK
<1>2. \A d : (Nowhere(d)' <=> Nowhere(d)) /\ \A w \in Workers : SentBy(w, d)' <=> SentBy(w, d)
  BY <1>1 DEF Nowhere, Queued, SentBy
<1>3. Owed'
  BY <1>1, <1>2 DEF OnePlace, Owed
<1>4. Waiting' /\ Sending' /\ InOrder'
  BY <1>1, <1>2 DEF OnePlace, Waiting, Sending, InOrder
<1>5. QED
  BY <1>3, <1>4 DEF OnePlace

LEMMA OnePlaceEmitEnqueue ==
  ASSUME TypeOK, OnePlace, NEW e \in Emits, EmitEnqueue(e)
  PROVE  OnePlace'
<1>1. PICK h \in calls[e] :
        /\ calls' = [calls EXCEPT ![e] = @ \ {h}]
        /\ queue' = IF HasRoom THEN Append(queue, <<e, h>>) ELSE queue
  BY DEF EmitEnqueue
<1>2. UNCHANGED <<started, worker, posts>>
  BY DEF EmitEnqueue
<1>3. /\ h \in Hooks /\ <<e, h>> \in EventDeliveries
      /\ e \in started
      /\ Nowhere(<<e, h>>) /\ posts[<<e, h>>] = <<>>
  BY <1>1 DEF OnePlace, Owed, TypeOK, EventDeliveries
<1>4. /\ calls'[e] = calls[e] \ {h}
      /\ \A f \in Emits \ {e} : calls'[f] = calls[f]
  BY <1>1 DEF TypeOK
<1>5. queue \in Seq(Deliveries) /\ <<e, h>> \in Deliveries
  BY <1>3, EventKey DEF TypeOK
<1>6. \A d, w : SentBy(w, d)' <=> SentBy(w, d)
  BY <1>2 DEF SentBy
<1>7. \A d : d # <<e, h>> => (Queued(d)' <=> Queued(d))
  <2>1. CASE queue' = queue
    BY <2>1 DEF Queued
  <2>2. CASE queue' = Append(queue, <<e, h>>)
    BY <1>5, <2>2 DEF Queued
  <2>3. QED
    BY <1>1, <2>1, <2>2
<1>8. Owed'
  <2> SUFFICES ASSUME NEW f \in Emits
               PROVE  /\ calls'[f] # {} => f \in started'
                      /\ \A g \in Hooks : f \notin started' \/ g \in calls'[f]
                           => Nowhere(<<f, g>>)' /\ posts'[<<f, g>>] = <<>>
    BY DEF Owed
  <2>1. calls'[f] # {} => f \in started'
    BY <1>2, <1>3, <1>4 DEF OnePlace, Owed
  <2>2. ASSUME NEW g \in Hooks, f \notin started' \/ g \in calls'[f]
        PROVE  Nowhere(<<f, g>>)' /\ posts'[<<f, g>>] = <<>>
    <3>1. /\ <<f, g>> # <<e, h>>
          /\ f \notin started \/ g \in calls[f]
      BY <1>2, <1>3, <1>4, <2>2
    <3>2. Nowhere(<<f, g>>) /\ posts[<<f, g>>] = <<>>
      BY <3>1 DEF OnePlace, Owed
    <3>3. QED
      BY <1>2, <1>6, <1>7, <3>1, <3>2 DEF Nowhere
  <2>3. QED
    BY <2>1, <2>2
<1>9. Waiting'
  <2>1. CASE queue' = queue
    BY <1>2, <1>6, <2>1 DEF OnePlace, Waiting
  <2>2. CASE queue' = Append(queue, <<e, h>>)
    <3>1. /\ Len(queue') = Len(queue) + 1
          /\ \A i \in 1..Len(queue) : queue'[i] = queue[i] /\ queue[i] # <<e, h>>
          /\ queue'[Len(queue) + 1] = <<e, h>>
      BY <1>3, <1>5, <2>2 DEF Nowhere, Queued
    <3>2. \A i \in 1..Len(queue') : i \in 1..Len(queue) \/ i = Len(queue) + 1
      BY <1>5, <3>1
    <3>3. ASSUME NEW i \in 1..Len(queue')
          PROVE  /\ queue'[i] \in EventDeliveries
                 /\ posts'[queue'[i]] = <<>>
                 /\ \A w \in Workers : ~SentBy(w, queue'[i])
      BY <1>2, <1>3, <3>1, <3>2 DEF OnePlace, Waiting, Nowhere
    <3>4. \A i, j \in 1..Len(queue') : queue'[i] = queue'[j] => i = j
      BY <3>1, <3>2 DEF OnePlace, Waiting
    <3>5. QED
      BY <1>6, <3>3, <3>4 DEF Waiting
  <2>3. QED
    BY <1>1, <2>1, <2>2
<1>10. Sending' /\ InOrder'
  BY <1>2, <1>6 DEF OnePlace, Sending, InOrder
<1>11. QED
  BY <1>8, <1>9, <1>10 DEF OnePlace

LEMMA OnePlaceTake ==
  ASSUME TypeOK, OnePlace, NEW w \in Workers, Take(w)
  PROVE  OnePlace'
<1> DEFINE d == Head(queue)
<1>1. /\ queue # <<>> /\ queue \in Seq(Deliveries)
      /\ queue' = Tail(queue)
      /\ UNCHANGED <<started, calls, posts>>
  BY DEF Take, TypeOK
<1>2. /\ worker'[w] = [pc |-> "ready", delivery |-> d, attempt |-> 1, ok |-> FALSE]
      /\ \A v \in Workers \ {w} : worker'[v] = worker[v]
      /\ worker[w].pc = "idle"
  BY DEF Take, TypeOK
<1>3. /\ Len(queue) > 0 /\ Len(queue') = Len(queue) - 1
      /\ d = queue[1]
      /\ \A i \in 1..Len(queue') : queue'[i] = queue[i + 1] /\ i + 1 \in 1..Len(queue)
  BY <1>1
<1>4. /\ d \in EventDeliveries
      /\ posts[d] = <<>>
      /\ \A v \in Workers : ~SentBy(v, d)
      /\ \A i \in 1..Len(queue') : queue'[i] # d
  BY <1>3 DEF OnePlace, Waiting
<1> HIDE DEF d
<1>5. \A v \in Workers : \A c : SentBy(v, c)' <=> (SentBy(v, c) \/ (v = w /\ c = d))
  BY <1>2 DEF SentBy
<1>6. \A c : Queued(c)' => Queued(c)
  BY <1>3 DEF Queued
<1>7. Queued(d)
  BY <1>3 DEF Queued
<1>8. Owed'
  BY <1>1, <1>5, <1>6, <1>7 DEF OnePlace, Owed, Nowhere
<1>9. Waiting'
  <2>1. ASSUME NEW i \in 1..Len(queue')
        PROVE  /\ queue'[i] \in EventDeliveries
               /\ posts'[queue'[i]] = <<>>
               /\ \A v \in Workers : worker'[v].pc # "idle"
                                        => worker'[v].delivery # queue'[i]
    <3>1. /\ queue[i + 1] \in EventDeliveries
          /\ posts[queue[i + 1]] = <<>>
          /\ \A v \in Workers : ~SentBy(v, queue[i + 1])
      BY <1>3 DEF OnePlace, Waiting
    <3>2. queue'[i] = queue[i + 1] /\ queue'[i] # d
      BY <1>3, <1>4
    <3>3. \A v \in Workers : worker'[v].pc # "idle" => worker'[v].delivery # queue'[i]
      BY <1>2, <3>1, <3>2 DEF SentBy
    <3>4. QED
      BY <1>1, <3>1, <3>2, <3>3
  <2>2. \A i, j \in 1..Len(queue') : queue'[i] = queue'[j] => i = j
    BY <1>3 DEF OnePlace, Waiting
  <2>3. QED
    BY <2>1, <2>2 DEF Waiting, SentBy
<1>10. Sending'
  <2>1. \A u, v \in Workers : \A c \in Deliveries :
          SentBy(u, c)' /\ SentBy(v, c)' => u = v
    BY <1>4, <1>5 DEF OnePlace, Sending
  <2>2. ASSUME NEW v \in Workers, worker'[v].pc # "idle"
        PROVE  LET x == worker'[v]  p == posts'[x.delivery] IN
               /\ x.delivery \in EventDeliveries
               /\ x.pc = "ready" => Len(p) = x.attempt - 1 /\ AllFailed(p, Len(p))
               /\ x.pc = "log" => /\ Len(p) = x.attempt
                                  /\ AllFailed(p, x.attempt - 1)
                                  /\ p[x.attempt] = x.ok
    <3>1. CASE v = w
      BY <1>1, <1>2, <1>4, <3>1 DEF AllFailed
    <3>2. CASE v # w
      BY <1>1, <1>2, <2>2, <3>2 DEF OnePlace, Sending
    <3>3. QED
      BY <3>1, <3>2
  <2>3. QED
    BY <2>1, <2>2 DEF Sending
<1>11. InOrder'
  BY <1>1 DEF OnePlace, InOrder
<1>12. QED
  BY <1>8, <1>9, <1>10, <1>11 DEF OnePlace

LEMMA OnePlaceAttempt ==
  ASSUME TypeOK, OnePlace, NEW w \in Workers, Attempt(w)
  PROVE  OnePlace'
<1> DEFINE d == worker[w].delivery
           n == worker[w].attempt
<1>1. PICK ok \in BOOLEAN :
        /\ Post(d, ok)
        /\ worker' = [worker EXCEPT ![w].pc = "log", ![w].ok = ok]
  BY DEF Attempt
<1>2. UNCHANGED <<started, calls, queue>> /\ worker[w].pc = "ready"
  BY DEF Attempt
<1>3. /\ d \in EventDeliveries /\ d \in Deliveries
      /\ SentBy(w, d)
      /\ n \in 1..MaxAttempts
      /\ Len(posts[d]) = n - 1 /\ AllFailed(posts[d], n - 1)
  BY <1>2, EventKey, Attempts
  DEF OnePlace, Sending, SentBy, TypeOK, WorkersBusy, WorkerState
<1>4. /\ worker'[w].pc = "log" /\ worker'[w].ok = ok
      /\ worker'[w].delivery = d /\ worker'[w].attempt = n
      /\ \A v \in Workers \ {w} : worker'[v] = worker[v]
  BY <1>1 DEF TypeOK, WorkerState
<1>5. posts[d] \in Seq(BOOLEAN)
  BY <1>3 DEF TypeOK
<1>6. /\ posts'[d] = Append(posts[d], ok)
      /\ \A c \in Deliveries \ {d} : posts'[c] = posts[c]
  BY <1>1, <1>3 DEF Post, TypeOK
<1>7. /\ Len(posts'[d]) = n
      /\ AllFailed(posts'[d], n - 1)
      /\ posts'[d][n] = ok
  BY <1>3, <1>5, <1>6 DEF AllFailed
<1> HIDE DEF d, n
<1>8. \A v \in Workers : \A c : SentBy(v, c)' <=> SentBy(v, c)
  BY <1>2, <1>4 DEF SentBy, d
<1>9. \A c : Nowhere(c)' <=> Nowhere(c)
  BY <1>2, <1>8 DEF Nowhere, Queued
<1>10. Owed'
  <2>1. \A e \in Emits, h \in Hooks :
          Nowhere(<<e, h>>) => posts'[<<e, h>>] = posts[<<e, h>>]
    BY <1>3, <1>6, EventKey DEF Nowhere, EventDeliveries
  <2>2. QED
    BY <1>2, <1>9, <2>1 DEF OnePlace, Owed
<1>11. Waiting'
  BY <1>2, <1>3, <1>6, <1>8, EventKey DEF OnePlace, Waiting
<1>12. Sending'
  <2>1. \A u, v \in Workers : \A c \in Deliveries :
          SentBy(u, c)' /\ SentBy(v, c)' => u = v
    BY <1>8 DEF OnePlace, Sending
  <2>2. ASSUME NEW v \in Workers, worker'[v].pc # "idle"
        PROVE  LET x == worker'[v]  p == posts'[x.delivery] IN
               /\ x.delivery \in EventDeliveries
               /\ x.pc = "ready" => Len(p) = x.attempt - 1 /\ AllFailed(p, Len(p))
               /\ x.pc = "log" => /\ Len(p) = x.attempt
                                  /\ AllFailed(p, x.attempt - 1)
                                  /\ p[x.attempt] = x.ok
    <3>1. CASE v = w
      BY <1>3, <1>4, <1>7, <3>1
    <3>2. CASE v # w
      <4>1. worker'[v] = worker[v]
        BY <1>4, <3>2
      <4>2. worker[v].delivery \in EventDeliveries
        BY <2>2, <4>1 DEF OnePlace, Sending
      <4>3. SentBy(v, worker[v].delivery)
        BY <2>2, <4>1 DEF SentBy
      <4>4. worker[v].delivery # d
        BY <1>3, <3>2, <4>3 DEF OnePlace, Sending
      <4>5. posts'[worker[v].delivery] = posts[worker[v].delivery]
        BY <1>6, <4>2, <4>4, EventKey
      <4>6. QED
        BY <2>2, <4>1, <4>5 DEF OnePlace, Sending
    <3>3. QED
      BY <3>1, <3>2
  <2>3. QED
    BY <2>1, <2>2 DEF Sending
<1>13. InOrder'
  <2>1. ASSUME NEW c \in EventDeliveries
        PROVE  Len(posts'[c]) <= MaxAttempts /\ AllFailed(posts'[c], Len(posts'[c]) - 1)
    <3>1. CASE c = d
      BY <1>3, <1>7, <3>1, Attempts
    <3>2. CASE c # d
      BY <1>6, <3>2, EventKey DEF OnePlace, InOrder
    <3>3. QED
      BY <3>1, <3>2
  <2>2. QED
    BY <2>1 DEF InOrder
<1>14. QED
  BY <1>10, <1>11, <1>12, <1>13 DEF OnePlace

LEMMA OnePlaceLog ==
  ASSUME TypeOK, OnePlace, NEW w \in Workers, LogAttempt(w)
  PROVE  OnePlace'
<1> DEFINE x == worker[w]
<1>1. /\ x.pc = "log" /\ x \in WorkerState
      /\ UNCHANGED <<started, calls, queue, posts>>
      /\ worker'[w] = AfterAttempt(x)
      /\ \A v \in Workers \ {w} : worker'[v] = worker[v]
  BY DEF LogAttempt, TypeOK
<1>2. \/ worker'[w].pc = "idle"
      \/ /\ worker'[w].pc = "ready" /\ ~x.ok
         /\ worker'[w].delivery = x.delivery
         /\ worker'[w].attempt = x.attempt + 1
  <2>1. CASE x.ok \/ x.attempt = MaxAttempts
    BY <1>1, <2>1 DEF AfterAttempt, IdleWorker
  <2>2. CASE ~(x.ok \/ x.attempt = MaxAttempts)
    BY <1>1, <2>2 DEF AfterAttempt, WorkerState
  <2>3. QED
    BY <2>1, <2>2
<1>3. \A v \in Workers : \A c : SentBy(v, c)' => SentBy(v, c)
  BY <1>1, <1>2 DEF SentBy
<1>4. \A c : Nowhere(c) => Nowhere(c)'
  BY <1>1, <1>3 DEF Nowhere, Queued
<1>5. Owed'
  BY <1>1, <1>4 DEF OnePlace, Owed
<1>6. Waiting'
  BY <1>1, <1>3 DEF OnePlace, Waiting
<1>7. Sending'
  <2>1. \A u, v \in Workers : \A c \in Deliveries :
          SentBy(u, c)' /\ SentBy(v, c)' => u = v
    BY <1>3 DEF OnePlace, Sending
  <2>2. ASSUME NEW v \in Workers, worker'[v].pc # "idle"
        PROVE  LET y == worker'[v]  p == posts'[y.delivery] IN
               /\ y.delivery \in EventDeliveries
               /\ y.pc = "ready" => Len(p) = y.attempt - 1 /\ AllFailed(p, Len(p))
               /\ y.pc = "log" => /\ Len(p) = y.attempt
                                  /\ AllFailed(p, y.attempt - 1)
                                  /\ p[y.attempt] = y.ok
    <3>1. CASE v = w
      <4>1. /\ x.delivery \in EventDeliveries
            /\ Len(posts[x.delivery]) = x.attempt
            /\ AllFailed(posts[x.delivery], x.attempt - 1)
            /\ posts[x.delivery][x.attempt] = x.ok
            /\ x.attempt \in Nat
        BY <1>1, Attempts DEF OnePlace, Sending, WorkerState
      <4>2. AllFailed(posts[x.delivery], x.attempt)
        BY <1>2, <2>2, <3>1, <4>1 DEF AllFailed
      <4>3. /\ worker'[w].pc = "ready" /\ worker'[w].delivery = x.delivery
            /\ worker'[w].attempt = x.attempt + 1
            /\ posts'[x.delivery] = posts[x.delivery]
        BY <1>1, <1>2, <2>2, <3>1
      <4> HIDE DEF x
      <4>4. QED
        BY <3>1, <4>1, <4>2, <4>3
    <3>2. CASE v # w
      BY <1>1, <2>2, <3>2 DEF OnePlace, Sending
    <3>3. QED
      BY <3>1, <3>2
  <2>3. QED
    BY <2>1, <2>2 DEF Sending
<1>8. InOrder'
  BY <1>1 DEF OnePlace, InOrder
<1>9. QED
  BY <1>5, <1>6, <1>7, <1>8 DEF OnePlace

LEMMA OnePlaceRestart ==
  ASSUME TypeOK, OnePlace, Restart
  PROVE  OnePlace'
<1>1. /\ queue' = <<>> /\ UNCHANGED <<started, posts>>
      /\ calls' = [e \in Emits |-> {}]
      /\ \A w \in Workers : worker'[w].pc = "idle"
  BY DEF Restart, IdleWorker
<1>2. \A d : Nowhere(d)'
  BY <1>1 DEF Nowhere, Queued, SentBy
<1>3. Owed'
  BY <1>1, <1>2 DEF OnePlace, Owed
<1>4. Waiting' /\ Sending'
  BY <1>1 DEF Waiting, Sending, SentBy
<1>5. InOrder'
  BY <1>1 DEF OnePlace, InOrder
<1>6. QED
  BY <1>3, <1>4, <1>5 DEF OnePlace

LEMMA OnePlaceHook ==
  ASSUME TypeOK, OnePlace, NEW h \in Hooks,
         \/ CreateWebhook(h) \/ UpdateWebhook(h) \/ DeleteWebhook(h)
         \/ TestWebhook(h) \/ LogTest(h) \/ LoseTest(h)
  PROVE  OnePlace'
<1>1. UNCHANGED <<started, calls, queue, worker>>
  BY DEF CreateWebhook, UpdateWebhook, DeleteWebhook, TestWebhook, LogTest, LoseTest
<1>2. CASE UNCHANGED posts
  BY <1>1, <1>2, OnePlaceFrame
<1>3. CASE TestWebhook(h)
  <2>1. PICK ok : posts' = [posts EXCEPT ![TestOf(h)] = Append(@, ok)]
    BY <1>3 DEF TestWebhook, Post
  <2>2. \A d \in EventDeliveries : d \in Deliveries /\ d # TestOf(h)
    BY EventKey
  <2>3. posts \in [Deliveries -> Seq(BOOLEAN)]
    BY DEF TypeOK
  <2>4. \A d \in EventDeliveries : posts'[d] = posts[d]
    BY <2>1, <2>2, <2>3
  <2>5. QED
    BY <1>1, <2>4, OnePlaceFrame
<1>4. QED
  BY <1>2, <1>3 DEF CreateWebhook, UpdateWebhook, DeleteWebhook, LogTest, LoseTest

LEMMA OnePlaceStep == TypeOK /\ OnePlace /\ [Next]_vars => OnePlace'
<1> SUFFICES ASSUME TypeOK, OnePlace, [Next]_vars PROVE OnePlace'
  OBVIOUS
<1>1. CASE UNCHANGED vars
  BY <1>1, OnePlaceFrame DEF vars
<1>2. QED
  BY <1>1, OnePlaceEmitList, OnePlaceEmitEnqueue, OnePlaceTake, OnePlaceAttempt,
     OnePlaceLog, OnePlaceRestart, OnePlaceHook DEF Next, WorkerStep

\* No event reaches a receiver more often than MaxAttempts, nor again after it
\* was accepted, whatever the workers, the administrators and restarts do.
THEOREM AttemptsInOrderHolds == Spec => []AttemptsInOrder
<1>1. TypeOK /\ OnePlace => AttemptsInOrder
  <2> SUFFICES ASSUME TypeOK, OnePlace, NEW d \in Deliveries,
                      d \notin {TestOf(h) : h \in Hooks}
               PROVE  /\ Len(posts[d]) <= MaxAttempts
                      /\ \A i \in 1..(Len(posts[d]) - 1) : ~posts[d][i]
    BY DEF AttemptsInOrder
  <2>1. d \in EventDeliveries
    BY DEF Deliveries, TestOf, EventDeliveries
  <2>2. QED
    BY <2>1 DEF OnePlace, InOrder, AllFailed
<1>2. TypeOK /\ OnePlace /\ [Next]_vars => (TypeOK /\ OnePlace)'
  BY TypeStep, OnePlaceStep
<1>3. QED
  BY <1>1, <1>2, InitType, OnePlaceInit, PTL DEF Spec

--------------------------------------------------------------------------------
(***************************************************************************)
(* AuditTrail is not inductive either: a test's row carries the outcome of *)
(* its POST through testing, and a hook that does not exist yet has no     *)
(* history that could be missing from its rows once it does.               *)
(***************************************************************************)

TestsPending ==
  \A h \in Hooks : testing[h] # "none" /\ TestOf(h) \notin cut =>
    /\ posts[TestOf(h)] # <<>>
    /\ posts[TestOf(h)][Len(posts[TestOf(h)])] = (testing[h] = "ok")

Unused ==
  \A h \in Hooks : hook[h].state = "absent" =>
    /\ testing[h] = "none"
    /\ \A e \in Emits : h \notin calls[e]
    /\ \A d \in Deliveries : HookOf(d) = h =>
         Nowhere(d) /\ posts[d] = <<>> /\ rows[d] = <<>>

Traced == AuditTrail /\ TestsPending /\ Unused

\* The deliveries of tests, and those of events, one by one.
LEMMA TestIs ==
  /\ \A d \in EventDeliveries : ~IsTest(d) /\ \A h \in Hooks : d # TestOf(h)
  /\ \A h \in Hooks : IsTest(TestOf(h)) /\ HookOf(TestOf(h)) = h
  /\ \A d \in Deliveries : HookOf(d) \in Hooks /\ (d \in EventDeliveries \/ d = TestOf(HookOf(d)))
  BY WebhooksAssumption DEF IsTest, EventDeliveries, Deliveries, TestOf, HookOf

LEMMA TracedInit == Init => Traced
<1> SUFFICES ASSUME Init PROVE Traced
  OBVIOUS
<1>1. \A w \in Workers : \A d : ~SentBy(w, d)
  BY DEF Init, SentBy, IdleWorker
<1>2. AuditTrail /\ TestsPending
  <2>1. \A h \in Hooks : ~Present(h) /\ testing[h] = "none"
    BY DEF Init, Present
  <2>2. QED
    BY <2>1, TestIs DEF AuditTrail, TestsPending
<1>3. Unused
  BY <1>1 DEF Init, Unused, Nowhere, Queued
<1>4. QED
  BY <1>2, <1>3 DEF Traced

\* A delivery the step does not touch keeps its trail.
LEMMA TrailSame ==
  ASSUME NEW d, Trail(d), rows'[d] = rows[d], posts'[d] = posts[d],
         LogPending(d)' <=> LogPending(d)
  PROVE  Trail(d)'
  BY DEF Trail, IsTest, TestOf, HookOf

\* A POST whose row is on its way, after one that has its row.
LEMMA TrailPost ==
  ASSUME NEW d \in Deliveries, rows \in [Deliveries -> Seq([attempt : 1..MaxAttempts, ok : BOOLEAN])],
         posts[d] \in Seq(BOOLEAN), NEW ok,
         Trail(d), ~LogPending(d), LogPending(d)',
         rows'[d] = rows[d], posts'[d] = Append(posts[d], ok)
  PROVE  Trail(d)'
<1>1. rows[d] \in Seq([attempt : 1..MaxAttempts, ok : BOOLEAN])
  OBVIOUS
<1>2. Len(rows[d]) = Len(posts[d]) /\ Len(rows[d]) \in Nat
  BY <1>1 DEF Trail
<1>3. /\ Len(posts'[d]) = Len(posts[d]) + 1
      /\ \A i \in 1..Len(posts[d]) : posts'[d][i] = posts[d][i]
  OBVIOUS
<1>4. Len(rows'[d]) = Len(posts'[d]) - 1
  BY <1>2, <1>3
<1>5. \A i \in 1..Len(rows[d]) :
        rows'[d][i] = [attempt |-> IF IsTest(d) THEN 1 ELSE i, ok |-> posts'[d][i]]
  BY <1>2, <1>3 DEF Trail
<1>6. QED
  BY <1>4, <1>5 DEF Trail, IsTest, TestOf, HookOf

\* The row of an attempt, with the number and the outcome of the last one.
LEMMA TrailInsert ==
  ASSUME NEW d \in Deliveries, rows \in [Deliveries -> Seq([attempt : 1..MaxAttempts, ok : BOOLEAN])],
         posts[d] \in Seq(BOOLEAN), NEW n, NEW ok,
         Trail(d), LogPending(d), ~LogPending(d)',
         n = (IF IsTest(d) THEN 1 ELSE Len(posts[d])),
         ok = posts[d][Len(posts[d])],
         rows'[d] = Append(rows[d], [attempt |-> n, ok |-> ok]), posts'[d] = posts[d]
  PROVE  Trail(d)'
<1> DEFINE R == [attempt : 1..MaxAttempts, ok : BOOLEAN]
<1>1. rows[d] \in Seq(R)
  OBVIOUS
<1> HIDE DEF R
<1>2. /\ Len(rows[d]) = Len(posts[d]) - 1
      /\ \A i \in 1..Len(rows[d]) :
           rows[d][i] = [attempt |-> IF IsTest(d) THEN 1 ELSE i, ok |-> posts[d][i]]
  BY DEF Trail
<1>3. Len(rows[d]) \in Nat /\ Len(posts[d]) \in Nat
  BY <1>1
<1>4. /\ Len(rows'[d]) = Len(rows[d]) + 1
      /\ \A i \in 1..Len(rows[d]) : rows'[d][i] = rows[d][i]
      /\ rows'[d][Len(rows[d]) + 1] = [attempt |-> n, ok |-> ok]
  BY <1>1
<1>5. Len(rows'[d]) = Len(posts[d])
  BY <1>2, <1>4, <1>3
<1>6. ASSUME NEW i \in 1..Len(rows'[d])
      PROVE  rows'[d][i] = [attempt |-> IF IsTest(d) THEN 1 ELSE i, ok |-> posts[d][i]]
  <2>1. CASE i \in 1..Len(rows[d])
    BY <1>2, <1>4, <2>1
  <2>2. CASE i = Len(rows[d]) + 1
    BY <1>2, <1>4, <1>3, <2>2
  <2>3. QED
    BY <1>4, <1>3, <2>1, <2>2
<1>7. QED
  BY <1>5, <1>6 DEF Trail, IsTest, TestOf, HookOf

LEMMA SentEvent ==
  ASSUME OnePlace, NEW w \in Workers, NEW d, SentBy(w, d)
  PROVE  d \in EventDeliveries
  BY DEF OnePlace, Sending, SentBy

\* Steps that make no attempt and write no row, but for a delete.
LEMMA TracedQuiet ==
  ASSUME TypeOK, OnePlace, Traced, UNCHANGED <<posts, testing, cut>>,
         \A w \in Workers : \A d : SentBy(w, d) /\ worker[w].pc = "log"
                               <=> (SentBy(w, d) /\ worker[w].pc = "log")',
         \A d \in Deliveries : Present(HookOf(d))' => rows'[d] = rows[d],
         \A h \in Hooks : Present(h)' => Present(h) \/ hook[h].state = "absent",
         Unused'
  PROVE  Traced'
<1>1. \A d : LogPending(d)' <=> LogPending(d)
  BY DEF LogPending, TestOf
<1>2. ASSUME NEW d \in Deliveries \ cut, Present(HookOf(d))' PROVE Trail(d)'
  <2>1. CASE Present(HookOf(d))
    BY <1>1, <1>2, <2>1, TrailSame DEF Traced, AuditTrail
  <2>2. CASE hook[HookOf(d)].state = "absent"
    <3>1. /\ testing[HookOf(d)] = "none" /\ Nowhere(d)
          /\ posts[d] = <<>> /\ rows[d] = <<>>
      BY <2>2, TestIs DEF Traced, Unused
    <3>2. ~LogPending(d)
      <4>1. \A h \in Hooks : d = TestOf(h) => h = HookOf(d)
        BY TestIs
      <4>2. QED
        BY <3>1, <4>1 DEF LogPending, Nowhere
    <3>3. rows'[d] = <<>> /\ posts'[d] = <<>> /\ ~LogPending(d)'
      BY <1>1, <1>2, <3>1, <3>2
    <3>4. QED
      BY <3>3 DEF Trail
  <2>3. QED
    BY <1>2, <2>1, <2>2, TestIs
<1>3. AuditTrail'
  BY <1>2 DEF AuditTrail
<1>4. TestsPending'
  BY DEF Traced, TestsPending, TestOf
<1>5. QED
  BY <1>3, <1>4 DEF Traced

LEMMA TracedEmit ==
  ASSUME TypeOK, OnePlace, Traced, NEW e \in Emits, EmitList(e) \/ EmitEnqueue(e)
  PROVE  Traced'
<1>1. UNCHANGED <<hook, posts, testing, cut, rows, worker>>
  BY DEF EmitList, EmitEnqueue
<1>2. \A w, d : SentBy(w, d)' <=> SentBy(w, d)
  BY <1>1 DEF SentBy
<1>3. Unused'
  <2>1. ASSUME NEW h \in Hooks, hook[h].state = "absent"
        PROVE  /\ \A f \in Emits : h \notin calls'[f]
               /\ \A d \in Deliveries : HookOf(d) = h => Nowhere(d)'
    <3>1. /\ \A f \in Emits : h \notin calls[f]
          /\ \A d \in Deliveries : HookOf(d) = h => Nowhere(d)
      BY <2>1 DEF Traced, Unused
    <3>2. CASE EmitList(e)
      BY <1>2, <2>1, <3>1, <3>2 DEF EmitList, TypeOK, Present, Nowhere, Queued
    <3>3. CASE EmitEnqueue(e)
      <4>1. PICK g \in calls[e] :
              /\ calls' = [calls EXCEPT ![e] = @ \ {g}]
              /\ queue' = IF HasRoom THEN Append(queue, <<e, g>>) ELSE queue
        BY <3>3 DEF EmitEnqueue
      <4>2. \A d : HookOf(d) = h => d # <<e, g>>
        BY <3>1, <4>1 DEF HookOf
      <4>3. queue \in Seq(Deliveries) /\ <<e, g>> \in Deliveries
        BY <4>1 DEF TypeOK, Deliveries
      <4>4. \A d : d # <<e, g>> /\ ~Queued(d) => ~Queued(d)'
        <5>1. CASE queue' = queue
          BY <5>1 DEF Queued
        <5>2. CASE queue' = Append(queue, <<e, g>>)
          BY <4>3, <5>2 DEF Queued
        <5>3. QED
          BY <4>1, <5>1, <5>2
      <4>5. \A f \in Emits : h \notin calls'[f]
        BY <3>1, <4>1 DEF TypeOK
      <4>6. QED
        BY <1>2, <3>1, <4>2, <4>4, <4>5 DEF Nowhere
    <3>4. QED
      BY <3>2, <3>3
  <2>2. QED
    BY <1>1, <2>1 DEF Traced, Unused
<1>4. QED
  BY <1>1, <1>2, <1>3, TracedQuiet DEF Present

LEMMA TracedTake ==
  ASSUME TypeOK, OnePlace, Traced, NEW w \in Workers, Take(w)
  PROVE  Traced'
<1>1. /\ UNCHANGED <<hook, calls, posts, testing, cut, rows>>
      /\ queue # <<>> /\ queue \in Seq(Deliveries) /\ queue' = Tail(queue)
      /\ worker[w].pc = "idle"
      /\ worker'[w].pc = "ready" /\ worker'[w].delivery = Head(queue)
      /\ \A v \in Workers \ {w} : worker'[v] = worker[v]
  BY DEF Take, TypeOK
<1>2. \A v \in Workers : \A d : SentBy(v, d) /\ worker[v].pc = "log"
                            <=> (SentBy(v, d) /\ worker[v].pc = "log")'
  BY <1>1 DEF SentBy
<1>3. Queued(Head(queue)) /\ \A d : Queued(d)' => Queued(d)
  <2>1. /\ Len(queue) > 0 /\ Head(queue) = queue[1]
        /\ \A i \in 1..Len(queue') : queue'[i] = queue[i + 1] /\ i + 1 \in 1..Len(queue)
    BY <1>1
  <2>2. QED
    BY <2>1 DEF Queued
<1>4. \A d : Nowhere(d) => Nowhere(d)'
  BY <1>1, <1>3 DEF Nowhere, SentBy
<1>5. Unused'
  BY <1>1, <1>4 DEF Traced, Unused
<1>6. QED
  BY <1>1, <1>2, <1>5, TracedQuiet DEF Present

LEMMA TracedChange ==
  ASSUME TypeOK, OnePlace, Traced, NEW h \in Hooks,
         CreateWebhook(h) \/ UpdateWebhook(h) \/ DeleteWebhook(h)
  PROVE  Traced'
<1>1. UNCHANGED <<calls, queue, worker, testing, posts, cut>>
  BY DEF CreateWebhook, UpdateWebhook, DeleteWebhook
<1>2. \A w, d : (SentBy(w, d)' <=> SentBy(w, d)) /\ (Nowhere(d)' <=> Nowhere(d))
  BY <1>1 DEF SentBy, Nowhere, Queued
<1>3. /\ \A g \in Hooks : hook'[g].state = "absent" => hook[g].state = "absent"
      /\ \A g \in Hooks : Present(g)' => Present(g) \/ hook[g].state = "absent"
  <2>1. /\ \A g \in Hooks \ {h} : hook'[g] = hook[g]
        /\ hook'[h].state # "absent"
        /\ hook'[h].state = "present" => hook[h].state \in {"present", "absent"}
    <3>1. hook \in [Hooks -> [state : {"absent", "present", "deleted"},
                            events : SUBSET EventTypes]]
      BY DEF TypeOK
    <3>2. CASE CreateWebhook(h)
      BY <3>1, <3>2 DEF CreateWebhook
    <3>3. CASE UpdateWebhook(h)
      BY <3>1, <3>3 DEF UpdateWebhook, Present
    <3>4. CASE DeleteWebhook(h)
      BY <3>1, <3>4 DEF DeleteWebhook, Present
    <3>5. QED
      BY <3>2, <3>3, <3>4
  <2>2. QED
    BY <2>1 DEF Present
<1>4. \A d \in Deliveries : Present(HookOf(d))' => rows'[d] = rows[d]
  BY TestIs DEF CreateWebhook, UpdateWebhook, DeleteWebhook, Present, TypeOK
<1>5. \A d \in Deliveries : rows[d] = <<>> => rows'[d] = <<>>
  BY DEF CreateWebhook, UpdateWebhook, DeleteWebhook
<1>6. Unused'
  BY <1>1, <1>2, <1>3, <1>5 DEF Traced, Unused
<1>7. QED
  BY <1>1, <1>2, <1>3, <1>4, <1>6, TracedQuiet

LEMMA TracedAttempt ==
  ASSUME TypeOK, OnePlace, Traced, NEW w \in Workers, Attempt(w)
  PROVE  Traced'
<1>1. PICK d \in EventDeliveries : d = worker[w].delivery
  BY DEF Attempt, OnePlace, Sending
<1>2. PICK ok \in BOOLEAN :
        /\ Post(d, ok)
        /\ worker' = [worker EXCEPT ![w].pc = "log", ![w].ok = ok]
  BY <1>1 DEF Attempt
<1>3. /\ UNCHANGED <<hook, calls, queue, testing, rows, cut>>
      /\ worker[w].pc = "ready" /\ SentBy(w, d)
  BY <1>1 DEF Attempt, SentBy
<1>4. d \in EventDeliveries /\ d \in Deliveries
  BY EventKey
<1>5. /\ worker'[w].pc = "log" /\ worker'[w].delivery = d
      /\ \A v \in Workers \ {w} : worker'[v] = worker[v]
  BY <1>2, <1>1 DEF TypeOK, WorkerState
<1>6. /\ posts'[d] = Append(posts[d], ok) /\ posts[d] \in Seq(BOOLEAN)
      /\ \A c \in Deliveries \ {d} : posts'[c] = posts[c]
  BY <1>2, <1>4 DEF Post, TypeOK
<1>7. \A v \in Workers : \A c : SentBy(v, c)' <=> SentBy(v, c)
  BY <1>3, <1>5, <1>1 DEF SentBy
<1>8. \A c \in Deliveries \ {d} : LogPending(c)' <=> LogPending(c)
  <2>1. \A c : SentBy(w, c) => c = d
    BY <1>1 DEF SentBy
  <2>2. QED
    BY <1>3, <1>5, <1>7, <2>1 DEF LogPending, TestOf
<1>9. ~LogPending(d) /\ LogPending(d)'
  <2>1. \A v \in Workers : SentBy(v, d) => v = w
    BY <1>3, <1>4 DEF OnePlace, Sending
  <2>2. \A h \in Hooks : d # TestOf(h)
    BY <1>4, TestIs
  <2>3. ~LogPending(d)
    BY <1>3, <2>1, <2>2 DEF LogPending
  <2>4. \E v \in Workers : SentBy(v, d)' /\ worker'[v].pc = "log"
    BY <1>3, <1>5, <1>7
  <2>5. QED
    BY <2>3, <2>4 DEF LogPending
<1>10. ASSUME NEW c \in Deliveries \ cut, Present(HookOf(c)) PROVE Trail(c)'
  <2>1. Trail(c)
    BY <1>10 DEF Traced, AuditTrail
  <2>2. CASE c = d
    <3>1. /\ rows \in [Deliveries -> Seq([attempt : 1..MaxAttempts, ok : BOOLEAN])]
          /\ rows'[d] = rows[d]
      BY <1>3 DEF TypeOK
    <3>2. Trail(d) /\ ~LogPending(d) /\ LogPending(d)'
      BY <1>9, <2>1, <2>2
    <3>3. posts'[d] = Append(posts[d], ok) /\ posts[d] \in Seq(BOOLEAN)
      BY <1>6
    <3>4. Trail(d)'
      BY <1>4, <3>1, <3>2, <3>3, TrailPost
    <3>5. QED
      BY <2>2, <3>4
  <2>3. CASE c # d
    BY <1>3, <1>6, <1>8, <2>1, <2>3, TrailSame
  <2>4. QED
    BY <2>2, <2>3
<1>11. AuditTrail'
  BY <1>3, <1>10 DEF AuditTrail, Present
<1>12. TestsPending'
  <2>1. \A h \in Hooks : posts'[TestOf(h)] = posts[TestOf(h)]
    BY <1>4, <1>6, TestIs, TestKey
  <2>2. QED
    BY <1>3, <2>1 DEF Traced, TestsPending, TestOf
<1>13. Unused'
  <2>1. \A c : Nowhere(c) => Nowhere(c)' /\ c # d
    BY <1>3, <1>7 DEF Nowhere, Queued
  <2>2. QED
    BY <1>3, <1>6, <2>1 DEF Traced, Unused
<1>14. QED
  BY <1>11, <1>12, <1>13 DEF Traced

LEMMA TracedLog ==
  ASSUME TypeOK, OnePlace, Traced, NEW w \in Workers, LogAttempt(w)
  PROVE  Traced'
<1>1. PICK d \in EventDeliveries, n \in 1..MaxAttempts, ok \in BOOLEAN :
        /\ d = worker[w].delivery /\ n = worker[w].attempt /\ ok = worker[w].ok
        /\ Len(posts[d]) = n /\ posts[d][n] = ok
  <2>1. worker[w] \in WorkerState /\ worker[w].pc = "log" /\ worker[w].attempt > 0
    BY DEF LogAttempt, TypeOK, WorkersBusy
  <2>2. /\ worker[w].attempt \in 1..MaxAttempts /\ worker[w].ok \in BOOLEAN
        /\ worker[w].delivery \in EventDeliveries
    BY <2>1, Attempts DEF WorkerState, OnePlace, Sending
  <2>3. QED
    BY <2>1, <2>2 DEF OnePlace, Sending
<1>2. /\ UNCHANGED <<hook, calls, queue, testing, posts, cut>>
      /\ worker[w].pc = "log" /\ SentBy(w, d)
      /\ InsertWebhookDelivery(d, n, ok)
      /\ \A v \in Workers \ {w} : worker'[v] = worker[v]
  BY <1>1 DEF LogAttempt, SentBy, TypeOK
<1>3. d \in Deliveries
  BY EventKey
<1>4. worker'[w].pc # "log" /\ (worker'[w].pc # "idle" => worker'[w].delivery = d)
  <2>1. worker'[w] = AfterAttempt(worker[w]) /\ worker[w] \in WorkerState
    BY DEF LogAttempt, TypeOK
  <2>2. CASE worker[w].ok \/ worker[w].attempt = MaxAttempts
    BY <2>1, <2>2 DEF AfterAttempt, IdleWorker
  <2>3. CASE ~(worker[w].ok \/ worker[w].attempt = MaxAttempts)
    BY <1>1, <2>1, <2>3 DEF AfterAttempt, WorkerState
  <2>4. QED
    BY <2>2, <2>3
<1>5. /\ Present(HookOf(d)) => rows'[d] = Append(rows[d], [attempt |-> n, ok |-> ok])
      /\ \A c \in Deliveries \ {d} : rows'[c] = rows[c]
  BY <1>2, <1>3 DEF InsertWebhookDelivery, TypeOK
<1>6. \A v \in Workers : \A c : SentBy(v, c)' => SentBy(v, c)
  BY <1>1, <1>2, <1>4 DEF SentBy
<1>7. \A c \in Deliveries \ {d} : LogPending(c)' <=> LogPending(c)
  <2>1. \A c : SentBy(w, c) => c = d
    BY <1>1 DEF SentBy
  <2>2. \A v \in Workers \ {w} : \A c : SentBy(v, c)' <=> SentBy(v, c)
    BY <1>2 DEF SentBy
  <2>3. QED
    BY <1>2, <1>6, <2>1, <2>2 DEF LogPending, TestOf
<1>8. LogPending(d) /\ ~LogPending(d)'
  <2>1. \A v \in Workers : SentBy(v, d) => v = w
    BY <1>2, <1>3 DEF OnePlace, Sending
  <2>2. \A v \in Workers : ~(SentBy(v, d)' /\ worker'[v].pc = "log")
    BY <1>4, <1>6, <2>1
  <2>3. \A h \in Hooks : d # TestOf(h)
    BY TestIs
  <2>4. QED
    BY <1>2, <2>2, <2>3 DEF LogPending, TestOf
<1>9. ASSUME NEW c \in Deliveries \ cut, Present(HookOf(c)) PROVE Trail(c)'
  <2>1. Trail(c)
    BY <1>9 DEF Traced, AuditTrail
  <2>2. CASE c = d
    <3>1. /\ rows \in [Deliveries -> Seq([attempt : 1..MaxAttempts, ok : BOOLEAN])]
          /\ posts[d] \in Seq(BOOLEAN)
      BY <1>3 DEF TypeOK
    <3>2. /\ rows'[d] = Append(rows[d], [attempt |-> n, ok |-> ok])
          /\ posts'[d] = posts[d]
      BY <1>2, <1>5, <1>9, <2>2
    <3>3. n = (IF IsTest(d) THEN 1 ELSE Len(posts[d])) /\ ok = posts[d][Len(posts[d])]
      BY <1>1, TestIs
    <3>4. Trail(d)
      BY <2>1, <2>2
    <3>5. Trail(d)'
      BY <1>3, <1>8, <3>1, <3>2, <3>3, <3>4, TrailInsert
    <3>6. QED
      BY <2>2, <3>5
  <2>3. CASE c # d
    BY <1>2, <1>5, <1>7, <2>1, <2>3, TrailSame
  <2>4. QED
    BY <2>2, <2>3
<1>10. AuditTrail'
  BY <1>2, <1>9 DEF AuditTrail, Present
<1>11. TestsPending'
  BY <1>2 DEF Traced, TestsPending, TestOf
<1>12. Unused'
  <2>1. \A c : Nowhere(c) => Nowhere(c)' /\ c # d
    BY <1>2, <1>6 DEF Nowhere, Queued
  <2>2. QED
    BY <1>2, <1>5, <2>1 DEF Traced, Unused
<1>13. QED
  BY <1>10, <1>11, <1>12 DEF Traced

\* Nobody but a test request touches the delivery of a test.
LEMMA TestPending ==
  ASSUME OnePlace, NEW h \in Hooks
  PROVE  /\ LogPending(TestOf(h)) <=> testing[h] # "none"
         /\ Nowhere(TestOf(h))
<1>1. \A w \in Workers : ~SentBy(w, TestOf(h))
  BY SentEvent, EventKey
<1>2. ~Queued(TestOf(h))
  BY EventKey DEF OnePlace, Waiting, Queued
<1>3. \A g \in Hooks : TestOf(h) = TestOf(g) => g = h
  BY TestIs
<1>4. QED
  BY <1>1, <1>2, <1>3 DEF LogPending, Nowhere

\* The three steps of a test request.
LEMMA TracedTest ==
  ASSUME TypeOK, OnePlace, OnePlace', Traced, NEW h \in Hooks,
         TestWebhook(h) \/ LogTest(h) \/ LoseTest(h)
  PROVE  Traced'
<1>1. /\ UNCHANGED <<hook, calls, queue, worker>>
      /\ \A g \in Hooks \ {h} : testing'[g] = testing[g]
      /\ cut \subseteq cut'
  BY DEF TestWebhook, LogTest, LoseTest, TypeOK
<1>2. PICK t \in Deliveries : t = TestOf(h) /\ IsTest(t) /\ HookOf(t) = h
  BY TestIs, TestKey
<1>3. \A c \in Deliveries \ {t} : posts'[c] = posts[c] /\ rows'[c] = rows[c]
  BY <1>2 DEF TestWebhook, LogTest, LoseTest, Post, InsertWebhookDelivery, TypeOK
<1>4. \A c \in Deliveries \ {t} : LogPending(c)' <=> LogPending(c)
  BY <1>1, <1>2 DEF LogPending, SentBy, TestOf
<1>5. /\ LogPending(t) <=> testing[h] # "none"
      /\ LogPending(t)' <=> testing'[h] # "none"
  <2>1. \A w \in Workers : ~SentBy(w, t) /\ ~SentBy(w, t)'
    BY <1>1, <1>2, SentEvent, EventKey DEF SentBy
  <2>2. \A g \in Hooks : t = TestOf(g) <=> g = h
    BY <1>2, TestIs
  <2>3. QED
    BY <2>1, <2>2 DEF LogPending, TestOf
<1>6. posts[t] \in Seq(BOOLEAN)
  BY DEF TypeOK
<1>7. rows \in [Deliveries -> Seq([attempt : 1..MaxAttempts, ok : BOOLEAN])]
  BY DEF TypeOK
<1>8. /\ posts'[t] # posts[t] \/ rows'[t] # rows[t] => hook[h].state # "absent"
      /\ testing'[h] = "none" \/ hook[h].state # "absent"
  <2>1. CASE TestWebhook(h)
    BY <2>1 DEF TestWebhook, Present
  <2>2. CASE LogTest(h)
    BY <2>2 DEF LogTest, Traced, Unused, TypeOK
  <2>3. CASE LoseTest(h)
    BY <2>3 DEF LoseTest, TypeOK
  <2>4. QED
    BY <2>1, <2>2, <2>3
<1>9. Unused'
  <2>1. ASSUME NEW g \in Hooks, hook[g].state = "absent"
        PROVE  /\ testing'[g] = "none"
               /\ \A d \in Deliveries : HookOf(d) = g => posts'[d] = <<>> /\ rows'[d] = <<>>
    <3>1. /\ testing[g] = "none"
          /\ \A d \in Deliveries : HookOf(d) = g => posts[d] = <<>> /\ rows[d] = <<>>
      BY <2>1 DEF Traced, Unused
    <3>2. QED
      BY <1>1, <1>2, <1>3, <1>8, <2>1, <3>1
  <2>2. \A d : Nowhere(d) => Nowhere(d)'
    BY <1>1 DEF Nowhere, Queued, SentBy
  <2>3. QED
    BY <1>1, <2>1, <2>2 DEF Traced, Unused
<1>10. /\ t \notin cut' /\ Present(h) => Trail(t)'
       /\ testing'[h] # "none" /\ t \notin cut' =>
            posts'[t] # <<>> /\ posts'[t][Len(posts'[t])] = (testing'[h] = "ok")
  <2>1. CASE TestWebhook(h)
    <3>1. PICK ok \in BOOLEAN :
            /\ Post(TestOf(h), ok)
            /\ testing' = [testing EXCEPT ![h] = IF ok THEN "ok" ELSE "failed"]
      BY <2>1 DEF TestWebhook
    <3>2. posts'[t] = Append(posts[t], ok)
      BY <1>2, <3>1 DEF Post, TypeOK
    <3>3. /\ testing'[h] # "none" /\ testing[h] = "none" /\ (testing'[h] = "ok") = ok
          /\ UNCHANGED <<rows, cut>> /\ Present(h)
      BY <2>1, <3>1 DEF TestWebhook, TypeOK
    <3>4. posts'[t] # <<>> /\ posts'[t][Len(posts'[t])] = ok
      BY <1>6, <3>2
    <3>5. t \notin cut => Trail(t)
      BY <1>2, <3>3 DEF Traced, AuditTrail
    <3>6. rows'[t] = rows[t]
      BY <3>3
    <3>7. t \notin cut => Trail(t)'
      BY <1>5, <1>6, <1>7, <3>2, <3>3, <3>5, <3>6, TrailPost
    <3>8. QED
      BY <3>3, <3>4, <3>7
  <2>2. CASE LogTest(h)
    <3>1. /\ testing[h] # "none" /\ testing'[h] = "none" /\ UNCHANGED <<posts, cut>>
          /\ InsertWebhookDelivery(TestOf(h), 1, testing[h] = "ok")
      BY <2>2 DEF LogTest, TypeOK
    <3>2. ASSUME t \notin cut, Present(h) PROVE Trail(t)'
      <4>1. Trail(t)
        BY <1>2, <3>2 DEF Traced, AuditTrail
      <4>2. posts[t][Len(posts[t])] = (testing[h] = "ok")
        BY <1>2, <3>1, <3>2 DEF Traced, TestsPending
      <4>3. PICK ok : ok = (testing[h] = "ok")
        OBVIOUS
      <4>4. rows'[t] = Append(rows[t], [attempt |-> 1, ok |-> ok]) /\ posts'[t] = posts[t]
        BY <1>2, <1>7, <3>1, <3>2, <4>3 DEF InsertWebhookDelivery
      <4>5. LogPending(t) /\ ~LogPending(t)'
        BY <1>5, <3>1
      <4>6. ok = posts[t][Len(posts[t])]
        BY <4>2, <4>3
      <4>7. 1 = (IF IsTest(t) THEN 1 ELSE Len(posts[t]))
        BY <1>2
      <4>8. QED
        BY <1>6, <1>7, <4>1, <4>4, <4>5, <4>6, <4>7, TrailInsert
    <3>3. QED
      BY <3>1, <3>2
  <2>3. CASE LoseTest(h)
    BY <1>2, <2>3 DEF LoseTest, TypeOK
  <2>4. QED
    BY <2>1, <2>2, <2>3
<1>11. AuditTrail'
  <2>1. ASSUME NEW c \in Deliveries \ cut', Present(HookOf(c)) PROVE Trail(c)'
    <3>1. CASE c = t
      BY <1>2, <1>10, <2>1, <3>1
    <3>2. CASE c # t
      <4>1. Trail(c)
        BY <1>1, <2>1 DEF Traced, AuditTrail
      <4>2. QED
        BY <1>3, <1>4, <3>2, <4>1, TrailSame
    <3>3. QED
      BY <3>1, <3>2
  <2>2. QED
    BY <1>1, <2>1 DEF AuditTrail, Present
<1>12. TestsPending'
  <2>1. ASSUME NEW g \in Hooks, testing'[g] # "none", TestOf(g) \notin cut'
        PROVE  /\ posts'[TestOf(g)] # <<>>
               /\ posts'[TestOf(g)][Len(posts'[TestOf(g)])] = (testing'[g] = "ok")
    <3>1. CASE g = h
      BY <1>2, <1>10, <2>1, <3>1
    <3>2. CASE g # h
      <4>1. TestOf(g) \in Deliveries \ {t}
        BY <1>2, <3>2, TestIs, TestKey
      <4>2. posts'[TestOf(g)] = posts[TestOf(g)] /\ testing'[g] = testing[g] /\ TestOf(g) \notin cut
        BY <1>1, <1>3, <2>1, <3>2, <4>1
      <4>3. QED
        BY <2>1, <4>2 DEF Traced, TestsPending
    <3>3. QED
      BY <3>1, <3>2
  <2>2. QED
    BY <2>1 DEF TestsPending, TestOf
<1>13. QED
  BY <1>9, <1>11, <1>12 DEF Traced

\* A restart cuts every delivery whose row was on its way.
LEMMA TracedRestart ==
  ASSUME TypeOK, OnePlace, Traced, Restart
  PROVE  Traced'
<1>1. /\ UNCHANGED <<hook, rows, posts>>
      /\ cut \subseteq cut' /\ queue' = <<>>
      /\ \A e \in Emits : calls'[e] = {}
      /\ \A h \in Hooks : testing'[h] = "none"
  BY DEF Restart
<1>2. \A w \in Workers : worker'[w].pc = "idle"
  BY DEF Restart, IdleWorker
<1>3. \A d : Nowhere(d)' /\ ~LogPending(d)'
  BY <1>1, <1>2 DEF Nowhere, Queued, SentBy, LogPending
<1>4. \A d \in Deliveries \ cut' : ~LogPending(d)
  BY DEF Restart, LogPending
<1>5. AuditTrail'
  <2>1. ASSUME NEW d \in Deliveries \ cut', Present(HookOf(d)) PROVE Trail(d)'
    <3>1. Trail(d)
      BY <1>1, <2>1 DEF Traced, AuditTrail
    <3>2. QED
      BY <1>1, <1>3, <1>4, <3>1, TrailSame
  <2>2. QED
    BY <1>1, <2>1 DEF AuditTrail, Present
<1>6. TestsPending'
  BY <1>1 DEF TestsPending
<1>7. Unused'
  BY <1>1, <1>3 DEF Traced, Unused
<1>8. QED
  BY <1>5, <1>6, <1>7 DEF Traced

LEMMA TracedStep ==
  ASSUME TypeOK, OnePlace, OnePlace', Traced, [Next]_vars
  PROVE  Traced'
<1>1. CASE UNCHANGED vars
  <2>1. \A d : (Nowhere(d)' <=> Nowhere(d)) /\ (LogPending(d)' <=> LogPending(d))
    BY <1>1 DEF vars, Nowhere, Queued, SentBy, LogPending, TestOf
  <2>2. AuditTrail'
    BY <1>1, <2>1, TrailSame DEF vars, Traced, AuditTrail, Present
  <2>3. TestsPending' /\ Unused'
    BY <1>1, <2>1 DEF vars, Traced, TestsPending, Unused, TestOf
  <2>4. QED
    BY <2>2, <2>3 DEF Traced
<1>2. CASE \E e \in Emits : EmitList(e) \/ EmitEnqueue(e)
  BY <1>2, TracedEmit
<1>3. CASE \E w \in Workers : WorkerStep(w)
  BY <1>3, TracedTake, TracedAttempt, TracedLog DEF WorkerStep
<1>4. ASSUME NEW h \in Hooks, CreateWebhook(h) \/ UpdateWebhook(h) \/ DeleteWebhook(h)
      PROVE  Traced'
  BY <1>4, TracedChange
<1>5. ASSUME NEW h \in Hooks, TestWebhook(h) \/ LogTest(h) \/ LoseTest(h)
      PROVE  Traced'
  BY <1>5, TracedTest
<1>6. CASE Restart
  BY <1>6, TracedRestart
<1>7. QED
  BY <1>1, <1>2, <1>3, <1>4, <1>5, <1>6 DEF Next

\* While a hook exists its delivery log is complete: every attempt that was
\* neither cut by a restart nor by a client that went away, numbered and with
\* its outcome.
THEOREM AuditTrailHolds == Spec => []AuditTrail
<1>1. Init => TypeOK /\ OnePlace /\ Traced
  BY InitType, OnePlaceInit, TracedInit
<1>2. TypeOK /\ OnePlace /\ Traced /\ [Next]_vars => (TypeOK /\ OnePlace /\ Traced)'
  <2>1. TypeOK /\ OnePlace /\ [Next]_vars => (TypeOK /\ OnePlace)'
    BY TypeStep, OnePlaceStep
  <2>2. QED
    BY <2>1, TracedStep
<1>3. Traced => AuditTrail
  BY DEF Traced
<1>4. QED
  BY <1>1, <1>2, <1>3, PTL DEF Spec

================================================================================
