--------------------------------- MODULE Webhooks ---------------------------------
(***************************************************************************)
(* Webhook deliveries: handlers emit events into a bounded queue, a pool   *)
(* of workers posts them with retries and logs every attempt, while        *)
(* administrators create, change, delete and test the hooks.  A queued     *)
(* delivery carries the hook's row as it was when the event was emitted.   *)
(*                                                                         *)
(* A definition named X_Something before a definition X is a seeded fault: *)
(* X as a plausible bug would have it.  Nothing uses it.                   *)
(***************************************************************************)
EXTENDS Integers, Sequences, FiniteSets

CONSTANTS
  Hooks,             \* ids of webhook rows; a deleted id does not come back
  EventTypes,        \* "job.completed", "agent.registered", ...
  Emits,             \* the calls of Emit, numbered in the order of their SELECT
  Workers,           \* webhooks.worker_count goroutines, 4 if it is not positive
  QueuePerWorker,    \* 10 in the code
  MaxRetries,        \* webhooks.max_retries
  MaxChanges, MaxTests, MaxRestarts
                     \* how often each event may happen in a behaviour

ASSUME WebhooksAssumption ==
  /\ Emits \subseteq Nat \ {0}
  /\ IsFiniteSet(Workers)
  /\ QueuePerWorker \in Nat
  /\ MaxRetries \in Int
  /\ {MaxChanges, MaxTests, MaxRestarts} \subseteq Nat

VARIABLES
  hook,      \* webhooks: whether the row exists and the events it listens to,
             \* none while it is disabled
  started,   \* the Emit calls that have read the table
  calls,     \* the hooks each Emit call has still to enqueue for
  queue,     \* the buffered channel
  worker,    \* each worker and the delivery it sends
  testing,   \* per hook, the outcome of a test POST that is not logged yet
  rows,      \* webhook_deliveries, by delivery
  spent,     \* how many changes, tests and restarts happened so far
  posts,     \* auxiliary: the outcomes of the attempts really made
  cut        \* auxiliary: the deliveries that a restart, or a client that
             \* went away, has cut short

vars == <<hook, started, calls, queue, worker, testing, rows, spent, posts, cut>>

--------------------------------------------------------------------------------
\* Emission 0 stands for the test requests, whose event is "test".
Deliveries == (Emits \cup {0}) \X Hooks
HookOf(d)  == d[2]
TestOf(h)  == <<0, h>>
NoDelivery == <<>>

Present(h) == hook[h].state = "present"

QueueCap == QueuePerWorker * Cardinality(Workers)

\* A setting of 0 retries means the default, as every setting below 1 does.
MaxAttempts == IF MaxRetries + 1 <= 1 THEN 4 ELSE MaxRetries + 1

\* ready: before an attempt, the delay of a retry included.
IdleWorker == [pc |-> "idle", delivery |-> NoDelivery, attempt |-> 0, ok |-> FALSE]

Queued(d) == \E i \in 1..Len(queue) : queue[i] = d
SentBy(w, d) == worker[w].pc # "idle" /\ worker[w].delivery = d

\* A row refers to its hook: after a delete the INSERT fails, which is logged.
InsertWebhookDelivery(d, n, ok) ==
  rows' = IF Present(HookOf(d))
          THEN [rows EXCEPT ![d] = Append(@, [attempt |-> n, ok |-> ok])] ELSE rows

Post(d, ok) == posts' = [posts EXCEPT ![d] = Append(@, ok)]

--------------------------------------------------------------------------------
(* Emit                                                                    *)

\* ListWebhooksByEvent.
EmitList(e) ==
  /\ e \notin started
  /\ \A f \in Emits : f < e => f \in started
  /\ started' = started \cup {e}
  /\ \E type \in EventTypes :
       calls' = [calls EXCEPT ![e] = {h \in Hooks : Present(h) /\ type \in hook[h].events}]
  /\ UNCHANGED <<hook, queue, worker, testing, rows, spent, posts, cut>>

HasRoom_OneMore == Len(queue) <= QueueCap
HasRoom == Len(queue) < QueueCap

\* Never waits: a delivery that finds the queue full is dropped.
EmitEnqueue(e) ==
  /\ \E h \in calls[e] :
       /\ calls' = [calls EXCEPT ![e] = @ \ {h}]
       /\ queue' = IF HasRoom THEN Append(queue, <<e, h>>) ELSE queue
  /\ UNCHANGED <<hook, started, worker, testing, rows, spent, posts, cut>>

--------------------------------------------------------------------------------
(* Workers                                                                 *)

Take(w) ==
  /\ worker[w].pc = "idle"
  /\ queue # <<>>
  /\ worker' = [worker EXCEPT ![w] = [pc |-> "ready", delivery |-> Head(queue),
                                      attempt |-> 1, ok |-> FALSE]]
  /\ queue' = Tail(queue)
  /\ UNCHANGED <<hook, started, calls, testing, rows, spent, posts, cut>>

\* A POST, answered with 2xx or not at all, late or with something else.
Attempt(w) ==
  /\ worker[w].pc = "ready"
  /\ \E ok \in BOOLEAN :
       /\ Post(worker[w].delivery, ok)
       /\ worker' = [worker EXCEPT ![w].pc = "log", ![w].ok = ok]
  /\ UNCHANGED <<hook, started, calls, queue, testing, rows, spent, cut>>

AfterAttempt_IgnoreSuccess(x) ==
  IF x.attempt = MaxAttempts
  THEN IdleWorker ELSE [x EXCEPT !.pc = "ready", !.attempt = @ + 1]
AfterAttempt_GiveUp(x) == IdleWorker
AfterAttempt(x) ==
  IF x.ok \/ x.attempt = MaxAttempts
  THEN IdleWorker ELSE [x EXCEPT !.pc = "ready", !.attempt = @ + 1]

LogAttempt_Failures(w) ==
  LET x == worker[w] IN
  /\ x.pc = "log"
  /\ IF x.ok THEN UNCHANGED rows ELSE InsertWebhookDelivery(x.delivery, x.attempt, FALSE)
  /\ worker' = [worker EXCEPT ![w] = AfterAttempt(x)]
  /\ UNCHANGED <<hook, started, calls, queue, testing, spent, posts, cut>>
LogAttempt(w) ==
  LET x == worker[w] IN
  /\ x.pc = "log"
  /\ InsertWebhookDelivery(x.delivery, x.attempt, x.ok)
  /\ worker' = [worker EXCEPT ![w] = AfterAttempt(x)]
  /\ UNCHANGED <<hook, started, calls, queue, testing, spent, posts, cut>>

WorkerStep(w) == Take(w) \/ Attempt(w) \/ LogAttempt(w)

--------------------------------------------------------------------------------
(* Administrators                                                          *)

Change == spent.change < MaxChanges /\ spent' = [spent EXCEPT !.change = @ + 1]

CreateWebhook(h) ==
  /\ hook[h].state = "absent"
  /\ \E events \in (SUBSET EventTypes) \ {{}} :
       hook' = [hook EXCEPT ![h] = [state |-> "present", events |-> events]]
  /\ UNCHANGED <<started, calls, queue, worker, testing, rows, spent, posts, cut>>

\* A request without "enabled" disables the hook.
UpdateWebhook(h) ==
  /\ Present(h)
  /\ Change
  /\ \E events \in SUBSET EventTypes : hook' = [hook EXCEPT ![h].events = events]
  /\ UNCHANGED <<started, calls, queue, worker, testing, rows, posts, cut>>

\* ON DELETE CASCADE.
DeleteWebhook(h) ==
  /\ Present(h)
  /\ Change
  /\ hook' = [hook EXCEPT ![h] = [state |-> "deleted", events |-> {}]]
  /\ rows' = [d \in Deliveries |-> IF HookOf(d) = h THEN <<>> ELSE rows[d]]
  /\ UNCHANGED <<started, calls, queue, worker, testing, posts, cut>>

\* One test at a time for each hook: a bound of the model.
TestWebhook(h) ==
  /\ Present(h)
  /\ testing[h] = "none"
  /\ spent.test < MaxTests
  /\ spent' = [spent EXCEPT !.test = @ + 1]
  /\ \E ok \in BOOLEAN :
       /\ Post(TestOf(h), ok)
       /\ testing' = [testing EXCEPT ![h] = IF ok THEN "ok" ELSE "failed"]
  /\ UNCHANGED <<hook, started, calls, queue, worker, rows, cut>>

LogTest(h) ==
  /\ testing[h] # "none"
  /\ InsertWebhookDelivery(TestOf(h), 1, testing[h] = "ok")
  /\ testing' = [testing EXCEPT ![h] = "none"]
  /\ UNCHANGED <<hook, started, calls, queue, worker, spent, posts, cut>>

\* The client goes away: the INSERT fails with its context.
LoseTest(h) ==
  /\ testing[h] # "none"
  /\ testing' = [testing EXCEPT ![h] = "none"]
  /\ cut' = cut \cup {TestOf(h)}
  /\ UNCHANGED <<hook, started, calls, queue, worker, rows, spent, posts>>

\* A restart, or a shutdown: the queue is gone, and a worker whose context is
\* cancelled neither retries nor logs.
Restart ==
  /\ spent.restart < MaxRestarts
  /\ spent' = [spent EXCEPT !.restart = @ + 1]
  /\ queue' = <<>>
  /\ calls' = [e \in Emits |-> {}]
  /\ worker' = [w \in Workers |-> IdleWorker]
  /\ testing' = [h \in Hooks |-> "none"]
  /\ cut' = cut \cup {d \in Deliveries : Queued(d) \/ \E w \in Workers : SentBy(w, d)}
                \cup {TestOf(h) : h \in {g \in Hooks : testing[g] # "none"}}
  /\ UNCHANGED <<hook, started, rows, posts>>

--------------------------------------------------------------------------------
Init ==
  /\ hook = [h \in Hooks |-> [state |-> "absent", events |-> {}]]
  /\ started = {}
  /\ calls = [e \in Emits |-> {}]
  /\ queue = <<>>
  /\ worker = [w \in Workers |-> IdleWorker]
  /\ testing = [h \in Hooks |-> "none"]
  /\ rows = [d \in Deliveries |-> <<>>]
  /\ spent = [change |-> 0, test |-> 0, restart |-> 0]
  /\ posts = [d \in Deliveries |-> <<>>]
  /\ cut = {}

Next ==
  \/ \E e \in Emits : EmitList(e) \/ EmitEnqueue(e)
  \/ \E w \in Workers : WorkerStep(w)
  \/ \E h \in Hooks :
       \/ CreateWebhook(h) \/ UpdateWebhook(h) \/ DeleteWebhook(h)
       \/ TestWebhook(h) \/ LogTest(h) \/ LoseTest(h)
  \/ Restart

Spec == Init /\ [][Next]_vars

\* A worker's POST ends after the client's timeout at the latest, its delays
\* end, and an idle worker receives from the channel.
Fairness == \A w \in Workers : WF_vars(WorkerStep(w))

FairSpec == Spec /\ Fairness

--------------------------------------------------------------------------------
(* Properties                                                              *)

WorkerState == [pc : {"idle", "ready", "log"}, delivery : Deliveries \cup {NoDelivery},
                attempt : 0..MaxAttempts, ok : BOOLEAN]

\* A worker that is not idle has a delivery.
WorkersBusy ==
  \A w \in Workers : worker[w].pc # "idle" => /\ worker[w].delivery \in Deliveries
                                               /\ worker[w].attempt > 0

\* Types, the bound of the queue included.
TypeOK ==
  /\ hook \in [Hooks -> [state : {"absent", "present", "deleted"},
                         events : SUBSET EventTypes]]
  /\ started \subseteq Emits
  /\ calls \in [Emits -> SUBSET Hooks]
  /\ queue \in Seq(Deliveries) /\ Len(queue) <= QueueCap
  /\ worker \in [Workers -> WorkerState]
  /\ WorkersBusy
  /\ testing \in [Hooks -> {"none", "ok", "failed"}]
  /\ rows \in [Deliveries -> Seq([attempt : 1..MaxAttempts, ok : BOOLEAN])]
  /\ spent \in [change : Nat, test : Nat, restart : Nat]
  /\ posts \in [Deliveries -> Seq(BOOLEAN)]
  /\ cut \subseteq Deliveries

\* A receiver gets an event at most MaxAttempts times and nothing more once it
\* has answered 2xx: no delivery is taken by two workers, or sent once more
\* after a change of its hook or a restart.
AttemptsInOrder ==
  \A d \in Deliveries : d \notin {TestOf(h) : h \in Hooks} =>
    /\ Len(posts[d]) <= MaxAttempts
    /\ \A i \in 1..(Len(posts[d]) - 1) : ~posts[d][i]

\* The row of the last attempt is on its way.
LogPending(d) ==
  \/ \E w \in Workers : SentBy(w, d) /\ worker[w].pc = "log"
  \/ \E h \in Hooks : d = TestOf(h) /\ testing[h] # "none"

IsTest(d) == d = TestOf(HookOf(d))

Trail(d) ==
  /\ Len(rows[d]) = Len(posts[d]) - (IF LogPending(d) THEN 1 ELSE 0)
  /\ \A i \in 1..Len(rows[d]) :
       rows[d][i] = [attempt |-> IF IsTest(d) THEN 1 ELSE i, ok |-> posts[d][i]]

\* webhook_deliveries is the audit trail of a hook: while the hook exists, each
\* attempt that nothing cut short has its row, with its number and its outcome.
AuditTrail == \A d \in Deliveries \ cut : Present(HookOf(d)) => Trail(d)

Settled(d) ==
  posts[d] # <<>> /\ (posts[d][Len(posts[d])] \/ Len(posts[d]) = MaxAttempts)

\* What is in the queue is delivered, or attempted as often as it may be, even
\* when other receivers never answer, unless a restart takes it.
DeliveriesSettle == \A d \in Deliveries : Queued(d) ~> Settled(d) \/ d \in cut

================================================================================
