---------------------------- MODULE QueueManager ----------------------------
(***************************************************************************)
(* ops_engine/core/queue_manager.py: one asyncio.Queue drained by one     *)
(* worker task.  enqueue() refuses when the queue is full or shutting     *)
(* down, a failed event goes back to the tail until its attempts are used *)
(* up, then to the dead-letter queue, and stop() drains for at most 30 s  *)
(* before it cancels the worker.                                          *)
(*                                                                        *)
(* A step is what one asyncio task does between two suspension points.    *)
(* An event stands for one enqueue() call: the event and its handler.     *)
(* start() and stop() are called by one owner (the application lifespan), *)
(* one call at a time, any number of times.                               *)
(***************************************************************************)
EXTENDS Naturals, Sequences

CONSTANTS
    Events,         \* the (event, handler) pairs offered to the queue
    MaxQueueSize,   \* max_queue_size; asyncio reads 0 as unbounded
    MaxRetries,     \* max_retries
    MaxStarts,      \* bound: start() calls
    MaxRejections   \* bound: refused enqueue() calls

ASSUME QueueAssumption ==
    /\ MaxQueueSize \in Nat
    /\ MaxRetries \in Nat
    /\ MaxStarts \in Nat
    /\ MaxRejections \in Nat

VARIABLES
    queue,          \* queue: <<[event, retry], ...>>
    unfinished,     \* the queue's count of put() not yet matched by task_done()
    deadLetters,    \* dead_letter_queue
    metrics,        \* QueueMetrics
    shuttingDown,   \* _shutting_down
    worker,         \* where _worker_task is suspended; "none": no task
    current,        \* the item whose handler is running
    stopper,        \* where a stop() call is suspended
    \* history: read by no action
    accepted,       \* events in the order enqueue() accepted them
    tried,          \* events in the order of their first attempt
    processed,      \* events in the order their handlers returned
    interrupted,    \* events whose handler the cancellation cut short
    timedOut,       \* the last stop() gave up on the drain
    starts          \* start() calls that created a worker

contents == <<queue, unfinished, deadLetters, metrics>>
tasks == <<shuttingDown, worker, current, stopper>>
history == <<accepted, tried, processed, interrupted, timedOut, starts>>
vars == <<contents, tasks, history>>

NoItem == [event |-> "none", retry |-> 0]
Item == [event : Events, retry : Nat]

Full == MaxQueueSize > 0 /\ Len(queue) >= MaxQueueSize
InFlight == IF worker = "handling" THEN 1 ELSE 0

InSeq(e, s) == \E i \in DOMAIN s : s[i] = e

Counters == {"enqueued", "processed", "errors", "rejected", "dead_lettered"}
Bump(bumped) ==
    metrics' = [c \in Counters |-> IF c \in bumped THEN metrics[c] + 1 ELSE metrics[c]]

(* The operations named X_Y are faulty variants of X, each a bug this     *)
(* code could have had; no specification uses them.                       *)

(* asyncio.Queue: put_nowait() adds at the tail, task_done() counts down. *)
Put_InFront(item) == queue' = <<item>> \o queue
Put(item) == queue' = Append(queue, item)
TaskDone_Forgotten == UNCHANGED unfinished
TaskDone == unfinished' = unfinished - 1
JoinReturns_WhenEmpty == queue = <<>>
JoinReturns == unfinished = 0

----------------------------------------------------------------------------
Init ==
    /\ queue = <<>>
    /\ unfinished = 0
    /\ deadLetters = <<>>
    /\ metrics = [c \in Counters |-> 0]
    /\ shuttingDown = FALSE
    /\ worker = "none"
    /\ current = NoItem
    /\ stopper = "idle"
    /\ accepted = <<>> /\ tried = <<>> /\ processed = <<>> /\ interrupted = <<>>
    /\ timedOut = FALSE
    /\ starts = 0

(* start(): a second start() finds the task and does nothing.             *)
Start ==
    /\ worker = "none"
    /\ starts < MaxStarts
    /\ shuttingDown' = FALSE
    /\ worker' = "idle"
    /\ starts' = starts + 1
    /\ timedOut' = FALSE
    /\ UNCHANGED <<contents, current, stopper, accepted, tried, processed, interrupted>>

(* enqueue(): it never suspends.                                          *)
Refuses_OnlyWhenFull == Full
Refuses == shuttingDown \/ Full

EnqueueAccepted(e) ==
    /\ ~InSeq(e, accepted)
    /\ ~Refuses
    /\ Put([event |-> e, retry |-> 0])
    /\ unfinished' = unfinished + 1
    /\ Bump({"enqueued"})
    /\ accepted' = Append(accepted, e)
    /\ UNCHANGED <<deadLetters, tasks, tried, processed, interrupted, timedOut, starts>>

EnqueueRejected ==
    /\ Refuses
    /\ metrics["rejected"] < MaxRejections
    /\ Bump({"rejected"})
    /\ UNCHANGED <<queue, unfinished, deadLetters, tasks, history>>

----------------------------------------------------------------------------
(* _worker: queue.get() returns and the handler runs to its first await.  *)
(* A queue that is not empty is left to an idle worker only because the   *)
(* worker has not been scheduled yet.                                     *)
Get ==
    /\ worker = "idle"
    /\ queue # <<>>
    /\ worker' = "handling"
    /\ current' = Head(queue)
    /\ queue' = Tail(queue)
    /\ tried' = IF Head(queue).retry = 0 THEN Append(tried, Head(queue).event) ELSE tried
    /\ UNCHANGED <<unfinished, deadLetters, metrics, shuttingDown, stopper,
                   accepted, processed, interrupted, timedOut, starts>>

(* The end of an iteration: the item is let go, then the rate limit sleep. *)
ItemEndsAt(place) ==
    /\ worker' = place
    /\ current' = NoItem
    /\ UNCHANGED <<shuttingDown, stopper, accepted, tried, interrupted, timedOut, starts>>

FinishItem_LeavesTheLoop == ItemEndsAt("cancelled")
FinishItem == ItemEndsAt("sleeping")

HandlerReturns ==
    /\ worker = "handling"
    /\ Bump({"processed"})
    /\ processed' = Append(processed, current.event)
    /\ TaskDone
    /\ FinishItem
    /\ UNCHANGED <<queue, deadLetters>>

MayRetry_OnceMore == current.retry < MaxRetries
MayRetry == current.retry + 1 < MaxRetries

(* The handler raised: put_nowait() of the item with one more retry, then *)
(* task_done().  The two cancel out in the count of unfinished items.     *)
HandlerFailsAndIsRetried ==
    /\ worker = "handling"
    /\ MayRetry /\ ~Full
    /\ Put([current EXCEPT !.retry = @ + 1])
    /\ Bump({"errors"})
    /\ FinishItem
    /\ UNCHANGED <<unfinished, deadLetters, processed>>

(* _dead_letter(): the attempts are used up, or the queue filled up while *)
(* the handler ran.                                                       *)
HandlerFailsForGood ==
    /\ worker = "handling"
    /\ ~MayRetry \/ Full
    /\ deadLetters' = Append(deadLetters, current.event)
    /\ Bump({"errors", "dead_lettered"})
    /\ TaskDone
    /\ FinishItem
    /\ UNCHANGED <<queue, processed>>

WakeUp ==
    /\ worker = "sleeping"
    /\ worker' = "idle"
    /\ UNCHANGED <<contents, shuttingDown, current, stopper, history>>

Worker == Get \/ HandlerReturns \/ HandlerFailsAndIsRetried \/ HandlerFailsForGood \/ WakeUp

----------------------------------------------------------------------------
(* stop(): qsize() counts the waiting items only, so an item in hand does *)
(* not make it wait.                                                      *)
BeginStop_StillOpen == worker # "none" /\ stopper = "idle" /\ UNCHANGED shuttingDown
BeginStop == worker # "none" /\ stopper = "idle" /\ shuttingDown' = TRUE

StopDrains ==
    /\ BeginStop
    /\ queue # <<>>
    /\ stopper' = "draining"
    /\ UNCHANGED <<contents, worker, current, history>>

(* _worker_task.cancel(): the worker gets a CancelledError where it is    *)
(* suspended and leaves its loop, without task_done() for the item.       *)
CancelWorker ==
    /\ worker' = "cancelled"
    /\ current' = NoItem
    /\ stopper' = "awaiting"
    /\ interrupted' = IF worker = "handling"
                      THEN Append(interrupted, current.event) ELSE interrupted
    /\ UNCHANGED <<contents, accepted, tried, processed, starts>>

StopWithoutDraining ==
    /\ BeginStop
    /\ queue = <<>>
    /\ CancelWorker
    /\ UNCHANGED timedOut

(* queue.join() returns.                                                  *)
Drained ==
    /\ stopper = "draining"
    /\ JoinReturns
    /\ CancelWorker
    /\ UNCHANGED <<shuttingDown, timedOut>>

(* wait_for() raises TimeoutError after 30 s.                             *)
DrainTimesOut_Never == FALSE /\ UNCHANGED vars
DrainTimesOut ==
    /\ stopper = "draining"
    /\ unfinished > 0
    /\ timedOut' = TRUE
    /\ CancelWorker
    /\ UNCHANGED shuttingDown

(* The await of the cancelled task ends, and the task is forgotten.       *)
StopReturns ==
    /\ stopper = "awaiting"
    /\ worker' = "none"
    /\ stopper' = "idle"
    /\ UNCHANGED <<contents, shuttingDown, current, history>>

Stop == StopDrains \/ StopWithoutDraining \/ Drained \/ DrainTimesOut \/ StopReturns

----------------------------------------------------------------------------
Next ==
    \/ Start
    \/ \E e \in Events : EnqueueAccepted(e)
    \/ EnqueueRejected
    \/ Worker
    \/ Stop

(* The event loop runs every task that is ready; a handler ends because   *)
(* its HTTP calls carry timeouts; wait_for() and sleep() are timers.      *)
Fairness ==
    /\ WF_vars(Worker)
    /\ WF_vars(Drained \/ DrainTimesOut)
    /\ WF_vars(StopReturns)

Spec == Init /\ [][Next]_vars
FairSpec == Spec /\ Fairness

----------------------------------------------------------------------------
(* Every variable stays in its type; current is an item exactly while a   *)
(* handler runs, and a stop() call in progress always finds a task.       *)
ContentsTypes ==
    /\ queue \in Seq(Item)
    /\ unfinished \in Nat
    /\ deadLetters \in Seq(Events)
    /\ metrics \in [Counters -> Nat]

TaskTypes ==
    /\ shuttingDown \in BOOLEAN /\ timedOut \in BOOLEAN
    /\ worker \in {"none", "idle", "handling", "sleeping", "cancelled"}
    /\ current \in IF worker = "handling" THEN Item ELSE {NoItem}
    /\ stopper \in {"idle", "draining", "awaiting"}
    /\ stopper = "draining" => worker \in {"idle", "handling", "sleeping"}
    /\ stopper = "awaiting" <=> worker = "cancelled"
    /\ stopper # "idle" => shuttingDown = TRUE

HistoryTypes ==
    /\ accepted \in Seq(Events) /\ tried \in Seq(Events)
    /\ processed \in Seq(Events) /\ interrupted \in Seq(Events)
    /\ starts \in Nat

TypeOK == ContentsTypes /\ TaskTypes /\ HistoryTypes

(* The counters add up at every moment: an accepted event is processed,   *)
(* dead-lettered or unfinished, and what queue.join() waits for as        *)
(* unfinished is waiting, in hand or was cut short by a shutdown, which   *)
(* skips its task_done() (queue_manager.py:144).                          *)
EventsAccounted ==
    metrics["enqueued"] = metrics["processed"] + metrics["dead_lettered"] + unfinished
JoinCount == unfinished = Len(queue) + InFlight + Len(interrupted)
MetricsMatch ==
    metrics["processed"] = Len(processed) /\ metrics["dead_lettered"] = Len(deadLetters)

CountsBalance == EventsAccounted /\ JoinCount /\ MetricsMatch

(* The events of a queue's items that were never tried, in queue order:   *)
(* FreshUpTo(q)[n] lists those among the first n items.                   *)
FreshUpTo(q) ==
    LET fresh[n \in 0 .. Len(q)] ==
            IF n = 0 THEN <<>>
            ELSE IF q[n].retry = 0 THEN Append(fresh[n - 1], q[n].event)
            ELSE fresh[n - 1]
    IN  fresh
FreshEvents(q) == FreshUpTo(q)[Len(q)]

(* First attempts are made in the order of acceptance, whatever retries   *)
(* are put in between and across a stop() and a new start().              *)
FirstAttemptsInOrder == accepted = tried \o FreshEvents(queue)

(* Retries cannot amplify: however failures and refusals interleave, the  *)
(* handlers run at most max_retries times (at least once) per event.      *)
AttemptsBounded ==
    metrics["processed"] + metrics["errors"]
        <= metrics["enqueued"] * (IF MaxRetries = 0 THEN 1 ELSE MaxRetries)

(* When join() lets stop() go on, no event is waiting and none is cut     *)
(* short: only a timeout, or a stop() that did not wait, gives one up.    *)
DrainLosesNothing ==
    [][ stopper = "draining" /\ stopper' = "awaiting" /\ ~timedOut'
        => queue = <<>> /\ interrupted' = interrupted ]_vars

(* queue_manager.py:76, "Graceful shutdown: drain remaining items, then   *)
(* cancel worker": a stop() that did not time out gives up no event.      *)
GracefulStop ==
    [][ stopper # "awaiting" /\ stopper' = "awaiting" /\ ~timedOut'
        => interrupted' = interrupted ]_vars

HasEvent(e, q) == \E i \in DOMAIN q : q[i].event = e
InHand(e) == worker = "handling" /\ current.event = e
Pending(e) == HasEvent(e, queue) \/ InHand(e)
Settled(e) == InSeq(e, processed) \/ InSeq(e, deadLetters)

(* While the queue runs, an accepted event is processed or dead-lettered  *)
(* in the end; only a stop() leaves one behind.                           *)
AcceptedSettles ==
    \A e \in Events : Pending(e) ~> (Settled(e) \/ worker = "none")

(* stop() comes back, even when an earlier shutdown left join() a count   *)
(* that can never reach zero.                                             *)
StopComesBack == stopper # "idle" ~> worker = "none"

(* An event is at most once in the queue and then not in hand, and only   *)
(* accepted events have a place: with this the steps of the queue are     *)
(* steps of EventLedger.                                                  *)
OnePlace ==
    /\ \A i, j \in DOMAIN queue : queue[i].event = queue[j].event => i = j
    /\ worker = "handling" => ~HasEvent(current.event, queue)
    /\ \A e \in Events : Pending(e) \/ Settled(e) \/ InSeq(e, interrupted)
                        => InSeq(e, accepted)

(* The queue keeps the promise of EventLedger: one final fate per event,  *)
(* nothing accepted or given up at the wrong time.                        *)
Ledger == INSTANCE EventLedger WITH
    pending <- {e \in Events : Pending(e)},
    processed <- {e \in Events : InSeq(e, processed)},
    buried <- {e \in Events : InSeq(e, deadLetters)},
    abandoned <- {e \in Events : InSeq(e, interrupted)},
    closed <- shuttingDown

ImplementsLedger == Ledger!Spec
=============================================================================
