------------------------- MODULE QueueManager_proof -------------------------
(***************************************************************************)
(* Proofs about QueueManager, for every set of events, queue size, number *)
(* of retries and number of start/stop cycles.                            *)
(***************************************************************************)
EXTENDS QueueManager, FiniteSetTheorems, SequenceTheorems, WellFoundedInduction, TLAPS

(* What Head, Tail and Append give for a sequence of members of S.        *)
LEMMA SeqFacts ==
    ASSUME NEW S, NEW s \in Seq(S), NEW x \in S
    PROVE  /\ Append(s, x) \in Seq(S)
           /\ Len(Append(s, x)) = Len(s) + 1
           /\ s # <<>> => /\ Head(s) \in S
                          /\ Tail(s) \in Seq(S)
                          /\ Len(Tail(s)) = Len(s) - 1
                          /\ Len(s) > 0
OBVIOUS

(* Bump() adds one to the counters it names and leaves the others.        *)
LEMMA BumpFacts ==
    ASSUME NEW S, metrics \in [Counters -> Nat], Bump(S)
    PROVE  /\ metrics' \in [Counters -> Nat]
           /\ \A c \in Counters : c \in S => metrics'[c] = metrics[c] + 1
           /\ \A c \in Counters : c \notin S => metrics'[c] = metrics[c]
BY DEF Bump

----------------------------------------------------------------------------
(* The inductive invariant: types and counts together.  The counts are    *)
(* needed for the types, since only they show that task_done() never      *)
(* takes the count of unfinished items below zero.                        *)
IInv == TypeOK /\ CountsBalance

LEMMA IInvParts ==
    IInv <=> /\ ContentsTypes /\ TaskTypes /\ HistoryTypes
             /\ EventsAccounted /\ JoinCount /\ MetricsMatch
BY DEF IInv, TypeOK, CountsBalance

(* The quantities the counts speak of are natural numbers.                *)
LEMMA Numbers ==
    ASSUME ContentsTypes, HistoryTypes
    PROVE  /\ unfinished \in Nat /\ InFlight \in Nat
           /\ Len(queue) \in Nat /\ Len(interrupted) \in Nat
           /\ Len(processed) \in Nat /\ Len(deadLetters) \in Nat
           /\ \A c \in Counters : metrics[c] \in Nat
BY DEF ContentsTypes, HistoryTypes, InFlight

LEMMA CounterNames ==
    /\ "enqueued" \in Counters /\ "processed" \in Counters /\ "errors" \in Counters
    /\ "rejected" \in Counters /\ "dead_lettered" \in Counters
BY DEF Counters

----------------------------------------------------------------------------
(* What each of the five increments of the code leaves in the counters.   *)
LEMMA AcceptanceCounts ==
    ASSUME metrics \in [Counters -> Nat], Bump({"enqueued"})
    PROVE  /\ metrics'["enqueued"] = metrics["enqueued"] + 1
           /\ metrics'["processed"] = metrics["processed"]
           /\ metrics'["errors"] = metrics["errors"]
           /\ metrics'["rejected"] = metrics["rejected"]
           /\ metrics'["dead_lettered"] = metrics["dead_lettered"]
<1>1. /\ "enqueued" \in {"enqueued"}
      /\ "processed" \notin {"enqueued"}
      /\ "errors" \notin {"enqueued"}
      /\ "rejected" \notin {"enqueued"}
      /\ "dead_lettered" \notin {"enqueued"}
  OBVIOUS
<1> QED
  BY <1>1, CounterNames, BumpFacts

LEMMA SuccessCounts ==
    ASSUME metrics \in [Counters -> Nat], Bump({"processed"})
    PROVE  /\ metrics'["enqueued"] = metrics["enqueued"]
           /\ metrics'["processed"] = metrics["processed"] + 1
           /\ metrics'["errors"] = metrics["errors"]
           /\ metrics'["rejected"] = metrics["rejected"]
           /\ metrics'["dead_lettered"] = metrics["dead_lettered"]
<1>1. /\ "enqueued" \notin {"processed"}
      /\ "processed" \in {"processed"}
      /\ "errors" \notin {"processed"}
      /\ "rejected" \notin {"processed"}
      /\ "dead_lettered" \notin {"processed"}
  OBVIOUS
<1> QED
  BY <1>1, CounterNames, BumpFacts

LEMMA RetryCounts ==
    ASSUME metrics \in [Counters -> Nat], Bump({"errors"})
    PROVE  /\ metrics'["enqueued"] = metrics["enqueued"]
           /\ metrics'["processed"] = metrics["processed"]
           /\ metrics'["errors"] = metrics["errors"] + 1
           /\ metrics'["rejected"] = metrics["rejected"]
           /\ metrics'["dead_lettered"] = metrics["dead_lettered"]
<1>1. /\ "enqueued" \notin {"errors"}
      /\ "processed" \notin {"errors"}
      /\ "errors" \in {"errors"}
      /\ "rejected" \notin {"errors"}
      /\ "dead_lettered" \notin {"errors"}
  OBVIOUS
<1> QED
  BY <1>1, CounterNames, BumpFacts

LEMMA FailureCounts ==
    ASSUME metrics \in [Counters -> Nat], Bump({"errors", "dead_lettered"})
    PROVE  /\ metrics'["enqueued"] = metrics["enqueued"]
           /\ metrics'["processed"] = metrics["processed"]
           /\ metrics'["errors"] = metrics["errors"] + 1
           /\ metrics'["rejected"] = metrics["rejected"]
           /\ metrics'["dead_lettered"] = metrics["dead_lettered"] + 1
<1>1. /\ "enqueued" \notin {"errors", "dead_lettered"}
      /\ "processed" \notin {"errors", "dead_lettered"}
      /\ "errors" \in {"errors", "dead_lettered"}
      /\ "rejected" \notin {"errors", "dead_lettered"}
      /\ "dead_lettered" \in {"errors", "dead_lettered"}
  OBVIOUS
<1> QED
  BY <1>1, CounterNames, BumpFacts

LEMMA RejectionCounts ==
    ASSUME metrics \in [Counters -> Nat], Bump({"rejected"})
    PROVE  /\ metrics'["enqueued"] = metrics["enqueued"]
           /\ metrics'["processed"] = metrics["processed"]
           /\ metrics'["errors"] = metrics["errors"]
           /\ metrics'["rejected"] = metrics["rejected"] + 1
           /\ metrics'["dead_lettered"] = metrics["dead_lettered"]
<1>1. /\ "enqueued" \notin {"rejected"}
      /\ "processed" \notin {"rejected"}
      /\ "errors" \notin {"rejected"}
      /\ "rejected" \in {"rejected"}
      /\ "dead_lettered" \notin {"rejected"}
  OBVIOUS
<1> QED
  BY <1>1, CounterNames, BumpFacts

LEMMA InitIInv == Init => IInv
<1> SUFFICES ASSUME Init PROVE IInv
  OBVIOUS
<1>1. ContentsTypes
  BY DEF Init, ContentsTypes
<1>2. TaskTypes
  BY DEF Init, TaskTypes
<1>3. HistoryTypes
  BY DEF Init, HistoryTypes
<1>4. EventsAccounted /\ JoinCount /\ MetricsMatch
  BY DEF Init, EventsAccounted, JoinCount, MetricsMatch, InFlight, Counters
<1> QED
  BY <1>1, <1>2, <1>3, <1>4, IInvParts

LEMMA StartIInv == ASSUME IInv, Start PROVE IInv'
<1> USE IInvParts
<1>1. /\ ContentsTypes' /\ HistoryTypes' /\ EventsAccounted' /\ MetricsMatch'
  BY DEF Start, contents, ContentsTypes, HistoryTypes, EventsAccounted, MetricsMatch
<1>2. TaskTypes'
  BY DEF Start, TaskTypes
<1>3. JoinCount'
  BY DEF Start, contents, JoinCount, InFlight
<1> QED
  BY <1>1, <1>2, <1>3 DEF IInv, TypeOK, CountsBalance

LEMMA EnqueueIInv ==
    ASSUME NEW e \in Events, IInv, EnqueueAccepted(e)
    PROVE  IInv'
<1> DEFINE item == [event |-> e, retry |-> 0]
<1>1. /\ queue' = Append(queue, item)
      /\ unfinished' = unfinished + 1
      /\ accepted' = Append(accepted, e)
      /\ UNCHANGED <<deadLetters, tasks, tried, processed, interrupted, timedOut, starts>>
  BY DEF EnqueueAccepted, Put
<1>2. Bump({"enqueued"})
  BY DEF EnqueueAccepted
<1>3. /\ ContentsTypes /\ TaskTypes /\ HistoryTypes
      /\ EventsAccounted /\ JoinCount /\ MetricsMatch
  BY IInvParts
<1>4. item \in Item
  BY DEF Item
<1> HIDE DEF item
<1>5. queue' \in Seq(Item) /\ Len(queue') = Len(queue) + 1
  BY <1>1, <1>3, <1>4, SeqFacts DEF ContentsTypes
<1>6. metrics' \in [Counters -> Nat]
  BY <1>2, <1>3, BumpFacts DEF ContentsTypes
<1>7. /\ metrics'["enqueued"] = metrics["enqueued"] + 1
      /\ metrics'["processed"] = metrics["processed"]
      /\ metrics'["dead_lettered"] = metrics["dead_lettered"]
  BY <1>2, <1>3, AcceptanceCounts DEF ContentsTypes
<1>8. ContentsTypes'
  BY <1>1, <1>3, <1>5, <1>6 DEF ContentsTypes
<1>9. TaskTypes'
  BY <1>1, <1>3 DEF TaskTypes, tasks
<1>10. HistoryTypes'
  BY <1>1, <1>3, SeqFacts DEF HistoryTypes
<1>11. EventsAccounted'
  BY <1>1, <1>3, <1>7, Numbers, CounterNames DEF EventsAccounted
<1>12. JoinCount'
  <2>1. InFlight' = InFlight /\ interrupted' = interrupted
    BY <1>1 DEF InFlight, tasks
  <2> QED
    BY <1>1, <1>3, <1>5, <2>1, Numbers DEF JoinCount
<1>13. MetricsMatch'
  BY <1>1, <1>3, <1>7 DEF MetricsMatch
<1> QED
  BY <1>8, <1>9, <1>10, <1>11, <1>12, <1>13 DEF IInv, TypeOK, CountsBalance

LEMMA RejectIInv == ASSUME IInv, EnqueueRejected PROVE IInv'
<1>1. /\ Bump({"rejected"})
      /\ UNCHANGED <<queue, unfinished, deadLetters, tasks, history>>
  BY DEF EnqueueRejected
<1>2. /\ ContentsTypes /\ TaskTypes /\ HistoryTypes
      /\ EventsAccounted /\ JoinCount /\ MetricsMatch
  BY IInvParts
<1>3. metrics' \in [Counters -> Nat]
  BY <1>1, <1>2, BumpFacts DEF ContentsTypes
<1>4. /\ metrics'["enqueued"] = metrics["enqueued"]
      /\ metrics'["processed"] = metrics["processed"]
      /\ metrics'["dead_lettered"] = metrics["dead_lettered"]
  BY <1>1, <1>2, RejectionCounts DEF ContentsTypes
<1>5. ContentsTypes'
  BY <1>1, <1>2, <1>3 DEF ContentsTypes
<1>6. TaskTypes' /\ HistoryTypes' /\ JoinCount'
  BY <1>1, <1>2 DEF TaskTypes, HistoryTypes, JoinCount, InFlight, tasks, history
<1>7. EventsAccounted' /\ MetricsMatch'
  BY <1>1, <1>2, <1>4 DEF EventsAccounted, MetricsMatch, history
<1> QED
  BY <1>5, <1>6, <1>7 DEF IInv, TypeOK, CountsBalance

LEMMA GetIInv == ASSUME IInv, Get PROVE IInv'
<1>1. /\ worker = "idle" /\ worker' = "handling"
      /\ queue # <<>> /\ current' = Head(queue) /\ queue' = Tail(queue)
      /\ tried' = IF Head(queue).retry = 0 THEN Append(tried, Head(queue).event) ELSE tried
      /\ UNCHANGED <<unfinished, deadLetters, metrics, shuttingDown, stopper,
                     accepted, processed, interrupted, timedOut, starts>>
  BY DEF Get
<1>2. /\ ContentsTypes /\ TaskTypes /\ HistoryTypes
      /\ EventsAccounted /\ JoinCount /\ MetricsMatch
  BY IInvParts
<1>3. /\ Head(queue) \in Item /\ queue' \in Seq(Item)
      /\ Len(queue') = Len(queue) - 1
  BY <1>1, <1>2 DEF ContentsTypes
<1>4. Head(queue).event \in Events
  BY <1>3 DEF Item
<1>5. ContentsTypes'
  BY <1>1, <1>2, <1>3 DEF ContentsTypes
<1>6. TaskTypes'
  BY <1>1, <1>2, <1>3 DEF TaskTypes
<1>7. tried' \in Seq(Events)
  BY <1>1, <1>2, <1>4, SeqFacts DEF HistoryTypes
<1>8. HistoryTypes'
  BY <1>1, <1>2, <1>7 DEF HistoryTypes
<1>9. EventsAccounted' /\ MetricsMatch'
  BY <1>1, <1>2 DEF EventsAccounted, MetricsMatch
<1>10. JoinCount'
  <2>1. InFlight = 0 /\ InFlight' = 1
    BY <1>1 DEF InFlight
  <2> QED
    BY <1>1, <1>2, <1>3, <2>1, Numbers DEF JoinCount
<1> QED
  BY <1>5, <1>6, <1>8, <1>9, <1>10 DEF IInv, TypeOK, CountsBalance

(* What the three ends of a handler have in common.                       *)
LEMMA FinishFacts ==
    ASSUME TaskTypes, worker = "handling", FinishItem
    PROVE  /\ TaskTypes' /\ InFlight = 1 /\ InFlight' = 0
           /\ current \in Item /\ current.event \in Events /\ current.retry \in Nat
           /\ UNCHANGED <<accepted, tried, interrupted, starts>>
<1>1. TaskTypes'
  BY DEF TaskTypes, FinishItem, ItemEndsAt
<1>2. InFlight = 1 /\ InFlight' = 0
  BY DEF FinishItem, ItemEndsAt, InFlight
<1>3. current \in Item
  BY DEF TaskTypes
<1> QED
  BY <1>1, <1>2, <1>3 DEF FinishItem, ItemEndsAt, Item

(* The item in hand is counted, so task_done() never goes below zero.     *)
LEMMA TaskDoneFacts ==
    ASSUME IInv, worker = "handling", TaskDone
    PROVE  unfinished' \in Nat /\ unfinished' = unfinished - 1
<1>1. InFlight = 1 /\ JoinCount /\ ContentsTypes /\ HistoryTypes
  BY IInvParts DEF InFlight
<1>2. unfinished > 0
  BY <1>1, Numbers DEF JoinCount
<1> QED
  BY <1>1, <1>2 DEF TaskDone, ContentsTypes

LEMMA ReturnsIInv == ASSUME IInv, HandlerReturns PROVE IInv'
<1>1. /\ worker = "handling" /\ FinishItem
      /\ processed' = Append(processed, current.event)
      /\ UNCHANGED <<queue, deadLetters>>
  BY DEF HandlerReturns
<1>2. Bump({"processed"})
  BY DEF HandlerReturns
<1>3. /\ ContentsTypes /\ TaskTypes /\ HistoryTypes
      /\ EventsAccounted /\ JoinCount /\ MetricsMatch
  BY IInvParts
<1>4. /\ TaskTypes' /\ InFlight = 1 /\ InFlight' = 0 /\ current.event \in Events
      /\ UNCHANGED <<accepted, tried, interrupted, starts>>
  BY <1>1, <1>3, FinishFacts
<1>5. unfinished' \in Nat /\ unfinished' = unfinished - 1
  BY <1>1, TaskDoneFacts DEF HandlerReturns
<1>6. metrics' \in [Counters -> Nat]
  BY <1>2, <1>3, BumpFacts DEF ContentsTypes
<1>7. /\ metrics'["enqueued"] = metrics["enqueued"]
      /\ metrics'["processed"] = metrics["processed"] + 1
      /\ metrics'["dead_lettered"] = metrics["dead_lettered"]
  BY <1>2, <1>3, SuccessCounts DEF ContentsTypes
<1>8. processed' \in Seq(Events) /\ Len(processed') = Len(processed) + 1
  BY <1>1, <1>3, <1>4, SeqFacts DEF HistoryTypes
<1>9. ContentsTypes'
  BY <1>1, <1>3, <1>5, <1>6 DEF ContentsTypes
<1>10. HistoryTypes'
  BY <1>3, <1>4, <1>8 DEF HistoryTypes
<1>11. EventsAccounted'
  BY <1>3, <1>5, <1>7, Numbers, CounterNames DEF EventsAccounted
<1>12. JoinCount'
  BY <1>1, <1>3, <1>4, <1>5, Numbers DEF JoinCount
<1>13. MetricsMatch'
  BY <1>1, <1>3, <1>7, <1>8 DEF MetricsMatch
<1> QED
  BY <1>4, <1>9, <1>10, <1>11, <1>12, <1>13 DEF IInv, TypeOK, CountsBalance

LEMMA RetriedIInv == ASSUME IInv, HandlerFailsAndIsRetried PROVE IInv'
<1> DEFINE item == [current EXCEPT !.retry = @ + 1]
<1>1. /\ worker = "handling" /\ FinishItem
      /\ queue' = Append(queue, item)
      /\ UNCHANGED <<unfinished, deadLetters, processed>>
  BY DEF HandlerFailsAndIsRetried, Put
<1>2. Bump({"errors"})
  BY DEF HandlerFailsAndIsRetried
<1>3. /\ ContentsTypes /\ TaskTypes /\ HistoryTypes
      /\ EventsAccounted /\ JoinCount /\ MetricsMatch
  BY IInvParts
<1>4. /\ TaskTypes' /\ InFlight = 1 /\ InFlight' = 0 /\ current \in Item
      /\ UNCHANGED <<accepted, tried, interrupted, starts>>
  BY <1>1, <1>3, FinishFacts
<1>5. item \in Item
  BY <1>4 DEF Item
<1> HIDE DEF item
<1>6. queue' \in Seq(Item) /\ Len(queue') = Len(queue) + 1
  BY <1>1, <1>3, <1>5, SeqFacts DEF ContentsTypes
<1>7. metrics' \in [Counters -> Nat]
  BY <1>2, <1>3, BumpFacts DEF ContentsTypes
<1>8. /\ metrics'["enqueued"] = metrics["enqueued"]
      /\ metrics'["processed"] = metrics["processed"]
      /\ metrics'["dead_lettered"] = metrics["dead_lettered"]
  BY <1>2, <1>3, RetryCounts DEF ContentsTypes
<1>9. ContentsTypes'
  BY <1>1, <1>3, <1>6, <1>7 DEF ContentsTypes
<1>10. HistoryTypes'
  BY <1>1, <1>3, <1>4 DEF HistoryTypes
<1>11. EventsAccounted' /\ MetricsMatch'
  BY <1>1, <1>3, <1>8 DEF EventsAccounted, MetricsMatch
<1>12. JoinCount'
  BY <1>1, <1>3, <1>4, <1>6, Numbers DEF JoinCount
<1> QED
  BY <1>4, <1>9, <1>10, <1>11, <1>12 DEF IInv, TypeOK, CountsBalance

LEMMA BuriedIInv == ASSUME IInv, HandlerFailsForGood PROVE IInv'
<1>1. /\ worker = "handling" /\ FinishItem
      /\ deadLetters' = Append(deadLetters, current.event)
      /\ UNCHANGED <<queue, processed>>
  BY DEF HandlerFailsForGood
<1>2. Bump({"errors", "dead_lettered"})
  BY DEF HandlerFailsForGood
<1>3. /\ ContentsTypes /\ TaskTypes /\ HistoryTypes
      /\ EventsAccounted /\ JoinCount /\ MetricsMatch
  BY IInvParts
<1>4. /\ TaskTypes' /\ InFlight = 1 /\ InFlight' = 0 /\ current.event \in Events
      /\ UNCHANGED <<accepted, tried, interrupted, starts>>
  BY <1>1, <1>3, FinishFacts
<1>5. unfinished' \in Nat /\ unfinished' = unfinished - 1
  BY <1>1, TaskDoneFacts DEF HandlerFailsForGood
<1>6. metrics' \in [Counters -> Nat]
  BY <1>2, <1>3, BumpFacts DEF ContentsTypes
<1>7. /\ metrics'["enqueued"] = metrics["enqueued"]
      /\ metrics'["processed"] = metrics["processed"]
      /\ metrics'["dead_lettered"] = metrics["dead_lettered"] + 1
  BY <1>2, <1>3, FailureCounts DEF ContentsTypes
<1>8. deadLetters' \in Seq(Events) /\ Len(deadLetters') = Len(deadLetters) + 1
  BY <1>1, <1>3, <1>4, SeqFacts DEF ContentsTypes
<1>9. ContentsTypes'
  BY <1>1, <1>3, <1>5, <1>6, <1>8 DEF ContentsTypes
<1>10. HistoryTypes'
  BY <1>1, <1>3, <1>4 DEF HistoryTypes
<1>11. EventsAccounted'
  <2>1. metrics["enqueued"] = metrics["processed"] + metrics["dead_lettered"] + unfinished
    BY <1>3 DEF EventsAccounted
  <2>2. /\ metrics["enqueued"] \in Nat /\ metrics["processed"] \in Nat
        /\ metrics["dead_lettered"] \in Nat /\ unfinished \in Nat
    BY <1>3, Numbers, CounterNames
  <2> QED
    BY <1>5, <1>7, <2>1, <2>2 DEF EventsAccounted
<1>12. JoinCount'
  BY <1>1, <1>3, <1>4, <1>5, Numbers DEF JoinCount
<1>13. MetricsMatch'
  BY <1>1, <1>3, <1>7, <1>8 DEF MetricsMatch
<1> QED
  BY <1>4, <1>9, <1>10, <1>11, <1>12, <1>13 DEF IInv, TypeOK, CountsBalance

(* Steps that move a task and leave the queue's contents alone.           *)
LEMMA ContentsKept ==
    ASSUME IInv, UNCHANGED contents, TaskTypes', HistoryTypes', JoinCount',
           processed' = processed
    PROVE  IInv'
<1>1. ContentsTypes /\ EventsAccounted /\ MetricsMatch
  BY IInvParts
<1>2. ContentsTypes'
  BY <1>1 DEF contents, ContentsTypes
<1>3. EventsAccounted' /\ MetricsMatch'
  BY <1>1 DEF contents, EventsAccounted, MetricsMatch
<1> QED
  BY <1>2, <1>3 DEF IInv, TypeOK, CountsBalance

LEMMA WakeUpIInv == ASSUME IInv, WakeUp PROVE IInv'
<1>1. TaskTypes /\ HistoryTypes /\ JoinCount
  BY IInvParts
<1>2. TaskTypes'
  BY <1>1 DEF WakeUp, TaskTypes, history
<1>3. HistoryTypes' /\ processed' = processed
  BY <1>1 DEF WakeUp, HistoryTypes, history
<1>4. JoinCount'
  BY <1>1 DEF WakeUp, JoinCount, InFlight, history, contents
<1> QED
  BY <1>2, <1>3, <1>4, ContentsKept DEF WakeUp

LEMMA StopDrainsIInv == ASSUME IInv, StopDrains PROVE IInv'
<1>1. TaskTypes /\ HistoryTypes /\ JoinCount
  BY IInvParts
<1>2. TaskTypes'
  BY <1>1 DEF StopDrains, BeginStop, TaskTypes, history
<1>3. HistoryTypes' /\ processed' = processed
  BY <1>1 DEF StopDrains, HistoryTypes, history
<1>4. JoinCount'
  BY <1>1 DEF StopDrains, JoinCount, InFlight, history, contents
<1> QED
  BY <1>2, <1>3, <1>4, ContentsKept DEF StopDrains

(* The cancellation moves the item in hand to the interrupted ones, and   *)
(* the count of unfinished items keeps it.                                *)
LEMMA CancelIInv ==
    ASSUME IInv, CancelWorker, shuttingDown' = TRUE, timedOut' \in BOOLEAN
    PROVE  IInv'
<1>1. ContentsTypes /\ TaskTypes /\ HistoryTypes /\ JoinCount
  BY IInvParts
<1>2. TaskTypes'
  BY <1>1 DEF CancelWorker, TaskTypes
<1>3. worker = "handling" => current.event \in Events
  BY <1>1 DEF TaskTypes, Item
<1>4. /\ interrupted' \in Seq(Events)
      /\ Len(interrupted') = Len(interrupted) + InFlight
  <2>1. CASE worker = "handling"
    BY <1>1, <1>3, <2>1, SeqFacts DEF CancelWorker, HistoryTypes, InFlight
  <2>2. CASE worker # "handling"
    BY <1>1, <2>2 DEF CancelWorker, HistoryTypes, InFlight
  <2> QED
    BY <2>1, <2>2
<1>5. HistoryTypes' /\ processed' = processed
  BY <1>1, <1>4 DEF CancelWorker, HistoryTypes
<1>6. JoinCount'
  <2>1. InFlight' = 0
    BY DEF CancelWorker, InFlight
  <2>2. UNCHANGED <<queue, unfinished>>
    BY DEF CancelWorker, contents
  <2> QED
    BY <1>1, <1>4, <2>1, <2>2, Numbers DEF JoinCount
<1> QED
  BY <1>2, <1>5, <1>6, ContentsKept DEF CancelWorker

LEMMA StopReturnsIInv == ASSUME IInv, StopReturns PROVE IInv'
<1>1. TaskTypes /\ HistoryTypes /\ JoinCount
  BY IInvParts
<1>2. TaskTypes'
  BY <1>1 DEF StopReturns, TaskTypes, history
<1>3. HistoryTypes' /\ processed' = processed
  BY <1>1 DEF StopReturns, HistoryTypes, history
<1>4. JoinCount'
  BY <1>1 DEF StopReturns, JoinCount, InFlight, history, contents, TaskTypes
<1> QED
  BY <1>2, <1>3, <1>4, ContentsKept DEF StopReturns

LEMMA StopIInv == ASSUME IInv, Stop PROVE IInv'
<1>1. TaskTypes
  BY IInvParts
<1>2. CASE StopDrains
  BY <1>2, StopDrainsIInv
<1>3. CASE StopWithoutDraining
  BY <1>1, <1>3, CancelIInv DEF StopWithoutDraining, BeginStop, TaskTypes
<1>4. CASE Drained
  BY <1>1, <1>4, CancelIInv DEF Drained, TaskTypes
<1>5. CASE DrainTimesOut
  BY <1>1, <1>5, CancelIInv DEF DrainTimesOut, TaskTypes
<1>6. CASE StopReturns
  BY <1>6, StopReturnsIInv
<1> QED
  BY <1>2, <1>3, <1>4, <1>5, <1>6 DEF Stop

LEMMA NextIInv == IInv /\ [Next]_vars => IInv'
<1> SUFFICES ASSUME IInv, [Next]_vars PROVE IInv'
  OBVIOUS
<1>1. CASE Start
  BY <1>1, StartIInv
<1>2. ASSUME NEW e \in Events, EnqueueAccepted(e) PROVE IInv'
  BY <1>2, EnqueueIInv
<1>3. CASE EnqueueRejected
  BY <1>3, RejectIInv
<1>4. CASE Worker
  BY <1>4, GetIInv, ReturnsIInv, RetriedIInv, BuriedIInv, WakeUpIInv DEF Worker
<1>5. CASE Stop
  BY <1>5, StopIInv
<1>6. CASE UNCHANGED vars
  <2>1. /\ ContentsTypes /\ TaskTypes /\ HistoryTypes
        /\ EventsAccounted /\ JoinCount /\ MetricsMatch
    BY IInvParts
  <2>2. ContentsTypes' /\ TaskTypes' /\ HistoryTypes'
    BY <1>6, <2>1 DEF vars, contents, tasks, history, ContentsTypes, TaskTypes, HistoryTypes
  <2>3. EventsAccounted' /\ JoinCount' /\ MetricsMatch'
    BY <1>6, <2>1 DEF vars, contents, tasks, history, EventsAccounted, JoinCount,
                      MetricsMatch, InFlight
  <2> QED
    BY <2>2, <2>3 DEF IInv, TypeOK, CountsBalance
<1> QED
  BY <1>1, <1>2, <1>3, <1>4, <1>5, <1>6 DEF Next

LEMMA Invariant == Spec => []IInv
BY InitIInv, NextIInv, PTL DEF Spec

(* The variables keep their types in every behaviour of the queue.        *)
THEOREM TypeCorrect == Spec => []TypeOK
BY Invariant, PTL DEF IInv

(* The counters add up in every behaviour of the queue, whatever sequence *)
(* of failures, refusals, shutdowns and restarts it goes through.         *)
THEOREM CountsAlwaysBalance == Spec => []CountsBalance
BY Invariant, PTL DEF IInv

----------------------------------------------------------------------------
LEMMA DrainStep ==
    ASSUME IInv, Next, stopper = "draining", stopper' = "awaiting", ~timedOut'
    PROVE  queue = <<>> /\ worker # "handling" /\ interrupted' = interrupted
<1>1. Drained
  <2>1. stopper' # stopper /\ timedOut' # TRUE
    OBVIOUS
  <2>2. ~Start /\ ~EnqueueRejected /\ \A e \in Events : ~EnqueueAccepted(e)
    BY <2>1 DEF Start, EnqueueRejected, EnqueueAccepted, tasks
  <2>3. ~Worker
    BY <2>1 DEF Worker, Get, HandlerReturns, HandlerFailsAndIsRetried,
                HandlerFailsForGood, WakeUp, FinishItem, ItemEndsAt
  <2>4. ~StopDrains /\ ~StopWithoutDraining /\ ~DrainTimesOut /\ ~StopReturns
    BY <2>1 DEF StopDrains, StopWithoutDraining, BeginStop, DrainTimesOut, StopReturns
  <2> QED
    BY <2>2, <2>3, <2>4 DEF Next, Stop
<1>2. ContentsTypes /\ HistoryTypes /\ JoinCount
  BY IInvParts
<1>3. unfinished = 0
  BY <1>1 DEF Drained, JoinReturns
<1>4. Len(queue) = 0 /\ InFlight = 0
  BY <1>2, <1>3, Numbers DEF JoinCount
<1>5. queue = <<>>
  BY <1>2, <1>4 DEF ContentsTypes
<1>6. worker # "handling"
  BY <1>4 DEF InFlight
<1> QED
  BY <1>1, <1>5, <1>6 DEF Drained, CancelWorker

(* When join() lets a stop() go on, the counts say that no event waits or *)
(* runs, so the cancellation that follows cuts none short.                *)
THEOREM DrainIsLossless == Spec => DrainLosesNothing
<1>1. IInv /\ [Next]_vars =>
         [stopper = "draining" /\ stopper' = "awaiting" /\ ~timedOut'
            => queue = <<>> /\ interrupted' = interrupted]_vars
  BY DrainStep
<1> QED
  BY <1>1, Invariant, PTL DEF Spec, DrainLosesNothing

----------------------------------------------------------------------------
(* What Append and Tail do to the events a sequence holds.                *)
LEMMA AppendHolds ==
    ASSUME NEW S, NEW s \in Seq(S), NEW x \in S, NEW e
    PROVE  InSeq(e, Append(s, x)) <=> InSeq(e, s) \/ e = x
<1>1. /\ DOMAIN Append(s, x) = 1 .. Len(s) + 1 /\ DOMAIN s = 1 .. Len(s) /\ Len(s) \in Nat
      /\ Append(s, x)[Len(s) + 1] = x
      /\ \A i \in 1 .. Len(s) : Append(s, x)[i] = s[i]
  OBVIOUS
<1> QED
  BY <1>1 DEF InSeq

LEMMA PutHolds ==
    ASSUME NEW q \in Seq(Item), NEW x, NEW e
    PROVE  HasEvent(e, Append(q, x)) <=> HasEvent(e, q) \/ e = x.event
BY DEF HasEvent

LEMMA TailHolds ==
    ASSUME NEW q \in Seq(Item), q # <<>>, NEW e
    PROVE  HasEvent(e, q) <=> HasEvent(e, Tail(q)) \/ e = Head(q).event
<1>1. Head(q) = q[1] /\ \A i \in DOMAIN Tail(q) : Tail(q)[i] = q[i + 1] /\ i + 1 \in DOMAIN q
  OBVIOUS
<1>2. \A i \in DOMAIN q : i = 1 \/ (i - 1 \in DOMAIN Tail(q) /\ Tail(q)[i - 1] = q[i])
  OBVIOUS
<1>3. 1 \in DOMAIN q
  OBVIOUS
<1>4. HasEvent(e, q) => HasEvent(e, Tail(q)) \/ e = Head(q).event
  BY <1>1, <1>2 DEF HasEvent
<1>5. HasEvent(e, Tail(q)) => HasEvent(e, q)
  BY <1>1 DEF HasEvent
<1>6. HasEvent(Head(q).event, q)
  BY <1>1, <1>3 DEF HasEvent
<1> QED
  BY <1>4, <1>5, <1>6

(* One line of OnePlace at a time.                                        *)
Distinct == \A i, j \in DOMAIN queue : queue[i].event = queue[j].event => i = j
HandNotQueued == worker = "handling" => ~HasEvent(current.event, queue)
PlacedAreAccepted ==
    \A e \in Events : Pending(e) \/ Settled(e) \/ InSeq(e, interrupted) => InSeq(e, accepted)

LEMMA OnePlaceParts == OnePlace <=> Distinct /\ HandNotQueued /\ PlacedAreAccepted
BY DEF OnePlace, Distinct, HandNotQueued, PlacedAreAccepted

LEMMA InitOnePlace == Init => OnePlace
BY DEF Init, OnePlace, Pending, Settled, InSeq, HasEvent, InHand

(* The state of EventLedger this state stands for.                        *)
LPending == {e \in Events : Pending(e)}
LProcessed == {e \in Events : InSeq(e, processed)}
LBuried == {e \in Events : InSeq(e, deadLetters)}
LAbandoned == {e \in Events : InSeq(e, interrupted)}

LedgerStep == [Ledger!Next]_(Ledger!vars)

(* A step that leaves every event where it is, in the queue or in hand,   *)
(* is a step of the ledger: it can only open or close it.                 *)
LEMMA NothingMoves ==
    ASSUME TaskTypes, shuttingDown' \in BOOLEAN, OnePlace,
           UNCHANGED <<processed, deadLetters, interrupted>>,
           \A e \in Events : Pending(e)' <=> Pending(e)
    PROVE  LedgerStep
<1>1. UNCHANGED <<LPending, LProcessed, LBuried, LAbandoned>>
  BY DEF LPending, LProcessed, LBuried, LAbandoned
<1>2. CASE shuttingDown' = shuttingDown
  BY <1>1, <1>2 DEF LedgerStep, Ledger!vars, LPending, LProcessed, LBuried, LAbandoned
<1>3. CASE shuttingDown = TRUE /\ shuttingDown' = FALSE
  BY <1>1, <1>3 DEF LedgerStep, Ledger!Next, Ledger!Reopen, LPending, LProcessed, LBuried, LAbandoned
<1>4. CASE shuttingDown = FALSE /\ shuttingDown' = TRUE
  BY <1>1, <1>4 DEF LedgerStep, Ledger!Next, Ledger!Close, LPending, LProcessed, LBuried, LAbandoned
<1> QED
  BY <1>2, <1>3, <1>4 DEF TaskTypes

LEMMA PlacesKept ==
    ASSUME OnePlace, UNCHANGED <<queue, processed, deadLetters, accepted, interrupted>>,
           worker' # "handling"
    PROVE  OnePlace'
BY DEF OnePlace, Pending, Settled, InSeq, HasEvent, InHand

LEMMA StartPlaces == ASSUME IInv, OnePlace, Start PROVE OnePlace' /\ LedgerStep
<1>1. /\ UNCHANGED <<queue, processed, deadLetters, accepted, interrupted>>
      /\ worker # "handling" /\ worker' # "handling" /\ shuttingDown' \in BOOLEAN
  BY DEF Start, contents
<1>2. \A e \in Events : Pending(e)' <=> Pending(e)
  BY <1>1 DEF Pending, InHand, HasEvent
<1>3. TaskTypes
  BY IInvParts
<1> QED
  BY <1>1, <1>2, <1>3, PlacesKept, NothingMoves

LEMMA EnqueuePlaces ==
    ASSUME NEW e \in Events, IInv, OnePlace, EnqueueAccepted(e)
    PROVE  OnePlace' /\ LedgerStep
<1> DEFINE item == [event |-> e, retry |-> 0]
<1>1. /\ ~InSeq(e, accepted)
      /\ queue' = Append(queue, item) /\ accepted' = Append(accepted, e)
      /\ UNCHANGED <<deadLetters, shuttingDown, worker, current, processed, interrupted>>
  BY DEF EnqueueAccepted, Put, tasks
<1>2. shuttingDown = FALSE
  <2>1. shuttingDown \in BOOLEAN
    BY IInvParts DEF TaskTypes
  <2> QED
    BY <2>1 DEF EnqueueAccepted, Refuses
<1>3. queue \in Seq(Item) /\ accepted \in Seq(Events)
  BY IInvParts DEF ContentsTypes, HistoryTypes
<1>4. item.event = e
  OBVIOUS
<1> HIDE DEF item
<1>5. \A x : HasEvent(x, queue)' <=> HasEvent(x, queue) \/ x = e
  BY <1>1, <1>3, <1>4, PutHolds
<1>6. \A x : InSeq(x, accepted)' <=> InSeq(x, accepted) \/ x = e
  BY <1>1, <1>3, AppendHolds
<1>7. ~Pending(e) /\ ~Settled(e) /\ ~InSeq(e, interrupted)
  BY <1>1 DEF OnePlace
<1>8. \A x : Pending(x)' <=> Pending(x) \/ x = e
  BY <1>1, <1>5 DEF Pending, InHand
<1>9. \A x : /\ Settled(x)' <=> Settled(x)
             /\ InSeq(x, interrupted)' <=> InSeq(x, interrupted)
  BY <1>1 DEF Settled
<1>10. Distinct'
  <2>1. /\ DOMAIN queue' = 1 .. Len(queue) + 1 /\ DOMAIN queue = 1 .. Len(queue)
        /\ Len(queue) \in Nat /\ queue'[Len(queue) + 1] = item
        /\ \A i \in 1 .. Len(queue) : queue'[i] = queue[i]
    BY <1>1, <1>3
  <2>2. \A i \in DOMAIN queue : queue[i].event # e
    BY <1>7 DEF Pending, HasEvent
  <2>3. Distinct
    BY OnePlaceParts
  <2> QED
    BY <1>4, <2>1, <2>2, <2>3 DEF Distinct
<1>11. HandNotQueued'
  <2>1. HandNotQueued
    BY OnePlaceParts
  <2>2. worker = "handling" => current.event # e
    BY <1>7 DEF Pending, InHand
  <2> QED
    BY <1>1, <1>5, <2>1, <2>2 DEF HandNotQueued
<1>12. PlacedAreAccepted'
  <2>1. PlacedAreAccepted
    BY OnePlaceParts
  <2> QED
    BY <1>6, <1>8, <1>9, <2>1 DEF PlacedAreAccepted
<1>13. OnePlace'
  BY <1>10, <1>11, <1>12 DEF OnePlace, Distinct, HandNotQueued, PlacedAreAccepted
<1>14. /\ LPending' = LPending \cup {e}
       /\ UNCHANGED <<LProcessed, LBuried, LAbandoned, shuttingDown>>
  BY <1>1, <1>8 DEF LPending, LProcessed, LBuried, LAbandoned
<1>15. e \notin LPending \cup LProcessed \cup LBuried \cup LAbandoned
  BY <1>7 DEF LPending, LProcessed, LBuried, LAbandoned, Settled
<1>16. Ledger!Accept(e)
  BY <1>2, <1>14, <1>15 DEF Ledger!Accept, Ledger!Known, LPending, LProcessed, LBuried, LAbandoned
<1> QED
  BY <1>13, <1>16 DEF LedgerStep, Ledger!Next

(* Rejections and timers touch no place at all.                           *)
LEMMA IdlePlaces ==
    ASSUME IInv, OnePlace, shuttingDown' \in BOOLEAN,
           UNCHANGED <<queue, worker, current, processed, deadLetters, accepted, interrupted>>
    PROVE  OnePlace' /\ LedgerStep
<1>1. \A e \in Events : Pending(e)' <=> Pending(e)
  BY DEF Pending, InHand, HasEvent
<1>2. OnePlace'
  BY DEF OnePlace, Pending, Settled, InSeq, HasEvent, InHand
<1> QED
  BY <1>1, <1>2, NothingMoves, IInvParts

LEMMA TimerPlaces ==
    ASSUME IInv, OnePlace, worker # "handling", worker' # "handling", UNCHANGED shuttingDown,
           UNCHANGED <<queue, processed, deadLetters, accepted, interrupted>>
    PROVE  OnePlace' /\ LedgerStep
<1>1. \A e \in Events : Pending(e)' <=> Pending(e)
  BY DEF Pending, InHand, HasEvent
<1>2. OnePlace'
  BY PlacesKept
<1>3. TaskTypes /\ shuttingDown' \in BOOLEAN
  BY IInvParts DEF TaskTypes
<1> QED
  BY <1>1, <1>2, <1>3, NothingMoves

(* The head of the queue becomes the event in hand.                       *)
LEMMA GetPlaces == ASSUME IInv, OnePlace, Get PROVE OnePlace' /\ LedgerStep
<1>1. /\ worker = "idle" /\ worker' = "handling"
      /\ queue # <<>> /\ current' = Head(queue) /\ queue' = Tail(queue)
      /\ UNCHANGED <<deadLetters, shuttingDown, accepted, processed, interrupted>>
  BY DEF Get
<1>2. queue \in Seq(Item) /\ TaskTypes /\ shuttingDown' \in BOOLEAN
  BY <1>1, IInvParts DEF ContentsTypes, TaskTypes
<1>3. Distinct /\ PlacedAreAccepted
  BY OnePlaceParts
<1>4. \A x : HasEvent(x, queue) <=> HasEvent(x, queue)' \/ x = current'.event
  BY <1>1, <1>2, TailHolds
<1>5. \A x : Pending(x)' <=> Pending(x)
  BY <1>1, <1>4 DEF Pending, InHand
<1>6. /\ DOMAIN queue' = 1 .. Len(queue) - 1 /\ DOMAIN queue = 1 .. Len(queue)
      /\ Len(queue) \in Nat /\ Len(queue) > 0 /\ current' = queue[1]
      /\ \A i \in 1 .. Len(queue) - 1 : queue'[i] = queue[i + 1]
  BY <1>1, <1>2
<1>7. Distinct'
  BY <1>3, <1>6 DEF Distinct
<1>8. HandNotQueued'
  BY <1>3, <1>6 DEF Distinct, HandNotQueued, HasEvent
<1>9. PlacedAreAccepted'
  BY <1>1, <1>3, <1>5 DEF PlacedAreAccepted, Settled
<1>10. OnePlace'
  BY <1>7, <1>8, <1>9 DEF OnePlace, Distinct, HandNotQueued, PlacedAreAccepted
<1> QED
  BY <1>1, <1>2, <1>5, <1>10, NothingMoves

(* A handler that ends takes its event out of hand, and the queue holds   *)
(* no other copy of it.                                                   *)
LEMMA HandEmptied ==
    ASSUME OnePlace, worker = "handling", worker' # "handling", queue' = queue
    PROVE  /\ \A x : Pending(x)' <=> Pending(x) /\ x # current.event
           /\ Pending(current.event)
BY DEF OnePlace, Pending, InHand, HasEvent

LEMMA ReturnsPlaces ==
    ASSUME IInv, OnePlace, HandlerReturns PROVE OnePlace' /\ LedgerStep
<1>1. /\ worker = "handling" /\ worker' = "sleeping"
      /\ processed' = Append(processed, current.event)
      /\ UNCHANGED <<queue, deadLetters, shuttingDown, accepted, interrupted>>
  BY DEF HandlerReturns, FinishItem, ItemEndsAt
<1>2. processed \in Seq(Events) /\ current.event \in Events
  BY <1>1, IInvParts DEF HistoryTypes, TaskTypes, Item
<1>3. Distinct /\ PlacedAreAccepted
  BY OnePlaceParts
<1>4. /\ \A x : Pending(x)' <=> Pending(x) /\ x # current.event
      /\ Pending(current.event)
  BY <1>1, HandEmptied
<1>5. \A x : InSeq(x, processed)' <=> InSeq(x, processed) \/ x = current.event
  BY <1>1, <1>2, AppendHolds
<1>6. Distinct' /\ HandNotQueued'
  BY <1>1, <1>3 DEF Distinct, HandNotQueued
<1>7. PlacedAreAccepted'
  BY <1>1, <1>2, <1>3, <1>4, <1>5 DEF PlacedAreAccepted, Settled
<1>8. OnePlace'
  BY <1>6, <1>7 DEF OnePlace, Distinct, HandNotQueued, PlacedAreAccepted
<1>9. /\ LPending' = LPending \ {current.event}
      /\ LProcessed' = LProcessed \cup {current.event}
      /\ UNCHANGED <<LBuried, LAbandoned, shuttingDown>>
      /\ current.event \in LPending
  BY <1>1, <1>2, <1>4, <1>5 DEF LPending, LProcessed, LBuried, LAbandoned
<1>10. Ledger!Process(current.event)
  BY <1>9 DEF Ledger!Process, LPending, LProcessed, LBuried, LAbandoned
<1> QED
  BY <1>2, <1>8, <1>10 DEF LedgerStep, Ledger!Next

LEMMA BuriedPlaces ==
    ASSUME IInv, OnePlace, HandlerFailsForGood PROVE OnePlace' /\ LedgerStep
<1>1. /\ worker = "handling" /\ worker' = "sleeping"
      /\ deadLetters' = Append(deadLetters, current.event)
      /\ UNCHANGED <<queue, processed, shuttingDown, accepted, interrupted>>
  BY DEF HandlerFailsForGood, FinishItem, ItemEndsAt
<1>2. deadLetters \in Seq(Events) /\ current.event \in Events
  BY <1>1, IInvParts DEF ContentsTypes, TaskTypes, Item
<1>3. Distinct /\ PlacedAreAccepted
  BY OnePlaceParts
<1>4. /\ \A x : Pending(x)' <=> Pending(x) /\ x # current.event
      /\ Pending(current.event)
  BY <1>1, HandEmptied
<1>5. \A x : InSeq(x, deadLetters)' <=> InSeq(x, deadLetters) \/ x = current.event
  BY <1>1, <1>2, AppendHolds
<1>6. Distinct' /\ HandNotQueued'
  BY <1>1, <1>3 DEF Distinct, HandNotQueued
<1>7. PlacedAreAccepted'
  BY <1>1, <1>2, <1>3, <1>4, <1>5 DEF PlacedAreAccepted, Settled
<1>8. OnePlace'
  BY <1>6, <1>7 DEF OnePlace, Distinct, HandNotQueued, PlacedAreAccepted
<1>9. /\ LPending' = LPending \ {current.event}
      /\ LBuried' = LBuried \cup {current.event}
      /\ UNCHANGED <<LProcessed, LAbandoned, shuttingDown>>
      /\ current.event \in LPending
  BY <1>1, <1>2, <1>4, <1>5 DEF LPending, LProcessed, LBuried, LAbandoned
<1>10. Ledger!Bury(current.event)
  BY <1>9 DEF Ledger!Bury, LPending, LProcessed, LBuried, LAbandoned
<1> QED
  BY <1>2, <1>8, <1>10 DEF LedgerStep, Ledger!Next

(* A retry puts the event back where the ledger sees it: still pending.   *)
LEMMA RetriedPlaces ==
    ASSUME IInv, OnePlace, HandlerFailsAndIsRetried PROVE OnePlace' /\ LedgerStep
<1> DEFINE item == [current EXCEPT !.retry = @ + 1]
<1>1. /\ worker = "handling" /\ worker' = "sleeping"
      /\ queue' = Append(queue, item)
      /\ UNCHANGED <<deadLetters, processed, shuttingDown, accepted, interrupted>>
  BY DEF HandlerFailsAndIsRetried, Put, FinishItem, ItemEndsAt
<1>2. /\ queue \in Seq(Item) /\ TaskTypes /\ current \in Item
      /\ shuttingDown' \in BOOLEAN
  BY <1>1, IInvParts DEF ContentsTypes, TaskTypes
<1>3. item \in Item /\ item.event = current.event
  BY <1>2 DEF Item
<1> HIDE DEF item
<1>4. Distinct /\ HandNotQueued /\ PlacedAreAccepted
  BY OnePlaceParts
<1>5. \A x : HasEvent(x, queue)' <=> HasEvent(x, queue) \/ x = current.event
  BY <1>1, <1>2, <1>3, PutHolds
<1>6. \A x : Pending(x)' <=> Pending(x)
  BY <1>1, <1>5 DEF Pending, InHand
<1>7. Distinct'
  <2>1. /\ DOMAIN queue' = 1 .. Len(queue) + 1 /\ DOMAIN queue = 1 .. Len(queue)
        /\ Len(queue) \in Nat /\ queue'[Len(queue) + 1] = item
        /\ \A i \in 1 .. Len(queue) : queue'[i] = queue[i]
    BY <1>1, <1>2
  <2>2. \A i \in DOMAIN queue : queue[i].event # current.event
    BY <1>1, <1>4 DEF HandNotQueued, HasEvent
  <2> QED
    BY <1>3, <1>4, <2>1, <2>2 DEF Distinct
<1>8. HandNotQueued'
  BY <1>1 DEF HandNotQueued
<1>9. PlacedAreAccepted'
  BY <1>1, <1>4, <1>6 DEF PlacedAreAccepted, Settled
<1>10. OnePlace'
  BY <1>7, <1>8, <1>9 DEF OnePlace, Distinct, HandNotQueued, PlacedAreAccepted
<1> QED
  BY <1>1, <1>2, <1>6, <1>10, NothingMoves

(* A cancellation gives up the event in hand, if there is one.            *)
LEMMA CancelPlaces ==
    ASSUME IInv, OnePlace, CancelWorker, shuttingDown' = TRUE
    PROVE  OnePlace' /\ LedgerStep
<1>1. /\ worker' = "cancelled"
      /\ UNCHANGED <<queue, deadLetters, processed, accepted>>
  BY DEF CancelWorker, contents
<1>2. Distinct /\ PlacedAreAccepted
  BY OnePlaceParts
<1>3. CASE worker = "handling"
  <2>1. interrupted' = Append(interrupted, current.event)
    BY <1>3 DEF CancelWorker
  <2>2. interrupted \in Seq(Events) /\ current.event \in Events
    BY <1>3, IInvParts DEF HistoryTypes, TaskTypes, Item
  <2>3. /\ \A x : Pending(x)' <=> Pending(x) /\ x # current.event
        /\ Pending(current.event)
    BY <1>1, <1>3, HandEmptied
  <2>4. \A x : InSeq(x, interrupted)' <=> InSeq(x, interrupted) \/ x = current.event
    BY <2>1, <2>2, AppendHolds
  <2>5. Distinct' /\ HandNotQueued'
    BY <1>1, <1>2 DEF Distinct, HandNotQueued
  <2>6. PlacedAreAccepted'
    BY <1>1, <1>2, <2>2, <2>3, <2>4 DEF PlacedAreAccepted, Settled
  <2>7. OnePlace'
    BY <2>5, <2>6 DEF OnePlace, Distinct, HandNotQueued, PlacedAreAccepted
  <2>8. /\ LPending' = LPending \ {current.event}
        /\ LAbandoned' = LAbandoned \cup {current.event}
        /\ UNCHANGED <<LProcessed, LBuried>>
        /\ current.event \in LPending
    BY <1>1, <2>2, <2>3, <2>4 DEF LPending, LProcessed, LBuried, LAbandoned
  <2>9. Ledger!Abandon(current.event)
    BY <2>8 DEF Ledger!Abandon, LPending, LProcessed, LBuried, LAbandoned
  <2> QED
    BY <2>2, <2>7, <2>9 DEF LedgerStep, Ledger!Next
<1>4. CASE worker # "handling"
  <2>1. UNCHANGED interrupted
    BY <1>4 DEF CancelWorker
  <2>2. \A e \in Events : Pending(e)' <=> Pending(e)
    BY <1>1, <1>4 DEF Pending, InHand, HasEvent
  <2>3. OnePlace'
    BY <1>1, <2>1, PlacesKept
  <2>4. TaskTypes /\ shuttingDown' \in BOOLEAN
    BY IInvParts
  <2> QED
    BY <1>1, <2>1, <2>2, <2>3, <2>4, NothingMoves
<1> QED
  BY <1>3, <1>4

LEMMA StopPlaces == ASSUME IInv, OnePlace, Stop PROVE OnePlace' /\ LedgerStep
<1>1. TaskTypes
  BY IInvParts
<1>2. CASE StopDrains
  BY <1>2, IdlePlaces DEF StopDrains, BeginStop, contents, history
<1>3. CASE StopWithoutDraining
  BY <1>3, CancelPlaces DEF StopWithoutDraining, BeginStop
<1>4. CASE Drained
  BY <1>1, <1>4, CancelPlaces DEF Drained, TaskTypes
<1>5. CASE DrainTimesOut
  BY <1>1, <1>5, CancelPlaces DEF DrainTimesOut, TaskTypes
<1>6. CASE StopReturns
  BY <1>1, <1>6, TimerPlaces DEF StopReturns, TaskTypes, contents, history
<1> QED
  BY <1>2, <1>3, <1>4, <1>5, <1>6 DEF Stop

LEMMA NextPlaces ==
    ASSUME IInv, OnePlace, [Next]_vars PROVE OnePlace' /\ LedgerStep
<1>1. CASE Start
  BY <1>1, StartPlaces
<1>2. ASSUME NEW e \in Events, EnqueueAccepted(e) PROVE OnePlace' /\ LedgerStep
  BY <1>2, EnqueuePlaces
<1>3. TaskTypes
  BY IInvParts
<1>4. CASE EnqueueRejected
  BY <1>3, <1>4, IdlePlaces DEF EnqueueRejected, tasks, history, TaskTypes
<1>5. CASE WakeUp
  BY <1>5, TimerPlaces DEF WakeUp, contents, history
<1>6. CASE Worker
  BY <1>5, <1>6, GetPlaces, ReturnsPlaces, RetriedPlaces, BuriedPlaces DEF Worker
<1>7. CASE Stop
  BY <1>7, StopPlaces
<1>8. CASE UNCHANGED vars
  BY <1>3, <1>8, IdlePlaces DEF vars, contents, tasks, history, TaskTypes
<1> QED
  BY <1>1, <1>2, <1>4, <1>6, <1>7, <1>8 DEF Next

(* An event is in one place at a time, and only accepted events have one. *)
THEOREM EventsHaveOnePlace == Spec => []OnePlace
<1>1. IInv /\ OnePlace /\ [Next]_vars => OnePlace'
  BY NextPlaces
<1> QED
  BY <1>1, Invariant, InitOnePlace, PTL DEF Spec

LEMMA InitLedger == Init => Ledger!Init
BY DEF Init, Ledger!Init, Pending, InSeq, HasEvent, InHand

(* The queue implements the ledger: every event it accepts gets exactly   *)
(* one final fate, whatever fails and whenever it is stopped or started.  *)
THEOREM RefinesLedger == Spec => ImplementsLedger
<1>1. IInv /\ OnePlace /\ [Next]_vars => [Ledger!Next]_(Ledger!vars)
  BY NextPlaces DEF LedgerStep
<1> QED
  BY <1>1, Invariant, EventsHaveOnePlace, InitLedger, PTL DEF Spec, ImplementsLedger, Ledger!Spec

----------------------------------------------------------------------------
(* Induction over the natural numbers without an operator parameter: a    *)
(* set of numbers that is not empty has a least member, hence a set that  *)
(* holds 0 and the successor of each of its members holds them all.       *)
LEMMA LeastMember ==
    ASSUME NEW T, T \subseteq Nat, T # {}
    PROVE  \E x \in T : \A y \in T : x <= y
<1>1. PICK x \in T : \A y \in T : ~(<<y, x>> \in OpToRel(<, Nat))
  BY NatLessThanWellFounded, WFMin, Zenon
<1>2. \A y \in T : (<<y, x>> \in OpToRel(<, Nat)) <=> y < x
  BY SMT DEF OpToRel
<1>3. \A y \in T : ~(y < x)
  BY <1>1, <1>2, Zenon
<1> QED
  BY <1>3, SMT

LEMMA SetInduction ==
    ASSUME NEW T, 0 \in T, \A n \in Nat : n \in T => n + 1 \in T
    PROVE  \A n \in Nat : n \in T
<1> SUFFICES ASSUME Nat \ T # {} PROVE FALSE
  OBVIOUS
<1>1. PICK x \in Nat \ T : \A y \in Nat \ T : x <= y
  BY LeastMember
<1>2. x - 1 \in Nat /\ x - 1 \in T
  BY <1>1
<1>3. (x - 1) + 1 = x
  BY <1>2
<1> QED
  BY <1>2, <1>3

(* FreshUpTo is defined by recursion on the length of the prefix: the     *)
(* function exists, so it has the values its definition asks for.         *)
IsFreshUpTo(f, q, m) ==
    f = [n \in 0 .. m |->
            IF n = 0 THEN <<>>
            ELSE IF q[n].retry = 0 THEN Append(f[n - 1], q[n].event)
            ELSE f[n - 1]]

LEMMA FreshExists == ASSUME NEW q PROVE \A m \in Nat : \E f : IsFreshUpTo(f, q, m)
<1> DEFINE T == {m \in Nat : \E f : IsFreshUpTo(f, q, m)}
<1>1. 0 \in T
  <2> DEFINE f == [n \in 0 .. 0 |-> <<>>]
  <2>1. IsFreshUpTo(f, q, 0)
    BY DEF IsFreshUpTo
  <2> QED
    BY <2>1
<1>2. ASSUME NEW m \in Nat, m \in T PROVE m + 1 \in T
  <2>1. PICK f : IsFreshUpTo(f, q, m)
    BY <1>2
  <2> DEFINE g == [n \in 0 .. m + 1 |->
                      IF n <= m THEN f[n]
                      ELSE IF q[n].retry = 0 THEN Append(f[m], q[n].event)
                      ELSE f[m]]
  <2>2. \A n \in 0 .. m : g[n] = f[n]
    OBVIOUS
  <2>3. \A n \in 0 .. m : f[n] = IF n = 0 THEN <<>>
                                 ELSE IF q[n].retry = 0 THEN Append(f[n - 1], q[n].event)
                                 ELSE f[n - 1]
    BY <2>1 DEF IsFreshUpTo
  <2>4. \A n \in 0 .. m + 1 : g[n] = IF n = 0 THEN <<>>
                                     ELSE IF q[n].retry = 0 THEN Append(g[n - 1], q[n].event)
                                     ELSE g[n - 1]
    <3> SUFFICES ASSUME NEW n \in 0 .. m + 1
                 PROVE  g[n] = IF n = 0 THEN <<>>
                               ELSE IF q[n].retry = 0 THEN Append(g[n - 1], q[n].event)
                               ELSE g[n - 1]
      OBVIOUS
    <3>1. CASE n = m + 1
      <4>1. g[n - 1] = f[m] /\ n # 0 /\ ~(n <= m)
        BY <2>2, <3>1
      <4> QED
        BY <3>1, <4>1
    <3>2. CASE n \in 0 .. m
      <4>1. n # 0 => g[n - 1] = f[n - 1]
        BY <2>2, <3>2
      <4> HIDE DEF g
      <4> QED
        BY <2>2, <2>3, <3>2, <4>1, Zenon
    <3> QED
      BY <3>1, <3>2
  <2>5. IsFreshUpTo(g, q, m + 1)
    BY <2>4, Zenon DEF IsFreshUpTo
  <2> QED
    BY <2>5
<1> HIDE DEF T
<1>3. \A m \in Nat : m \in T
  BY <1>1, <1>2, SetInduction
<1> QED
  BY <1>3 DEF T

LEMMA FreshRule ==
    ASSUME NEW q \in Seq(Item), NEW n \in 0 .. Len(q)
    PROVE  FreshUpTo(q)[n] = IF n = 0 THEN <<>>
                             ELSE IF q[n].retry = 0
                                  THEN Append(FreshUpTo(q)[n - 1], q[n].event)
                             ELSE FreshUpTo(q)[n - 1]
<1>1. Len(q) \in Nat
  OBVIOUS
<1>2. \E f : IsFreshUpTo(f, q, Len(q))
  BY <1>1, FreshExists
<1>3. IsFreshUpTo(FreshUpTo(q), q, Len(q))
  BY <1>2, Zenon DEF FreshUpTo, IsFreshUpTo
<1> DEFINE F == FreshUpTo(q)
<1>4. IsFreshUpTo(F, q, Len(q))
  BY <1>3
<1> HIDE DEF F
<1>5. F[n] = IF n = 0 THEN <<>>
             ELSE IF q[n].retry = 0 THEN Append(F[n - 1], q[n].event)
             ELSE F[n - 1]
  BY <1>4, Zenon DEF IsFreshUpTo
<1> QED
  BY <1>5 DEF F

LEMMA FreshTypes ==
    ASSUME NEW q \in Seq(Item)
    PROVE  \A n \in 0 .. Len(q) : FreshUpTo(q)[n] \in Seq(Events)
<1> DEFINE T == {n \in Nat : n <= Len(q) => FreshUpTo(q)[n] \in Seq(Events)}
<1>1. Len(q) \in Nat /\ \A n \in 1 .. Len(q) : q[n].event \in Events
  <2>1. Len(q) \in Nat /\ \A n \in 1 .. Len(q) : q[n] \in Item
    OBVIOUS
  <2> QED
    BY <2>1 DEF Item
<1>2. 0 \in T
  <2>1. FreshUpTo(q)[0] = <<>>
    BY <1>1, FreshRule
  <2>2. <<>> \in Seq(Events)
    OBVIOUS
  <2>3. FreshUpTo(q)[0] \in Seq(Events)
    BY <2>1, <2>2, Zenon
  <2> QED
    BY <2>3
<1>3. ASSUME NEW n \in Nat, n \in T PROVE n + 1 \in T
  <2> SUFFICES ASSUME n + 1 <= Len(q) PROVE FreshUpTo(q)[n + 1] \in Seq(Events)
    OBVIOUS
  <2> DEFINE s == FreshUpTo(q)[n]
  <2>1. s \in Seq(Events)
    BY <1>1, <1>3
  <2>2. FreshUpTo(q)[n + 1] = IF q[n + 1].retry = 0 THEN Append(s, q[n + 1].event) ELSE s
    <3>1. n + 1 \in 0 .. Len(q) /\ n + 1 # 0 /\ (n + 1) - 1 = n
      BY <1>1
    <3> QED
      BY <3>1, FreshRule
  <2>3. q[n + 1].event \in Events
    BY <1>1
  <2> HIDE DEF s
  <2>4. Append(s, q[n + 1].event) \in Seq(Events)
    BY <2>1, <2>3
  <2> QED
    BY <2>1, <2>2, <2>4
<1> HIDE DEF T
<1>4. \A n \in Nat : n \in T
  BY <1>2, <1>3, SetInduction
<1> QED
  BY <1>1, <1>4 DEF T

(* What put_nowait() does to the events never tried: an item with no      *)
(* retry joins them at the end, a retried one does not count.             *)
LEMMA FreshAppend ==
    ASSUME NEW q \in Seq(Item), NEW x \in Item
    PROVE  FreshEvents(Append(q, x)) = IF x.retry = 0
                                       THEN Append(FreshEvents(q), x.event)
                                       ELSE FreshEvents(q)
<1> DEFINE p == Append(q, x)
<1>1. /\ p \in Seq(Item) /\ Len(q) \in Nat /\ Len(p) = Len(q) + 1
      /\ p[Len(p)] = x /\ \A n \in 1 .. Len(q) : p[n] = q[n]
  OBVIOUS
<1> HIDE DEF p
<1> DEFINE T == {n \in Nat : n <= Len(q) => FreshUpTo(p)[n] = FreshUpTo(q)[n]}
<1>2. 0 \in T
  <2>1. FreshUpTo(p)[0] = <<>> /\ FreshUpTo(q)[0] = <<>>
    BY <1>1, FreshRule
  <2> QED
    BY <2>1
<1>3. ASSUME NEW n \in Nat, n \in T PROVE n + 1 \in T
  <2> SUFFICES ASSUME n + 1 <= Len(q)
               PROVE  FreshUpTo(p)[n + 1] = FreshUpTo(q)[n + 1]
    OBVIOUS
  <2>1. /\ n + 1 \in 0 .. Len(q) /\ n + 1 \in 0 .. Len(p) /\ n + 1 # 0 /\ (n + 1) - 1 = n
        /\ p[n + 1] = q[n + 1] /\ FreshUpTo(p)[n] = FreshUpTo(q)[n]
    BY <1>1, <1>3
  <2>2. FreshUpTo(q)[n + 1] = IF q[n + 1].retry = 0
                              THEN Append(FreshUpTo(q)[n], q[n + 1].event)
                              ELSE FreshUpTo(q)[n]
    BY <2>1, FreshRule
  <2>3. FreshUpTo(p)[n + 1] = IF p[n + 1].retry = 0
                              THEN Append(FreshUpTo(p)[n], p[n + 1].event)
                              ELSE FreshUpTo(p)[n]
    BY <1>1, <2>1, FreshRule
  <2> QED
    BY <2>1, <2>2, <2>3, Zenon
<1> HIDE DEF T
<1>4. \A n \in Nat : n \in T
  BY <1>2, <1>3, SetInduction
<1>5. FreshUpTo(p)[Len(q)] = FreshUpTo(q)[Len(q)]
  BY <1>1, <1>4 DEF T
<1>6. FreshUpTo(p)[Len(p)] = IF p[Len(p)].retry = 0
                             THEN Append(FreshUpTo(p)[Len(q)], p[Len(p)].event)
                             ELSE FreshUpTo(p)[Len(q)]
  <2>1. Len(p) \in 0 .. Len(p) /\ Len(p) # 0 /\ Len(p) - 1 = Len(q)
    BY <1>1
  <2> QED
    BY <1>1, <2>1, FreshRule
<1>7. FreshEvents(p) = IF x.retry = 0 THEN Append(FreshEvents(q), x.event) ELSE FreshEvents(q)
  BY <1>1, <1>5, <1>6, Zenon DEF FreshEvents
<1> QED
  BY <1>7 DEF p

(* What get() does to them: the head goes, if it was one of them.         *)
HeadIfFresh(q) == IF Head(q).retry = 0 THEN <<Head(q).event>> ELSE <<>>

LEMMA ConcatAppend ==
    ASSUME NEW S, NEW h \in Seq(S), NEW s \in Seq(S), NEW x \in S
    PROVE  h \o Append(s, x) = Append(h \o s, x)
OBVIOUS

LEMMA FreshTail ==
    ASSUME NEW q \in Seq(Item), q # <<>>
    PROVE  /\ FreshEvents(q) = HeadIfFresh(q) \o FreshEvents(Tail(q))
           /\ HeadIfFresh(q) \in Seq(Events) /\ FreshEvents(Tail(q)) \in Seq(Events)
<1> DEFINE p == Tail(q)
           h == HeadIfFresh(q)
<1>1. /\ p \in Seq(Item) /\ Len(q) \in Nat /\ Len(p) = Len(q) - 1 /\ Len(q) > 0
      /\ Head(q) = q[1] /\ Head(q) \in Item /\ \A n \in 1 .. Len(p) : p[n] = q[n + 1]
  OBVIOUS
<1>2. h \in Seq(Events)
  <2>1. Head(q).event \in Events
    BY <1>1 DEF Item
  <2> QED
    BY <2>1 DEF HeadIfFresh
<1> HIDE DEF p
<1> DEFINE T == {n \in Nat : n <= Len(p) => FreshUpTo(q)[n + 1] = h \o FreshUpTo(p)[n]}
<1>3. 0 \in T
  <2>1. FreshUpTo(p)[0] = <<>> /\ FreshUpTo(q)[0] = <<>>
    BY <1>1, FreshRule
  <2>2. FreshUpTo(q)[1] = IF q[1].retry = 0 THEN Append(<<>>, q[1].event) ELSE <<>>
    <3>1. 1 \in 0 .. Len(q) /\ 1 # 0 /\ 1 - 1 = 0
      BY <1>1
    <3> QED
      BY <2>1, <3>1, FreshRule
  <2>3. Append(<<>>, q[1].event) = <<q[1].event>>
    OBVIOUS
  <2>4. FreshUpTo(q)[1] = h
    BY <1>1, <2>2, <2>3, Zenon DEF HeadIfFresh
  <2> HIDE DEF h
  <2>5. h \o <<>> = h
    BY <1>2
  <2>6. FreshUpTo(q)[0 + 1] = h \o FreshUpTo(p)[0]
    BY <2>1, <2>4, <2>5
  <2> QED
    BY <2>6
<1> HIDE DEF h
<1>4. ASSUME NEW n \in Nat, n \in T PROVE n + 1 \in T
  <2> SUFFICES ASSUME n + 1 <= Len(p)
               PROVE  FreshUpTo(q)[(n + 1) + 1] = h \o FreshUpTo(p)[n + 1]
    OBVIOUS
  <2>1. /\ n + 1 \in 0 .. Len(p) /\ n + 1 # 0 /\ (n + 1) - 1 = n /\ n \in 0 .. Len(p)
        /\ n + 2 \in 0 .. Len(q) /\ n + 2 # 0 /\ (n + 2) - 1 = n + 1 /\ (n + 1) + 1 = n + 2
    BY <1>1
  <2>2. p[n + 1] = q[n + 2] /\ FreshUpTo(q)[n + 1] = h \o FreshUpTo(p)[n]
    BY <1>1, <1>4, <2>1
  <2>3. FreshUpTo(p)[n + 1] = IF p[n + 1].retry = 0
                              THEN Append(FreshUpTo(p)[n], p[n + 1].event)
                              ELSE FreshUpTo(p)[n]
    BY <1>1, <2>1, FreshRule
  <2>4. FreshUpTo(q)[n + 2] = IF q[n + 2].retry = 0
                              THEN Append(FreshUpTo(q)[n + 1], q[n + 2].event)
                              ELSE FreshUpTo(q)[n + 1]
    BY <2>1, FreshRule
  <2>5. FreshUpTo(p)[n] \in Seq(Events) /\ p[n + 1].event \in Events
    <3>1. p[n + 1] \in Item
      BY <1>1, <2>1
    <3> QED
      BY <1>1, <2>1, <3>1, FreshTypes DEF Item
  <2>6. h \o Append(FreshUpTo(p)[n], p[n + 1].event) = Append(h \o FreshUpTo(p)[n], p[n + 1].event)
    <3> DEFINE s == FreshUpTo(p)[n]
               x == p[n + 1].event
    <3>1. s \in Seq(Events) /\ x \in Events
      BY <2>5
    <3> HIDE DEF s, x, T
    <3>2. h \o Append(s, x) = Append(h \o s, x)
      BY <1>2, <3>1, ConcatAppend
    <3> QED
      BY <3>2 DEF s, x
  <2> QED
    BY <2>1, <2>2, <2>3, <2>4, <2>6, Zenon
<1> HIDE DEF T
<1>5. \A n \in Nat : n \in T
  BY <1>3, <1>4, SetInduction
<1>6. Len(p) \in Nat /\ Len(p) + 1 = Len(q)
  BY <1>1
<1>7. FreshUpTo(q)[Len(q)] = h \o FreshUpTo(p)[Len(p)]
  BY <1>5, <1>6 DEF T
<1>8. FreshUpTo(p)[Len(p)] \in Seq(Events)
  BY <1>1, <1>6, FreshTypes
<1> QED
  BY <1>2, <1>7, <1>8 DEF FreshEvents, h, p

LEMMA NextOrder == ASSUME IInv, FirstAttemptsInOrder, [Next]_vars PROVE FirstAttemptsInOrder'
<1>1. /\ queue \in Seq(Item) /\ accepted \in Seq(Events) /\ tried \in Seq(Events)
      /\ TaskTypes
  BY IInvParts DEF ContentsTypes, HistoryTypes
<1>2. FreshEvents(queue) \in Seq(Events)
  <2>1. Len(queue) \in 0 .. Len(queue)
    BY <1>1
  <2> QED
    BY <1>1, <2>1, FreshTypes DEF FreshEvents
<1>3. accepted = tried \o FreshEvents(queue)
  BY DEF FirstAttemptsInOrder
<1>4. ASSUME UNCHANGED <<queue, accepted, tried>> PROVE FirstAttemptsInOrder'
  BY <1>3, <1>4 DEF FirstAttemptsInOrder
<1>5. ASSUME NEW e \in Events, EnqueueAccepted(e) PROVE FirstAttemptsInOrder'
  <2> DEFINE item == [event |-> e, retry |-> 0]
  <2>1. /\ queue' = Append(queue, item) /\ accepted' = Append(accepted, e) /\ tried' = tried
    BY <1>5 DEF EnqueueAccepted, Put
  <2>2. item \in Item /\ item.retry = 0 /\ item.event = e
    BY DEF Item
  <2> HIDE DEF item
  <2>3. FreshEvents(queue') = Append(FreshEvents(queue), e)
    BY <1>1, <2>1, <2>2, FreshAppend
  <2>4. tried \o Append(FreshEvents(queue), e) = Append(tried \o FreshEvents(queue), e)
    BY <1>1, <1>2, ConcatAppend
  <2>5. accepted' = tried' \o FreshEvents(queue')
    BY <1>3, <2>1, <2>3, <2>4, Zenon
  <2> QED
    BY <2>5 DEF FirstAttemptsInOrder
<1>6. CASE Get
  <2> DEFINE h == HeadIfFresh(queue)
             f == FreshEvents(Tail(queue))
  <2>1. /\ queue # <<>> /\ queue' = Tail(queue) /\ accepted' = accepted
        /\ tried' = IF Head(queue).retry = 0 THEN Append(tried, Head(queue).event) ELSE tried
    BY <1>6 DEF Get
  <2>2. /\ FreshEvents(queue) = h \o f /\ h \in Seq(Events) /\ f \in Seq(Events)
    BY <1>1, <2>1, FreshTail
  <2>3. tried' = tried \o h
    <3>1. Head(queue).event \in Events
      <4>1. Head(queue) \in Item
        BY <1>1, <2>1, SeqFacts
      <4> QED
        BY <4>1 DEF Item
    <3>2. Append(tried, Head(queue).event) = tried \o <<Head(queue).event>>
      BY <1>1, <3>1, AppendIsConcat
    <3>3. tried = tried \o <<>>
      BY <1>1
    <3> QED
      BY <2>1, <3>2, <3>3, Zenon DEF HeadIfFresh
  <2> HIDE DEF h, f
  <2>4. tried \o (h \o f) = (tried \o h) \o f
    BY <1>1, <2>2
  <2>5. accepted' = tried' \o FreshEvents(queue')
    BY <1>3, <2>1, <2>2, <2>3, <2>4, Zenon DEF f
  <2> QED
    BY <2>5 DEF FirstAttemptsInOrder
<1>7. CASE HandlerFailsAndIsRetried
  <2> DEFINE item == [event |-> current.event, retry |-> current.retry + 1]
  <2>1. current \in Item /\ current.retry \in Nat /\ current.event \in Events
    BY <1>1, <1>7, FinishFacts DEF HandlerFailsAndIsRetried
  <2>2. [current EXCEPT !.retry = @ + 1] = item
    BY <2>1 DEF Item
  <2>3. queue' = Append(queue, item) /\ accepted' = accepted /\ tried' = tried
    BY <1>7, <2>2 DEF HandlerFailsAndIsRetried, Put, FinishItem, ItemEndsAt
  <2>4. item \in Item /\ item.retry # 0
    BY <2>1 DEF Item
  <2> HIDE DEF item
  <2>5. FreshEvents(queue') = FreshEvents(queue)
    BY <1>1, <2>3, <2>4, FreshAppend
  <2> QED
    BY <1>3, <2>3, <2>5, Zenon DEF FirstAttemptsInOrder
<1>8. CASE Worker
  BY <1>4, <1>6, <1>7, <1>8
     DEF Worker, HandlerReturns, HandlerFailsForGood, WakeUp, FinishItem, ItemEndsAt, contents, history
<1>9. CASE Start \/ EnqueueRejected \/ Stop \/ UNCHANGED vars
  BY <1>4, <1>9 DEF Start, EnqueueRejected, Stop, StopDrains, StopWithoutDraining, Drained,
                    DrainTimesOut, StopReturns, CancelWorker, contents, history, vars
<1> QED
  BY <1>5, <1>8, <1>9 DEF Next

LEMMA InitOrder == Init => FirstAttemptsInOrder
<1> SUFFICES ASSUME Init PROVE FirstAttemptsInOrder
  OBVIOUS
<1>1. <<>> \in Seq(Item) /\ Len(<<>>) = 0 /\ 0 \in 0 .. 0
  OBVIOUS
<1>2. FreshUpTo(<<>>)[0] = <<>>
  BY <1>1, FreshRule
<1>3. <<>> = <<>> \o <<>>
  OBVIOUS
<1> QED
  BY <1>1, <1>2, <1>3 DEF Init, FirstAttemptsInOrder, FreshEvents

(* First attempts are made in the order in which enqueue() accepted the   *)
(* events (queue_manager.py:96-144): what was accepted is what was tried, *)
(* followed by what still waits untried.                                  *)
THEOREM AttemptsAreInOrder == Spec => []FirstAttemptsInOrder
<1>1. IInv /\ FirstAttemptsInOrder /\ [Next]_vars => FirstAttemptsInOrder'
  BY NextOrder
<1> QED
  BY <1>1, InitOrder, Invariant, PTL DEF Spec

----------------------------------------------------------------------------
(* Attempts are bounded because each one can be charged to a pair <<e, k>> *)
(* of an accepted event and a number up to Attempts, no pair twice: an    *)
(* item in the queue or in hand with r retries has used only pairs up to  *)
(* r, so the attempt it has in hand can be charged to r + 1.              *)
Attempts == IF MaxRetries = 0 THEN 1 ELSE MaxRetries
EverAccepted == {e \in Events : InSeq(e, accepted)}
Slots == EverAccepted \X (1 .. Attempts)

CountedOnce == IsFiniteSet(EverAccepted) /\ Cardinality(EverAccepted) = metrics["enqueued"]
Unspent(S, item) ==
    /\ item.retry < Attempts
    /\ \A k \in 1 .. Attempts : <<item.event, k>> \in S => k <= item.retry
Spent(S) ==
    /\ Cardinality(S) = metrics["processed"] + metrics["errors"]
    /\ \A i \in DOMAIN queue : Unspent(S, queue[i])
    /\ worker = "handling" => Unspent(S, current)
AttemptsSpent == \E S \in SUBSET Slots : Spent(S)

LEMMA AttemptsNat == Attempts \in Nat /\ Attempts >= 1 /\ (Attempts = 1 \/ Attempts = MaxRetries)
BY QueueAssumption DEF Attempts

LEMMA SlotsFinite ==
    ASSUME CountedOnce, metrics \in [Counters -> Nat]
    PROVE  /\ IsFiniteSet(Slots) /\ Cardinality(Slots) = metrics["enqueued"] * Attempts
           /\ \A S \in SUBSET Slots : /\ IsFiniteSet(S) /\ Cardinality(S) \in Nat
                                      /\ Cardinality(S) <= Cardinality(Slots)
<1>1. IsFiniteSet(1 .. Attempts) /\ Cardinality(1 .. Attempts) = Attempts
  <2>1. 1 \in Int /\ Attempts \in Int /\ Attempts - 1 + 1 = Attempts /\ ~(1 > Attempts)
    BY AttemptsNat
  <2> QED
    BY <2>1, FS_Interval
<1>2. /\ IsFiniteSet(Slots)
      /\ Cardinality(Slots) = Cardinality(EverAccepted) * Cardinality(1 .. Attempts)
  BY <1>1, FS_Product DEF CountedOnce, Slots
<1>3. Cardinality(Slots) = metrics["enqueued"] * Attempts
  BY <1>1, <1>2 DEF CountedOnce
<1>4. \A S \in SUBSET Slots : IsFiniteSet(S) /\ Cardinality(S) <= Cardinality(Slots)
  BY <1>2, FS_Subset
<1>5. \A S \in SUBSET Slots : Cardinality(S) \in Nat
  BY <1>4, FS_CardinalityType
<1> QED
  BY <1>2, <1>3, <1>4, <1>5

LEMMA InitAttempts == Init => CountedOnce /\ AttemptsSpent
<1> SUFFICES ASSUME Init PROVE CountedOnce /\ AttemptsSpent
  OBVIOUS
<1>1. EverAccepted = {}
  BY DEF Init, EverAccepted, InSeq
<1>2. /\ metrics["enqueued"] = 0 /\ metrics["processed"] = 0 /\ metrics["errors"] = 0
  BY CounterNames DEF Init
<1>3. IsFiniteSet({}) /\ Cardinality({}) = 0
  BY FS_EmptySet
<1>4. CountedOnce
  BY <1>1, <1>2, <1>3 DEF CountedOnce
<1>5. Spent({})
  BY <1>2, <1>3 DEF Spent, Init
<1> QED
  BY <1>4, <1>5 DEF AttemptsSpent

(* Steps that accept nothing and end no attempt.                          *)
LEMMA NothingSpent ==
    ASSUME CountedOnce, AttemptsSpent, accepted' = accepted,
           metrics'["enqueued"] = metrics["enqueued"],
           metrics'["processed"] = metrics["processed"],
           metrics'["errors"] = metrics["errors"],
           \A S : Spent(S) => (\A i \in DOMAIN queue' : Unspent(S, queue[i]')),
           \A S : Spent(S) => (worker' = "handling" => Unspent(S, current'))
    PROVE  CountedOnce' /\ AttemptsSpent'
<1>1. EverAccepted' = EverAccepted
  BY DEF EverAccepted
<1>2. CountedOnce'
  BY <1>1 DEF CountedOnce
<1>3. PICK S \in SUBSET Slots : Spent(S)
  BY DEF AttemptsSpent
<1>4. Spent(S)'
  BY <1>3 DEF Spent, Unspent
<1>5. S \in SUBSET Slots'
  BY <1>1, <1>3 DEF Slots
<1> QED
  BY <1>2, <1>4, <1>5 DEF AttemptsSpent

LEMMA EnqueueAttempts ==
    ASSUME IInv, OnePlace, CountedOnce, AttemptsSpent,
           NEW e \in Events, EnqueueAccepted(e)
    PROVE  CountedOnce' /\ AttemptsSpent'
<1> DEFINE item == [event |-> e, retry |-> 0]
<1>1. /\ queue \in Seq(Item) /\ accepted \in Seq(Events) /\ metrics \in [Counters -> Nat]
  BY IInvParts DEF ContentsTypes, HistoryTypes
<1>2. /\ queue' = Append(queue, item) /\ accepted' = Append(accepted, e)
      /\ worker' = worker /\ current' = current
      /\ ~InSeq(e, accepted) /\ Bump({"enqueued"})
  BY DEF EnqueueAccepted, Put, tasks
<1>3. /\ metrics'["enqueued"] = metrics["enqueued"] + 1
      /\ metrics'["processed"] = metrics["processed"]
      /\ metrics'["errors"] = metrics["errors"]
  BY <1>1, <1>2, AcceptanceCounts
<1>4. EverAccepted' = EverAccepted \cup {e} /\ e \notin EverAccepted
  <2>1. \A d : InSeq(d, accepted)' <=> InSeq(d, accepted) \/ d = e
    <3>1. \A d : InSeq(d, Append(accepted, e)) <=> InSeq(d, accepted) \/ d = e
      BY <1>1, AppendHolds
    <3> QED
      BY <1>2, <3>1 DEF InSeq
  <2> QED
    BY <1>2, <2>1 DEF EverAccepted
<1>5. CountedOnce'
  <2>1. IsFiniteSet(EverAccepted') /\ Cardinality(EverAccepted') = metrics["enqueued"] + 1
    BY <1>4, FS_AddElement DEF CountedOnce
  <2> QED
    BY <1>3, <2>1 DEF CountedOnce
<1>6. PICK S \in SUBSET Slots : Spent(S)
  BY DEF AttemptsSpent
<1>7. S \in SUBSET Slots'
  <2>1. EverAccepted \subseteq EverAccepted' /\ Attempts' = Attempts
    BY <1>4 DEF Attempts
  <2> QED
    BY <1>6, <2>1 DEF Slots
<1>8. Unspent(S, item)
  <2>1. \A k : <<e, k>> \notin S
    BY <1>4, <1>6 DEF Slots
  <2> QED
    BY <2>1, AttemptsNat DEF Unspent
<1> HIDE DEF item
<1>9. \A i \in DOMAIN queue' : Unspent(S, queue'[i])
  <2>1. /\ Len(queue) \in Nat /\ DOMAIN queue = 1 .. Len(queue)
        /\ DOMAIN Append(queue, item) = 1 .. Len(queue) + 1
        /\ Append(queue, item)[Len(queue) + 1] = item
        /\ \A i \in 1 .. Len(queue) : Append(queue, item)[i] = queue[i]
    BY <1>1
  <2>2. \A i \in 1 .. Len(queue) : Unspent(S, queue[i])
    BY <1>6, <2>1 DEF Spent
  <2>3. \A i \in 1 .. Len(queue) + 1 : i \in 1 .. Len(queue) \/ i = Len(queue) + 1
    BY <2>1
  <2> QED
    BY <1>2, <1>8, <2>1, <2>2, <2>3, Zenon
<1>10. Spent(S)'
  BY <1>2, <1>3, <1>6, <1>9 DEF Spent, Unspent, Attempts
<1> QED
  BY <1>5, <1>7, <1>10 DEF AttemptsSpent

(* An attempt ends for good: it is charged to the next slot of its event, *)
(* which no attempt has used and no other item can claim.                 *)
LEMMA LastAttempts ==
    ASSUME IInv, OnePlace, CountedOnce, AttemptsSpent,
           HandlerReturns \/ HandlerFailsForGood
    PROVE  CountedOnce' /\ AttemptsSpent'
<1>1. /\ queue \in Seq(Item) /\ metrics \in [Counters -> Nat] /\ TaskTypes
  BY IInvParts DEF ContentsTypes
<1>2. worker = "handling" /\ FinishItem /\ queue' = queue
  BY DEF HandlerReturns, HandlerFailsForGood
<1>3. current.event \in Events /\ current.retry \in Nat /\ accepted' = accepted
  BY <1>1, <1>2, FinishFacts
<1>4. worker' = "sleeping"
  BY <1>2 DEF FinishItem, ItemEndsAt
<1>5. /\ metrics'["enqueued"] = metrics["enqueued"]
      /\ metrics'["processed"] + metrics'["errors"] = metrics["processed"] + metrics["errors"] + 1
  <2>0. /\ metrics["processed"] \in Nat /\ metrics["errors"] \in Nat
    BY <1>1, CounterNames
  <2>1. CASE HandlerReturns
    <3>1. Bump({"processed"})
      BY <2>1 DEF HandlerReturns
    <3>2. /\ metrics'["enqueued"] = metrics["enqueued"]
          /\ metrics'["processed"] = metrics["processed"] + 1
          /\ metrics'["errors"] = metrics["errors"]
      BY <1>1, <3>1, SuccessCounts
    <3> QED
      BY <2>0, <3>2
  <2>2. CASE HandlerFailsForGood
    <3>1. Bump({"errors", "dead_lettered"})
      BY <2>2 DEF HandlerFailsForGood
    <3>2. /\ metrics'["enqueued"] = metrics["enqueued"]
          /\ metrics'["processed"] = metrics["processed"]
          /\ metrics'["errors"] = metrics["errors"] + 1
      BY <1>1, <3>1, FailureCounts
    <3> QED
      BY <2>0, <3>2
  <2> QED
    BY <2>1, <2>2
<1>6. EverAccepted' = EverAccepted /\ CountedOnce'
  BY <1>3, <1>5 DEF EverAccepted, CountedOnce
<1>7. PICK S \in SUBSET Slots : Spent(S)
  BY DEF AttemptsSpent
<1> DEFINE slot == <<current.event, current.retry + 1>>
<1>0. PICK U : U = S \cup {slot}
  OBVIOUS
<1>8. slot \notin S /\ current.retry + 1 \in 1 .. Attempts
  <2>1. Unspent(S, current)
    BY <1>2, <1>7 DEF Spent
  <2>2. current.retry + 1 \in 1 .. Attempts
    BY <1>3, <2>1, AttemptsNat DEF Unspent
  <2>3. ~(current.retry + 1 <= current.retry)
    BY <1>3
  <2> QED
    BY <2>1, <2>2, <2>3, Zenon DEF Unspent
<1>9. U \in SUBSET Slots'
  <2>1. current.event \in EverAccepted
    BY <1>2, <1>3 DEF OnePlace, Pending, InHand, EverAccepted
  <2> QED
    BY <1>0, <1>6, <1>7, <1>8, <2>1 DEF Slots, Attempts
<1>10. Cardinality(U) = metrics'["processed"] + metrics'["errors"]
  <2>1. IsFiniteSet(S)
    BY <1>1, <1>7, SlotsFinite
  <2>2. Cardinality(U) = Cardinality(S) + 1
    BY <1>0, <1>8, <2>1, FS_AddElement
  <2> QED
    BY <1>5, <1>7, <2>2 DEF Spent
<1>11. ASSUME NEW i \in DOMAIN queue PROVE Unspent(U, queue[i])
  <2>1. queue[i].event # current.event
    BY <1>2 DEF OnePlace, HasEvent
  <2>2. Unspent(S, queue[i])
    BY <1>7 DEF Spent
  <2>3. \A k : <<queue[i].event, k>> \in U => <<queue[i].event, k>> \in S
    BY <1>0, <2>1
  <2> QED
    BY <2>2, <2>3 DEF Unspent
<1>12. Spent(U)'
  <2>1. worker' # "handling"
    BY <1>4
  <2>2. \A i \in DOMAIN queue' : Unspent(U, queue'[i])
    BY <1>2, <1>11
  <2> QED
    BY <1>10, <2>1, <2>2 DEF Spent, Unspent, Attempts
<1> QED
  BY <1>6, <1>9, <1>12 DEF AttemptsSpent

(* A retry goes back with one more attempt used, which keeps its claim.   *)
LEMMA RetriedAttempts ==
    ASSUME IInv, OnePlace, CountedOnce, AttemptsSpent, HandlerFailsAndIsRetried
    PROVE  CountedOnce' /\ AttemptsSpent'
<1> DEFINE retried == [event |-> current.event, retry |-> current.retry + 1]
<1>1. /\ queue \in Seq(Item) /\ metrics \in [Counters -> Nat] /\ TaskTypes
  BY IInvParts DEF ContentsTypes
<1>2. worker = "handling" /\ FinishItem /\ Bump({"errors"}) /\ MayRetry
  BY DEF HandlerFailsAndIsRetried
<1>3. /\ current \in Item /\ current.event \in Events /\ current.retry \in Nat
      /\ accepted' = accepted
  BY <1>1, <1>2, FinishFacts
<1>4. queue' = Append(queue, retried)
  <2>1. [current EXCEPT !.retry = @ + 1] = retried
    BY <1>3 DEF Item
  <2> QED
    BY <2>1 DEF HandlerFailsAndIsRetried, Put
<1>5. worker' # "handling"
  BY <1>2 DEF FinishItem, ItemEndsAt
<1>6. /\ metrics'["enqueued"] = metrics["enqueued"]
      /\ metrics'["processed"] = metrics["processed"]
      /\ metrics'["errors"] = metrics["errors"] + 1
      /\ metrics["processed"] \in Nat /\ metrics["errors"] \in Nat
  BY <1>1, <1>2, RetryCounts, CounterNames
<1>7. EverAccepted' = EverAccepted /\ CountedOnce'
  BY <1>3, <1>6 DEF EverAccepted, CountedOnce
<1>8. PICK S \in SUBSET Slots : Spent(S)
  BY DEF AttemptsSpent
<1>9. Unspent(S, current) /\ current.retry + 1 < Attempts
  BY <1>2, <1>3, <1>8, QueueAssumption DEF Spent, MayRetry, Attempts
<1> DEFINE slot == <<current.event, current.retry + 1>>
<1>0. PICK U : U = S \cup {slot}
  OBVIOUS
<1>10. slot \notin S /\ current.retry + 1 \in 1 .. Attempts
  <2>1. current.retry + 1 \in 1 .. Attempts
    BY <1>3, <1>9, AttemptsNat
  <2>2. ~(current.retry + 1 <= current.retry)
    BY <1>3
  <2> QED
    BY <1>9, <2>1, <2>2, Zenon DEF Unspent
<1>11. U \in SUBSET Slots'
  <2>1. current.event \in EverAccepted
    BY <1>2, <1>3 DEF OnePlace, Pending, InHand, EverAccepted
  <2> QED
    BY <1>0, <1>7, <1>8, <1>10, <2>1 DEF Slots, Attempts
<1>12. Cardinality(U) = metrics'["processed"] + metrics'["errors"]
  <2>1. IsFiniteSet(S)
    BY <1>1, <1>8, SlotsFinite
  <2>2. Cardinality(U) = Cardinality(S) + 1
    BY <1>0, <1>10, <2>1, FS_AddElement
  <2> QED
    BY <1>6, <1>8, <2>2 DEF Spent
<1>13. Unspent(U, retried)
  <2>1. \A k \in 1 .. Attempts : <<current.event, k>> \in S => k <= current.retry
    BY <1>9 DEF Unspent
  <2>2. ASSUME NEW k \in 1 .. Attempts, <<current.event, k>> \in U
        PROVE  k <= current.retry + 1
    <3>1. <<current.event, k>> \in S \/ k = current.retry + 1
      BY <1>0, <2>2
    <3> QED
      BY <1>3, <2>1, <2>2, <3>1, AttemptsNat
  <2> QED
    BY <1>9, <2>2 DEF Unspent
<1>14. \A i \in DOMAIN queue : Unspent(U, queue[i])
  <2> SUFFICES ASSUME NEW i \in DOMAIN queue PROVE Unspent(U, queue[i])
    OBVIOUS
  <2>1. queue[i].event # current.event
    BY <1>2 DEF OnePlace, HasEvent
  <2>2. Unspent(S, queue[i])
    BY <1>8 DEF Spent
  <2>3. \A k : <<queue[i].event, k>> \in U => <<queue[i].event, k>> \in S
    BY <1>0, <2>1
  <2> QED
    BY <2>2, <2>3 DEF Unspent
<1> HIDE DEF retried
<1>15. \A i \in DOMAIN queue' : Unspent(U, queue'[i])
  <2>1. /\ Len(queue) \in Nat /\ DOMAIN queue = 1 .. Len(queue)
        /\ DOMAIN Append(queue, retried) = 1 .. Len(queue) + 1
        /\ Append(queue, retried)[Len(queue) + 1] = retried
        /\ \A i \in 1 .. Len(queue) : Append(queue, retried)[i] = queue[i]
    BY <1>1
  <2>2. \A i \in 1 .. Len(queue) + 1 : i \in 1 .. Len(queue) \/ i = Len(queue) + 1
    BY <2>1
  <2> QED
    BY <1>4, <1>13, <1>14, <2>1, <2>2, Zenon
<1>16. Spent(U)'
  BY <1>5, <1>12, <1>15 DEF Spent, Unspent, Attempts
<1> QED
  BY <1>7, <1>11, <1>16 DEF AttemptsSpent

LEMMA GetAttempts ==
    ASSUME IInv, CountedOnce, AttemptsSpent, Get
    PROVE  CountedOnce' /\ AttemptsSpent'
<1>1. queue \in Seq(Item)
  BY IInvParts DEF ContentsTypes
<1>2. /\ queue # <<>> /\ queue' = Tail(queue) /\ current' = Head(queue)
      /\ accepted' = accepted /\ metrics' = metrics
  BY DEF Get
<1>3. /\ Head(queue) = queue[1] /\ 1 \in DOMAIN queue
      /\ \A i \in DOMAIN Tail(queue) : Tail(queue)[i] = queue[i + 1] /\ i + 1 \in DOMAIN queue
  BY <1>1, <1>2
<1>4. \A S : Spent(S) => (\A i \in DOMAIN queue' : Unspent(S, queue'[i]))
  BY <1>2, <1>3 DEF Spent
<1>5. \A S : Spent(S) => Unspent(S, current')
  BY <1>2, <1>3 DEF Spent
<1> QED
  BY <1>2, <1>4, <1>5, NothingSpent

LEMMA NextAttempts ==
    ASSUME IInv, OnePlace, CountedOnce, AttemptsSpent, [Next]_vars
    PROVE  CountedOnce' /\ AttemptsSpent'
<1>1. ASSUME NEW e \in Events, EnqueueAccepted(e) PROVE CountedOnce' /\ AttemptsSpent'
  BY <1>1, EnqueueAttempts
<1>2. ASSUME UNCHANGED <<queue, metrics, accepted>>,
             worker' = "handling" => worker = "handling" /\ current' = current
      PROVE  CountedOnce' /\ AttemptsSpent'
  <2>1. \A S : Spent(S) => (\A i \in DOMAIN queue' : Unspent(S, queue'[i]))
    BY <1>2 DEF Spent
  <2>2. \A S : Spent(S) => (worker' = "handling" => Unspent(S, current'))
    BY <1>2 DEF Spent
  <2> QED
    BY <1>2, <2>1, <2>2, NothingSpent
<1>3. CASE EnqueueRejected
  <2>1. metrics \in [Counters -> Nat] /\ Bump({"rejected"})
    BY <1>3, IInvParts DEF EnqueueRejected, ContentsTypes
  <2>2. UNCHANGED <<queue, worker, current, accepted>>
    BY <1>3 DEF EnqueueRejected, tasks, history
  <2>3. /\ metrics'["enqueued"] = metrics["enqueued"]
        /\ metrics'["processed"] = metrics["processed"]
        /\ metrics'["errors"] = metrics["errors"]
    BY <2>1, RejectionCounts
  <2>4. \A S : Spent(S) => (\A i \in DOMAIN queue' : Unspent(S, queue'[i]))
    BY <2>2 DEF Spent
  <2>5. \A S : Spent(S) => (worker' = "handling" => Unspent(S, current'))
    BY <2>2 DEF Spent
  <2> QED
    BY <2>2, <2>3, <2>4, <2>5, NothingSpent
<1>4. CASE WakeUp
  BY <1>2, <1>4 DEF WakeUp, contents, history
<1>5. CASE Worker
  BY <1>4, <1>5, GetAttempts, LastAttempts, RetriedAttempts DEF Worker
<1>6. CASE Start
  BY <1>2, <1>6 DEF Start, contents
<1>7. CASE Stop
  BY <1>2, <1>7 DEF Stop, StopDrains, StopWithoutDraining, Drained, DrainTimesOut, StopReturns,
                    CancelWorker, contents, history
<1>8. CASE UNCHANGED vars
  BY <1>2, <1>8 DEF vars, contents, tasks, history
<1> QED
  BY <1>1, <1>3, <1>5, <1>6, <1>7, <1>8 DEF Next

LEMMA InvGivesBound == IInv /\ CountedOnce /\ AttemptsSpent => AttemptsBounded
<1> SUFFICES ASSUME IInv, CountedOnce, AttemptsSpent PROVE AttemptsBounded
  OBVIOUS
<1>1. metrics \in [Counters -> Nat]
  BY IInvParts DEF ContentsTypes
<1>2. PICK S \in SUBSET Slots : Spent(S)
  BY DEF AttemptsSpent
<1>3. metrics["processed"] + metrics["errors"] <= metrics["enqueued"] * Attempts
  BY <1>1, <1>2, SlotsFinite DEF Spent
<1> QED
  BY <1>3 DEF AttemptsBounded, Attempts

(* However failures, retries and refusals interleave, the handlers run at *)
(* most max_retries times per accepted event, and once when max_retries   *)
(* is 0 (queue_manager.py:122-144): the counters metrics() reports show   *)
(* no more processed items and errors than that.                          *)
THEOREM AttemptsAreBounded == Spec => []AttemptsBounded
<1>1. IInv /\ OnePlace /\ (CountedOnce /\ AttemptsSpent) /\ [Next]_vars
        => (CountedOnce /\ AttemptsSpent)'
  BY NextAttempts
<1> QED
  BY <1>1, InvGivesBound, InitAttempts, Invariant, EventsHaveOnePlace, PTL DEF Spec

----------------------------------------------------------------------------
(* The invariant as a whole, for a module that runs the queue and lets it *)
(* begin anew.                                                            *)
QueueInv == IInv /\ OnePlace /\ FirstAttemptsInOrder /\ CountedOnce /\ AttemptsSpent

LEMMA InitQueueInv == Init => QueueInv
BY InitIInv, InitOnePlace, InitOrder, InitAttempts DEF QueueInv

LEMMA StepQueueInv == QueueInv /\ [Next]_vars => QueueInv'
BY NextIInv, NextPlaces, NextOrder, NextAttempts DEF QueueInv

LEMMA QueueInvGives ==
    QueueInv => TypeOK /\ CountsBalance /\ OnePlace /\ FirstAttemptsInOrder /\ AttemptsBounded
BY InvGivesBound DEF QueueInv, IInv

LEMMA QueueInvSteps ==
    ASSUME QueueInv, Next
    PROVE  /\ stopper = "draining" /\ stopper' = "awaiting" /\ ~timedOut'
                => queue = <<>> /\ worker # "handling" /\ interrupted' = interrupted
           /\ [Ledger!Next]_(Ledger!vars)
BY DrainStep, NextPlaces DEF QueueInv, LedgerStep
=============================================================================
