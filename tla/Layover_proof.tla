---------------------------- MODULE Layover_proof ----------------------------
(***************************************************************************)
(* Proofs about Layover, for every scenario, queue size, TTL and number of *)
(* deliveries: the whole takes only steps that TagIdentity and MergeHandler*)
(* allow, so that what is proved of them holds of the layover; and what    *)
(* the forge delivers twice has its effect once.                           *)
(***************************************************************************)
EXTENDS Layover, Handlers_proof, FiniteSetTheorems

(* The tag in the layover is the tag of TagIdentity.                       *)
LEMMA LayoverTagStep == [LayoverNext]_layoverVars => [TagNext]_tagVars
<1> SUFFICES ASSUME [LayoverNext]_layoverVars PROVE TagNext \/ UNCHANGED tagVars
  OBVIOUS
<1>0. Self \in Callers
  BY LayoverAssumption
<1>1. CASE UNCHANGED layoverVars
  BY <1>1 DEF layoverVars
<1>2. CASE EnqueueNext \/ ForgeTells \/ ForgeTellsOther \/ PullRequestChanges \/ Tick
           \/ OwnerCalls \/ QueueGoesOn \/ MergeBegins \/ NotifyBegins
  BY <1>2 DEF EnqueueNext, ForgeTells, ForgeTellsOther, PullRequestChanges, Tick, OwnerCalls,
              QueueGoesOn, MergeBegins, NotifyBegins
<1>3. ASSUME NEW id, NEW sound, Arrive(id, sound) PROVE UNCHANGED tagVars
  BY <1>3 DEF Arrive
<1>4. CASE TagChanges
  BY <1>4 DEF TagChanges, TagNext
<1>5. CASE OthersPushTheTag
  BY <1>5 DEF OthersPushTheTag, TagNext
<1>6. CASE ReleaseBegins
  BY <1>6, <1>0 DEF ReleaseBegins, TagNext
<1>7. CASE HandlerStep
  BY <1>7, <1>0 DEF HandlerStep, Notify, TagNext
<1>8. CASE HandlerReturns \/ HandlerRaises \/ Cancel \/ Restart
  BY <1>8, <1>0 DEF HandlerReturns, HandlerRaises, Cancel, Restart, CutAll, Forget, TagNext
<1> QED
  BY <1>1, <1>2, <1>3, <1>4, <1>5, <1>6, <1>7, <1>8 DEF LayoverNext, WorkerStep

(* And its pull request is that of MergeHandler.                           *)
LEMMA LayoverMergeStep ==
    MergeTypeOK /\ [LayoverNext]_layoverVars => [MergeNext]_mergeVars
<1> SUFFICES ASSUME MergeTypeOK, [LayoverNext]_layoverVars
             PROVE  MergeNext \/ UNCHANGED mergeVars
  OBVIOUS
<1>1. CASE UNCHANGED layoverVars
  BY <1>1 DEF layoverVars
<1>2. CASE EnqueueNext \/ TagChanges \/ ForgeTellsOther \/ OthersPushTheTag \/ Tick
           \/ OwnerCalls \/ QueueGoesOn \/ ReleaseBegins \/ NotifyBegins
           \/ HandlerReturns \/ HandlerRaises
  BY <1>2 DEF EnqueueNext, TagChanges, ForgeTellsOther, OthersPushTheTag, Tick, OwnerCalls,
              QueueGoesOn, ReleaseBegins, NotifyBegins, HandlerReturns, HandlerRaises
<1>3. ASSUME NEW id, NEW sound, Arrive(id, sound) PROVE UNCHANGED mergeVars
  BY <1>3 DEF Arrive
<1>4. CASE PullRequestChanges
  BY <1>4 DEF PullRequestChanges, MergeNext
<1>5. CASE ForgeTells
  <2>1. PICK what \in news : SendNews(what)
    BY <1>5 DEF ForgeTells
  <2> QED
    BY <2>1 DEF MergeNext, MergeTypeOK
<1>6. CASE MergeBegins
  <2>1. PICK what : Hear(what)
    BY <1>6 DEF MergeBegins
  <2>2. CASE what \in {"label", "suite"}
    BY <2>1, <2>2 DEF MergeNext, News
  <2>3. CASE what \notin {"label", "suite"}
    BY <2>1, <2>3 DEF Hear, BeginMerge, mergeVars
  <2> QED
    BY <2>2, <2>3
<1>7. CASE HandlerStep
  BY <1>7 DEF HandlerStep, Notify, MergeNext
<1>8. CASE Cancel \/ Restart
  BY <1>8 DEF Cancel, Restart, CutAll, MergeNext
<1> QED
  BY <1>1, <1>2, <1>3, <1>4, <1>5, <1>6, <1>7, <1>8 DEF LayoverNext, WorkerStep
LEMMA LayoverHandlers == LayoverSpec => [](TagIInv /\ MergeIInv)
<1>1. LayoverInit => TagIInv /\ MergeIInv
  BY InitTagIInv, InitMergeIInv DEF LayoverInit
<1>2. TagIInv /\ MergeIInv /\ [LayoverNext]_layoverVars => (TagIInv /\ MergeIInv)'
  BY LayoverTagStep, LayoverMergeStep, StepTagIInv, StepMergeIInv DEF MergeIInv
<1> QED
  BY <1>1, <1>2, PTL DEF LayoverSpec

(* The layover implements TagIdentity: whatever the queue, the endpoint    *)
(* and a restart do with it, a call of push_canonical_tag() is one of      *)
(* those TagIdentity speaks of, and is begun, cut short and ended as there.*)
THEOREM LayoverPushesTags == LayoverSpec => TagSpec
<1>1. LayoverInit => TagInit
  BY DEF LayoverInit
<1> QED
  BY <1>1, LayoverTagStep, PTL DEF LayoverSpec, TagSpec

(* The layover implements MergeHandler in the same way.                    *)
THEOREM LayoverMerges == LayoverSpec => MergeSpec
<1>1. LayoverInit => MergeInit
  BY DEF LayoverInit
<1>2. MergeIInv /\ [LayoverNext]_layoverVars => [MergeNext]_mergeVars
  BY LayoverMergeStep DEF MergeIInv
<1> QED
  BY <1>1, <1>2, LayoverHandlers, PTL DEF LayoverSpec, MergeSpec

(* So each of them keeps in the layover what it promises by itself: the    *)
(* mirror only gets what was the canonical tag, no finished push is taken  *)
(* back by a later one, every merge rests on a green head, and only merged *)
(* branches go.                                                            *)
THEOREM HandlersKeepTheirWord ==
    LayoverSpec => /\ OnlyCanonicalObjects /\ []LaterCallsNeverGoBack
                   /\ []MergesRestOnAGreenHead /\ []OnlyMergedBranchesGo
BY LayoverPushesTags, LayoverMerges, OnlyCanonical, NeverBack, MergesRestOnGreen,
   OnlyMergedGo
----------------------------------------------------------------------------
(* What the endpoint and the queue hold are items of deliveries that have  *)
(* arrived.                                                                *)
Arrived == [arrival : 1..Len(arrivals), handler : Handlers]
Waiting == [event : Arrived, retry : Nat]
Holdings ==
    /\ scenario \in Scenarios
    /\ wire \in Seq(News \cup {"tag", "other"})
    /\ arrivals \in Seq([id : Nat, time : Nat])
    /\ clock \in Nat
    /\ \A id \in DOMAIN seen : seen[id] \in Nat
    /\ todo \in Seq(Arrived) /\ accepted \in Seq(Arrived) /\ queue \in Seq(Waiting)
    /\ worker = "handling" => current \in Waiting

(* A handler is under way only while the worker handles an item, and no    *)
(* notification while a push of the tag is.                                *)
Alone ==
    /\ worker # "handling" => notice = {} /\ call[Self].at = "idle"
    /\ notice # {} => call[Self].at = "idle"
    /\ stopper = "awaiting" => worker = "cancelled"

(* The arrivals that were not dropped.  EventDeduplicator remembers each,  *)
(* or its time is over; and of two with the same id, the second came when  *)
(* the time of the first was over.                                         *)
Live == {todo[i].arrival : i \in DOMAIN todo} \cup {accepted[i].arrival : i \in DOMAIN accepted}
Remembered1(n) ==
    \/ /\ arrivals[n].id \in DOMAIN seen
       /\ seen[arrivals[n].id] >= arrivals[n].time
    \/ clock > arrivals[n].time + TTL
Remembers ==
    /\ \A n \in Live : Remembered1(n)
    /\ \A m, n \in Live :
          m < n /\ arrivals[m].id = arrivals[n].id => arrivals[n].time > arrivals[m].time + TTL

(* Whom a channel was told of, the handler knows or has forgotten; and the *)
(* one it tells now, it has told before only if it had forgotten it.       *)
Announcements ==
    /\ \A t \in told : t.id \in announced \cup forgotten
    /\ notice # {} =>
          /\ Delivery(current) \in announced \cup forgotten
          /\ \A t \in told :
                t.id = Delivery(current) /\ t.arrival # current.event.arrival
                    => t.id \in forgotten
    /\ ChannelsToldOnce

LayoverInv == Holdings /\ Alone /\ Remembers /\ Announcements

----------------------------------------------------------------------------
(* What Head, Tail and Append give for a sequence of members of S.         *)
LEMMA SeqFacts ==
    ASSUME NEW S, NEW s \in Seq(S), NEW x \in S
    PROVE  /\ Len(s) \in Nat /\ DOMAIN s = 1..Len(s)
           /\ Append(s, x) \in Seq(S)
           /\ Len(Append(s, x)) = Len(s) + 1
           /\ \A i \in 1..Len(s) : Append(s, x)[i] = s[i]
           /\ Append(s, x)[Len(s) + 1] = x
           /\ s # <<>> => /\ Head(s) \in S /\ Head(s) = s[1] /\ 1 \in DOMAIN s
                          /\ Tail(s) \in Seq(S)
                          /\ Len(Tail(s)) = Len(s) - 1
                          /\ \A i \in 1..Len(Tail(s)) : Tail(s)[i] = s[i + 1]
OBVIOUS

LEMMA Elements ==
    ASSUME NEW S, NEW s \in Seq(S)
    PROVE  \A i \in DOMAIN s : s[i] \in S
OBVIOUS

(* An arrival that is live has arrived.                                    *)
LEMMA LiveHasArrived ==
    ASSUME Holdings
    PROVE  \A n \in Live : n \in 1..Len(arrivals) /\ arrivals[n].time \in Nat
<1>1. \A i \in DOMAIN todo : todo[i] \in Arrived
  BY Elements DEF Holdings
<1>2. \A i \in DOMAIN accepted : accepted[i] \in Arrived
  BY Elements DEF Holdings
<1>3. \A n \in Live : n \in 1..Len(arrivals)
  BY <1>1, <1>2 DEF Live, Arrived
<1>4. arrivals \in Seq([id : Nat, time : Nat])
  BY DEF Holdings
<1>5. \A n \in 1..Len(arrivals) : arrivals[n] \in [id : Nat, time : Nat]
  BY <1>4, ElementOfSeq
<1>6. \A n \in 1..Len(arrivals) : arrivals[n].time \in Nat
  BY <1>5
<1> QED
  BY <1>3, <1>6

LEMMA InitHoldings == LayoverInit => LayoverInv
<1> SUFFICES ASSUME LayoverInit PROVE LayoverInv
  OBVIOUS
<1>0. Self \in Callers
  BY LayoverAssumption
<1>1. Holdings
  BY DEF LayoverInit, Holdings, NewMemory, Queue!Init
<1>2. Alone
  BY <1>0 DEF LayoverInit, Alone, TagInit, NoPush, Queue!Init
<1>3. Remembers
  <2>1. Live = {}
    BY DEF LayoverInit, Live, Queue!Init
  <2> QED
    BY <2>1 DEF Remembers
<1>4. Announcements
  BY DEF LayoverInit, Announcements, ChannelsToldOnce
<1> QED
  BY <1>1, <1>2, <1>3, <1>4 DEF LayoverInv

(* As long as nothing arrives, what is live needs no more than time.       *)
LEMMA StillRemembers ==
    ASSUME Holdings, Remembers, UNCHANGED <<arrivals, seen>>, clock' \in Nat,
           clock' >= clock, Live' \subseteq Live
    PROVE  Remembers'
<1>1. clock \in Nat /\ TTL \in Nat
  BY LayoverAssumption DEF Holdings
<1>2. ASSUME NEW n \in Live PROVE Remembered1(n)'
  <2>1. Remembered1(n) /\ arrivals[n].time \in Nat
    BY LiveHasArrived DEF Remembers
  <2> QED
    BY <1>1, <2>1 DEF Remembered1
<1> QED
  BY <1>2 DEF Remembers

(* The endpoint holds an item of todo, or the queue does.                  *)
LEMMA EnqueueKeeps == ASSUME LayoverInv, EnqueueNext PROVE LayoverInv'
<1>1. /\ todo # <<>> /\ todo' = Tail(todo)
      /\ UNCHANGED <<scenario, wire, arrivals, seen, clock, notices, call>>
  BY DEF EnqueueNext, tagVars
<1> UNCHANGED <<announced, notice, told, forgotten>>
  BY <1>1 DEF notices
<1>2. UNCHANGED <<worker, current, stopper>>
  BY DEF EnqueueNext, Queue!EnqueueAccepted, Queue!EnqueueRejected, Queue!tasks
<1>3. /\ Holdings /\ Head(todo) \in Arrived /\ Tail(todo) \in Seq(Arrived)
      /\ Head(todo) = todo[1] /\ 1 \in DOMAIN todo
      /\ \A i \in DOMAIN Tail(todo) : i + 1 \in DOMAIN todo /\ Tail(todo)[i] = todo[i + 1]
  BY <1>1 DEF LayoverInv, Holdings
<1>4. \/ queue' = queue /\ accepted' = accepted
      \/ /\ queue' = Append(queue, [event |-> Head(todo), retry |-> 0])
         /\ accepted' = Append(accepted, Head(todo))
  BY DEF EnqueueNext, Queue!EnqueueAccepted, Queue!EnqueueRejected, Queue!Put, Queue!history
<1>5. Holdings'
  <2>1. [event |-> Head(todo), retry |-> 0] \in Waiting
    BY <1>3 DEF Waiting
  <2>2. queue \in Seq(Waiting) /\ accepted \in Seq(Arrived)
    BY <1>3 DEF Holdings
  <2>3. /\ Append(queue, [event |-> Head(todo), retry |-> 0]) \in Seq(Waiting)
        /\ Append(accepted, Head(todo)) \in Seq(Arrived)
    BY <1>3, <2>1, <2>2, AppendProperties
  <2>4. queue' \in Seq(Waiting) /\ accepted' \in Seq(Arrived)
    BY <1>4, <2>2, <2>3
  <2> QED
    BY <1>1, <1>2, <1>3, <2>4 DEF Holdings, Arrived, Waiting
<1>6. Live' \subseteq Live
  <2>1. \A i \in DOMAIN todo' : todo'[i].arrival \in Live
    BY <1>1, <1>3 DEF Live
  <2>2. \A i \in DOMAIN accepted' : accepted'[i].arrival \in Live
    <3>1. CASE accepted' = accepted
      BY <3>1 DEF Live
    <3>2. CASE accepted' = Append(accepted, Head(todo))
      <4>1. DOMAIN accepted' = 1..Len(accepted) + 1 /\ DOMAIN accepted = 1..Len(accepted)
        BY <1>3, <3>2, SeqFacts DEF Holdings
      <4>2. ASSUME NEW i \in DOMAIN accepted'
            PROVE  \/ i \in DOMAIN accepted /\ accepted'[i] = accepted[i]
                   \/ accepted'[i] = todo[1]
        BY <1>3, <3>2, <4>1, SeqFacts DEF Holdings
      <4> QED
        BY <1>3, <4>2 DEF Live
    <3> QED
      BY <1>4, <3>1, <3>2
  <2> QED
    BY <2>1, <2>2 DEF Live
<1>7. Remembers'
  BY <1>1, <1>3, <1>6, StillRemembers DEF LayoverInv, Holdings
<1>8. Alone'
  BY <1>1, <1>2 DEF LayoverInv, Alone
<1>9. Announcements'
  BY <1>1, <1>2 DEF LayoverInv, Announcements, ChannelsToldOnce, Delivery, notices
<1> QED
  BY <1>5, <1>7, <1>8, <1>9 DEF LayoverInv

(* A step that leaves the endpoint and what was accepted alone.            *)
LEMMA CarriesOn ==
    ASSUME LayoverInv, UNCHANGED <<scenario, wire, arrivals, todo, seen, clock, accepted>>,
           queue' \in Seq(Waiting), worker' = "handling" => current' \in Waiting
    PROVE  Holdings' /\ Remembers'
<1>1. Holdings'
  BY DEF LayoverInv, Holdings, Arrived, Waiting
<1>2. Live' = Live /\ clock \in Nat
  BY DEF LayoverInv, Live, Holdings
<1> QED
  BY <1>1, <1>2, StillRemembers DEF LayoverInv

(* A step that tells nobody anything.                                      *)
LEMMA TellsNobody ==
    ASSUME Announcements, UNCHANGED <<announced, told, forgotten>>,
           notice' # {} => /\ notice # {} /\ current' = current
                           /\ Delivery(current)' = Delivery(current)
    PROVE  Announcements'
BY DEF Announcements, ChannelsToldOnce

(* A delivery arrives.  What is remembered longer than the TTL is over.    *)
LEMMA ArriveRemembers ==
    ASSUME LayoverInv, NEW id \in DOMAIN wire, NEW sound \in BOOLEAN, Arrive(id, sound)
    PROVE  Holdings' /\ Remembers'
<1>0. PICK last : last = Len(arrivals) + 1
  OBVIOUS
<1>1. /\ arrivals' = Append(arrivals, [id |-> id, time |-> clock])
      /\ seen' = IF IsDuplicate(id) THEN Evicted ELSE Remembered(id)
      /\ todo' = IF IsDuplicate(id) \/ ~sound THEN <<>> ELSE ItemsOf(Len(arrivals'))
      /\ UNCHANGED <<scenario, wire, clock, queue, worker, current, accepted>>
  BY DEF Arrive, queueVars
<1>2. /\ Holdings /\ Remembers /\ clock \in Nat /\ TTL \in Nat
      /\ arrivals \in Seq([id : Nat, time : Nat])
      /\ \A i \in DOMAIN seen : seen[i] \in Nat
  BY LayoverAssumption DEF LayoverInv, Holdings
<1>3. [id |-> id, time |-> clock] \in [id : Nat, time : Nat]
  <2>1. wire \in Seq(News \cup {"tag", "other"})
    BY <1>2 DEF Holdings
  <2>2. id \in Nat
    BY <2>1, LenProperties
  <2> QED
    BY <1>2, <2>2
<1>4. /\ arrivals' \in Seq([id : Nat, time : Nat]) /\ Len(arrivals) \in Nat
      /\ Len(arrivals') = last /\ arrivals'[last] = [id |-> id, time |-> clock]
      /\ \A n \in 1..Len(arrivals) : arrivals'[n] = arrivals[n]
  BY <1>0, <1>1, <1>2, <1>3, AppendProperties, LenProperties
<1>5. last = Len(arrivals) + 1 /\ Arrived \subseteq Arrived' /\ Waiting \subseteq Waiting'
  BY <1>0, <1>4 DEF Arrived, Waiting
<1>6. todo' = <<>> \/ (~IsDuplicate(id) /\ todo' = ItemsOf(last))
  BY <1>1, <1>4
<1>7. ItemsOf(last) \in Seq(Arrived') /\ \A i \in DOMAIN ItemsOf(last) : ItemsOf(last)[i].arrival = last
  <2>1. scenario.enabled \in Seq(Handlers)
    BY <1>2, LayoverAssumption DEF Holdings
  <2>2. last \in 1..Len(arrivals')
    BY <1>4, <1>5
  <2>3. ASSUME NEW i \in DOMAIN scenario.enabled
        PROVE  [arrival |-> last, handler |-> scenario.enabled[i]] \in Arrived'
    BY <2>1, <2>2, Elements DEF Arrived
  <2>4. ItemsOf(last) \in [1..Len(scenario.enabled) -> Arrived'] /\ Len(scenario.enabled) \in Nat
    BY <2>1, <2>3, LenProperties DEF ItemsOf
  <2>5. ItemsOf(last) \in Seq(Arrived')
    BY <2>4, SeqDef
  <2> QED
    BY <2>5 DEF ItemsOf
<1>8. Holdings'
  <2>1. \A i \in DOMAIN seen' : seen'[i] \in Nat
    BY <1>1, <1>2 DEF Evicted, Remembered
  <2>2. todo' \in Seq(Arrived')
    BY <1>6, <1>7, EmptySeq
  <2>3. accepted \in Seq(Arrived) /\ queue \in Seq(Waiting)
    BY <1>2 DEF Holdings
  <2>4. accepted' \in Seq(Arrived') /\ queue' \in Seq(Waiting')
    BY <1>1, <1>5, <2>3, SeqMonotonic
  <2> QED
    BY <1>1, <1>2, <1>4, <1>5, <2>1, <2>2, <2>4 DEF Holdings
<1>9. \A n \in Live' : n \in Live \/ (n = last /\ ~IsDuplicate(id))
  <2>1. \A i \in DOMAIN todo' : todo'[i].arrival = last /\ ~IsDuplicate(id)
    BY <1>6, <1>7
  <2> QED
    BY <1>1, <2>1 DEF Live
<1>10. \A n \in Live : n \in 1..Len(arrivals) /\ arrivals[n].time \in Nat /\ n # last
  BY <1>2, <1>4, <1>5, LiveHasArrived
<1>11. ASSUME NEW n \in Live PROVE Remembered1(n)'
  <2>1. /\ Remembered1(n) /\ arrivals'[n] = arrivals[n] /\ arrivals[n].time \in Nat
    BY <1>2, <1>4, <1>10 DEF Remembers
  <2>2. CASE arrivals[n].id \in DOMAIN Evicted
    <3>1. /\ arrivals[n].id \in DOMAIN seen
          /\ Evicted[arrivals[n].id] = seen[arrivals[n].id]
          /\ seen[arrivals[n].id] \in Nat
      BY <1>2, <2>2 DEF Evicted
    <3>2. /\ arrivals[n].id \in DOMAIN seen'
          /\ \/ seen'[arrivals[n].id] = seen[arrivals[n].id]
             \/ arrivals[n].id = id /\ ~IsDuplicate(id)
      BY <1>1, <2>2, <3>1 DEF Remembered
    <3>3. arrivals[n].id = id => IsDuplicate(id)
      BY <2>2 DEF IsDuplicate
    <3> QED
      BY <1>1, <1>2, <2>1, <3>1, <3>2, <3>3 DEF Remembered1
  <2>3. CASE arrivals[n].id \notin DOMAIN Evicted
    <3>1. clock > arrivals[n].time + TTL
      <4>1. CASE clock > arrivals[n].time + TTL
        BY <4>1
      <4>2. CASE arrivals[n].id \in DOMAIN seen /\ seen[arrivals[n].id] >= arrivals[n].time
        <5>1. ~(seen[arrivals[n].id] + TTL >= clock)
          BY <2>3, <4>2 DEF Evicted
        <5>2. seen[arrivals[n].id] \in Nat
          BY <1>2, <4>2
        <5> QED
          BY <1>2, <2>1, <4>2, <5>1, <5>2
      <4> QED
        BY <2>1, <4>1, <4>2 DEF Remembered1
    <3> QED
      BY <1>1, <2>1, <3>1 DEF Remembered1
  <2> QED
    BY <2>2, <2>3
<1>12. ASSUME ~IsDuplicate(id) PROVE Remembered1(last)'
  <2>1. id \in DOMAIN seen' /\ seen'[id] = clock
    BY <1>1, <1>12 DEF Remembered
  <2> QED
    BY <1>2, <1>4, <2>1 DEF Remembered1
<1>13. ASSUME ~IsDuplicate(id), NEW m \in Live, arrivals'[m].id = id
       PROVE  clock > arrivals[m].time + TTL
  <2>1. /\ Remembered1(m) /\ arrivals[m].id = id /\ arrivals[m].time \in Nat
    BY <1>2, <1>4, <1>10, <1>13 DEF Remembers
  <2>2. CASE id \in DOMAIN seen
    <3>1. ~(seen[id] + TTL >= clock) /\ seen[id] \in Nat
      BY <1>2, <1>13, <2>2 DEF IsDuplicate, Evicted
    <3> QED
      BY <1>2, <2>1, <3>1 DEF Remembered1
  <2>3. CASE id \notin DOMAIN seen
    BY <2>1, <2>3 DEF Remembered1
  <2> QED
    BY <2>2, <2>3
<1>14. ASSUME NEW m \in Live', NEW n \in Live', m < n, arrivals'[m].id = arrivals'[n].id
       PROVE  arrivals'[n].time > arrivals'[m].time + TTL
  <2>1. CASE m \in Live /\ n \in Live
    BY <1>2, <1>4, <1>10, <1>14, <2>1 DEF Remembers
  <2>2. CASE m \in Live /\ n = last /\ ~IsDuplicate(id)
    <3>1. arrivals'[n] = [id |-> id, time |-> clock] /\ arrivals'[m] = arrivals[m]
      BY <1>4, <1>10, <2>2
    <3> QED
      BY <1>13, <1>14, <2>2, <3>1
  <2>3. CASE m = last
    BY <1>4, <1>5, <1>9, <1>10, <1>14, <2>3
  <2> QED
    BY <1>9, <2>1, <2>2, <2>3
<1>15. Remembers'
  BY <1>9, <1>11, <1>12, <1>14, <1>1 DEF Remembers
<1> QED
  BY <1>8, <1>15

LEMMA ArriveKeeps ==
    ASSUME LayoverInv, NEW id \in DOMAIN wire, NEW sound \in BOOLEAN, Arrive(id, sound)
    PROVE  LayoverInv'
<1>1. /\ UNCHANGED <<announced, notice, told, forgotten, call, worker, current, stopper>>
      /\ arrivals' = Append(arrivals, [id |-> id, time |-> clock])
  BY DEF Arrive, notices, queueVars, tagVars
<1>2. Alone'
  BY <1>1 DEF LayoverInv, Alone
<1>3. notice # {} => Delivery(current)' = Delivery(current)
  <2>1. SUFFICES ASSUME notice # {} PROVE Delivery(current)' = Delivery(current)
    OBVIOUS
  <2>2. current \in Waiting
    BY <2>1 DEF LayoverInv, Alone, Holdings
  <2>3. current.event.arrival \in 1..Len(arrivals)
    BY <2>2 DEF Waiting, Arrived
  <2>4. arrivals \in Seq([id : Nat, time : Nat])
    BY DEF LayoverInv, Holdings
  <2>5. Append(arrivals, [id |-> id, time |-> clock])[current.event.arrival]
          = arrivals[current.event.arrival]
    BY <2>3, <2>4
  <2> QED
    BY <1>1, <2>5 DEF Delivery
<1>4. Announcements'
  BY <1>1, <1>3, TellsNobody DEF LayoverInv
<1> QED
  BY <1>2, <1>4, ArriveRemembers DEF LayoverInv

----------------------------------------------------------------------------
(* What the steps of the queue do to the worker and what it holds.         *)
LEMMA GetFacts ==
    ASSUME Holdings, Queue!Get
    PROVE  /\ worker = "idle" /\ worker' = "handling"
           /\ current' \in Waiting /\ queue' \in Seq(Waiting)
           /\ UNCHANGED <<accepted, stopper>>
<1>1. queue # <<>> /\ queue \in Seq(Waiting)
  BY DEF Queue!Get, Holdings
<1>2. Head(queue) \in Waiting /\ Tail(queue) \in Seq(Waiting)
  BY <1>1, HeadTailProperties
<1> QED
  BY <1>2 DEF Queue!Get

LEMMA HandlerEndFacts ==
    ASSUME Holdings,
           \/ Queue!HandlerReturns \/ Queue!HandlerFailsAndIsRetried
           \/ Queue!HandlerFailsForGood
    PROVE  /\ worker = "handling" /\ worker' = "sleeping"
           /\ queue' \in Seq(Waiting) /\ UNCHANGED <<accepted, stopper>>
<1>1. worker = "handling" /\ worker' = "sleeping" /\ UNCHANGED <<accepted, stopper>>
  BY DEF Queue!HandlerReturns, Queue!HandlerFailsAndIsRetried, Queue!HandlerFailsForGood,
         Queue!FinishItem, Queue!ItemEndsAt
<1>2. current \in Waiting /\ queue \in Seq(Waiting)
  BY <1>1 DEF Holdings
<1>3. [current EXCEPT !.retry = @ + 1] \in Waiting
  BY <1>2 DEF Waiting
<1>4. Append(queue, [current EXCEPT !.retry = @ + 1]) \in Seq(Waiting)
  BY <1>2, <1>3, AppendProperties
<1>5. queue' = queue \/ queue' = Append(queue, [current EXCEPT !.retry = @ + 1])
  BY DEF Queue!HandlerReturns, Queue!HandlerFailsAndIsRetried, Queue!HandlerFailsForGood,
         Queue!Put
<1> QED
  BY <1>1, <1>2, <1>4, <1>5

LEMMA QuietQueueFacts ==
    ASSUME Alone, Queue!WakeUp \/ Queue!StopReturns \/ Queue!Start \/ Queue!StopDrains
    PROVE  /\ UNCHANGED <<queue, current, accepted>>
           /\ worker' = "handling" <=> worker = "handling"
           /\ stopper' = "awaiting" => worker' = "cancelled"
BY DEF Alone, Queue!WakeUp, Queue!StopReturns, Queue!Start, Queue!StopDrains, Queue!BeginStop,
       Queue!contents, Queue!history

LEMMA CancelFacts ==
    ASSUME Queue!StopWithoutDraining \/ Queue!Drained \/ Queue!DrainTimesOut
    PROVE  worker' = "cancelled" /\ UNCHANGED <<queue, accepted>>
BY DEF Queue!StopWithoutDraining, Queue!Drained, Queue!DrainTimesOut, Queue!CancelWorker,
       Queue!contents

----------------------------------------------------------------------------
(* The worker takes an item: nothing was under way.                        *)
LEMMA BeginsKeep ==
    ASSUME LayoverInv, TagIInv, ReleaseBegins \/ MergeBegins \/ NotifyBegins
    PROVE  LayoverInv'
<1>0. Self \in Callers
  BY LayoverAssumption
<1>1. Queue!Get /\ UNCHANGED ingress
  BY DEF ReleaseBegins, MergeBegins, NotifyBegins, Gets
<1>2. /\ worker = "idle" /\ worker' = "handling" /\ current' \in Waiting
      /\ queue' \in Seq(Waiting) /\ UNCHANGED <<accepted, stopper>>
  BY <1>1, GetFacts DEF LayoverInv
<1>3. notice = {} /\ call[Self].at = "idle" /\ stopper # "awaiting"
  BY <1>2 DEF LayoverInv, Alone
<1>4. Holdings' /\ Remembers'
  BY <1>1, <1>2, CarriesOn DEF ingress
<1>5. CASE ReleaseBegins \/ MergeBegins
  <2>1. UNCHANGED <<announced, notice, told, forgotten>>
    BY <1>5 DEF ReleaseBegins, MergeBegins, notices
  <2> QED
    BY <1>2, <1>3, <1>4, <2>1, TellsNobody DEF LayoverInv, Alone
<1>6. CASE NotifyBegins
  <2> DEFINE id == Delivery(current')
  <2>1. Alone'
    BY <1>2, <1>3, <1>6 DEF Alone, NotifyBegins, tagVars
  <2>2. CASE id \in announced
    BY <1>3, <1>4, <1>6, <2>1, <2>2, TellsNobody DEF LayoverInv, NotifyBegins, notices
  <2>3. CASE id \notin announced
    <3>1. /\ told' = told /\ announced' \in Marked(id)
          /\ forgotten' = IF Overfull(id) THEN forgotten \cup (Known(id) \ announced')
                          ELSE forgotten
      BY <1>6, <2>3 DEF NotifyBegins
    <3>2. Known(id) \subseteq announced' \cup forgotten' /\ forgotten \subseteq forgotten'
      BY <3>1 DEF Marked
    <3>3. \A t \in told : t.id = id => t.id \in forgotten
      BY <2>3 DEF LayoverInv, Announcements
    <3>4. Delivery(current)' = id
      BY <1>1 DEF Delivery, ingress
    <3>5. announced \cup {id} \subseteq announced' \cup forgotten'
      BY <3>2 DEF Known
    <3>6. Announcements'
      BY <3>1, <3>2, <3>3, <3>4, <3>5 DEF LayoverInv, Announcements, ChannelsToldOnce
    <3> QED
      BY <1>4, <2>1, <3>6 DEF LayoverInv
  <2> QED
    BY <2>2, <2>3
<1> QED
  BY <1>5, <1>6, <1>1 DEF ReleaseBegins, MergeBegins, NotifyBegins

(* A channel is told, or not.                                              *)
LEMMA NotifyKeeps ==
    ASSUME LayoverInv, NEW ch \in Channels, Notify(ch)
    PROVE  LayoverInv'
<1> DEFINE news1 == [channel |-> ch, id |-> Delivery(current),
                     arrival |-> current.event.arrival]
<1>1. /\ notice # {} /\ notice' \subseteq notice
      /\ told' = told \/ told' = told \cup {news1}
      /\ UNCHANGED <<announced, forgotten, scenario, wire, arrivals, todo, seen, clock,
                     queue, worker, current, stopper, accepted, call>>
  BY DEF Notify, ingress, queueVars, tagVars
<1>2. Holdings' /\ Remembers'
  BY <1>1, CarriesOn DEF LayoverInv, Holdings
<1>3. Alone'
  BY <1>1 DEF LayoverInv, Alone
<1>4. Delivery(current)' = Delivery(current)
  BY <1>1 DEF Delivery
<1>5. /\ Announcements /\ Delivery(current) \in announced \cup forgotten
      /\ \A t \in told : t.id = Delivery(current) /\ t.arrival # current.event.arrival
                            => t.id \in forgotten
  BY <1>1 DEF LayoverInv, Announcements
<1>6. /\ news1.id = Delivery(current) /\ news1.arrival = current.event.arrival
  OBVIOUS
<1> HIDE DEF news1
<1>7. \A t \in told' : t \in told \/ t = news1
  BY <1>1
<1>8. \A t \in told' : t.id \in announced \cup forgotten
  BY <1>5, <1>6, <1>7 DEF Announcements
<1>9. \A t \in told' : t.id = Delivery(current) /\ t.arrival # current.event.arrival
                          => t.id \in forgotten
  BY <1>5, <1>6, <1>7
<1>10. \A t, u \in told' : t.channel = u.channel /\ t.id = u.id /\ t.arrival # u.arrival
                              => t.id \in forgotten
  BY <1>5, <1>6, <1>7 DEF Announcements, ChannelsToldOnce
<1>11. Announcements'
  BY <1>1, <1>4, <1>5, <1>8, <1>9, <1>10 DEF Announcements, ChannelsToldOnce
<1> QED
  BY <1>2, <1>3, <1>11 DEF LayoverInv

(* A step of another handler, or of another process.                       *)
LEMMA OtherHandlersKeep ==
    ASSUME LayoverInv, UNCHANGED <<ingress, notices, queueVars>>,
           call'[Self].at = call[Self].at \/ Running(Self)
    PROVE  LayoverInv'
<1>1. UNCHANGED <<scenario, wire, arrivals, todo, seen, clock, announced, notice, told,
                  forgotten, queue, worker, current, stopper, accepted>>
  BY DEF ingress, notices, queueVars
<1>2. Holdings' /\ Remembers'
  BY <1>1, CarriesOn DEF LayoverInv, Holdings
<1>3. Alone'
  BY <1>1 DEF LayoverInv, Alone, Running
<1>4. Announcements'
  BY <1>1, TellsNobody DEF LayoverInv, Delivery
<1> QED
  BY <1>2, <1>3, <1>4 DEF LayoverInv

LEMMA HandlerStepKeeps == ASSUME LayoverInv, TagIInv, HandlerStep PROVE LayoverInv'
<1>1. CASE PushStep(Self) /\ UNCHANGED <<mergeVars, queueVars, ingress, notices>>
  <2>1. Running(Self)
    BY <1>1 DEF PushStep, Running, ReadCanonical, Restore, PushObject, PushUnanswered,
                ReadBack, GitFails
  <2> QED
    BY <1>1, <2>1, OtherHandlersKeep
<1>2. CASE UNCHANGED <<tagVars, queueVars, ingress, notices>>
  BY <1>2, OtherHandlersKeep DEF tagVars
<1> QED
  BY <1>1, <1>2, NotifyKeeps DEF HandlerStep

LEMMA OthersKeep == ASSUME LayoverInv, TagIInv, OthersPushTheTag PROVE LayoverInv'
<1>0. Self \in Callers /\ call \in [Callers -> Calls(Now)]
  BY LayoverAssumption DEF TagIInv
<1>1. call'[Self].at = call[Self].at
  <2>1. ASSUME NEW c \in Callers \ {Self},
               (\E v \in 1..Now : BeginPush(c, v)) \/ PushStep(c) \/ LetGo(c)
        PROVE  call'[Self] = call[Self]
    BY <1>0, <2>1 DEF BeginPush, LetGo, PushStep, ReadCanonical, Restore, PushObject,
                PushUnanswered, ReadBack, GitFails, Ends, Goes
  <2>2. ASSUME NEW c \in Callers, Checkout(c) PROVE call'[Self].at = call[Self].at
    BY <1>0, <2>2 DEF Checkout, Calls
  <2> QED
    BY <2>1, <2>2 DEF OthersPushTheTag, ForeignPush
<1> QED
  BY <1>1, OtherHandlersKeep DEF OthersPushTheTag

(* The handler ends, and forgets.                                          *)
LEMMA EndsKeep == ASSUME LayoverInv, TagIInv, HandlerReturns \/ HandlerRaises PROVE LayoverInv'
<1>0. Self \in Callers /\ call \in [Callers -> Calls(Now)]
  BY LayoverAssumption DEF TagIInv
<1>1. /\ \/ Queue!HandlerReturns \/ Queue!HandlerFailsAndIsRetried
         \/ Queue!HandlerFailsForGood
      /\ UNCHANGED <<ingress, notices>> /\ call'[Self].at = "idle"
  BY <1>0 DEF HandlerReturns, HandlerRaises, Forget, LetGo, Ends, NoPush
<1>2. notice = {}
  BY DEF HandlerReturns, HandlerRaises, AtRest, LayoverInv, Alone
<1>3. /\ worker' = "sleeping" /\ queue' \in Seq(Waiting) /\ UNCHANGED <<accepted, stopper>>
      /\ worker = "handling"
  BY <1>1, HandlerEndFacts DEF LayoverInv
<1>4. Holdings' /\ Remembers'
  BY <1>1, <1>3, CarriesOn DEF ingress
<1>5. Alone'
  BY <1>1, <1>2, <1>3 DEF LayoverInv, Alone, notices
<1>6. Announcements'
  BY <1>1, <1>2, TellsNobody DEF LayoverInv, notices
<1> QED
  BY <1>4, <1>5, <1>6 DEF LayoverInv

LEMMA QuietQueueKeeps == ASSUME LayoverInv, QueueGoesOn \/ OwnerCalls PROVE LayoverInv'
<1>1. /\ Queue!WakeUp \/ Queue!StopReturns \/ Queue!Start \/ Queue!StopDrains
      /\ UNCHANGED <<tagVars, ingress, notices>>
  BY DEF QueueGoesOn, OwnerCalls
<1>2. /\ UNCHANGED <<queue, current, accepted>>
      /\ worker' = "handling" <=> worker = "handling"
      /\ stopper' = "awaiting" => worker' = "cancelled"
  BY <1>1, QuietQueueFacts DEF LayoverInv
<1>3. Holdings' /\ Remembers'
  BY <1>1, <1>2, CarriesOn DEF LayoverInv, Holdings, ingress
<1>4. Alone'
  BY <1>1, <1>2 DEF LayoverInv, Alone, notices, tagVars
<1>5. Announcements'
  BY <1>1, <1>2, TellsNobody DEF LayoverInv, notices, ingress, Delivery
<1> QED
  BY <1>3, <1>4, <1>5 DEF LayoverInv

(* The worker is cancelled: what it had under way is cut short.            *)
LEMMA CancelKeeps == ASSUME LayoverInv, TagIInv, Cancel PROVE LayoverInv'
<1>0. Self \in Callers /\ call \in [Callers -> Calls(Now)]
  BY LayoverAssumption DEF TagIInv
<1>1. /\ worker' = "cancelled" /\ UNCHANGED <<queue, accepted>>
      /\ UNCHANGED <<ingress, announced, told, forgotten>>
      /\ notice' = {} /\ call'[Self].at = "idle"
  BY <1>0, CancelFacts DEF Cancel, CutAll, Forget, LetGo, Ends, NoPush
<1>2. Holdings' /\ Remembers'
  BY <1>1, CarriesOn DEF LayoverInv, Holdings, ingress
<1>3. Alone'
  BY <1>1 DEF Alone
<1>4. Announcements'
  BY <1>1, TellsNobody DEF LayoverInv
<1> QED
  BY <1>2, <1>3, <1>4 DEF LayoverInv

(* Another process begins: it remembers nothing, and has accepted nothing. *)
LEMMA RestartKeeps == ASSUME LayoverInv, TagIInv, Restart, todo = <<>> PROVE LayoverInv'
<1>0. Self \in Callers /\ call \in [Callers -> Calls(Now)]
  BY LayoverAssumption DEF TagIInv
<1>1. /\ seen' = NewMemory /\ queue' = <<>> /\ accepted' = <<>> /\ worker' = "none"
      /\ stopper' = "idle" /\ notice' = {} /\ call'[Self].at = "idle"
      /\ UNCHANGED <<told, scenario, wire, arrivals, todo, clock>>
      /\ announced' = {} /\ forgotten' = forgotten \cup announced
  BY <1>0 DEF Restart, CutAll, Forget, LetGo, Ends, NoPush
<1>2. Holdings'
  BY <1>1, EmptySeq DEF LayoverInv, Holdings, Arrived, NewMemory
<1>3. Live' = {}
  BY <1>1 DEF Live
<1>4. Remembers'
  BY <1>3 DEF Remembers
<1>5. Alone'
  BY <1>1 DEF Alone
<1>6. Announcements'
  BY <1>1 DEF LayoverInv, Announcements, ChannelsToldOnce
<1> QED
  BY <1>2, <1>4, <1>5, <1>6 DEF LayoverInv

(* The forge and the clock.                                                *)
LEMMA ForgeKeeps ==
    ASSUME LayoverInv, MergeTypeOK,
           ForgeTells \/ ForgeTellsOther \/ TagChanges \/ PullRequestChanges \/ Tick
    PROVE  LayoverInv'
<1>1. UNCHANGED <<scenario, arrivals, todo, seen, notices, queueVars, call>>
  BY DEF ForgeTells, ForgeTellsOther, TagChanges, PullRequestChanges, Tick, MoveTag, tagVars,
         ingress
<1>2. UNCHANGED <<announced, notice, told, forgotten, queue, worker, current, stopper,
                  accepted>>
  BY <1>1 DEF notices, queueVars
<1>3. \/ wire' = wire
      \/ \E what \in News \cup {"tag", "other"} : wire' = Append(wire, what)
  BY DEF ForgeTells, ForgeTellsOther, TagChanges, PullRequestChanges, Tick, Sends, ingress,
         MergeTypeOK
<1>4. wire' \in Seq(News \cup {"tag", "other"})
  <2>1. wire \in Seq(News \cup {"tag", "other"})
    BY DEF LayoverInv, Holdings
  <2> QED
    BY <1>3, <2>1, AppendProperties
<1>5. clock \in Nat /\ clock' \in Nat /\ clock' >= clock
  BY DEF ForgeTells, ForgeTellsOther, TagChanges, PullRequestChanges, Tick, LayoverInv,
         Holdings, ingress
<1>6. Holdings'
  BY <1>1, <1>2, <1>4, <1>5 DEF LayoverInv, Holdings, Arrived, Waiting
<1>7. Remembers'
  <2>1. Live' = Live
    BY <1>1, <1>2 DEF Live
  <2> QED
    BY <1>1, <1>5, <2>1, StillRemembers DEF LayoverInv
<1>8. Alone' /\ Announcements'
  BY <1>1, <1>2, TellsNobody DEF LayoverInv, Alone, Delivery
<1> QED
  BY <1>6, <1>7, <1>8 DEF LayoverInv

LEMMA LayoverStep ==
    LayoverInv /\ TagIInv /\ MergeIInv /\ [LayoverNext]_layoverVars => LayoverInv'
<1> SUFFICES ASSUME LayoverInv, TagIInv, MergeIInv, [LayoverNext]_layoverVars
             PROVE  LayoverInv'
  OBVIOUS
<1>1. CASE UNCHANGED layoverVars
  BY <1>1, OtherHandlersKeep DEF layoverVars, tagVars
<1>2. CASE EnqueueNext
  BY <1>2, EnqueueKeeps
<1>3. CASE todo = <<>> /\ (\/ ForgeTells \/ ForgeTellsOther \/ PullRequestChanges
                           \/ TagChanges \/ Tick)
  BY <1>3, ForgeKeeps DEF MergeIInv
<1>4. CASE OthersPushTheTag
  BY <1>4, OthersKeep
<1>5. ASSUME NEW id \in DOMAIN wire, NEW sound \in BOOLEAN, Arrive(id, sound)
      PROVE  LayoverInv'
  BY <1>5, ArriveKeeps
<1>6. CASE WorkerStep
  BY <1>6, BeginsKeep, HandlerStepKeeps, EndsKeep, QuietQueueKeeps DEF WorkerStep
<1>7. CASE OwnerCalls \/ Cancel
  BY <1>7, QuietQueueKeeps, CancelKeeps
<1>8. CASE todo = <<>> /\ Restart
  BY <1>8, RestartKeeps
<1> QED
  BY <1>1, <1>2, <1>3, <1>4, <1>5, <1>6, <1>7, <1>8 DEF LayoverNext

LEMMA InvGivesOnce == LayoverInv => OncePerDelivery
<1> SUFFICES ASSUME LayoverInv PROVE HandledOncePerId /\ ChannelsToldOnce
  BY DEF OncePerDelivery
<1>1. ASSUME NEW i \in DOMAIN accepted, NEW j \in DOMAIN accepted
      PROVE  accepted[i].arrival \in Live /\ accepted[j].arrival \in Live
  BY DEF Live
<1>2. HandledOncePerId
  BY <1>1 DEF HandledOncePerId, LayoverInv, Remembers
<1> QED
  BY <1>2 DEF LayoverInv, Announcements

(* However often and in whichever order the forge repeats its deliveries,  *)
(* and whatever the queue, the handlers and restarts do in between: an     *)
(* accepted delivery is accepted again only when its TTL is over, and no   *)
(* channel is told twice of one that is still known                        *)
(* (event_dedup.py:26-64, notification.py:46-60).                          *)
THEOREM RepeatedDeliveriesCountOnce == LayoverSpec => []OncePerDelivery
<1>1. LayoverInv /\ (TagIInv /\ MergeIInv) /\ [LayoverNext]_layoverVars => LayoverInv'
  BY LayoverStep
<1>2. LayoverSpec => []LayoverInv
  BY <1>1, InitHoldings, LayoverHandlers, PTL DEF LayoverSpec
<1> QED
  BY <1>2, InvGivesOnce, PTL

----------------------------------------------------------------------------
(* The queue of the layover is the queue of QueueManager, and what is     *)
(* proved of the one can be used for the other.                           *)
QP == INSTANCE QueueManager_proof WITH Events <- Items

LEMMA QueueSizes == QP!QueueAssumption
BY LayoverAssumption DEF QP!QueueAssumption

LEMMA SameInit == Queue!Init => QP!Init
BY DEF QP!Init, Queue!Init, QP!Counters, Queue!Counters, QP!NoItem, Queue!NoItem

LEMMA SameNext == Queue!Next => QP!Next
BY Zenon
   DEF QP!Next, Queue!Next, QP!Start, Queue!Start, QP!EnqueueAccepted, Queue!EnqueueAccepted,
       QP!EnqueueRejected, Queue!EnqueueRejected, QP!Worker, Queue!Worker, QP!Stop, Queue!Stop,
       QP!Get, Queue!Get, QP!HandlerReturns, Queue!HandlerReturns, QP!HandlerFailsAndIsRetried,
       Queue!HandlerFailsAndIsRetried, QP!HandlerFailsForGood, Queue!HandlerFailsForGood,
       QP!WakeUp, Queue!WakeUp, QP!StopDrains, Queue!StopDrains, QP!StopWithoutDraining,
       Queue!StopWithoutDraining, QP!Drained, Queue!Drained, QP!DrainTimesOut,
       Queue!DrainTimesOut, QP!StopReturns, Queue!StopReturns, QP!CancelWorker,
       Queue!CancelWorker, QP!BeginStop, Queue!BeginStop, QP!JoinReturns, Queue!JoinReturns,
       QP!MayRetry, Queue!MayRetry, QP!FinishItem, Queue!FinishItem, QP!ItemEndsAt,
       Queue!ItemEndsAt, QP!TaskDone, Queue!TaskDone, QP!Put, Queue!Put, QP!Refuses,
       Queue!Refuses, QP!Full, Queue!Full, QP!Bump, Queue!Bump, QP!Counters, Queue!Counters,
       QP!InSeq, Queue!InSeq, QP!NoItem, Queue!NoItem, QP!contents, Queue!contents, QP!tasks,
       Queue!tasks, QP!history, Queue!history

LEMMA SamePromises ==
    /\ QP!TypeOK => Queue!TypeOK
    /\ QP!CountsBalance => Queue!CountsBalance
    /\ QP!OnePlace => Queue!OnePlace
    /\ QP!FirstAttemptsInOrder => Queue!FirstAttemptsInOrder
    /\ QP!AttemptsBounded => Queue!AttemptsBounded
<1>1. QP!TypeOK => Queue!TypeOK
  BY DEF QP!TypeOK, Queue!TypeOK, QP!ContentsTypes, Queue!ContentsTypes, QP!TaskTypes,
         Queue!TaskTypes, QP!HistoryTypes, Queue!HistoryTypes, QP!Item, Queue!Item,
         QP!NoItem, Queue!NoItem, QP!Counters, Queue!Counters
<1>2. QP!CountsBalance => Queue!CountsBalance
  BY DEF QP!CountsBalance, Queue!CountsBalance, QP!EventsAccounted, Queue!EventsAccounted,
         QP!JoinCount, Queue!JoinCount, QP!MetricsMatch, Queue!MetricsMatch, QP!InFlight,
         Queue!InFlight
<1>3. QP!OnePlace => Queue!OnePlace
  BY Zenon DEF QP!OnePlace, Queue!OnePlace, QP!HasEvent, Queue!HasEvent, QP!Pending, Queue!Pending,
         QP!Settled, Queue!Settled, QP!InSeq, Queue!InSeq, QP!InHand, Queue!InHand
<1>4. QP!FirstAttemptsInOrder => Queue!FirstAttemptsInOrder
  BY Zenon DEF QP!FirstAttemptsInOrder, Queue!FirstAttemptsInOrder, QP!FreshEvents, Queue!FreshEvents,
         QP!FreshUpTo, Queue!FreshUpTo
<1>5. QP!AttemptsBounded => Queue!AttemptsBounded
  BY DEF QP!AttemptsBounded, Queue!AttemptsBounded
<1> QED
  BY <1>1, <1>2, <1>3, <1>4, <1>5, Zenon

LEMMA QueueInvKept ==
    ASSUME QP!QueueInv, Queue!Next \/ UNCHANGED queueVars \/ Queue!Init'
    PROVE  QP!QueueInv'
<1>1. CASE Queue!Next
  BY <1>1, SameNext, QP!StepQueueInv, QueueSizes
<1>2. CASE UNCHANGED queueVars
  <2>1. UNCHANGED QP!vars
    BY <1>2 DEF queueVars, QP!vars, QP!contents, QP!tasks, QP!history
  <2> QED
    BY <2>1, QP!StepQueueInv, QueueSizes
<1>3. CASE Queue!Init'
  <2>1. QP!Init'
    BY <1>3 DEF QP!Init, Queue!Init, QP!Counters, Queue!Counters, QP!NoItem, Queue!NoItem
  <2> QED
    BY <2>1, QP!InitQueueInv, QueueSizes, PTL
<1> QED
  BY <1>1, <1>2, <1>3

(* How far the histories of the layover reach: nothing is known of a      *)
(* delivery the forge has not sent, or from a time that has not come.     *)
Extent ==
    /\ Len(wire) <= scenario.arrivals /\ Len(arrivals) <= scenario.arrivals
    /\ \A i \in DOMAIN arrivals : arrivals[i].id \in DOMAIN wire /\ arrivals[i].time <= clock
    /\ DOMAIN seen \subseteq DOMAIN wire /\ \A id \in DOMAIN seen : seen[id] <= clock
    /\ clock <= scenario.time /\ restarts \in 0..scenario.restarts
    /\ announced \subseteq DOMAIN wire /\ Cardinality(announced) <= SeenLimit
    /\ forgotten \subseteq DOMAIN wire /\ notice \subseteq Channels
    /\ told \subseteq [channel : Channels, id : DOMAIN wire, arrival : DOMAIN arrivals]

(* One handler at a time: the merge handler is under way only while the   *)
(* worker handles an item, and no other handler is.                       *)
OneHandler == job # NoJob => worker = "handling" /\ notice = {} /\ call[Self].at = "idle"

ItemInv == QP!QueueInv /\ Extent /\ OneHandler

LEMMA ScenarioFacts ==
    ASSUME Holdings
    PROVE  /\ scenario.arrivals \in 0..MaxArrivals /\ scenario.time \in Nat
           /\ scenario.restarts \in Nat /\ MaxArrivals \in Nat
BY LayoverAssumption DEF Holdings

LEMMA HoldingsLengths ==
    ASSUME Holdings
    PROVE  /\ Len(wire) \in Nat /\ DOMAIN wire = 1..Len(wire)
           /\ Len(arrivals) \in Nat /\ DOMAIN arrivals = 1..Len(arrivals)
           /\ \A n \in DOMAIN arrivals : arrivals[n] \in [id : Nat, time : Nat]
<1>1. /\ wire \in Seq(News \cup {"tag", "other"})
      /\ arrivals \in Seq([id : Nat, time : Nat])
  BY DEF Holdings
<1> QED
  BY <1>1, LenProperties, ElementOfSeq

LEMMA ArrivedAreItems ==
    ASSUME Holdings, Extent
    PROVE  /\ Arrived \subseteq Items /\ todo \in Seq(Items)
           /\ \A i \in DOMAIN todo : todo[i] \in Items
<1>1. Len(arrivals) <= MaxArrivals /\ Len(arrivals) \in Nat /\ MaxArrivals \in Nat
  BY ScenarioFacts, HoldingsLengths DEF Extent
<1>2. Arrived \subseteq Items
  BY <1>1 DEF Arrived, Items
<1>3. todo \in Seq(Arrived)
  BY DEF Holdings
<1>4. todo \in Seq(Items)
  BY <1>2, <1>3, SeqMonotonic
<1> QED
  BY <1>2, <1>4, Elements

(* Every step of the layover is a step of its queue, leaves it alone, or  *)
(* restarts the process, whose queue begins anew.                         *)
LEMMA LayoverQueueStep ==
    ASSUME Holdings, Extent, [LayoverNext]_layoverVars
    PROVE  Queue!Next \/ UNCHANGED queueVars \/ (Queue!Init' /\ restarts' = restarts + 1)
<1>1. CASE UNCHANGED layoverVars
  BY <1>1 DEF layoverVars
<1>2. CASE EnqueueNext
  <2>1. Head(todo) \in Items
    BY <1>2, ArrivedAreItems, HeadTailProperties DEF EnqueueNext
  <2> QED
    BY <1>2, <2>1 DEF EnqueueNext, Queue!Next
<1>3. CASE ForgeTells \/ ForgeTellsOther \/ PullRequestChanges \/ TagChanges
           \/ OthersPushTheTag \/ Tick \/ HandlerStep
  BY <1>3 DEF ForgeTells, ForgeTellsOther, PullRequestChanges, TagChanges, OthersPushTheTag,
              Tick, HandlerStep, Notify
<1>4. ASSUME NEW id, NEW sound, Arrive(id, sound) PROVE UNCHANGED queueVars
  BY <1>4 DEF Arrive
<1>5. CASE ReleaseBegins \/ MergeBegins \/ NotifyBegins
  BY <1>5 DEF ReleaseBegins, MergeBegins, NotifyBegins, Gets, Queue!Next, Queue!Worker
<1>6. CASE HandlerReturns \/ HandlerRaises \/ QueueGoesOn
  BY <1>6 DEF HandlerReturns, HandlerRaises, QueueGoesOn, Queue!Next, Queue!Worker, Queue!Stop
<1>7. CASE OwnerCalls \/ Cancel
  BY <1>7 DEF OwnerCalls, Cancel, Queue!Next, Queue!Stop
<1>8. CASE Restart
  BY <1>8 DEF Restart, Queue!Init
<1> QED
  BY <1>1, <1>2, <1>3, <1>4, <1>5, <1>6, <1>7, <1>8 DEF LayoverNext, WorkerStep

LEMMA InitItemInv == LayoverInit => ItemInv
<1> SUFFICES ASSUME LayoverInit PROVE ItemInv
  OBVIOUS
<1>1. QP!QueueInv
  BY SameInit, QP!InitQueueInv, QueueSizes DEF LayoverInit
<1>2. OneHandler
  BY DEF LayoverInit, MergeInit, OneHandler
<1>3. Extent
  <2>1. Holdings
    BY InitHoldings DEF LayoverInv
  <2>2. Cardinality({}) = 0
    BY FS_EmptySet
  <2>3. Len(<<>>) = 0 /\ DOMAIN <<>> = {}
    OBVIOUS
  <2>4. /\ 0 <= scenario.arrivals /\ 0 <= scenario.time /\ 0 \in 0..scenario.restarts
        /\ 0 <= SeenLimit
    BY <2>1, ScenarioFacts, LayoverAssumption
  <2> QED
    BY <2>2, <2>3, <2>4 DEF LayoverInit, Extent, NewMemory
<1> QED
  BY <1>1, <1>2, <1>3 DEF ItemInv

LEMMA OneHandlerKept ==
    ASSUME LayoverInv, TagIInv, MergeIInv, OneHandler, [LayoverNext]_layoverVars
    PROVE  OneHandler'
<1>0. Self \in Callers /\ call \in [Callers -> Calls(Now)]
  BY LayoverAssumption DEF TagIInv
<1>1. /\ worker # "handling" => notice = {} /\ call[Self].at = "idle" /\ job = NoJob
      /\ notice # {} \/ call[Self].at # "idle" => job = NoJob
  BY DEF LayoverInv, Alone, OneHandler
<1>2. ASSUME job' # NoJob => job # NoJob, worker' = "handling" <=> worker = "handling",
             notice' \subseteq notice, call'[Self].at = call[Self].at
      PROVE  OneHandler'
  BY <1>2 DEF OneHandler
<1>3. ASSUME job' = NoJob PROVE OneHandler'
  BY <1>3 DEF OneHandler
<1>4. CASE UNCHANGED layoverVars
  BY <1>2, <1>4 DEF layoverVars, mergeVars, tagVars, queueVars, notices
<1>5. CASE EnqueueNext
  <2>1. worker' = worker
    BY <1>5 DEF EnqueueNext, Queue!EnqueueAccepted, Queue!EnqueueRejected, Queue!tasks
  <2> QED
    BY <1>2, <1>5, <2>1 DEF EnqueueNext, mergeVars, tagVars, notices
<1>6. CASE ForgeTells \/ ForgeTellsOther \/ TagChanges \/ Tick
  BY <1>2, <1>6 DEF ForgeTells, ForgeTellsOther, TagChanges, Tick, SendNews, MoveTag, mergeVars,
                    tagVars, queueVars, notices
<1>7. CASE PullRequestChanges
  <2>1. job' # NoJob => job # NoJob
    <3>1. job' = job \/ job' = [job EXCEPT !.pushed = job.head # NoHead]
      BY <1>7 DEF PullRequestChanges, ForgeChanges, Push, SetLabel, Close, StatusReports,
                  SuiteSucceeds
    <3>2. [NoJob EXCEPT !.pushed = NoJob.head # NoHead] = NoJob
      <4>1. NoJob.head = NoHead /\ NoJob.pushed = FALSE
        BY DEF NoJob
      <4>2. NoJob.pushed = (NoJob.head # NoHead)
        BY <4>1
      <4> QED
        BY <4>2 DEF NoJob
    <3> QED
      BY <3>1, <3>2
  <2> QED
    BY <1>2, <1>7, <2>1 DEF PullRequestChanges, tagVars, queueVars, notices
<1>8. CASE OthersPushTheTag
  <2>1. ASSUME NEW c \in Callers \ {Self},
               (\E v \in 1..Now : BeginPush(c, v)) \/ PushStep(c) \/ LetGo(c)
        PROVE  call'[Self] = call[Self]
    BY <1>0, <2>1 DEF BeginPush, LetGo, PushStep, ReadCanonical, Restore, PushObject,
                PushUnanswered, ReadBack, GitFails, Ends, Goes
  <2>2. ASSUME NEW c \in Callers, Checkout(c) PROVE call'[Self].at = call[Self].at
    BY <1>0, <2>2 DEF Checkout, Calls
  <2>3. call'[Self].at = call[Self].at
    BY <1>8, <2>1, <2>2 DEF OthersPushTheTag, ForeignPush
  <2> QED
    BY <1>2, <1>8, <2>3 DEF OthersPushTheTag, mergeVars, queueVars, notices
<1>9. ASSUME NEW id, NEW sound, Arrive(id, sound) PROVE OneHandler'
  BY <1>2, <1>9 DEF Arrive, mergeVars, tagVars, queueVars, notices
<1>10. CASE ReleaseBegins \/ NotifyBegins
  <2>1. worker = "idle" /\ UNCHANGED mergeVars
    BY <1>10 DEF ReleaseBegins, NotifyBegins, Gets, Queue!Get
  <2> QED
    BY <1>1, <1>3, <2>1 DEF mergeVars
<1>11. CASE MergeBegins
  <2>1. worker = "idle" /\ worker' = "handling" /\ UNCHANGED <<tagVars, notices>>
    BY <1>11 DEF MergeBegins, Gets, Queue!Get
  <2> QED
    BY <1>1, <2>1 DEF OneHandler, tagVars, notices
<1>12. CASE HandlerStep
  <2>1. CASE PushStep(Self) /\ UNCHANGED mergeVars
    <3>1. call[Self].at # "idle"
      BY <2>1 DEF PushStep, ReadCanonical, Restore, PushObject, PushUnanswered, ReadBack,
                  GitFails, Running
    <3> QED
      BY <1>1, <1>3, <2>1, <3>1 DEF mergeVars
  <2>2. CASE (HandlerSteps \/ HandlerFaults) /\ UNCHANGED <<tagVars, queueVars, notices>>
    <3>1. job.at # "idle"
      BY <2>2 DEF HandlerSteps, HandlerFaults, GetPullRequest, GetCiStatus, MergePullRequest,
                  MergeRefused, ReadAgain, DeleteTheBranch, StatusUnreadable, MergeUnanswered,
                  RequestFails
    <3>2. job # NoJob
      BY <3>1 DEF NoJob
    <3> QED
      BY <2>2, <3>2 DEF OneHandler, tagVars, queueVars, notices
  <2>3. ASSUME NEW ch \in Channels, Notify(ch) PROVE OneHandler'
    BY <1>2, <2>3 DEF Notify, mergeVars, tagVars, queueVars
  <2> QED
    BY <1>12, <2>1, <2>2, <2>3 DEF HandlerStep
<1>13. CASE HandlerReturns \/ HandlerRaises
  <2>1. job = NoJob
    BY <1>1, <1>13 DEF HandlerReturns, HandlerRaises, AtRest
  <2> QED
    BY <1>3, <1>13, <2>1 DEF HandlerReturns, HandlerRaises, mergeVars
<1>14. CASE QueueGoesOn \/ OwnerCalls
  <2>1. worker' = "handling" <=> worker = "handling"
    BY <1>14, QuietQueueFacts DEF QueueGoesOn, OwnerCalls, LayoverInv
  <2> QED
    BY <1>2, <1>14, <2>1 DEF QueueGoesOn, OwnerCalls, mergeVars, tagVars, notices
<1>15. CASE Cancel \/ Restart
  BY <1>3, <1>15 DEF Cancel, Restart, CutAll, CutShort, Returns
<1> QED
  BY <1>4, <1>5, <1>6, <1>7, <1>8, <1>9, <1>10, <1>11, <1>12, <1>13, <1>14, <1>15
     DEF LayoverNext, WorkerStep

----------------------------------------------------------------------------
(* Steps that at most let time pass and the forge send.                   *)
LEMMA ExtentGrows ==
    ASSUME Holdings, Extent, DOMAIN wire \subseteq DOMAIN wire', Len(wire') <= scenario.arrivals,
           UNCHANGED <<scenario, arrivals, seen, restarts, announced, told, forgotten>>,
           clock' \in Nat, clock' >= clock, clock' <= scenario.time, notice' \subseteq notice
    PROVE  Extent'
<1>1. /\ clock \in Nat /\ \A i \in DOMAIN arrivals : arrivals[i].time \in Nat
      /\ \A id \in DOMAIN seen : seen[id] \in Nat
  BY HoldingsLengths DEF Holdings
<1>2. \A i \in DOMAIN arrivals : arrivals[i].id \in DOMAIN wire' /\ arrivals[i].time <= clock'
  BY <1>1 DEF Extent
<1>3. \A id \in DOMAIN seen : seen[id] <= clock'
  BY <1>1 DEF Extent
<1>4. told \subseteq [channel : Channels, id : DOMAIN wire', arrival : DOMAIN arrivals]
  BY DEF Extent
<1> QED
  BY <1>2, <1>3, <1>4 DEF Extent

LEMMA ExtentSame ==
    ASSUME Holdings, Extent, notice' \subseteq notice,
           UNCHANGED <<scenario, wire, arrivals, seen, clock, restarts, announced, told, forgotten>>
    PROVE  Extent'
BY DEF Extent

LEMMA SentExtent ==
    ASSUME Holdings, Extent, UNCHANGED <<arrivals, seen, restarts, notices, scenario>>,
           wire' = wire \/ (\E what \in News \cup {"tag", "other"} : Sends(what)),
           clock' = clock \/ (clock' = clock + 1 /\ clock < scenario.time)
    PROVE  Extent'
<1>1. wire \in Seq(News \cup {"tag", "other"}) /\ Len(wire) \in Nat /\ DOMAIN wire = 1..Len(wire)
  BY HoldingsLengths DEF Holdings
<1>2. DOMAIN wire \subseteq DOMAIN wire' /\ Len(wire') <= scenario.arrivals
  <2>1. CASE wire' = wire
    BY <2>1 DEF Extent
  <2>2. ASSUME NEW what \in News \cup {"tag", "other"}, Sends(what)
        PROVE  DOMAIN wire \subseteq DOMAIN wire' /\ Len(wire') <= scenario.arrivals
    <3>1. wire' = Append(wire, what) /\ Len(wire) < scenario.arrivals
      BY <2>2 DEF Sends
    <3>2. Len(wire') = Len(wire) + 1 /\ DOMAIN wire' = 1..Len(wire) + 1
      <4> DEFINE S == News \cup {"tag", "other"}
      <4>1. wire \in Seq(S) /\ what \in S
        BY <1>1
      <4> HIDE DEF S
      <4>2. /\ Append(wire, what) \in Seq(S)
            /\ Len(Append(wire, what)) = Len(wire) + 1
        BY <4>1, AppendProperties
      <4>3. DOMAIN Append(wire, what) = 1..Len(Append(wire, what))
        BY <4>2, LenProperties
      <4> QED
        BY <3>1, <4>2, <4>3
    <3>3. scenario.arrivals \in Nat
      BY ScenarioFacts
    <3>4. Len(wire') <= scenario.arrivals
      <4>1. Len(wire) \in Nat /\ Len(wire) < scenario.arrivals /\ Len(wire') = Len(wire) + 1
        BY <1>1, <3>1, <3>2
      <4> QED
        BY <3>3, <4>1
    <3>5. DOMAIN wire \subseteq DOMAIN wire'
      BY <1>1, <3>2
    <3> QED
      BY <3>4, <3>5
  <2> QED
    BY <2>1, <2>2
<1>3. clock \in Nat /\ scenario.time \in Nat /\ clock <= scenario.time
  BY ScenarioFacts DEF Holdings, Extent
<1>4. clock' \in Nat /\ clock' >= clock /\ clock' <= scenario.time
  BY <1>3
<1> QED
  BY <1>2, <1>4, ExtentGrows DEF notices

LEMMA ArriveExtent ==
    ASSUME Holdings, Extent, NEW id \in DOMAIN wire, NEW sound, Arrive(id, sound)
    PROVE  Extent'
<1>1. /\ Len(arrivals) < scenario.arrivals
      /\ arrivals' = Append(arrivals, [id |-> id, time |-> clock])
      /\ seen' = Evicted \/ seen' = Remembered(id)
      /\ UNCHANGED <<scenario, wire, clock, restarts, announced, notice, told, forgotten>>
  BY DEF Arrive, notices
<1>2. /\ arrivals \in Seq([id : Nat, time : Nat]) /\ clock \in Nat
      /\ Len(arrivals) \in Nat /\ DOMAIN arrivals = 1..Len(arrivals)
      /\ scenario.arrivals \in Nat /\ id \in Nat
  BY HoldingsLengths, ScenarioFacts DEF Holdings
<1> DEFINE new == [id |-> id, time |-> clock]
<1>3. new \in [id : Nat, time : Nat] /\ new.id = id /\ new.time = clock
  BY <1>2
<1> HIDE DEF new
<1>4. /\ Len(arrivals') = Len(arrivals) + 1 /\ DOMAIN arrivals' = 1..Len(arrivals) + 1
      /\ arrivals'[Len(arrivals) + 1] = new
      /\ \A i \in 1..Len(arrivals) : arrivals'[i] = arrivals[i]
  <2>1. /\ Len(Append(arrivals, new)) = Len(arrivals) + 1
        /\ DOMAIN Append(arrivals, new) = 1..Len(arrivals) + 1
        /\ Append(arrivals, new)[Len(arrivals) + 1] = new
        /\ \A i \in 1..Len(arrivals) : Append(arrivals, new)[i] = arrivals[i]
    BY <1>2, <1>3
  <2>2. arrivals' = Append(arrivals, new)
    BY <1>1 DEF new
  <2> QED
    BY <2>1, <2>2
<1>5. Len(arrivals') <= scenario.arrivals
  BY <1>1, <1>2, <1>4
<1>6. ASSUME NEW i \in DOMAIN arrivals'
      PROVE  arrivals'[i].id \in DOMAIN wire /\ arrivals'[i].time <= clock
  <2>1. CASE i \in 1..Len(arrivals)
    BY <1>2, <1>4, <2>1 DEF Extent
  <2>2. CASE i = Len(arrivals) + 1
    BY <1>2, <1>3, <1>4, <2>2
  <2> QED
    BY <1>2, <1>4, <2>1, <2>2
<1>7. DOMAIN seen' \subseteq DOMAIN wire /\ \A d \in DOMAIN seen' : seen'[d] <= clock
  <2>1. DOMAIN Evicted \subseteq DOMAIN seen /\ \A d \in DOMAIN Evicted : Evicted[d] = seen[d]
    BY DEF Evicted
  <2>2. DOMAIN Evicted \subseteq DOMAIN wire /\ \A d \in DOMAIN Evicted : Evicted[d] <= clock
    BY <2>1 DEF Extent
  <2>3. /\ DOMAIN Remembered(id) \subseteq DOMAIN wire
        /\ \A d \in DOMAIN Remembered(id) : Remembered(id)[d] <= clock
    BY <1>2, <2>2 DEF Remembered
  <2> QED
    BY <1>1, <2>2, <2>3
<1>8. DOMAIN arrivals \subseteq DOMAIN arrivals'
  BY <1>2, <1>4
<1>9. told' \subseteq [channel : Channels, id : DOMAIN wire', arrival : DOMAIN arrivals']
  BY <1>1, <1>8 DEF Extent
<1> QED
  BY <1>1, <1>5, <1>6, <1>7, <1>9 DEF Extent

(* Whatever is kept of the announced ids, it is not more than SeenLimit.  *)
LEMMA NotifyBeginsExtent ==
    ASSUME Holdings, Extent, NotifyBegins PROVE Extent'
<1>1. Queue!Get /\ UNCHANGED ingress
  BY DEF NotifyBegins, Gets
<1> DEFINE id == Delivery(current')
<1>2. id \in DOMAIN wire
  <2>1. current' \in Waiting
    BY <1>1, GetFacts
  <2>2. current'.event.arrival \in DOMAIN arrivals
    BY <2>1, HoldingsLengths DEF Waiting, Arrived
  <2> QED
    BY <2>2 DEF Extent, Delivery
<1> HIDE DEF id
<1>3. CASE UNCHANGED notices
  BY <1>1, <1>3, ExtentSame DEF ingress, notices
<1>4. ASSUME announced' \in Marked(id), notice' = Channels, told' = told,
             forgotten' = IF Overfull(id) THEN forgotten \cup (Known(id) \ announced')
                          ELSE forgotten
      PROVE  Extent'
  <2>1. Known(id) \subseteq DOMAIN wire
    BY <1>2 DEF Known, Extent
  <2>2. announced' \subseteq DOMAIN wire /\ forgotten' \subseteq DOMAIN wire
    BY <1>4, <2>1 DEF Marked, Extent
  <2>3. IsFiniteSet(Known(id)) /\ Cardinality(Known(id)) \in Nat
    <3>1. Len(wire) \in Nat /\ DOMAIN wire = 1..Len(wire)
      BY HoldingsLengths
    <3>2. IsFiniteSet(DOMAIN wire)
      BY <3>1, FS_Interval
    <3>3. IsFiniteSet(Known(id))
      BY <2>1, <3>2, FS_Subset
    <3> QED
      BY <3>3, FS_CardinalityType
  <2>4. Cardinality(announced') <= SeenLimit
    BY <1>4, <2>3, LayoverAssumption DEF Marked, Overfull
  <2> QED
    BY <1>1, <1>4, <2>2, <2>4 DEF Extent, ingress
<1> QED
  BY <1>3, <1>4 DEF NotifyBegins, id

LEMMA NotifyExtent ==
    ASSUME Holdings, Alone, Extent, NEW ch \in Channels, Notify(ch) PROVE Extent'
<1> DEFINE news1 == [channel |-> ch, id |-> Delivery(current),
                     arrival |-> current.event.arrival]
<1>1. /\ notice # {} /\ notice' \subseteq notice
      /\ told' = told \/ told' = told \cup {news1}
      /\ UNCHANGED <<announced, forgotten, scenario, wire, arrivals, seen, clock, restarts>>
  BY DEF Notify, ingress
<1>2. current.event.arrival \in DOMAIN arrivals
  BY <1>1, HoldingsLengths DEF Alone, Holdings, Waiting, Arrived
<1>3. Delivery(current) \in DOMAIN wire
  BY <1>2 DEF Delivery, Extent
<1>4. news1 \in [channel : Channels, id : DOMAIN wire, arrival : DOMAIN arrivals]
  BY <1>2, <1>3
<1> QED
  BY <1>1, <1>4 DEF Extent

LEMMA RestartExtent == ASSUME Holdings, Extent, Restart PROVE Extent'
<1>1. /\ restarts' = restarts + 1 /\ restarts < scenario.restarts
      /\ seen' = NewMemory /\ announced' = {} /\ forgotten' = forgotten \cup announced
      /\ notice' = {} /\ UNCHANGED <<told, scenario, wire, arrivals, clock>>
  BY DEF Restart, CutAll
<1>2. restarts' \in 0..scenario.restarts
  BY <1>1, ScenarioFacts DEF Extent
<1>3. Cardinality(announced') <= SeenLimit
  BY <1>1, FS_EmptySet, LayoverAssumption
<1> QED
  BY <1>1, <1>2, <1>3 DEF Extent, NewMemory

LEMMA ExtentStep ==
    ASSUME LayoverInv, MergeIInv, Extent, [LayoverNext]_layoverVars PROVE Extent'
<1>0. Holdings /\ Alone /\ clock' = clock => clock' \in Nat
  BY DEF LayoverInv, Holdings
<1>1. CASE UNCHANGED layoverVars
  BY <1>1, ExtentSame DEF LayoverInv, layoverVars, ingress, notices
<1>2. CASE EnqueueNext
  BY <1>2, ExtentSame DEF LayoverInv, EnqueueNext, notices
<1>3. CASE ForgeTells \/ ForgeTellsOther \/ TagChanges \/ Tick
  <2>1. UNCHANGED <<arrivals, seen, restarts, notices, scenario>>
    BY <1>3 DEF ForgeTells, ForgeTellsOther, TagChanges, Tick, ingress
  <2>2. wire' = wire \/ (\E what \in News \cup {"tag", "other"} : Sends(what))
    BY <1>3 DEF ForgeTells, ForgeTellsOther, TagChanges, Tick, MergeIInv, MergeTypeOK
  <2>3. clock' = clock \/ (clock' = clock + 1 /\ clock < scenario.time)
    BY <1>3 DEF ForgeTells, ForgeTellsOther, TagChanges, Tick
  <2> QED
    BY <2>1, <2>2, <2>3, SentExtent DEF LayoverInv
<1>4. CASE PullRequestChanges \/ OthersPushTheTag \/ QueueGoesOn \/ OwnerCalls
           \/ HandlerReturns \/ HandlerRaises \/ ReleaseBegins \/ MergeBegins
  BY <1>4, ExtentSame
     DEF LayoverInv, PullRequestChanges, OthersPushTheTag, QueueGoesOn, OwnerCalls, HandlerReturns,
         HandlerRaises, ReleaseBegins, MergeBegins, ingress, notices
<1>5. ASSUME NEW id \in DOMAIN wire, NEW sound \in BOOLEAN, Arrive(id, sound) PROVE Extent'
  BY <1>5, ArriveExtent DEF LayoverInv
<1>6. CASE NotifyBegins
  BY <1>6, NotifyBeginsExtent DEF LayoverInv
<1>7. CASE HandlerStep
  <2>1. CASE UNCHANGED <<ingress, notices>>
    BY <2>1, ExtentSame DEF LayoverInv, ingress, notices
  <2>2. ASSUME NEW ch \in Channels, Notify(ch) PROVE Extent'
    BY <2>2, NotifyExtent DEF LayoverInv
  <2> QED
    BY <1>7, <2>1, <2>2 DEF HandlerStep
<1>8. CASE Cancel
  BY <1>8, ExtentSame DEF LayoverInv, Cancel, CutAll, ingress
<1>9. CASE Restart
  BY <1>9, RestartExtent DEF LayoverInv
<1> QED
  BY <1>1, <1>2, <1>3, <1>4, <1>5, <1>6, <1>7, <1>8, <1>9 DEF LayoverNext, WorkerStep

LEMMA ItemInvStep ==
    LayoverInv /\ TagIInv /\ MergeIInv /\ ItemInv /\ [LayoverNext]_layoverVars => ItemInv'
<1> SUFFICES ASSUME LayoverInv, TagIInv, MergeIInv, ItemInv, [LayoverNext]_layoverVars
             PROVE  ItemInv'
  OBVIOUS
<1>1. Queue!Next \/ UNCHANGED queueVars \/ Queue!Init'
  BY LayoverQueueStep, Zenon DEF LayoverInv, ItemInv
<1> QED
  BY <1>1, QueueInvKept, ExtentStep, OneHandlerKept DEF ItemInv

LEMMA OnItsLength ==
    ASSUME NEW S, NEW n \in Nat, NEW s \in [1..n -> S]
    PROVE  s \in Seq(S)
OBVIOUS

LEMMA ItemInvGivesTypes ==
    ASSUME LayoverInv, TagIInv, MergeIInv, ItemInv PROVE LayoverTypeOK
<1>1. TagTypeOK /\ MergeTypeOK /\ Queue!TypeOK
  <2>1. QP!TypeOK
    BY QP!QueueInvGives, QueueSizes DEF ItemInv
  <2> QED
    BY <2>1, SamePromises, TagIInvGivesTypes DEF MergeIInv
<1>2. Holdings /\ Extent /\ Alone /\ OneHandler
  BY DEF LayoverInv, ItemInv
<1>3. /\ scenario \in Scenarios /\ wire \in Seq({"tag", "other"} \cup News)
      /\ DOMAIN wire \subseteq 1..MaxArrivals
  <2>1. {"tag", "other"} \cup News = News \cup {"tag", "other"}
    OBVIOUS
  <2> QED
    BY <1>2, <2>1, HoldingsLengths, ScenarioFacts DEF Holdings, Extent
<1>4. arrivals \in Seq([id : DOMAIN wire, time : 0..clock])
  <2>1. /\ Len(arrivals) \in Nat /\ DOMAIN arrivals = 1..Len(arrivals)
        /\ \A n \in DOMAIN arrivals : arrivals[n] \in [id : Nat, time : Nat]
    BY <1>2, HoldingsLengths
  <2>2. \A n \in 1..Len(arrivals) : arrivals[n] \in [id : DOMAIN wire, time : 0..clock]
    <3> SUFFICES ASSUME NEW n \in 1..Len(arrivals)
                 PROVE  arrivals[n] \in [id : DOMAIN wire, time : 0..clock]
      OBVIOUS
    <3>1. arrivals[n] \in [id : Nat, time : Nat]
      BY <2>1
    <3>2. arrivals[n].id \in DOMAIN wire /\ arrivals[n].time <= clock /\ clock \in Nat
      BY <1>2, <2>1 DEF Extent, Holdings
    <3> QED
      BY <3>1, <3>2
  <2>3. arrivals \in [1..Len(arrivals) -> [id : DOMAIN wire, time : 0..clock]]
    <3>1. arrivals \in Seq([id : Nat, time : Nat])
      BY <1>2 DEF Holdings
    <3>2. arrivals \in [1..Len(arrivals) -> [id : Nat, time : Nat]]
      BY <3>1, LenProperties
    <3> QED
      BY <2>2, <3>2
  <2> QED
    BY <2>1, <2>3, OnItsLength
<1>5. todo \in Seq(Items)
  BY <1>2, ArrivedAreItems
<1>6. DOMAIN seen \subseteq DOMAIN wire /\ \A id \in DOMAIN seen : seen[id] \in 0..clock
  BY <1>2 DEF Extent, Holdings
<1>7. clock \in 0..scenario.time /\ restarts \in 0..scenario.restarts
  BY <1>2, ScenarioFacts DEF Extent, Holdings
<1>8. worker # "handling" => AtRest /\ call[Self].at = "idle"
  BY <1>2 DEF Alone, OneHandler, AtRest, Running
<1> QED
  BY <1>1, <1>2, <1>3, <1>4, <1>5, <1>6, <1>7, <1>8 DEF LayoverTypeOK, Extent

LEMMA LayoverItems == LayoverSpec => [](LayoverInv /\ TagIInv /\ MergeIInv /\ ItemInv)
<1>1. LayoverInv /\ (TagIInv /\ MergeIInv) /\ [LayoverNext]_layoverVars => LayoverInv'
  BY LayoverStep
<1> QED
  BY <1>1, ItemInvStep, InitHoldings, InitItemInv, LayoverHandlers, PTL DEF LayoverSpec

(* Every variable of the layover stays in its type, in every scenario:    *)
(* nothing is remembered or told of a delivery that was not sent, and     *)
(* whatever cuts the worker short leaves no handler under way             *)
(* (queue_manager.py:126-165, notification.py:46-60).                     *)
THEOREM LayoverTypes == LayoverSpec => []LayoverTypeOK
<1>1. LayoverInv /\ TagIInv /\ MergeIInv /\ ItemInv => LayoverTypeOK
  BY ItemInvGivesTypes
<1> QED
  BY <1>1, LayoverItems, PTL

(* The queue keeps in the layover what it promises by itself, although a  *)
(* restart may end it at any moment: its counters balance, an event has   *)
(* one place, first attempts are made in the order of acceptance, and     *)
(* retries stay within their bound (queue_manager.py:96-151).             *)
THEOREM QueueKeepsItsWord ==
    LayoverSpec => [](/\ Queue!CountsBalance /\ Queue!OnePlace
                      /\ Queue!FirstAttemptsInOrder /\ Queue!AttemptsBounded)
<1>1. ItemInv => /\ Queue!CountsBalance /\ Queue!OnePlace
                 /\ Queue!FirstAttemptsInOrder /\ Queue!AttemptsBounded
  BY QP!QueueInvGives, QueueSizes, SamePromises DEF ItemInv
<1> QED
  BY <1>1, LayoverItems, PTL

LEMMA LayoverQueueSteps ==
    ASSUME QP!QueueInv, Queue!Next \/ UNCHANGED queueVars
    PROVE  /\ stopper = "draining" /\ stopper' = "awaiting" /\ ~timedOut'
                => queue = <<>> /\ worker # "handling" /\ interrupted' = interrupted
           /\ [QP!Ledger!Next]_(QP!Ledger!vars)
<1>1. CASE Queue!Next
  <2>1. QP!Next
    BY <1>1, SameNext
  <2> QED
    BY <2>1, QP!QueueInvSteps, QueueSizes
<1>2. CASE UNCHANGED queueVars
  <2>1. UNCHANGED QP!Ledger!vars
    BY <1>2 DEF queueVars, QP!Ledger!vars, QP!Pending, QP!InHand, QP!HasEvent, QP!InSeq
  <2>2. stopper' = stopper
    BY <1>2 DEF queueVars
  <2> QED
    BY <2>1, <2>2
<1> QED
  BY <1>1, <1>2

(* A stop() whose drain comes to its end within its time cuts no handler  *)
(* short: nothing waits, and neither the merge nor the release nor the    *)
(* notification handler is under way when the worker is cancelled         *)
(* (queue_manager.py:75-103).                                             *)
DrainCutsNoHandler ==
    [][stopper = "draining" /\ stopper' = "awaiting" /\ ~timedOut' =>
          /\ queue = <<>> /\ interrupted' = interrupted
          /\ AtRest]_layoverVars

THEOREM DrainIsGraceful == LayoverSpec => DrainCutsNoHandler
<1>1. LayoverInv /\ TagIInv /\ MergeIInv /\ ItemInv /\ [LayoverNext]_layoverVars =>
         [stopper = "draining" /\ stopper' = "awaiting" /\ ~timedOut' =>
             queue = <<>> /\ interrupted' = interrupted /\ AtRest]_layoverVars
  <2> SUFFICES ASSUME LayoverInv, ItemInv, [LayoverNext]_layoverVars,
                      stopper = "draining", stopper' = "awaiting", ~timedOut'
               PROVE  queue = <<>> /\ interrupted' = interrupted /\ AtRest
    OBVIOUS
  <2>1. Queue!Next \/ UNCHANGED queueVars
    <3>1. Queue!Next \/ UNCHANGED queueVars \/ Queue!Init'
      BY LayoverQueueStep DEF LayoverInv, ItemInv
    <3>2. Queue!Init' => stopper' = "idle"
      BY DEF Queue!Init
    <3> QED
      BY <3>1, <3>2
  <2>2. queue = <<>> /\ worker # "handling" /\ interrupted' = interrupted
    BY <2>1, LayoverQueueSteps DEF ItemInv
  <2>3. AtRest
    BY <2>2 DEF LayoverInv, ItemInv, Alone, OneHandler, AtRest, Running
  <2> QED
    BY <2>2, <2>3
<1> QED
  BY <1>1, LayoverItems, PTL DEF LayoverSpec, DrainCutsNoHandler

(* Between two restarts the queue of the layover implements EventLedger:  *)
(* an accepted item is pending until it has exactly one fate, and a       *)
(* restart is the only other thing that can happen to it.                 *)
LedgerUntilRestart ==
    [][[QP!Ledger!Next]_(QP!Ledger!vars) \/ restarts' = restarts + 1]_layoverVars

THEOREM LayoverKeepsTheLedger == LayoverSpec => QP!Ledger!Init /\ LedgerUntilRestart
<1>1. LayoverInit => QP!Ledger!Init
  BY SameInit, QP!InitLedger, QueueSizes DEF LayoverInit
<1>2. LayoverInv /\ TagIInv /\ MergeIInv /\ ItemInv /\ [LayoverNext]_layoverVars =>
         [[QP!Ledger!Next]_(QP!Ledger!vars) \/ restarts' = restarts + 1]_layoverVars
  <2> SUFFICES ASSUME LayoverInv, ItemInv, [LayoverNext]_layoverVars, restarts' # restarts + 1
               PROVE  [QP!Ledger!Next]_(QP!Ledger!vars)
    OBVIOUS
  <2>1. Queue!Next \/ UNCHANGED queueVars
    BY LayoverQueueStep DEF LayoverInv, ItemInv
  <2> QED
    BY <2>1, LayoverQueueSteps DEF ItemInv
<1> QED
  BY <1>1, <1>2, LayoverItems, PTL DEF LayoverSpec, LedgerUntilRestart
=============================================================================
