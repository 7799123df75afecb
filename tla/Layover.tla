------------------------------- MODULE Layover -------------------------------
(***************************************************************************)
(* A layover at work: the forge sends webhooks, the endpoint drops what    *)
(* EventDeduplicator has seen and enqueues an item for every handler that  *)
(* is enabled, and the worker of QueueManager runs the handlers one after  *)
(* another: the release handler with push_canonical_tag(), MergeHandler    *)
(* and NotificationHandler.  The queue, the tag and the pull request are   *)
(* those of QueueManager, TagIdentity and MergeHandler.                    *)
(*                                                                         *)
(* ops_engine/core/event_dedup.py and ops_engine/modules/notification.py   *)
(* are modelled here.  The endpoint is the application's (README.md,       *)
(* "webhook_server"); of the release handler only the tag identity is      *)
(* kept, for ReleasePublication has the rest.                              *)
(***************************************************************************)
EXTENDS MergeHandler, TagIdentity, FiniteSets

CONSTANTS
    Self,           \* this process among the Callers that push the tag
    Scenarios,      \* what is enabled, and how much may happen: the bounds
    Channels,       \* notification channels
    TTL,            \* ttl_seconds
    SeenLimit,      \* 10000: more ids than this are cut back
    SeenKept,       \* to 5000
    MaxArrivals,
    MaxQueueSize, MaxRetries, MaxStarts, MaxRejections      \* QueueManager

Handlers == {"release", "merge", "notify"}
Items == [arrival : 1..MaxArrivals, handler : Handlers]

ASSUME LayoverAssumption ==
    /\ Self \in Callers
    /\ Scenarios \subseteq [enabled : Seq(Handlers), changes : 0..MaxChanges,
                             moves : 0..MaxMoves, arrivals : 0..MaxArrivals,
                             time : Nat, restarts : Nat, others : BOOLEAN,
                             chatter : BOOLEAN,
                             settings : SUBSET Settings, tags : SUBSET Tag]
    /\ TTL \in Nat /\ SeenLimit \in Nat /\ SeenKept \in 0..SeenLimit
    /\ MaxArrivals \in Nat
    /\ MaxQueueSize \in Nat /\ MaxRetries \in Nat
    /\ MaxStarts \in Nat /\ MaxRejections \in Nat

VARIABLES
    scenario,
    wire,           \* what the forge has sent; an index is a delivery id
    arrivals,       \* what has arrived: the delivery and when
    todo,           \* the items the endpoint still has to enqueue
    seen,           \* EventDeduplicator._seen: delivery id -> time
    clock,
    restarts,
    announced,      \* NotificationHandler._seen_events
    notice,         \* the channels the running notification has yet to try
    \* QueueManager
    queue, unfinished, deadLetters, metrics, shuttingDown, worker, current, stopper,
    accepted, tried, processed, interrupted, timedOut, starts,
    \* history: read by no action
    told,           \* what each channel was told, and for which arrival
    forgotten       \* ids NotificationHandler no longer knows

Queue == INSTANCE QueueManager WITH Events <- Items
queueVars == <<queue, unfinished, deadLetters, metrics, shuttingDown, worker, current,
               stopper, accepted, tried, processed, interrupted, timedOut, starts>>
ingress == <<scenario, wire, arrivals, todo, seen, clock, restarts>>
notices == <<announced, notice, told, forgotten>>
layoverVars == <<ingress, notices, queueVars, mergeVars, tagVars>>

NewMemory == [id \in {} |-> 0]

(* The operations named X_Y are faulty variants of X, each a bug this      *)
(* code could have had; no specification uses them.                        *)

----------------------------------------------------------------------------
LayoverInit ==
    /\ MergeInit /\ TagInit /\ Queue!Init
    /\ scenario \in Scenarios /\ settings \in scenario.settings
    /\ tags[1] \in scenario.tags
    /\ wire = <<>> /\ arrivals = <<>> /\ todo = <<>>
    /\ seen = NewMemory /\ clock = 0 /\ restarts = 0
    /\ announced = {} /\ notice = {} /\ told = {} /\ forgotten = {}

(* The forge: what changes there, and the webhooks it sends.               *)
Sends(what) == Len(wire) < scenario.arrivals /\ wire' = Append(wire, what)
ForgeTells ==
    \E what \in news :
        /\ Sends(what) /\ SendNews(what)
        /\ UNCHANGED <<tagVars, queueVars, notices, scenario, arrivals, todo, seen, clock,
                       restarts>>
PullRequestChanges ==
    /\ changes < scenario.changes
    /\ ForgeChanges
    /\ UNCHANGED <<tagVars, queueVars, ingress, notices>>
TagChanges ==
    /\ Now <= scenario.moves
    /\ \E o \in Tag : MoveTag(o) /\ IF o = NoTag THEN UNCHANGED wire ELSE Sends("tag")
    /\ UNCHANGED <<mergeVars, queueVars, notices, scenario, arrivals, todo, seen, clock,
                   restarts>>
(* Most webhooks concern neither handler.                                  *)
ForgeTellsOther ==
    /\ scenario.chatter /\ Sends("other")
    /\ UNCHANGED <<scenario, arrivals, todo, seen, clock, restarts, notices, queueVars,
                   mergeVars, tagVars>>
(* The release workflow pushes the tag from a checkout of its own.         *)
OthersPushTheTag ==
    /\ scenario.others
    /\ \/ \E c \in Callers \ {Self} :
             (\E v \in 1..Now : BeginPush(c, v)) \/ PushStep(c) \/ LetGo(c)
       \/ \E c \in Callers : Checkout(c)
       \/ \E o \in Tag : ForeignPush(o)
    /\ UNCHANGED <<mergeVars, queueVars, ingress, notices>>

Tick ==
    /\ clock < scenario.time
    /\ clock' = clock + 1
    /\ UNCHANGED <<scenario, wire, arrivals, todo, seen, restarts, notices, queueVars,
                   mergeVars, tagVars>>

----------------------------------------------------------------------------
(* _evict_expired() and is_duplicate(): the id is remembered before the    *)
(* signature is verified, the payload parsed and the queue asked.          *)
Evicted_AtTheTTL ==
    [id \in {id \in DOMAIN seen : seen[id] + TTL > clock} |-> seen[id]]
Evicted ==
    [id \in {id \in DOMAIN seen : seen[id] + TTL >= clock} |-> seen[id]]
IsDuplicate(id) == id \in DOMAIN Evicted
Remembered(id) ==
    [i \in DOMAIN Evicted \cup {id} |-> IF i = id THEN clock ELSE Evicted[i]]

(* One enqueue() per enabled handler, in the order of the endpoint.        *)
ItemsOf(n) ==
    [i \in DOMAIN scenario.enabled |-> [arrival |-> n, handler |-> scenario.enabled[i]]]

(* A delivery arrives, once or again; `sound': it is signed and parses.    *)
Arrive(id, sound) ==
    /\ Len(arrivals) < scenario.arrivals
    /\ arrivals' = Append(arrivals, [id |-> id, time |-> clock])
    /\ seen' = IF IsDuplicate(id) THEN Evicted ELSE Remembered(id)
    /\ todo' = IF IsDuplicate(id) \/ ~sound THEN <<>> ELSE ItemsOf(Len(arrivals'))
    /\ UNCHANGED <<scenario, wire, clock, restarts, notices, queueVars, mergeVars, tagVars>>

(* The endpoint does not suspend between its calls of enqueue(), and does  *)
(* not look at what they return.                                           *)
EnqueueNext ==
    /\ todo # <<>>
    /\ Queue!EnqueueAccepted(Head(todo)) \/ Queue!EnqueueRejected
    /\ todo' = Tail(todo)
    /\ UNCHANGED <<scenario, wire, arrivals, seen, clock, restarts, notices, mergeVars,
                   tagVars>>

----------------------------------------------------------------------------
(* The worker takes an item, and its handler begins.                       *)
Delivery(item) == arrivals[item.event.arrival].id
Gets(handler) == Queue!Get /\ current'.event.handler = handler

(* The gates refuse, or the call of push_canonical_tag() begins.           *)
ReleaseBegins ==
    /\ Gets("release")
    /\ IF wire[Delivery(current')] # "tag" THEN UNCHANGED tagVars
       ELSE \/ \E v \in 1..Now : BeginPush(Self, v)
            \/ Refuse(Self)
    /\ UNCHANGED <<mergeVars, ingress, notices>>
MergeBegins ==
    /\ Gets("merge")
    /\ Hear(wire[Delivery(current')])
    /\ UNCHANGED <<tagVars, ingress, notices>>

(* The id is marked before the first channel is tried; beyond SeenLimit    *)
(* any SeenKept of the ids stay, for a Python set has no order.            *)
Known(id) == announced \cup {id}
Overfull(id) == Cardinality(Known(id)) > SeenLimit
Marked(id) ==
    IF ~Overfull(id) THEN {Known(id)}
    ELSE {kept \in SUBSET Known(id) : Cardinality(kept) = SeenKept}
NotifyBegins ==
    /\ Gets("notify")
    /\ LET id == Delivery(current') IN
       IF id \in announced THEN UNCHANGED notices
       ELSE /\ announced' \in Marked(id)
            /\ notice' = Channels
            /\ forgotten' = IF Overfull(id) THEN forgotten \cup (Known(id) \ announced')
                            ELSE forgotten
            /\ UNCHANGED told
    /\ UNCHANGED <<mergeVars, tagVars, ingress>>

(* _send_notification(): a channel that fails is logged and passed over.   *)
Notify(ch) ==
    /\ ch \in notice
    /\ notice' = notice \ {ch}
    /\ told' \in {told, told \cup {[channel |-> ch, id |-> Delivery(current),
                                    arrival |-> current.event.arrival]}}
    /\ UNCHANGED <<announced, forgotten, ingress, queueVars, mergeVars, tagVars>>

HandlerStep ==
    \/ PushStep(Self) /\ UNCHANGED <<mergeVars, queueVars, ingress, notices>>
    \/ (HandlerSteps \/ HandlerFaults)
       /\ UNCHANGED <<tagVars, queueVars, ingress, notices>>
    \/ \E ch \in Channels : Notify(ch)

(* The handler returns, or raises what push_canonical_tag() or a gate did. *)
AtRest == job = NoJob /\ notice = {} /\ ~Running(Self)
Forget == LetGo(Self)
HandlerReturns ==
    /\ AtRest /\ call[Self].at # "refused"
    /\ Queue!HandlerReturns
    /\ Forget /\ UNCHANGED <<mergeVars, ingress, notices>>
HandlerRaises ==
    /\ call[Self].at = "refused"
    /\ Queue!HandlerFailsAndIsRetried \/ Queue!HandlerFailsForGood
    /\ Forget /\ UNCHANGED <<mergeVars, ingress, notices>>

QueueGoesOn ==
    /\ Queue!WakeUp \/ Queue!StopReturns
    /\ UNCHANGED <<mergeVars, tagVars, ingress, notices>>
OwnerCalls ==
    /\ Queue!Start \/ Queue!StopDrains
    /\ UNCHANGED <<mergeVars, tagVars, ingress, notices>>

(* The cancelled handler ends where it waits.                              *)
CutAll_ButTheMerge == notice' = {} /\ Forget /\ UNCHANGED mergeVars
CutAll == notice' = {} /\ Forget /\ CutShort
Cancel ==
    /\ Queue!StopWithoutDraining \/ Queue!Drained \/ Queue!DrainTimesOut
    /\ CutAll /\ UNCHANGED <<ingress, announced, told, forgotten>>

(* The process dies or exits, and another one begins with empty memories.  *)
Restart ==
    /\ restarts < scenario.restarts
    /\ restarts' = restarts + 1
    /\ seen' = NewMemory
    /\ announced' = {} /\ forgotten' = forgotten \cup announced
    /\ queue' = <<>> /\ unfinished' = 0 /\ deadLetters' = <<>>
    /\ metrics' = [c \in Queue!Counters |-> 0]
    /\ shuttingDown' = FALSE /\ worker' = "none" /\ current' = Queue!NoItem
    /\ stopper' = "idle"
    /\ accepted' = <<>> /\ tried' = <<>> /\ processed' = <<>> /\ interrupted' = <<>>
    /\ timedOut' = FALSE /\ starts' = 0
    /\ CutAll /\ UNCHANGED <<told, scenario, wire, arrivals, todo, clock>>

----------------------------------------------------------------------------
WorkerStep ==
    \/ ReleaseBegins \/ MergeBegins \/ NotifyBegins
    \/ HandlerStep \/ HandlerReturns \/ HandlerRaises
    \/ QueueGoesOn

LayoverNext ==
    \/ EnqueueNext
    \/ /\ todo = <<>>
       /\ \/ ForgeTells \/ ForgeTellsOther \/ PullRequestChanges \/ TagChanges \/ OthersPushTheTag \/ Tick
          \/ \E id \in DOMAIN wire, sound \in BOOLEAN : Arrive(id, sound)
          \/ WorkerStep \/ OwnerCalls \/ Cancel \/ Restart

(* Every request of a handler carries a timeout and every git command      *)
(* ends; the rest is the fairness of QueueManager.  Every step named here  *)
(* changes one of `places'.                                                *)
places == <<worker, job, call, notice>>
LayoverSpec ==
    /\ LayoverInit /\ [][LayoverNext]_layoverVars
    /\ WF_todo(EnqueueNext)
    /\ WF_places(todo = <<>> /\ WorkerStep)
    /\ WF_places(todo = <<>> /\ Cancel /\ stopper = "draining")

----------------------------------------------------------------------------
(* The values the variables take; and a handler is under way only while    *)
(* the worker handles an item: what a cancellation cuts short stays so     *)
(* (queue_manager.py:126-165).                                             *)
LayoverTypeOK ==
    /\ TagTypeOK /\ MergeTypeOK /\ Queue!TypeOK
    /\ scenario \in Scenarios
    /\ wire \in Seq({"tag", "other"} \cup News) /\ DOMAIN wire \subseteq 1..MaxArrivals
    /\ arrivals \in Seq([id : DOMAIN wire, time : 0..clock])
    /\ todo \in Seq(Items)
    /\ DOMAIN seen \subseteq DOMAIN wire /\ \A id \in DOMAIN seen : seen[id] \in 0..clock
    /\ clock \in 0..scenario.time /\ restarts \in 0..scenario.restarts
    /\ announced \subseteq DOMAIN wire /\ Cardinality(announced) <= SeenLimit
    /\ forgotten \subseteq DOMAIN wire /\ notice \subseteq Channels
    /\ told \subseteq [channel : Channels, id : DOMAIN wire, arrival : DOMAIN arrivals]
    /\ worker # "handling" => AtRest /\ call[Self].at = "idle"

(* At most once, at two levels.  A delivery the forge repeats reaches each *)
(* handler once in the TTL, its last instant included, whatever the queue  *)
(* did with the first; only a restarted process may take it again          *)
(* (event_dedup.py:26-64).  And when the deduplicator has let an id go, no *)
(* channel is told of it twice, unless the notification handler has        *)
(* forgotten the id too: by a restart, or because it was among those cut   *)
(* back (notification.py:46-60).                                           *)
HandledOncePerId ==
    \A i, j \in DOMAIN accepted :
        LET a == accepted[i]  b == accepted[j] IN
        a.handler = b.handler /\ a.arrival < b.arrival
        /\ arrivals[a.arrival].id = arrivals[b.arrival].id
            => arrivals[b.arrival].time > arrivals[a.arrival].time + TTL
ChannelsToldOnce ==
    \A t, u \in told :
        t.channel = u.channel /\ t.id = u.id /\ t.arrival # u.arrival => t.id \in forgotten
OncePerDelivery == HandledOncePerId /\ ChannelsToldOnce

(* A label or suite event that waits for the merge handler leads to the    *)
(* merge, whatever the handlers before it do, as long as the pull request  *)
(* stays ready with the same head, every request is answered and nobody    *)
(* stops the queue (queue_manager.py:118-165, merge.py:17-146).            *)
MergeWaits ==
    \E item \in Items :
        /\ item.handler = "merge" /\ Queue!HasEvent(item, queue)
        /\ wire[arrivals[item.arrival].id] \in {"label", "suite"}
ReadyGetsMerged ==
    \A h \in Heads :
        (MergeWaits /\ Ready /\ pr.head = h)
            ~> (~Ready \/ pr.head # h \/ faults > 0 \/ worker = "none")
=============================================================================
