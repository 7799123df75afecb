---------------------------- MODULE Mirror_proof ----------------------------
(***************************************************************************)
(* Proofs about Mirror, for every set of refs, commits, mirrors and        *)
(* workers, every history of commits, and every number of edits, foreign   *)
(* pushes and faults.                                                      *)
(***************************************************************************)
EXTENDS Mirror, TLAPS

USE DEF Refs, Workers

(* What a call may rely on, however stale its tree is: what it is about to *)
(* push is there, is admitted by the destination it is at, and was not     *)
(* behind what it saw there; what it is about to delete was not there.     *)
Front(j, d) == d \in j.todo /\ \A e \in j.todo : d <= e

HasWork(j) ==
    /\ j.pc \in {"event", "probe", "push", "list", "delete"} => j.todo # {}
    /\ j.pc \in {"push", "delete"} => j.refs # {}
PushesRefs(j) ==
    j.pc \in {"event", "push"} => \A r \in j.refs : j.tree[r] # Absent
PushIsChosen(j) ==
    j.pc = "push" => \A d \in Destinations : Front(j, d) => \A r \in j.refs :
        /\ Admits(d, j.tree[r])
        /\ d \notin OverwritesAhead /\ r \in Heads /\ j.seen[r] # Absent
              => ~IsAhead(j.seen[r], j.tree[r])
SweepIsSafe(w, j) ==
    /\ j.op = "sweep" => w \in Sweepers
    /\ j.pc \in {"list", "delete"} => j.op = "sweep" /\ j.tree # Empty
    /\ j.pc = "delete" => \A r \in j.refs : r \notin Kept /\ j.tree[r] = Absent

Fit(w, j) == HasWork(j) /\ PushesRefs(j) /\ PushIsChosen(j) /\ SweepIsSafe(w, j)

IInv == /\ TypeOK
        /\ GateHolds
        /\ \A w \in Workers : Fit(w, job[w])

Others == /\ canonical \in Trees
          /\ events \subseteq Refs \X Commits
          /\ edits \in 0..MaxEdits /\ strangers \in 0..MaxStrangers
          /\ faults \in 0..MaxFaults

LEMMA Parts ==
    IInv <=> /\ Others
             /\ mirror \in [Destinations -> Trees] /\ GateHolds
             /\ job \in [Workers -> Jobs]
             /\ \A w \in Workers : Fit(w, job[w])
BY DEF IInv, Others, TypeOK, Fit, HasWork

LEMMA PartsNext ==
    ASSUME Others', (mirror \in [Destinations -> Trees])', GateHolds',
           (job \in [Workers -> Jobs])', \A w \in Workers : Fit(w, job'[w])
    PROVE  IInv'
BY DEF IInv, Others, TypeOK, Fit, HasWork

LEMMA EmptyTree == Empty \in Trees
BY DEF Empty, Trees

LEMMA NoJobOK ==
    ASSUME NEW w \in Workers
    PROVE  NoJob \in Jobs /\ Fit(w, NoJob)
BY EmptyTree DEF NoJob, Jobs, Fit, HasWork, PushesRefs, PushIsChosen, SweepIsSafe

(* The report fields of a call that rests are free.                        *)
LEMMA RestingOK ==
    ASSUME NEW w \in Workers, NEW behind \in SUBSET Refs,
           NEW ahead \in SUBSET (Destinations \X Refs), NEW failed \in BOOLEAN,
           NEW n, n = [NoJob EXCEPT !.op = "reconcile", !.pc = "returned",
                                    !.failed = failed, !.ahead = ahead,
                                    !.behind = behind]
    PROVE  n \in Jobs /\ Fit(w, n)
BY EmptyTree DEF NoJob, Jobs, Fit, HasWork, PushesRefs, PushIsChosen, SweepIsSafe

----------------------------------------------------------------------------
(* The loop over the destinations.                                         *)
LEMMA OverOK ==
    ASSUME NEW w \in Workers, NEW j \in Jobs
    PROVE  Over(j) \in Jobs /\ Fit(w, Over(j))
<1>1. CASE j.op = "reconcile"
  <2> DEFINE n == [j EXCEPT !.pc = "want", !.synced = TRUE, !.todo = {},
                            !.tree = Empty, !.seen = Empty, !.refs = {}]
  <2>1. n \in Jobs /\ n.pc = "want" /\ n.op = "reconcile"
    BY <1>1, EmptyTree DEF Jobs
  <2>2. Fit(w, n)
    <3> HIDE DEF n
    <3> QED
      BY <2>1 DEF Fit, HasWork, PushesRefs, PushIsChosen, SweepIsSafe
  <2> QED
    BY <1>1, <2>1, <2>2 DEF Over
<1>2. CASE j.op # "reconcile"
  BY <1>2, NoJobOK DEF Over
<1> QED
  BY <1>1, <1>2

LEMMA AfterOK ==
    ASSUME NEW w \in Workers, NEW j \in Jobs, NEW d \in j.todo,
           NEW pc \in {"event", "probe", "list"},
           pc = "event" => \A r \in j.refs : j.tree[r] # Absent,
           j.op = "sweep" => w \in Sweepers,
           pc = "list" => j.op = "sweep" /\ j.tree # Empty
    PROVE  After(j, d, pc) \in Jobs /\ Fit(w, After(j, d, pc))
<1>1. CASE j.todo = {d}
  BY <1>1, OverOK DEF After
<1>2. CASE j.todo # {d}
  <2> DEFINE left == IF pc = "event" THEN j.refs ELSE {}
             n == [j EXCEPT !.todo = @ \ {d}, !.pc = pc, !.seen = Empty, !.refs = left]
  <2>1. /\ n \in Jobs /\ n.pc = pc /\ n.op = j.op /\ n.tree = j.tree
        /\ n.refs = left /\ n.todo = j.todo \ {d}
    BY EmptyTree DEF Jobs
  <2>2. n.todo # {}
    BY <1>2, <2>1
  <2>3. Fit(w, n)
    <3> HIDE DEF n
    <3> QED
      BY <2>1, <2>2 DEF Fit, HasWork, PushesRefs, PushIsChosen, SweepIsSafe
  <2>4. After(j, d, pc) = n
    BY <1>2 DEF After
  <2> QED
    BY <2>1, <2>3, <2>4
<1> QED
  BY <1>1, <1>2

(* A failure is noted.                                                     *)
LEMMA FailedOK ==
    ASSUME NEW j \in Jobs, NEW n, n = [j EXCEPT !.failed = TRUE]
    PROVE  /\ n \in Jobs /\ n.op = j.op /\ n.pc = j.pc /\ n.todo = j.todo
           /\ n.tree = j.tree /\ n.refs = j.refs
BY DEF Jobs

----------------------------------------------------------------------------
(* A step of one worker leaves the other jobs alone.                       *)
LEMMA SetJob ==
    ASSUME IInv, NEW w \in Workers, NEW n \in Jobs, Fit(w, n),
           job' = [job EXCEPT ![w] = n]
    PROVE  job' \in [Workers -> Jobs] /\ \A v \in Workers : Fit(v, job'[v])
BY DEF IInv, TypeOK

LEMMA QuietOthers == ASSUME IInv, Quiet PROVE Others'
BY DEF IInv, TypeOK, Quiet, bounds, Others

LEMMA FaultOthers ==
    ASSUME IInv, Fault, UNCHANGED events PROVE Others'
BY MirrorAssumption DEF IInv, TypeOK, Fault, Others

LEMMA KeptMirror ==
    ASSUME IInv, UNCHANGED mirror
    PROVE  mirror' \in [Destinations -> Trees] /\ GateHolds'
BY DEF IInv, TypeOK, GateHolds

(* Admitted refs may go to the mirror, and any ref may be taken away.      *)
LEMMA PushedMirror ==
    ASSUME IInv, NEW d \in Destinations, NEW done \in SUBSET Refs, NEW tree \in Trees,
           \A r \in done : tree[r] = Absent \/ Admits(d, tree[r]),
           mirror' = [mirror EXCEPT ![d] =
                         [r \in Refs |-> IF r \in done THEN tree[r] ELSE @[r]]]
    PROVE  mirror' \in [Destinations -> Trees] /\ GateHolds'
<1> DEFINE new == [r \in Refs |-> IF r \in done THEN tree[r] ELSE mirror[d][r]]
<1>1. mirror \in [Destinations -> Trees] /\ GateHolds
  BY DEF IInv, TypeOK
<1>2. new \in Trees
  BY <1>1 DEF Trees
<1>3. mirror' = [mirror EXCEPT ![d] = new]
  OBVIOUS
<1>4. \A r \in Refs : new[r] = (IF r \in done THEN tree[r] ELSE mirror[d][r])
  OBVIOUS
<1>5. \A r \in Refs : new[r] # Absent =>
        d \notin Unusable /\ (d \in Public => History[new[r]] \cap Candidates = {})
  BY <1>1, <1>4 DEF GateHolds, Admits, Clean
<1> HIDE DEF new
<1>6. mirror' \in [Destinations -> Trees]
  BY <1>1, <1>2, <1>3
<1>7. \A e \in Destinations : mirror'[e] = IF e = d THEN new ELSE mirror[e]
  BY <1>1, <1>3
<1> QED
  BY <1>1, <1>5, <1>6, <1>7 DEF GateHolds

----------------------------------------------------------------------------
LEMMA InitIInv == Init => IInv
<1> SUFFICES ASSUME Init PROVE IInv
  OBVIOUS
<1>1. canonical \in Trees
  BY MirrorAssumption DEF Init, Trees
<1>2. mirror \in [Destinations -> Trees] /\ GateHolds
  BY EmptyTree DEF Init, GateHolds, Empty
<1>3. job \in [Workers -> Jobs] /\ \A w \in Workers : Fit(w, job[w])
  BY NoJobOK DEF Init
<1>4. Others
  BY <1>1, MirrorAssumption DEF Init, Others
<1> QED
  BY <1>2, <1>3, <1>4, Parts

(* Steps of the surroundings.                                              *)
LEMMA EditIInv ==
    ASSUME IInv, NEW r \in Refs, NEW c \in Commits \cup {Absent}, Edit(r, c)
    PROVE  IInv'
<1>1. Others'
  BY MirrorAssumption DEF IInv, TypeOK, Edit, Others, Trees
<1>2. mirror' \in [Destinations -> Trees] /\ GateHolds'
  BY KeptMirror DEF Edit
<1>3. job' \in [Workers -> Jobs] /\ \A w \in Workers : Fit(w, job'[w])
  BY DEF IInv, TypeOK, Edit
<1> QED
  BY <1>1, <1>2, <1>3, PartsNext

LEMMA StrangerIInv ==
    ASSUME IInv, NEW d \in Destinations, NEW h \in Heads, NEW c \in Commits,
           StrangerPushes(d, h, c)
    PROVE  IInv'
<1>1. Others'
  BY MirrorAssumption DEF IInv, TypeOK, StrangerPushes, Others
<1>2. mirror' \in [Destinations -> Trees]
  BY DEF IInv, TypeOK, StrangerPushes, Trees
<1>3. \A e \in Destinations, r \in Refs :
        mirror'[e][r] = IF e = d /\ r = h THEN c ELSE mirror[e][r]
  BY DEF IInv, TypeOK, StrangerPushes, Trees
<1>4. GateHolds'
  BY <1>3 DEF IInv, GateHolds, StrangerPushes
<1>5. job' \in [Workers -> Jobs] /\ \A w \in Workers : Fit(w, job'[w])
  BY DEF IInv, TypeOK, StrangerPushes
<1> QED
  BY <1>1, <1>2, <1>4, <1>5, PartsNext

----------------------------------------------------------------------------
(* Steps that only change the job of one worker.                           *)
LEMMA JobOnly ==
    ASSUME IInv, NEW w \in Workers, NEW n \in Jobs, Fit(w, n),
           job' = [job EXCEPT ![w] = n], UNCHANGED mirror, Others'
    PROVE  IInv'
<1>1. mirror' \in [Destinations -> Trees] /\ GateHolds'
  BY KeptMirror
<1>2. job' \in [Workers -> Jobs] /\ \A v \in Workers : Fit(v, job'[v])
  BY SetJob
<1> QED
  BY <1>1, <1>2, PartsNext

(* The facts about the job of a worker that every step starts from.        *)
LEMMA JobFacts ==
    ASSUME IInv, NEW w \in Workers
    PROVE  /\ job[w] \in Jobs /\ Fit(w, job[w])
           /\ mirror \in [Destinations -> Trees] /\ canonical \in Trees
BY DEF IInv, TypeOK

LEMMA TakesEventOK ==
    ASSUME IInv, NEW w \in Workers, NEW r \in Refs, NEW c \in Commits, TakesEvent(w, r, c),
           UNCHANGED mirror, Others'
    PROVE  IInv'
<1> DEFINE t == [Empty EXCEPT ![r] = c]
           n == [NoJob EXCEPT !.op = "event", !.pc = "event", !.refs = {r},
                              !.todo = Destinations, !.tree = t]
<1>1. t \in Trees /\ t[r] = c
  BY EmptyTree DEF Trees
<1> HIDE DEF t
<1>2. n \in Jobs /\ n.op = "event" /\ n.pc = "event" /\ n.refs = {r}
      /\ n.todo = Destinations /\ n.tree = t
  BY <1>1, NoJobOK DEF NoJob, Jobs
<1>3. job' = [job EXCEPT ![w] = n]
  BY DEF TakesEvent, Starts, t
<1> HIDE DEF n
<1>4. Fit(w, n)
  BY <1>1, <1>2, MirrorAssumption DEF Fit, HasWork, PushesRefs, PushIsChosen, SweepIsSafe
<1> QED
  BY <1>2, <1>3, <1>4, JobOnly

LEMMA ReceiveIInv ==
    ASSUME IInv, NEW w \in Workers, NEW r \in Refs, NEW c \in Commits,
           Receive(w, r, c) \/ ReceiveOneOfTwo(w, r, c)
    PROVE  IInv'
<1>1. CASE Receive(w, r, c)
  <2>1. Others'
    BY <1>1 DEF IInv, TypeOK, Receive, bounds, Others
  <2> QED
    BY <1>1, <2>1, TakesEventOK DEF Receive
<1>2. CASE ReceiveOneOfTwo(w, r, c)
  <2>1. Others'
    BY <1>2, FaultOthers DEF ReceiveOneOfTwo
  <2> QED
    BY <1>2, <2>1, TakesEventOK DEF ReceiveOneOfTwo
<1> QED
  BY <1>1, <1>2

LEMMA ReconcileIInv == ASSUME IInv, NEW w \in Workers, Reconcile(w) PROVE IInv'
<1> DEFINE n == [NoJob EXCEPT !.op = "reconcile", !.pc = "want"]
<1>1. n \in Jobs /\ Fit(w, n)
  BY EmptyTree DEF NoJob, Jobs, Fit, HasWork, PushesRefs, PushIsChosen, SweepIsSafe
<1>2. job' = [job EXCEPT ![w] = n] /\ UNCHANGED mirror /\ Quiet
  BY DEF Reconcile, Starts
<1> HIDE DEF n
<1> QED
  BY <1>1, <1>2, QuietOthers, JobOnly

LEMMA SyncIInv == ASSUME IInv, NEW w \in Workers, Sync(w) PROVE IInv'
<1> DEFINE n == [NoJob EXCEPT !.op = "sync", !.pc = "clone"]
<1>1. n \in Jobs /\ Fit(w, n)
  BY EmptyTree DEF NoJob, Jobs, Fit, HasWork, PushesRefs, PushIsChosen, SweepIsSafe
<1>2. job' = [job EXCEPT ![w] = n] /\ UNCHANGED mirror /\ Quiet
  BY DEF Sync, Starts
<1> HIDE DEF n
<1> QED
  BY <1>1, <1>2, QuietOthers, JobOnly

LEMMA SweepIInv == ASSUME IInv, NEW w \in Workers, Sweep(w) PROVE IInv'
<1> DEFINE s == [NoJob EXCEPT !.op = "sweep", !.pc = "list",
                              !.todo = Destinations, !.tree = canonical]
           n == IF canonical = Empty THEN NoJob ELSE s
<1>1. ASSUME canonical # Empty PROVE s \in Jobs /\ Fit(w, s)
  BY <1>1, JobFacts, EmptyTree, MirrorAssumption
  DEF Sweep, NoJob, Jobs, Fit, HasWork, PushesRefs, PushIsChosen, SweepIsSafe
<1>2. job' = [job EXCEPT ![w] = n] /\ UNCHANGED mirror /\ Quiet
  BY DEF Sweep, Starts
<1> HIDE DEF s
<1>3. n \in Jobs /\ Fit(w, n)
  BY <1>1, NoJobOK
<1> HIDE DEF n
<1> QED
  BY <1>2, <1>3, QuietOthers, JobOnly

(* What two lists of refs make is a tree.                                 *)
LEMMA ListedTree ==
    ASSUME NEW heads \in Trees, NEW tags \in Trees
    PROVE  Listed(heads, tags) \in Trees
BY DEF Listed, Trees

(* A job that keeps what it has listed, and goes on, is a job.            *)
LEMMA ListsOn ==
    ASSUME NEW j \in Jobs, NEW tree \in Trees, NEW at \in {"wantTags", "have", "haveTags"}
    PROVE  /\ [j EXCEPT !.want = tree, !.pc = at] \in Jobs
           /\ [j EXCEPT !.seen = tree, !.pc = at] \in Jobs
           /\ [j EXCEPT !.want = tree, !.pc = at].pc = at
           /\ [j EXCEPT !.seen = tree, !.pc = at].pc = at
           /\ [j EXCEPT !.want = tree, !.pc = at].op = j.op
           /\ [j EXCEPT !.seen = tree, !.pc = at].op = j.op
<1>1. [j EXCEPT !.want = tree, !.pc = at] \in Jobs
  BY DEF Jobs
<1>2. [j EXCEPT !.seen = tree, !.pc = at] \in Jobs
  BY DEF Jobs
<1>3. /\ [j EXCEPT !.want = tree, !.pc = at].pc = at
      /\ [j EXCEPT !.want = tree, !.pc = at].op = j.op
  BY DEF Jobs
<1>4. /\ [j EXCEPT !.seen = tree, !.pc = at].pc = at
      /\ [j EXCEPT !.seen = tree, !.pc = at].op = j.op
  BY DEF Jobs
<1> QED
  BY <1>1, <1>2, <1>3, <1>4

LEMMA ReadCanonicalIInv == ASSUME IInv, NEW w \in Workers, ReadCanonical(w) PROVE IInv'
<1> DEFINE tree == Listed(canonical, Empty)
           n == [job[w] EXCEPT !.want = tree, !.pc = "wantTags"]
<1>0. tree \in Trees
  BY EmptyTree, ListedTree DEF IInv, TypeOK
<1>1. job' = [job EXCEPT ![w] = n] /\ UNCHANGED mirror /\ Quiet
  BY JobFacts DEF ReadCanonical, Jobs
<1> HIDE DEF tree
<1>2. n \in Jobs /\ n.pc = "wantTags" /\ n.op = job[w].op
  <2>1. job[w] \in Jobs
    BY JobFacts
  <2> QED
    BY <1>0, <2>1, ListsOn, Zenon
<1> HIDE DEF n
<1>3. Fit(w, n)
  BY <1>2, JobFacts DEF Fit, HasWork, PushesRefs, PushIsChosen, SweepIsSafe
<1> QED
  BY <1>1, <1>2, <1>3, QuietOthers, JobOnly

LEMMA ReadCanonicalTagsIInv ==
    ASSUME IInv, NEW w \in Workers, ReadCanonicalTags(w) PROVE IInv'
<1> DEFINE tree == Listed(job[w].want, canonical)
           n == [job[w] EXCEPT !.want = tree, !.pc = "have"]
<1>0. tree \in Trees
  BY JobFacts, ListedTree DEF IInv, TypeOK, Jobs
<1>1. job' = [job EXCEPT ![w] = n] /\ UNCHANGED mirror /\ Quiet
  BY JobFacts DEF ReadCanonicalTags, Jobs
<1> HIDE DEF tree
<1>2. n \in Jobs /\ n.pc = "have" /\ n.op = job[w].op
  <2>1. job[w] \in Jobs
    BY JobFacts
  <2> QED
    BY <1>0, <2>1, ListsOn, Zenon
<1> HIDE DEF n
<1>3. Fit(w, n)
  BY <1>2, JobFacts DEF Fit, HasWork, PushesRefs, PushIsChosen, SweepIsSafe
<1> QED
  BY <1>1, <1>2, <1>3, QuietOthers, JobOnly

LEMMA ReadMirrorHeadsIInv ==
    ASSUME IInv, NEW w \in Workers, ReadMirrorHeads(w) PROVE IInv'
<1> DEFINE tree == Listed(mirror[Measures[w]], Empty)
           n == [job[w] EXCEPT !.seen = tree, !.pc = "haveTags"]
<1>0. tree \in Trees
  <2>1. mirror[Measures[w]] \in Trees
    BY JobFacts, MirrorAssumption DEF ReadMirrorHeads
  <2> QED
    BY <2>1, EmptyTree, ListedTree
<1>1. job' = [job EXCEPT ![w] = n] /\ UNCHANGED mirror /\ Quiet
  BY JobFacts DEF ReadMirrorHeads, Jobs
<1> HIDE DEF tree
<1>2. n \in Jobs /\ n.pc = "haveTags" /\ n.op = job[w].op
  <2>1. job[w] \in Jobs
    BY JobFacts
  <2> QED
    BY <1>0, <2>1, ListsOn, Zenon
<1> HIDE DEF n
<1>3. Fit(w, n)
  BY <1>2, JobFacts DEF Fit, HasWork, PushesRefs, PushIsChosen, SweepIsSafe
<1> QED
  BY <1>1, <1>2, <1>3, QuietOthers, JobOnly

LEMMA ReadMirrorIInv == ASSUME IInv, NEW w \in Workers, ReadMirror(w) PROVE IInv'
<1> DEFINE a == [NoJob EXCEPT !.op = "reconcile", !.pc = "returned"]
           b == [job[w] EXCEPT !.pc = "clone", !.want = Empty, !.seen = Empty]
           n == IF Drifted(job[w].want, Have(w)) = {} THEN a ELSE b
<1>1. a \in Jobs /\ Fit(w, a)
  BY EmptyTree DEF NoJob, Jobs, Fit, HasWork, PushesRefs, PushIsChosen, SweepIsSafe
<1>2. b \in Jobs /\ b.pc = "clone" /\ b.op = job[w].op
  BY JobFacts, EmptyTree DEF Jobs
<1>3. job' = [job EXCEPT ![w] = n] /\ UNCHANGED mirror /\ Quiet
  BY JobFacts DEF ReadMirror, Jobs
<1> HIDE DEF a, b
<1>4. Fit(w, b)
  BY <1>2, JobFacts DEF Fit, HasWork, PushesRefs, PushIsChosen, SweepIsSafe
<1>5. n \in Jobs /\ Fit(w, n)
  BY <1>1, <1>2, <1>4
<1> HIDE DEF n
<1> QED
  BY <1>3, <1>5, QuietOthers, JobOnly

LEMMA ReadMirrorAgainIInv ==
    ASSUME IInv, NEW w \in Workers, ReadMirrorAgain(w) PROVE IInv'
<1> DEFINE have == Have(w)
           n == Report(job[w], have)
<1>1. job[w].ahead \in SUBSET (Destinations \X Refs) /\ job[w].failed \in BOOLEAN
  BY JobFacts DEF Jobs
<1>2. job' = [job EXCEPT ![w] = n] /\ UNCHANGED mirror /\ Quiet
  BY JobFacts DEF ReadMirrorAgain
<1> HIDE DEF have
<1>3. n \in Jobs /\ Fit(w, n)
  <2> DEFINE late == {r \in Drifted(job[w].want, have) :
                         have[r] # Absent => r \notin KeptAsAhead(job[w])}
  <2>1. late \in SUBSET Refs
    BY DEF Drifted
  <2>2. n = [NoJob EXCEPT !.op = "reconcile", !.pc = "returned",
                          !.failed = job[w].failed, !.ahead = job[w].ahead,
                          !.behind = late]
    BY DEF Report
  <2> HIDE DEF late, n
  <2> QED
    BY <1>1, <2>1, <2>2, RestingOK
<1> HIDE DEF n
<1> QED
  BY <1>2, <1>3, QuietOthers, JobOnly

LEMMA CloneIInv == ASSUME IInv, NEW w \in Workers, Clone(w) PROVE IInv'
<1> DEFINE n == [job[w] EXCEPT !.tree = canonical, !.todo = Destinations, !.pc = "probe"]
<1>1. /\ n \in Jobs /\ n.pc = "probe" /\ n.op = job[w].op /\ n.todo = Destinations
  BY JobFacts DEF Jobs
<1>2. job' = [job EXCEPT ![w] = n] /\ UNCHANGED mirror /\ Quiet
  BY JobFacts DEF Clone, Jobs
<1> HIDE DEF n
<1>3. Fit(w, n)
  BY <1>1, JobFacts, MirrorAssumption
  DEF Fit, HasWork, PushesRefs, PushIsChosen, SweepIsSafe
<1> QED
  BY <1>1, <1>2, <1>3, QuietOthers, JobOnly

----------------------------------------------------------------------------
(* Steps on the destination a call is at.                                  *)
LEMMA AtIsFront ==
    ASSUME NEW w, NEW d, At(w, d) PROVE Front(job[w], d) /\ d \in job[w].todo
BY DEF At, Front

LEMMA FrontIsOne ==
    ASSUME NEW j \in Jobs, NEW d \in j.todo, NEW e \in j.todo, Front(j, d), Front(j, e)
    PROVE  d = e
<1>1. d \in Nat /\ e \in Nat
  BY MirrorAssumption DEF Jobs
<1>2. d <= e /\ e <= d
  BY DEF Front
<1> QED
  BY <1>1, <1>2

LEMMA PushEventIInv ==
    ASSUME IInv, NEW w \in Workers, NEW d \in Destinations, PushEvent(w, d)
    PROVE  IInv'
<1> DEFINE j == job[w]
           n == After(j, d, "event")
           done == {r \in j.refs : Admits(d, j.tree[r])}
<1>1. j \in Jobs /\ Fit(w, j) /\ j.pc = "event" /\ d \in j.todo
  BY JobFacts, AtIsFront DEF PushEvent
<1>2. n \in Jobs /\ Fit(w, n)
  BY <1>1, AfterOK DEF Fit, PushesRefs, SweepIsSafe
<1>3. mirror' = [mirror EXCEPT ![d] =
                    [r \in Refs |-> IF r \in done THEN j.tree[r] ELSE @[r]]]
  BY DEF PushEvent
<1>4. done \in SUBSET Refs /\ j.tree \in Trees
  BY <1>1 DEF Jobs
<1>5. \A r \in done : Admits(d, j.tree[r])
  OBVIOUS
<1>6. job' = [job EXCEPT ![w] = n] /\ Quiet
  BY JobFacts DEF PushEvent
<1> HIDE DEF j, n, done
<1>7. mirror' \in [Destinations -> Trees] /\ GateHolds'
  BY <1>3, <1>4, <1>5, PushedMirror
<1>8. job' \in [Workers -> Jobs] /\ \A v \in Workers : Fit(v, job'[v])
  BY <1>2, <1>6, SetJob
<1> QED
  BY <1>6, <1>7, <1>8, QuietOthers, PartsNext

LEMMA ProbeIInv ==
    ASSUME IInv, NEW w \in Workers, NEW d \in Destinations, Probe(w, d)
    PROVE  IInv'
<1> DEFINE j == job[w]
           ahead == IF d \in OverwritesAhead THEN {} ELSE AheadHeads(j.tree, mirror[d])
           chosen == Chosen(d, j.tree, ahead)
           pairs == j.ahead \cup {<<d, h>> : h \in ahead}
           noted == [j EXCEPT !.ahead = pairs]
           p == [noted EXCEPT !.pc = "push", !.refs = chosen, !.seen = mirror[d]]
           n == IF Admitted(d, j.tree) = {} THEN After(j, d, "probe")
                ELSE IF chosen = {} THEN After(noted, d, "probe") ELSE p
<1>1. j \in Jobs /\ Fit(w, j) /\ j.pc = "probe" /\ d \in j.todo /\ Front(j, d)
  BY JobFacts, AtIsFront DEF Probe
<1>2. job' = [job EXCEPT ![w] = n] /\ UNCHANGED mirror /\ Quiet
  BY JobFacts DEF Probe
<1>3. chosen \in SUBSET Refs /\ ahead \in SUBSET Heads /\ mirror[d] \in Trees
  BY JobFacts DEF Chosen, Admitted, AheadHeads
<1>4. \A r \in chosen :
        /\ j.tree[r] # Absent /\ Admits(d, j.tree[r])
        /\ d \notin OverwritesAhead /\ r \in Heads /\ mirror[d][r] # Absent
              => ~IsAhead(mirror[d][r], j.tree[r])
  BY DEF Chosen, Admitted, AheadHeads
<1> HIDE DEF chosen, ahead
<1>5. pairs \in SUBSET (Destinations \X Refs)
  BY <1>1, <1>3 DEF Jobs
<1> HIDE DEF pairs
<1>6. /\ noted \in Jobs /\ noted.op = j.op /\ noted.todo = j.todo /\ noted.tree = j.tree
  BY <1>1, <1>5 DEF Jobs
<1>7. After(j, d, "probe") \in Jobs /\ Fit(w, After(j, d, "probe"))
  BY <1>1, AfterOK DEF Fit, SweepIsSafe
<1>8. After(noted, d, "probe") \in Jobs /\ Fit(w, After(noted, d, "probe"))
  <2> HIDE DEF noted
  <2> QED
    BY <1>1, <1>6, AfterOK DEF Fit, SweepIsSafe
<1>9. ASSUME chosen # {} PROVE p \in Jobs /\ Fit(w, p)
  <2>1. /\ p \in Jobs /\ p.op = j.op /\ p.pc = "push" /\ p.todo = j.todo
        /\ p.tree = j.tree /\ p.refs = chosen /\ p.seen = mirror[d]
    BY <1>3, <1>6 DEF Jobs
  <2> HIDE DEF p, noted
  <2>2. \A e \in Destinations : Front(p, e) => e = d
    <3> SUFFICES ASSUME NEW e \in Destinations, Front(p, e) PROVE e = d
      OBVIOUS
    <3>1. e \in j.todo /\ Front(j, e)
      BY <2>1 DEF Front
    <3> QED
      BY <1>1, <3>1, FrontIsOne
  <2>3. PushIsChosen(p)
    BY <1>4, <2>1, <2>2 DEF PushIsChosen
  <2>4. HasWork(p) /\ PushesRefs(p) /\ SweepIsSafe(w, p)
    BY <1>1, <1>4, <1>9, <2>1 DEF Fit, HasWork, PushesRefs, SweepIsSafe
  <2> QED
    BY <2>1, <2>3, <2>4 DEF Fit
<1>10. n \in Jobs /\ Fit(w, n)
  <2> HIDE DEF p, noted
  <2> QED
    BY <1>7, <1>8, <1>9
<1> HIDE DEF n
<1> QED
  BY <1>2, <1>10, QuietOthers, JobOnly

(* A push, whole or in part: its refs are admitted by its destination.     *)
LEMMA PushedRefs ==
    ASSUME IInv, NEW w \in Workers, NEW d \in Destinations, job[w].pc = "push",
           At(w, d), NEW done \in SUBSET job[w].refs, mirror' = Pushed(w, d, done)
    PROVE  mirror' \in [Destinations -> Trees] /\ GateHolds'
<1>1. job[w] \in Jobs /\ Fit(w, job[w]) /\ Front(job[w], d)
  BY JobFacts, AtIsFront
<1>2. done \in SUBSET Refs /\ job[w].tree \in Trees
  BY <1>1 DEF Jobs
<1>3. \A r \in done : Admits(d, job[w].tree[r])
  BY <1>1 DEF Fit, PushIsChosen
<1>4. mirror' = [mirror EXCEPT ![d] =
                    [r \in Refs |-> IF r \in done THEN job[w].tree[r] ELSE @[r]]]
  BY DEF Pushed
<1> QED
  BY <1>2, <1>3, <1>4, PushedMirror

LEMMA PushIInv ==
    ASSUME IInv, NEW w \in Workers, NEW d \in Destinations, Push(w, d)
    PROVE  IInv'
<1> DEFINE n == After(job[w], d, "probe")
<1>1. job[w] \in Jobs /\ Fit(w, job[w]) /\ d \in job[w].todo
  BY JobFacts, AtIsFront DEF Push
<1>2. n \in Jobs /\ Fit(w, n)
  BY <1>1, AfterOK DEF Fit, SweepIsSafe
<1>3. job' = [job EXCEPT ![w] = n] /\ Quiet
  BY JobFacts DEF Push
<1>4. mirror' \in [Destinations -> Trees] /\ GateHolds'
  BY PushedRefs DEF Push
<1> HIDE DEF n
<1>5. job' \in [Workers -> Jobs] /\ \A v \in Workers : Fit(v, job'[v])
  BY <1>2, <1>3, SetJob
<1> QED
  BY <1>3, <1>4, <1>5, QuietOthers, PartsNext

LEMMA PushFailsIInv ==
    ASSUME IInv, NEW w \in Workers, NEW d \in Destinations, NEW done \in SUBSET Refs,
           PushFails(w, d, done)
    PROVE  IInv'
<1> DEFINE f == [job[w] EXCEPT !.failed = TRUE]
           n == After(f, d, "probe")
<1>1. job[w] \in Jobs /\ Fit(w, job[w]) /\ d \in job[w].todo
  BY JobFacts, AtIsFront DEF PushFails
<1>2. job' = [job EXCEPT ![w] = n] /\ Fault /\ UNCHANGED events
  BY JobFacts DEF PushFails
<1>3. /\ f \in Jobs /\ f.op = job[w].op /\ f.todo = job[w].todo
  BY <1>1, FailedOK
<1> HIDE DEF f
<1>4. n \in Jobs /\ Fit(w, n)
  BY <1>1, <1>3, AfterOK DEF Fit, SweepIsSafe
<1>5. mirror' \in [Destinations -> Trees] /\ GateHolds'
  BY PushedRefs DEF PushFails
<1> HIDE DEF n
<1>6. job' \in [Workers -> Jobs] /\ \A v \in Workers : Fit(v, job'[v])
  BY <1>2, <1>4, SetJob
<1> QED
  BY <1>2, <1>5, <1>6, FaultOthers, PartsNext

LEMMA ListIInv ==
    ASSUME IInv, NEW w \in Workers, NEW d \in Destinations, List(w, d)
    PROVE  IInv'
<1> DEFINE j == job[w]
           doomed == Doomed(d, j.tree)
           m == [j EXCEPT !.pc = "delete", !.refs = doomed]
           n == IF d \in Unusable \/ doomed = {} THEN After(j, d, "list") ELSE m
<1>1. j \in Jobs /\ Fit(w, j) /\ j.pc = "list" /\ d \in j.todo
  BY JobFacts, AtIsFront DEF List
<1>2. job' = [job EXCEPT ![w] = n] /\ UNCHANGED mirror /\ Quiet
  BY JobFacts DEF List
<1>3. doomed \in SUBSET Refs /\ \A r \in doomed : r \notin Kept /\ j.tree[r] = Absent
  BY DEF Doomed
<1> HIDE DEF doomed
<1>4. After(j, d, "list") \in Jobs /\ Fit(w, After(j, d, "list"))
  BY <1>1, AfterOK DEF Fit, SweepIsSafe
<1>5. ASSUME doomed # {} PROVE m \in Jobs /\ Fit(w, m)
  <2>1. /\ m \in Jobs /\ m.op = j.op /\ m.pc = "delete" /\ m.todo = j.todo
        /\ m.tree = j.tree /\ m.refs = doomed
    BY <1>1, <1>3 DEF Jobs
  <2> HIDE DEF m
  <2> QED
    BY <1>1, <1>3, <1>5, <2>1
    DEF Fit, HasWork, PushesRefs, PushIsChosen, SweepIsSafe
<1>6. n \in Jobs /\ Fit(w, n)
  <2> HIDE DEF m
  <2> QED
    BY <1>4, <1>5
<1> HIDE DEF n
<1> QED
  BY <1>2, <1>6, QuietOthers, JobOnly

LEMMA StruckOK ==
    ASSUME IInv, NEW w \in Workers, NEW d \in Destinations, NEW r \in Refs,
           job[w].pc = "delete", At(w, d), r \in job[w].refs
    PROVE  Struck(job[w], d, r) \in Jobs /\ Fit(w, Struck(job[w], d, r))
<1> DEFINE j == job[w]
           m == [j EXCEPT !.refs = @ \ {r}]
<1>1. j \in Jobs /\ Fit(w, j) /\ d \in j.todo
  BY JobFacts, AtIsFront
<1>2. After(j, d, "list") \in Jobs /\ Fit(w, After(j, d, "list"))
  BY <1>1, AfterOK DEF Fit, SweepIsSafe
<1>3. ASSUME j.refs # {r} PROVE m \in Jobs /\ Fit(w, m)
  <2>1. /\ m \in Jobs /\ m.op = j.op /\ m.pc = "delete" /\ m.todo = j.todo
        /\ m.tree = j.tree /\ m.refs = j.refs \ {r}
    BY <1>1 DEF Jobs
  <2>2. m.refs # {}
    BY <1>3, <2>1
  <2> HIDE DEF m
  <2> QED
    BY <1>1, <2>1, <2>2 DEF Fit, HasWork, PushesRefs, PushIsChosen, SweepIsSafe
<1> QED
  BY <1>2, <1>3 DEF Struck

LEMMA DeleteIInv ==
    ASSUME IInv, NEW w \in Workers, NEW d \in Destinations, NEW r \in Refs, Delete(w, d, r)
    PROVE  IInv'
<1> DEFINE n == Struck(job[w], d, r)
           one == {r}
<1>1. n \in Jobs /\ Fit(w, n)
  BY StruckOK DEF Delete
<1>2. job' = [job EXCEPT ![w] = n] /\ Quiet
  BY JobFacts DEF Delete
<1>3. mirror' = [mirror EXCEPT ![d] =
                    [s \in Refs |-> IF s \in one THEN Empty[s] ELSE @[s]]]
  BY JobFacts DEF Delete, Trees, Empty
<1>4. one \in SUBSET Refs /\ \A s \in one : Empty[s] = Absent
  BY DEF Empty
<1> HIDE DEF n, one
<1>5. mirror' \in [Destinations -> Trees] /\ GateHolds'
  BY <1>3, <1>4, EmptyTree, PushedMirror
<1>6. job' \in [Workers -> Jobs] /\ \A v \in Workers : Fit(v, job'[v])
  BY <1>1, <1>2, SetJob
<1> QED
  BY <1>2, <1>5, <1>6, QuietOthers, PartsNext

----------------------------------------------------------------------------
(* Steps that fail without writing.                                        *)
LEMMA CloneFailsIInv == ASSUME IInv, NEW w \in Workers, CloneFails(w) PROVE IInv'
<1> DEFINE f == [job[w] EXCEPT !.failed = TRUE]
           n == Over(f)
<1>1. f \in Jobs
  BY JobFacts, FailedOK
<1>2. job' = [job EXCEPT ![w] = n] /\ UNCHANGED mirror /\ Fault /\ UNCHANGED events
  BY JobFacts DEF CloneFails
<1> HIDE DEF f
<1>3. n \in Jobs /\ Fit(w, n)
  BY <1>1, OverOK
<1> HIDE DEF n
<1> QED
  BY <1>2, <1>3, FaultOthers, JobOnly

LEMMA ProbeFailsIInv ==
    ASSUME IInv, NEW w \in Workers, NEW d \in Destinations, ProbeFails(w, d)
    PROVE  IInv'
<1> DEFINE f == [job[w] EXCEPT !.failed = TRUE]
           n == After(f, d, "probe")
<1>1. job[w] \in Jobs /\ Fit(w, job[w]) /\ d \in job[w].todo
  BY JobFacts, AtIsFront DEF ProbeFails
<1>2. job' = [job EXCEPT ![w] = n] /\ UNCHANGED mirror /\ Fault /\ UNCHANGED events
  BY JobFacts DEF ProbeFails
<1>3. f \in Jobs /\ f.op = job[w].op /\ f.todo = job[w].todo
  BY <1>1, FailedOK
<1> HIDE DEF f
<1>4. n \in Jobs /\ Fit(w, n)
  BY <1>1, <1>3, AfterOK DEF Fit, SweepIsSafe
<1> HIDE DEF n
<1> QED
  BY <1>2, <1>4, FaultOthers, JobOnly

LEMMA EventFailsIInv ==
    ASSUME IInv, NEW w \in Workers, NEW d \in Destinations, EventFails(w, d)
    PROVE  IInv'
<1> DEFINE n == After(job[w], d, "event")
<1>1. job[w] \in Jobs /\ Fit(w, job[w]) /\ job[w].pc = "event" /\ d \in job[w].todo
  BY JobFacts, AtIsFront DEF EventFails
<1>2. job' = [job EXCEPT ![w] = n] /\ UNCHANGED mirror /\ Fault /\ UNCHANGED events
  BY JobFacts DEF EventFails
<1>3. n \in Jobs /\ Fit(w, n)
  BY <1>1, AfterOK DEF Fit, PushesRefs, SweepIsSafe
<1> HIDE DEF n
<1> QED
  BY <1>2, <1>3, FaultOthers, JobOnly

LEMMA ListFailsIInv ==
    ASSUME IInv, NEW w \in Workers, NEW d \in Destinations, ListFails(w, d)
    PROVE  IInv'
<1> DEFINE n == After(job[w], d, "list")
<1>1. job[w] \in Jobs /\ Fit(w, job[w]) /\ job[w].pc = "list" /\ d \in job[w].todo
  BY JobFacts, AtIsFront DEF ListFails
<1>2. job' = [job EXCEPT ![w] = n] /\ UNCHANGED mirror /\ Fault /\ UNCHANGED events
  BY JobFacts DEF ListFails
<1>3. n \in Jobs /\ Fit(w, n)
  BY <1>1, AfterOK DEF Fit, SweepIsSafe
<1> HIDE DEF n
<1> QED
  BY <1>2, <1>3, FaultOthers, JobOnly

LEMMA DeleteFailsIInv ==
    ASSUME IInv, NEW w \in Workers, NEW d \in Destinations, NEW r \in Refs,
           DeleteFails(w, d, r)
    PROVE  IInv'
<1> DEFINE n == Struck(job[w], d, r)
<1>1. n \in Jobs /\ Fit(w, n)
  BY StruckOK DEF DeleteFails
<1>2. job' = [job EXCEPT ![w] = n] /\ UNCHANGED mirror /\ Fault /\ UNCHANGED events
  BY JobFacts DEF DeleteFails
<1> HIDE DEF n
<1> QED
  BY <1>1, <1>2, FaultOthers, JobOnly

LEMMA DieIInv == ASSUME IInv, NEW w \in Workers, Die(w) PROVE IInv'
<1>1. job' = [job EXCEPT ![w] = NoJob] /\ UNCHANGED mirror /\ Fault /\ UNCHANGED events
  BY DEF Die
<1> QED
  BY <1>1, NoJobOK, FaultOthers, JobOnly

LEMMA StutterIInv == ASSUME IInv, UNCHANGED vars PROVE IInv'
<1>1. Others'
  BY DEF vars, bounds, IInv, TypeOK, Others
<1>2. mirror' \in [Destinations -> Trees] /\ GateHolds'
  BY KeptMirror DEF vars
<1>3. job' \in [Workers -> Jobs] /\ \A w \in Workers : Fit(w, job'[w])
  BY DEF vars, IInv, TypeOK
<1> QED
  BY <1>1, <1>2, <1>3, PartsNext

----------------------------------------------------------------------------
LEMMA WorkIInv == ASSUME IInv, NEW w \in Workers, Work(w) PROVE IInv'
<1>1. CASE \/ ReadCanonical(w) \/ ReadCanonicalTags(w) \/ ReadMirrorHeads(w)
           \/ ReadMirror(w) \/ ReadMirrorAgain(w) \/ Clone(w)
  BY <1>1, ReadCanonicalIInv, ReadCanonicalTagsIInv, ReadMirrorHeadsIInv, ReadMirrorIInv,
     ReadMirrorAgainIInv, CloneIInv
<1>2. ASSUME NEW d \in Destinations,
             PushEvent(w, d) \/ Probe(w, d) \/ Push(w, d) \/ List(w, d)
      PROVE  IInv'
  BY <1>2, PushEventIInv, ProbeIInv, PushIInv, ListIInv
<1>3. ASSUME NEW d \in Destinations, NEW r \in Refs, Delete(w, d, r) PROVE IInv'
  BY <1>3, DeleteIInv
<1> QED
  BY <1>1, <1>2, <1>3 DEF Work

LEMMA TroubleIInv == ASSUME IInv, NEW w \in Workers, Trouble(w) PROVE IInv'
<1>1. CASE CloneFails(w) \/ Die(w)
  BY <1>1, CloneFailsIInv, DieIInv
<1>2. ASSUME NEW d \in Destinations,
             ProbeFails(w, d) \/ EventFails(w, d) \/ ListFails(w, d)
      PROVE  IInv'
  BY <1>2, ProbeFailsIInv, EventFailsIInv, ListFailsIInv
<1>3. ASSUME NEW d \in Destinations, NEW done \in SUBSET Refs, PushFails(w, d, done)
      PROVE  IInv'
  BY <1>3, PushFailsIInv
<1>4. ASSUME NEW d \in Destinations, NEW r \in Refs, DeleteFails(w, d, r) PROVE IInv'
  BY <1>4, DeleteFailsIInv
<1> QED
  BY <1>1, <1>2, <1>3, <1>4 DEF Trouble

LEMMA NextIInv == ASSUME IInv, [Next]_vars PROVE IInv'
<1>1. ASSUME NEW r \in Refs, NEW c \in Commits \cup {Absent}, Edit(r, c) PROVE IInv'
  BY <1>1, EditIInv
<1>2. ASSUME NEW d \in Destinations, NEW h \in Heads, NEW c \in Commits,
             StrangerPushes(d, h, c)
      PROVE  IInv'
  BY <1>2, StrangerIInv
<1>3. ASSUME NEW w \in Workers, NEW r \in Refs, NEW c \in Commits,
             Receive(w, r, c) \/ ReceiveOneOfTwo(w, r, c)
      PROVE  IInv'
  BY <1>3, ReceiveIInv
<1>4. ASSUME NEW w \in Workers, Reconcile(w) \/ Sync(w) \/ Sweep(w) PROVE IInv'
  BY <1>4, ReconcileIInv, SyncIInv, SweepIInv
<1>5. ASSUME NEW w \in Workers, Engine(w) PROVE IInv'
  BY <1>5, WorkIInv, TroubleIInv DEF Engine
<1>6. CASE UNCHANGED vars
  BY <1>6, StutterIInv
<1> QED
  BY <1>1, <1>2, <1>3, <1>4, <1>5, <1>6 DEF Next

(* What a call is about to push or delete stays admitted, chosen and       *)
(* doomed until it does, in every reachable state (the locals of           *)
(* push_event(), sync_state() and sweep_deleted_refs()).                   *)
THEOREM Invariant == Spec => []IInv
<1> QED
  BY InitIInv, NextIInv, PTL DEF Spec

(* The variables keep their types and no call at work has run out of       *)
(* destinations or refs (the two loops, mirror.py:611-679 and 808-845).    *)
THEOREM TypeCorrect == Spec => []TypeOK
<1>1. IInv => TypeOK
  BY DEF IInv
<1> QED
  BY <1>1, Invariant, PTL

(* The visibility gate holds on every mirror, whoever pushed and from      *)
(* however stale a payload or clone (mirror.py:458-469 and 572-580).       *)
THEOREM GateAlwaysHolds == Spec => []GateHolds
<1>1. IInv => GateHolds
  BY DEF IInv
<1> QED
  BY <1>1, Invariant, PTL

----------------------------------------------------------------------------
(* Who writes a mirror, and who moves a call.                              *)
Writes(w, d, done) ==
    /\ job[w].pc \in {"event", "push"} /\ At(w, d) /\ done \subseteq job[w].refs
    /\ mirror' = Pushed(w, d, done)

LEMMA PushEventWrites ==
    ASSUME IInv, NEW w \in Workers, NEW d \in Destinations, PushEvent(w, d)
    PROVE  \E done \in SUBSET Refs : Writes(w, d, done)
<1> DEFINE done == {r \in job[w].refs : Admits(d, job[w].tree[r])}
<1>1. job[w].refs \in SUBSET Refs
  BY JobFacts DEF Jobs
<1>2. Writes(w, d, done)
  BY DEF PushEvent, Writes, Pushed
<1> QED
  BY <1>1, <1>2

LEMMA Writers ==
    ASSUME IInv, Next, NEW d \in Destinations, NEW r \in Refs,
           mirror'[d][r] # mirror[d][r]
    PROVE  \/ \E h \in Heads, c \in Commits : StrangerPushes(d, h, c)
           \/ \E w \in Workers : \E done \in SUBSET Refs : Writes(w, d, done) /\ r \in done
           \/ \E w \in Workers : Delete(w, d, r)
<1> DEFINE Goal == \/ \E h \in Heads, c \in Commits : StrangerPushes(d, h, c)
                   \/ \E w \in Workers : \E done \in SUBSET Refs :
                         Writes(w, d, done) /\ r \in done
                   \/ \E w \in Workers : Delete(w, d, r)
<1>1. mirror' # mirror /\ mirror \in [Destinations -> Trees]
  BY DEF IInv, TypeOK
<1>2. ASSUME NEW e \in Destinations, NEW h \in Heads, NEW c \in Commits,
             StrangerPushes(e, h, c)
      PROVE  Goal
  <2>1. e = d
    BY <1>1, <1>2 DEF StrangerPushes
  <2> QED
    BY <1>2, <2>1
<1>3. ASSUME NEW w \in Workers, NEW e \in Destinations, NEW done \in SUBSET Refs,
             Writes(w, e, done)
      PROVE  Goal
  <2>1. \A f \in Destinations : \A s \in Refs : mirror'[f][s] =
          IF f = e /\ s \in done THEN job[w].tree[s] ELSE mirror[f][s]
    BY <1>1, <1>3 DEF Writes, Pushed, Trees
  <2>2. e = d /\ r \in done
    BY <2>1
  <2> QED
    BY <1>3, <2>2
<1>4. ASSUME NEW w \in Workers, NEW e \in Destinations, NEW s \in Refs, Delete(w, e, s)
      PROVE  Goal
  <2>1. \A f \in Destinations : \A q \in Refs : mirror'[f][q] =
          IF f = e /\ q = s THEN Absent ELSE mirror[f][q]
    BY <1>1, <1>4 DEF Delete, Trees
  <2>2. e = d /\ s = r
    BY <2>1
  <2> QED
    BY <1>4, <2>2
<1>5. ASSUME NEW w \in Workers, Work(w) PROVE Goal
  <2>1. ASSUME NEW e \in Destinations, PushEvent(w, e) PROVE Goal
    BY <1>3, <2>1, PushEventWrites
  <2>2. ASSUME NEW e \in Destinations, Push(w, e) PROVE Goal
    <3>1. Writes(w, e, job[w].refs) /\ job[w].refs \in SUBSET Refs
      BY <2>2, JobFacts DEF Push, Writes, Jobs
    <3> QED
      BY <1>3, <3>1
  <2> QED
    BY <1>1, <1>4, <1>5, <2>1, <2>2
    DEF Work, ReadCanonical, ReadCanonicalTags, ReadMirrorHeads, ReadMirror,
        ReadMirrorAgain, Clone, Probe, List
<1>6. ASSUME NEW w \in Workers, Trouble(w) PROVE Goal
  <2>1. ASSUME NEW e \in Destinations, NEW done \in SUBSET Refs, PushFails(w, e, done)
        PROVE  Goal
    BY <1>3, <2>1 DEF PushFails, Writes
  <2> QED
    BY <1>1, <1>6, <2>1
    DEF Trouble, CloneFails, Die, ProbeFails, EventFails, ListFails, DeleteFails
<1> HIDE DEF Goal
<1>7. Goal
  BY <1>1, <1>2, <1>5, <1>6
  DEF Next, Engine, Edit, Receive, ReceiveOneOfTwo, Reconcile, Sync, Sweep
<1> QED
  BY <1>7 DEF Goal

(* A call that moves is started, or takes a step of its own.               *)
LEMMA Mover ==
    ASSUME IInv, Next, NEW v \in Workers, job'[v] # job[v]
    PROVE  job[v].pc \in Resting \/ Engine(v)
<1>1. job \in [Workers -> Jobs] /\ job' # job
  BY DEF IInv, TypeOK
<1>2. ASSUME NEW w \in Workers, NEW n, job' = [job EXCEPT ![w] = n] PROVE w = v
  BY <1>1, <1>2
<1>3. ASSUME NEW w \in Workers, NEW n, Starts(w, n) PROVE job[v].pc \in Resting
  BY <1>2, <1>3 DEF Starts
<1>4. ASSUME NEW w \in Workers, Work(w) PROVE w = v
  <2>1. CASE ReadCanonical(w)
    <3>1. job' = [job EXCEPT ![w] = [job[w] EXCEPT !.want = Listed(canonical, Empty),
                                                   !.pc = "wantTags"]]
      BY <1>1, <2>1 DEF ReadCanonical, Jobs
    <3> QED
      BY <1>2, <3>1
  <2>6. CASE ReadCanonicalTags(w)
    <3>1. job' = [job EXCEPT ![w] = [job[w] EXCEPT !.want = Listed(job[w].want, canonical),
                                                   !.pc = "have"]]
      BY <1>1, <2>6 DEF ReadCanonicalTags, Jobs
    <3> QED
      BY <1>2, <3>1
  <2>7. CASE ReadMirrorHeads(w)
    <3>1. job' = [job EXCEPT ![w] = [job[w] EXCEPT !.seen = Listed(mirror[Measures[w]], Empty),
                                                   !.pc = "haveTags"]]
      BY <1>1, <2>7 DEF ReadMirrorHeads, Jobs
    <3> QED
      BY <1>2, <3>1
  <2>2. CASE Clone(w)
    <3>1. job' = [job EXCEPT ![w] = [job[w] EXCEPT !.tree = canonical,
                                          !.todo = Destinations, !.pc = "probe"]]
      BY <1>1, <2>2 DEF Clone, Jobs
    <3> QED
      BY <1>2, <3>1
  <2>3. CASE ReadMirror(w) \/ ReadMirrorAgain(w)
    BY <1>2, <2>3 DEF ReadMirror, ReadMirrorAgain
  <2>4. ASSUME NEW d \in Destinations,
               PushEvent(w, d) \/ Probe(w, d) \/ Push(w, d) \/ List(w, d)
        PROVE  w = v
    BY <1>2, <2>4 DEF PushEvent, Probe, Push, List
  <2>5. ASSUME NEW d \in Destinations, NEW r \in Refs, Delete(w, d, r) PROVE w = v
    BY <1>2, <2>5 DEF Delete
  <2> QED
    BY <1>4, <2>1, <2>2, <2>3, <2>4, <2>5, <2>6, <2>7 DEF Work
<1>5. ASSUME NEW w \in Workers, Trouble(w) PROVE w = v
  BY <1>2, <1>5 DEF Trouble, CloneFails, Die, ProbeFails, EventFails, ListFails, PushFails, DeleteFails
<1>6. ASSUME NEW w \in Workers, Engine(w) PROVE Engine(v)
  <2>1. w = v
    BY <1>4, <1>5, <1>6 DEF Engine
  <2> QED
    BY <1>6, <2>1
<1>7. ASSUME NEW w \in Workers, NEW r \in Refs, NEW c \in Commits,
             Receive(w, r, c) \/ ReceiveOneOfTwo(w, r, c)
      PROVE  job[v].pc \in Resting
  BY <1>3, <1>7 DEF Receive, ReceiveOneOfTwo, TakesEvent
<1>8. ASSUME NEW w \in Workers, Reconcile(w) \/ Sync(w) \/ Sweep(w)
      PROVE  job[v].pc \in Resting
  BY <1>3, <1>8 DEF Reconcile, Sync, Sweep
<1>9. ~\E r \in Refs, c \in Commits \cup {Absent} : Edit(r, c)
  BY <1>1 DEF Edit
<1>10. ~\E d \in Destinations, h \in Heads, c \in Commits : StrangerPushes(d, h, c)
  BY <1>1 DEF StrangerPushes
<1> QED
  BY <1>6, <1>7, <1>8, <1>9, <1>10 DEF Next

----------------------------------------------------------------------------
(* A deletion moves its call on, and takes what the sweep's clone lacked.  *)
LEMMA DeleteIsSwept ==
    ASSUME IInv, NEW w \in Workers, NEW d \in Destinations, NEW r \in Refs, Delete(w, d, r)
    PROVE  /\ w \in Sweepers /\ r \notin Kept
           /\ job[w].op = "sweep" /\ job[w].tree # Empty /\ job[w].tree[r] = Absent
           /\ job'[w] # job[w]
<1> DEFINE j == job[w]
           n == Struck(j, d, r)
<1>1. j \in Jobs /\ Fit(w, j) /\ j.pc = "delete" /\ d \in j.todo /\ r \in j.refs
  BY JobFacts, AtIsFront DEF Delete
<1>2. w \in Sweepers /\ r \notin Kept /\ j.op = "sweep" /\ j.tree # Empty /\ j.tree[r] = Absent
  BY <1>1 DEF Fit, SweepIsSafe
<1>3. job'[w] = n
  BY DEF Delete, IInv, TypeOK
<1>4. n # j
  <2>1. CASE j.refs # {r}
    <3>1. n = [j EXCEPT !.refs = @ \ {r}]
      BY <2>1 DEF Struck
    <3>2. n.refs = j.refs \ {r}
      BY <1>1, <3>1 DEF Jobs
    <3> QED
      BY <1>1, <3>2
  <2>2. CASE j.refs = {r} /\ j.todo = {d}
    BY <1>1, <1>2, <2>2 DEF Struck, After, Over, NoJob
  <2>3. CASE j.refs = {r} /\ j.todo # {d}
    <3>1. n = [j EXCEPT !.todo = @ \ {d}, !.pc = "list", !.seen = Empty, !.refs = {}]
      BY <2>3 DEF Struck, After
    <3>2. n.refs = {}
      BY <1>1, <3>1 DEF Jobs
    <3> QED
      BY <1>1, <3>2
  <2> QED
    BY <2>1, <2>2, <2>3
<1> QED
  BY <1>2, <1>3, <1>4

LEMMA AbsenceIsSwept ==
    ASSUME IInv, [Next]_vars, NEW d \in Destinations, NEW r \in Refs,
           mirror[d][r] # Absent, mirror'[d][r] = Absent
    PROVE  /\ r \notin Kept
           /\ \E w \in Sweepers : /\ job[w].op = "sweep" /\ job[w].tree # Empty
                                   /\ job[w].tree[r] = Absent /\ job'[w] # job[w]
<1>1. Next /\ mirror'[d][r] # mirror[d][r]
  BY DEF vars
<1>2. ASSUME NEW h \in Heads, NEW c \in Commits, StrangerPushes(d, h, c) PROVE FALSE
  <2>1. mirror'[d][r] = IF r = h THEN c ELSE mirror[d][r]
    BY <1>2 DEF StrangerPushes, IInv, TypeOK, Trees
  <2> QED
    BY <2>1, MirrorAssumption
<1>3. ASSUME NEW w \in Workers, NEW done \in SUBSET Refs, Writes(w, d, done), r \in done
      PROVE  FALSE
  <2>1. mirror'[d][r] = job[w].tree[r]
    BY <1>3 DEF Writes, Pushed, IInv, TypeOK
  <2>2. job[w].tree[r] # Absent
    BY <1>3, JobFacts DEF Writes, Fit, PushesRefs
  <2> QED
    BY <2>1, <2>2
<1>4. PICK w \in Workers : Delete(w, d, r)
  BY <1>1, <1>2, <1>3, Writers
<1> QED
  BY <1>4, DeleteIsSwept

(* A ref leaves a mirror only by a sweep whose clone did not hold it, and  *)
(* a kept ref never does (sweep_deleted_refs(), mirror.py:746-761).        *)
THEOREM OnlySweepsTakeAway == Spec => OnlySweepsDelete
<1>1. IInv /\ [Next]_vars =>
        [\A d \in Destinations, r \in Refs :
          mirror[d][r] # Absent /\ mirror'[d][r] = Absent =>
             /\ r \notin Kept
             /\ \E w \in Sweepers : /\ job[w].op = "sweep" /\ job[w].tree # Empty
                                     /\ job[w].tree[r] = Absent
                                     /\ job'[w] # job[w]]_vars
  BY AbsenceIsSwept
<1> QED
  BY <1>1, Invariant, PTL DEF Spec, OnlySweepsDelete

----------------------------------------------------------------------------
(* A sync that writes a head it saw as it is does not take commits away.   *)
LEMMA SyncKeepsAhead ==
    ASSUME IInv, [Next]_vars, NEW w \in Reconcilers, NEW d \in Destinations \ OverwritesAhead,
           NEW h \in Heads, job[w].pc = "push", At(w, d), job'[w] # job[w],
           mirror'[d][h] # mirror[d][h], mirror[d][h] = job[w].seen[h], mirror[d][h] # Absent
    PROVE  job[w].tree[h] \notin History[mirror[d][h]]
<1>1. Next /\ job \in [Workers -> Jobs] /\ mirror \in [Destinations -> Trees]
      /\ mirror' # mirror
  BY DEF vars, IInv, TypeOK
<1>2. Engine(w)
  BY <1>1, Mover DEF Resting
<1>3. PICK e \in Destinations, done \in SUBSET Refs :
        At(w, e) /\ done \subseteq job[w].refs /\ mirror' = Pushed(w, e, done)
  <2>1. ASSUME NEW e \in Destinations, Push(w, e)
        PROVE  At(w, e) /\ job[w].refs \in SUBSET Refs /\ mirror' = Pushed(w, e, job[w].refs)
    BY <2>1, JobFacts DEF Push, Jobs
  <2>2. ASSUME NEW e \in Destinations, NEW done \in SUBSET Refs, PushFails(w, e, done)
        PROVE  At(w, e) /\ done \subseteq job[w].refs /\ mirror' = Pushed(w, e, done)
    BY <2>2 DEF PushFails
  <2>3. \/ \E e \in Destinations : Push(w, e)
        \/ \E e \in Destinations : \E done \in SUBSET Refs : PushFails(w, e, done)
    BY <1>1, <1>2
    DEF Engine, Work, Trouble, ReadCanonical, ReadCanonicalTags, ReadMirrorHeads,
        ReadMirror, ReadMirrorAgain, Clone, Probe, List, PushEvent, Delete, CloneFails, Die, ProbeFails, EventFails, ListFails, DeleteFails
  <2> QED
    BY <2>1, <2>2, <2>3
<1>4. \A f \in Destinations : \A s \in Refs : mirror'[f][s] =
        IF f = e /\ s \in done THEN job[w].tree[s] ELSE mirror[f][s]
  BY <1>1, <1>3 DEF Pushed, Trees
<1>5. d = e /\ h \in done /\ mirror'[d][h] = job[w].tree[h]
  BY <1>4
<1>6. ~IsAhead(job[w].seen[h], job[w].tree[h])
  BY <1>3, <1>5, JobFacts, AtIsFront DEF Fit, PushIsChosen
<1> QED
  BY <1>5, <1>6 DEF IsAhead

(* A sync overwrites a head that is ahead only if it moved after the probe *)
(* or overwrite_ahead is set (sync_state(), mirror.py:582-587).            *)
THEOREM WhatIsProbedAheadIsKept == Spec => ProbedAheadIsKept
<1>1. IInv /\ [Next]_vars =>
        [\A w \in Reconcilers, d \in Destinations \ OverwritesAhead, h \in Heads :
          /\ job[w].pc = "push" /\ At(w, d) /\ job'[w] # job[w]
          /\ mirror'[d][h] # mirror[d][h]
          /\ mirror[d][h] = job[w].seen[h] /\ mirror[d][h] # Absent
          => job[w].tree[h] \notin History[mirror[d][h]]]_vars
  BY SyncKeepsAhead
<1> QED
  BY <1>1, Invariant, PTL DEF Spec, ProbedAheadIsKept

----------------------------------------------------------------------------
(* Only the two measures end a reconcile with a report.                    *)
LEMMA OnlyMeasuresReport ==
    ASSUME IInv, [Next]_vars, NEW w \in Workers, job[w].pc = "haveTags", job'[w].pc = "returned"
    PROVE  ReadMirror(w) \/ ReadMirrorAgain(w)
<1>1. Next /\ job'[w] # job[w] /\ job \in [Workers -> Jobs]
  BY DEF vars, IInv, TypeOK
<1>2. Engine(w)
  BY <1>1, Mover DEF Resting
<1>3. /\ ~Clone(w) /\ ~CloneFails(w)
      /\ ~ReadCanonical(w) /\ ~ReadCanonicalTags(w) /\ ~ReadMirrorHeads(w)
  BY DEF Clone, CloneFails, ReadCanonical, ReadCanonicalTags, ReadMirrorHeads
<1>4. ~Die(w)
  BY <1>1 DEF Die, NoJob
<1> QED
  BY <1>2, <1>3, <1>4
  DEF Engine, Work, Trouble, Probe, Push, List, PushEvent, Delete, ProbeFails,
      EventFails, ListFails, DeleteFails, PushFails

LEMMA GreenHasDrifted ==
    ASSUME IInv, [Next]_vars, NEW w \in Reconcilers,
           job[w].pc = "haveTags", job'[w].pc = "returned", Green(job'[w]),
           NEW r \in Refs, job[w].want[r] # Absent
    PROVE  Have(w)[r] = job[w].want[r]
<1> DEFINE j == job[w]
           have == Have(w)
<1>1. job \in [Workers -> Jobs] /\ j \in Jobs
  BY DEF IInv, TypeOK
<1>2. r \notin Drifted(j.want, have)
  <2>1. CASE ReadMirror(w)
    <3>1. CASE Drifted(j.want, have) = {}
      BY <3>1
    <3>2. CASE Drifted(j.want, have) # {}
      <4>1. job'[w] = [j EXCEPT !.pc = "clone", !.want = Empty, !.seen = Empty]
        BY <1>1, <2>1, <3>2 DEF ReadMirror
      <4> QED
        BY <1>1, <4>1 DEF Jobs
    <3> QED
      BY <3>1, <3>2
  <2>2. CASE ReadMirrorAgain(w)
    <3>1. job'[w] = Report(j, have)
      BY <1>1, <2>2 DEF ReadMirrorAgain
    <3>2. /\ job'[w].ahead = j.ahead
          /\ job'[w].behind = {s \in Drifted(j.want, have) :
                                  have[s] # Absent => s \notin KeptAsAhead(j)}
      BY <3>1 DEF Report, NoJob
    <3>3. KeptAsAhead(j) = {} /\ job'[w].behind = {}
      BY <3>2 DEF Green, KeptAsAhead
    <3> QED
      BY <3>2, <3>3
  <2> QED
    BY <2>1, <2>2, OnlyMeasuresReport
<1> QED
  BY <1>2 DEF Drifted

(* A green report found the mirror as the canonical side had been read,    *)
(* the tags as they are and the heads as they were listed just before      *)
(* (DriftReport.green, reconcile.py:84-87).                                *)
THEOREM GreenReportsAreTrue == Spec => GreenIsInSync
<1>1. ASSUME IInv, [Next]_vars, NEW w \in Reconcilers,
             job[w].pc = "haveTags", job'[w].pc = "returned", Green(job'[w])
      PROVE  /\ \A t \in Tags : job[w].want[t] # Absent =>
                    mirror[Measures[w]][t] = job[w].want[t]
             /\ \A h \in Heads : job[w].want[h] # Absent =>
                    job[w].seen[h] = job[w].want[h]
  <2>1. /\ \A t \in Tags : t \in Refs /\ Have(w)[t] = mirror[Measures[w]][t]
        /\ \A h \in Heads : h \in Refs /\ Have(w)[h] = job[w].seen[h]
    BY MirrorAssumption DEF Refs, Have, Listed
  <2> QED
    BY <1>1, <2>1, GreenHasDrifted
<1>2. IInv /\ [Next]_vars =>
        [\A w \in Reconcilers :
          job[w].pc = "haveTags" /\ job'[w].pc = "returned" /\ Green(job'[w])
          => /\ \A t \in Tags : job[w].want[t] # Absent =>
                    mirror[Measures[w]][t] = job[w].want[t]
             /\ \A h \in Heads : job[w].want[h] # Absent =>
                    job[w].seen[h] = job[w].want[h]]_vars
  BY <1>1
<1> QED
  BY <1>2, Invariant, PTL DEF Spec, GreenIsInSync
=============================================================================
