--------------------- MODULE ReleasePublication_proof ---------------------
(***************************************************************************)
(* Proofs about ReleasePublication, for every set of publishers,          *)
(* destinations and artifacts, and every number of faults.                *)
(***************************************************************************)
EXTENDS ReleasePublication, TLAPS

Lists == {"published", "supplemented", "skipped", "failed"}
Good(c) == c.published \cup c.supplemented \cup c.skipped
First(c, d) == d \in c.todo /\ \A e \in c.todo : d <= e

(* AsBuilt, of any release.                                                *)
Built(r, notes, files) ==
    r.title = "gated" /\ r.notes = notes /\ files \subseteq r.assets

(* A release that is being completed: all it lacks are the files in left.  *)
Halfway(r, notes, files, left) ==
    /\ r.notes = notes
    /\ r.title \in {"gated", "similar"}
    /\ files \ left \subseteq r.assets

OncePerList(c) ==
    \A d \in Destinations :
        /\ ~(d \in c.published /\ d \in c.supplemented)
        /\ ~(d \in c.published /\ d \in c.skipped)
        /\ ~(d \in c.published /\ d \in c.failed)
        /\ ~(d \in c.supplemented /\ d \in c.skipped)
        /\ ~(d \in c.supplemented /\ d \in c.failed)
        /\ ~(d \in c.skipped /\ d \in c.failed)

(* What holds of a call c whose artifact directory holds files, on the     *)
(* releases rel and with the tag on the mirror if tag.                     *)
Ahead(c) ==
    /\ c.pc \in Steps => c.todo # {}
    /\ c.pc \in {"gates", "identity"} => c.todo = Destinations
    /\ c.pc \in {"checking", "gates", "identity"} => Reported(c) = {}
    /\ c.pc \in Publishing \cup {"returned"} => c.todo = Destinations \ Reported(c)
    /\ c.pc = "returned" => c.todo = {}
ReportHolds(c, files, rel) == \A d \in Good(c) : Built(rel[d], c.notes, files)
PlanHolds(c, files, rel) ==
    /\ c.pc \in {"retitle", "attach"} =>
          \A d \in Destinations : First(c, d) => Halfway(rel[d], c.notes, files, c.missing)
    /\ c.pc = "attach" =>
          \A d \in Destinations : First(c, d) => rel[d].title = "gated"
CallOK(c, files, rel, tag) ==
    /\ Ahead(c)
    /\ OncePerList(c)
    /\ ReportHolds(c, files, rel)
    /\ PlanHolds(c, files, rel)
    /\ c.pc \in Publishing => tag

Ours(rel) == \E d \in Destinations : rel[d].ours

IInv ==
    /\ TypeOK
    /\ \A p \in Publishers : CallOK(call[p], ArtifactDir[p], release, tagOnMirror)
    /\ Ours(release) => tagOnMirror

----------------------------------------------------------------------------
(* A release once made keeps its notes and its files, and its title can    *)
(* only become the gated one.                                              *)
Grows(rel, new) ==
    \A d \in Destinations : rel[d] # NoRelease =>
        /\ new[d].notes = rel[d].notes
        /\ new[d].title \in {rel[d].title, "gated"}
        /\ rel[d].assets \subseteq new[d].assets

LEMMA KeptCall ==
    ASSUME NEW c \in Calls, NEW files, NEW rel, NEW new, NEW tag, NEW tag1,
           CallOK(c, files, rel, tag), Grows(rel, new), tag => tag1
    PROVE  CallOK(c, files, new, tag1)
<1>1. Good(c) \subseteq Destinations
  BY DEF Calls, Good
<1>2. ReportHolds(c, files, new)
  <2> SUFFICES ASSUME NEW d \in Good(c) PROVE Built(new[d], c.notes, files)
    BY DEF ReportHolds
  <2>1. Built(rel[d], c.notes, files)
    BY DEF CallOK, ReportHolds
  <2>2. rel[d] # NoRelease
    BY <2>1 DEF Built, NoRelease
  <2> QED
    BY <1>1, <2>1, <2>2 DEF Grows, Built
<1>3. PlanHolds(c, files, new)
  <2>1. ASSUME NEW d \in Destinations, Halfway(rel[d], c.notes, files, c.missing)
        PROVE  /\ Halfway(new[d], c.notes, files, c.missing)
               /\ rel[d].title = "gated" => new[d].title = "gated"
    <3>1. rel[d] # NoRelease
      BY <2>1 DEF Halfway, NoRelease
    <3> QED
      BY <2>1, <3>1 DEF Grows, Halfway
  <2> QED
    BY <2>1 DEF CallOK, PlanHolds
<1> QED
  BY <1>2, <1>3 DEF CallOK

(* The current destination recorded.                                       *)
LEMMA RecordOK ==
    ASSUME NEW c \in Calls, NEW d \in Destinations, NEW l \in Lists, NEW files,
           NEW rel, NEW tag,
           c.pc \in Publishing, First(c, d), Ahead(c), OncePerList(c), tag,
           ReportHolds(c, files, rel), l # "failed" => Built(rel[d], c.notes, files)
    PROVE  Record(c, l, d) \in Calls /\ CallOK(Record(c, l, d), files, rel, tag)
<1> DEFINE n == Record(c, l, d)
<1>1. d \in c.todo /\ d \notin Reported(c)
  BY DEF First, Ahead
<1>2. /\ n.pc = IF c.todo = {d} THEN "returned" ELSE "lookup"
      /\ n.todo = c.todo \ {d} /\ n.notes = c.notes
      /\ n.published = IF l = "published" THEN c.published \cup {d} ELSE c.published
      /\ n.supplemented = IF l = "supplemented" THEN c.supplemented \cup {d} ELSE c.supplemented
      /\ n.skipped = IF l = "skipped" THEN c.skipped \cup {d} ELSE c.skipped
      /\ n.failed = IF l = "failed" THEN c.failed \cup {d} ELSE c.failed
      /\ n.missing = {} /\ n.creating = FALSE /\ n.by = c.by
  BY DEF Record, Calls, Lists
<1>3. n \in Calls
  <2>1. CASE l = "published"
    BY <2>1 DEF Record, Calls, Resting, Steps
  <2>2. CASE l = "supplemented"
    BY <2>2 DEF Record, Calls, Resting, Steps
  <2>3. CASE l = "skipped"
    BY <2>3 DEF Record, Calls, Resting, Steps
  <2>4. CASE l = "failed"
    BY <2>4 DEF Record, Calls, Resting, Steps
  <2> QED
    BY <2>1, <2>2, <2>3, <2>4 DEF Lists
<1> HIDE DEF n
<1>4. Reported(n) = Reported(c) \cup {d}
  BY <1>2 DEF Reported, Lists
<1>5. Ahead(n)
  <2>1. c.todo = Destinations \ Reported(c)
    BY DEF Ahead
  <2>2. n.todo = Destinations \ Reported(n)
    BY <1>2, <1>4, <2>1
  <2>3. n.pc = "returned" => n.todo = {}
    BY <1>2
  <2>4. n.pc \in Steps => n.todo # {}
    BY <1>1, <1>2 DEF Steps
  <2>5. n.pc \notin {"checking", "gates", "identity"}
    BY <1>2
  <2> QED
    BY <2>2, <2>3, <2>4, <2>5 DEF Ahead
<1>6. OncePerList(n)
  BY <1>1, <1>2 DEF OncePerList, Reported, Lists
<1>7. ReportHolds(n, files, rel)
  <2>1. Good(n) \subseteq IF l = "failed" THEN Good(c) ELSE Good(c) \cup {d}
    BY <1>2 DEF Good, Lists
  <2> QED
    BY <1>2, <2>1 DEF ReportHolds
<1>8. PlanHolds(n, files, rel)
  BY <1>2 DEF PlanHolds
<1> QED
  BY <1>3, <1>5, <1>6, <1>7, <1>8 DEF CallOK, n

LEMMA FirstIsOne ==
    ASSUME NEW c \in Calls, NEW d \in Destinations, NEW e \in Destinations,
           First(c, d), First(c, e)
    PROVE  d = e
<1>1. d \in Nat /\ e \in Nat /\ d <= e /\ e <= d
  BY ReleaseAssumption DEF First
<1> QED
  BY <1>1

(* The current destination after a write.                                  *)
LEMMA ContinueOK ==
    ASSUME NEW c \in Calls, NEW d \in Destinations, NEW left \in SUBSET Assets, NEW files,
           NEW rel, NEW tag,
           c.pc \in Publishing, First(c, d), Ahead(c), OncePerList(c), tag,
           ReportHolds(c, files, rel),
           Halfway(rel[d], c.notes, files, left), rel[d].title = "gated"
    PROVE  Continue(c, d, left) \in Calls /\ CallOK(Continue(c, d, left), files, rel, tag)
<1>1. CASE left = {}
  <2> DEFINE l == IF c.creating THEN "published" ELSE "supplemented"
  <2>1. Continue(c, d, left) = Record(c, l, d)
    BY <1>1 DEF Continue
  <2>2. l \in Lists
    BY DEF Lists
  <2>3. Built(rel[d], c.notes, files)
    BY <1>1 DEF Built, Halfway
  <2> HIDE DEF l
  <2> QED
    BY <2>1, <2>2, <2>3, RecordOK
<1>2. CASE left # {}
  <2> DEFINE n == [c EXCEPT !.pc = "attach", !.missing = left]
  <2>1. Continue(c, d, left) = n
    BY <1>2 DEF Continue
  <2>2. n \in Calls
    BY DEF Calls, Steps
  <2>3. /\ n.pc = "attach" /\ n.missing = left /\ n.todo = c.todo /\ n.notes = c.notes
        /\ n.published = c.published /\ n.supplemented = c.supplemented
        /\ n.skipped = c.skipped /\ n.failed = c.failed
    BY DEF Calls
  <2> HIDE DEF n
  <2>4. Ahead(n)
    BY <2>3 DEF Ahead, Publishing, Reported, First
  <2>5. OncePerList(n) /\ ReportHolds(n, files, rel)
    BY <2>3 DEF OncePerList, ReportHolds, Good
  <2>6. PlanHolds(n, files, rel)
    <3> SUFFICES ASSUME NEW e \in Destinations, First(n, e)
                 PROVE  Halfway(rel[e], n.notes, files, n.missing) /\ rel[e].title = "gated"
      BY DEF PlanHolds
    <3>1. First(c, e)
      BY <2>3 DEF First
    <3>2. e = d
      BY <3>1, FirstIsOne
    <3> QED
      BY <2>3, <3>2
  <2> QED
    BY <2>1, <2>2, <2>4, <2>5, <2>6 DEF CallOK
<1> QED
  BY <1>1, <1>2

----------------------------------------------------------------------------
ReleaseTypes(rel) == rel \in [Destinations -> Releases \cup {NoRelease}]
BoundTypes == /\ retags \in 0..MaxRetags /\ strangers \in 0..MaxStrangers
              /\ faults \in 0..MaxFaults

(* A step of one publisher leaves the other calls alone, so only its own   *)
(* has to be looked at.                                                    *)
LEMMA PublisherStep ==
    ASSUME NEW p \in Publishers, NEW n \in Calls, IInv,
           call' = [call EXCEPT ![p] = n], CallOK(n, ArtifactDir[p], release', tagOnMirror'),
           ReleaseTypes(release'), Grows(release, release'), Ours(release') => tagOnMirror',
           tagOnMirror' \in BOOLEAN, tagOnMirror => tagOnMirror',
           changelog' = changelog, BoundTypes'
    PROVE  IInv'
<1>1. /\ call' \in [Publishers -> Calls]
      /\ call'[p] = n /\ \A q \in Publishers \ {p} : call'[q] = call[q]
  BY DEF IInv, TypeOK
<1>2. ASSUME NEW q \in Publishers
      PROVE  CallOK(call'[q], ArtifactDir[q], release', tagOnMirror')
  <2>1. CASE q = p
    BY <1>1, <2>1
  <2>2. CASE q # p
    <3>1. call'[q] = call[q] /\ call[q] \in Calls
      BY <1>1, <2>2 DEF IInv, TypeOK
    <3>2. CallOK(call[q], ArtifactDir[q], release, tagOnMirror)
      BY DEF IInv
    <3> QED
      BY <3>1, <3>2, KeptCall
  <2> QED
    BY <2>1, <2>2
<1>3. \A q \in Publishers : call'[q].pc \in Steps => call'[q].todo # {}
  BY <1>2 DEF CallOK, Ahead
<1>4. TypeOK'
  BY <1>1, <1>3 DEF IInv, TypeOK, ReleaseTypes, BoundTypes
<1> QED
  BY <1>2, <1>4 DEF IInv

(* What is left to show when the step only moves the call.                 *)
LEMMA CallStep ==
    ASSUME NEW p \in Publishers, NEW n \in Calls, IInv,
           call' = [call EXCEPT ![p] = n], CallOK(n, ArtifactDir[p], release, tagOnMirror),
           UNCHANGED <<changelog, tagOnMirror, release>>, BoundTypes'
    PROVE  IInv'
<1>1. ReleaseTypes(release') /\ Grows(release, release')
  BY DEF IInv, TypeOK, ReleaseTypes, Grows
<1>2. tagOnMirror' \in BOOLEAN /\ (Ours(release') => tagOnMirror')
  BY DEF IInv, TypeOK
<1> QED
  BY <1>1, <1>2, PublisherStep

(* What every proof about a publisher's step starts from.                  *)
LEMMA CallFacts ==
    ASSUME NEW p \in Publishers, IInv
    PROVE  /\ call[p] \in Calls /\ CallOK(call[p], ArtifactDir[p], release, tagOnMirror)
           /\ BoundTypes /\ ArtifactDir[p] \in SUBSET Assets
           /\ \A d \in Destinations : At(p, d) => First(call[p], d)
BY ReleaseAssumption DEF IInv, TypeOK, BoundTypes, At, First

(* A step that only changes where the call is.                             *)
LEMMA GotoOK ==
    ASSUME NEW c \in Calls, NEW pc \in Resting \cup Steps, NEW files, NEW rel, NEW tag,
           CallOK(c, files, rel, tag), pc \in Steps => c.pc \in Steps,
           pc \in {"gates", "identity"} => c.pc \in {"gates", "identity"},
           pc \in {"checking", "retitle", "attach", "returned"} => c.pc = pc,
           pc \in Publishing => tag /\ c.pc \in Publishing \cup {"identity"}
    PROVE  [c EXCEPT !.pc = pc] \in Calls /\ CallOK([c EXCEPT !.pc = pc], files, rel, tag)
<1> DEFINE n == [c EXCEPT !.pc = pc]
<1>1. n \in Calls
  BY DEF Calls
<1>2. /\ n.pc = pc /\ n.missing = c.missing /\ n.todo = c.todo /\ n.notes = c.notes
      /\ n.published = c.published /\ n.supplemented = c.supplemented
      /\ n.skipped = c.skipped /\ n.failed = c.failed
  BY DEF Calls
<1> HIDE DEF n
<1>3. Reported(n) = Reported(c)
  BY <1>2 DEF Reported
<1>4. Ahead(n)
  BY <1>2, <1>3 DEF CallOK, Ahead, Publishing, Steps
<1>5. OncePerList(n) /\ ReportHolds(n, files, rel)
  BY <1>2 DEF CallOK, OncePerList, ReportHolds, Good
<1>6. PlanHolds(n, files, rel)
  BY <1>2 DEF CallOK, PlanHolds, First
<1> QED
  BY <1>1, <1>2, <1>4, <1>5, <1>6 DEF CallOK, n

(* A call that starts.                                                     *)
LEMMA StartOK ==
    ASSUME NEW pc \in {"gates", "checking"}, NEW by \in {"webhook", "reconcile"},
           NEW files, NEW rel, NEW tag
    PROVE  LET n == [NoCall EXCEPT !.pc = pc, !.by = by, !.todo = Destinations]
           IN  n \in Calls /\ CallOK(n, files, rel, tag)
<1> DEFINE n == [NoCall EXCEPT !.pc = pc, !.by = by, !.todo = Destinations]
<1>1. n \in Calls
  BY DEF NoCall, Calls, Steps
<1>2. n.pc = pc /\ n.todo = Destinations /\ n.published = {} /\ n.supplemented = {}
      /\ n.skipped = {} /\ n.failed = {}
  BY DEF NoCall
<1> HIDE DEF n
<1>3. Ahead(n)
  BY <1>2, ReleaseAssumption DEF Ahead, Reported, Publishing
<1>4. OncePerList(n) /\ ReportHolds(n, files, rel) /\ PlanHolds(n, files, rel)
  BY <1>2 DEF OncePerList, ReportHolds, PlanHolds, Good
<1> QED
  BY <1>1, <1>2, <1>3, <1>4 DEF CallOK, n, Publishing

LEMMA PushIInv == ASSUME NEW p \in Publishers, IInv, Push(p) PROVE IInv'
<1> DEFINE n == [NoCall EXCEPT !.pc = "gates", !.by = "webhook", !.todo = Destinations]
<1>1. call' = [call EXCEPT ![p] = n]
  BY DEF Push
<1>2. n \in Calls /\ CallOK(n, ArtifactDir[p], release, tagOnMirror)
  BY StartOK
<1> HIDE DEF n
<1> QED
  BY <1>1, <1>2, CallStep, CallFacts DEF Push, bounds, BoundTypes

LEMMA ReconcileIInv == ASSUME NEW p \in Publishers, IInv, Reconcile(p) PROVE IInv'
<1> DEFINE n == [NoCall EXCEPT !.pc = "checking", !.by = "reconcile", !.todo = Destinations]
<1>1. call' = [call EXCEPT ![p] = n]
  BY DEF Reconcile
<1>2. n \in Calls /\ CallOK(n, ArtifactDir[p], release, tagOnMirror)
  BY StartOK
<1> HIDE DEF n
<1> QED
  BY <1>1, <1>2, CallStep, CallFacts DEF Reconcile, bounds, BoundTypes

LEMMA CheckIInv ==
    ASSUME NEW p \in Publishers, NEW d \in Destinations, IInv, Check(p, d)
    PROVE  IInv'
<1> DEFINE c == call[p]
<1>1. c \in Calls /\ CallOK(c, ArtifactDir[p], release, tagOnMirror) /\ BoundTypes
      /\ c.pc = "checking" /\ d \in c.todo
  BY CallFacts DEF Check, At
<1>2. CASE ~Exists(d)
  <2> DEFINE n == [c EXCEPT !.pc = "gates", !.todo = Destinations]
  <2>1. call' = [call EXCEPT ![p] = n]
    BY <1>2 DEF Check
  <2>2. n \in Calls
    BY <1>1 DEF Calls, Steps
  <2>3. n.pc = "gates" /\ n.todo = Destinations /\ n.published = c.published
        /\ n.supplemented = c.supplemented /\ n.skipped = c.skipped /\ n.failed = c.failed
        /\ n.notes = c.notes
    BY <1>1 DEF Calls
  <2> HIDE DEF n, c
  <2>4. Ahead(n)
    BY <1>1, <2>3, ReleaseAssumption DEF CallOK, Ahead, Reported, Publishing
  <2>5. OncePerList(n) /\ ReportHolds(n, ArtifactDir[p], release)
        /\ PlanHolds(n, ArtifactDir[p], release)
    BY <1>1, <2>3 DEF CallOK, OncePerList, ReportHolds, PlanHolds, Good
  <2>6. CallOK(n, ArtifactDir[p], release, tagOnMirror)
    BY <2>3, <2>4, <2>5 DEF CallOK, Publishing
  <2> QED
    BY <1>1, <2>1, <2>2, <2>6, CallStep DEF Check, bounds, BoundTypes
<1>3. CASE Exists(d)
  <2> DEFINE n == [c EXCEPT !.todo = @ \ {d},
                            !.pc = IF c.todo = {d} THEN "up to date" ELSE @]
  <2>1. call' = [call EXCEPT ![p] = n]
    BY <1>3 DEF Check
  <2>2. n \in Calls
    BY <1>1 DEF Calls, Steps, Resting
  <2>3. n.pc = (IF c.todo = {d} THEN "up to date" ELSE "checking") /\ n.todo = c.todo \ {d}
        /\ n.published = c.published /\ n.notes = c.notes
        /\ n.supplemented = c.supplemented /\ n.skipped = c.skipped /\ n.failed = c.failed
    BY <1>1 DEF Calls
  <2> HIDE DEF n, c
  <2>4. Ahead(n)
    BY <1>1, <2>3 DEF CallOK, Ahead, Reported, Publishing, Steps
  <2>5. OncePerList(n) /\ ReportHolds(n, ArtifactDir[p], release)
        /\ PlanHolds(n, ArtifactDir[p], release)
    BY <1>1, <2>3 DEF CallOK, OncePerList, ReportHolds, PlanHolds, Good
  <2>6. CallOK(n, ArtifactDir[p], release, tagOnMirror)
    BY <2>3, <2>4, <2>5 DEF CallOK, Publishing
  <2> QED
    BY <1>1, <2>1, <2>2, <2>6, CallStep DEF Check, bounds, BoundTypes
<1> QED
  BY <1>2, <1>3

LEMMA PassGatesIInv == ASSUME NEW p \in Publishers, IInv, PassGates(p) PROVE IInv'
<1> DEFINE c == call[p]
<1>1. c \in Calls /\ CallOK(c, ArtifactDir[p], release, tagOnMirror) /\ BoundTypes
      /\ c.pc = "gates"
  BY CallFacts DEF PassGates
<1>2. CASE changelog = NoNotes
  <2> DEFINE n == [c EXCEPT !.pc = "raised"]
  <2>1. call' = [call EXCEPT ![p] = n]
    BY <1>2 DEF PassGates, Goto
  <2>2. n \in Calls /\ CallOK(n, ArtifactDir[p], release, tagOnMirror)
    BY <1>1, GotoOK DEF Resting, Steps, Publishing
  <2> HIDE DEF n, c
  <2> QED
    BY <1>1, <2>1, <2>2, CallStep DEF PassGates, bounds, BoundTypes
<1>3. CASE changelog # NoNotes
  <2> DEFINE n == [c EXCEPT !.pc = "identity", !.notes = changelog]
  <2>1. call' = [call EXCEPT ![p] = n]
    BY <1>3 DEF PassGates
  <2>2. n \in Calls
    BY <1>1 DEF Calls, Steps, IInv, TypeOK
  <2>3. n.pc = "identity" /\ n.todo = c.todo /\ n.published = c.published
        /\ n.supplemented = c.supplemented /\ n.skipped = c.skipped /\ n.failed = c.failed
    BY <1>1 DEF Calls
  <2> HIDE DEF n, c
  <2>4. Ahead(n)
    BY <1>1, <2>3 DEF CallOK, Ahead, Reported, Publishing, Steps
  <2>5. OncePerList(n) /\ ReportHolds(n, ArtifactDir[p], release)
        /\ PlanHolds(n, ArtifactDir[p], release)
    <3>1. Good(n) = {} /\ Reported(n) = {}
      BY <1>1, <2>3 DEF CallOK, Ahead, Good, Reported
    <3> QED
      BY <2>3, <3>1 DEF OncePerList, ReportHolds, PlanHolds, Reported
  <2>6. CallOK(n, ArtifactDir[p], release, tagOnMirror)
    BY <2>3, <2>4, <2>5 DEF CallOK, Publishing
  <2> QED
    BY <1>1, <2>1, <2>2, <2>6, CallStep DEF PassGates, bounds, BoundTypes
<1> QED
  BY <1>2, <1>3

(* A call that only moves on, as the tag may come to the mirror.           *)
LEMMA MoveIInv ==
    ASSUME NEW p \in Publishers, NEW pc \in Resting \cup Steps, IInv, Goto(p, pc),
           UNCHANGED <<changelog, release>>, BoundTypes', tagOnMirror' \in BOOLEAN,
           tagOnMirror => tagOnMirror',
           pc \in Steps => call[p].pc \in Steps,
           pc \in {"gates", "identity"} => call[p].pc \in {"gates", "identity"},
           pc \in {"checking", "retitle", "attach", "returned"} => call[p].pc = pc,
           pc \in Publishing => tagOnMirror' /\ call[p].pc \in Publishing \cup {"identity"}
    PROVE  IInv'
<1> DEFINE c == call[p]
           n == [c EXCEPT !.pc = pc]
<1>1. c \in Calls /\ CallOK(c, ArtifactDir[p], release, tagOnMirror)
  BY CallFacts
<1>2. Grows(release, release) /\ ReleaseTypes(release')
  BY DEF Grows, IInv, TypeOK, ReleaseTypes
<1>3. CallOK(c, ArtifactDir[p], release, tagOnMirror')
  BY <1>1, <1>2, KeptCall
<1>4. n \in Calls /\ CallOK(n, ArtifactDir[p], release, tagOnMirror')
  BY <1>1, <1>3, GotoOK
<1>5. call' = [call EXCEPT ![p] = n]
  BY DEF Goto
<1>6. Ours(release') => tagOnMirror'
  BY DEF IInv
<1> HIDE DEF n, c
<1> QED
  BY <1>2, <1>4, <1>5, <1>6, PublisherStep

LEMMA IdentifyIInv == ASSUME NEW p \in Publishers, IInv, Identify(p) PROVE IInv'
<1>1. BoundTypes'
  BY CallFacts DEF Identify, bounds, BoundTypes
<1>2. call[p].pc = "identity" /\ tagOnMirror' = TRUE /\ Goto(p, "lookup")
      /\ UNCHANGED <<changelog, release>>
  BY DEF Identify
<1> QED
  BY <1>1, <1>2, MoveIInv DEF Steps, Publishing

LEMMA LookupIInv ==
    ASSUME NEW p \in Publishers, NEW d \in Destinations, IInv, Lookup(p, d)
    PROVE  IInv'
<1>1. BoundTypes' /\ tagOnMirror
  BY CallFacts DEF Lookup, bounds, BoundTypes, CallOK, Publishing
<1>2. PICK pc \in {"plan", "create"} : Goto(p, pc)
  BY DEF Lookup
<1>3. call[p].pc = "lookup" /\ UNCHANGED <<changelog, tagOnMirror, release>>
  BY DEF Lookup
<1> QED
  BY <1>1, <1>2, <1>3, MoveIInv DEF Steps, Publishing

LEMMA DieIInv == ASSUME NEW p \in Publishers, IInv, Die(p) PROVE IInv'
<1>1. BoundTypes'
  BY CallFacts, ReleaseAssumption DEF Die, Fault, BoundTypes
<1>2. Goto(p, "dead") /\ UNCHANGED <<changelog, tagOnMirror, release>> /\ tagOnMirror \in BOOLEAN
  BY DEF Die, Fault, IInv, TypeOK
<1> QED
  BY <1>1, <1>2, MoveIInv DEF Steps, Publishing, Resting

LEMMA RaiseIInv == ASSUME NEW p \in Publishers, IInv, Raise(p) PROVE IInv'
<1>1. BoundTypes'
  BY CallFacts, ReleaseAssumption DEF Raise, Fault, BoundTypes
<1>2. Goto(p, "raised") /\ UNCHANGED <<changelog, release>>
  BY DEF Raise, Fault
<1>3. tagOnMirror' \in BOOLEAN /\ (tagOnMirror => tagOnMirror')
  BY DEF Raise, IInv, TypeOK
<1> QED
  BY <1>1, <1>2, <1>3, MoveIInv DEF Steps, Publishing, Resting

(* What the plan and the write steps know of the current destination.      *)
LEMMA PublishingFacts ==
    ASSUME NEW p \in Publishers, NEW d \in Destinations, IInv,
           call[p].pc \in Publishing, At(p, d)
    PROVE  /\ call[p] \in Calls /\ First(call[p], d) /\ Ahead(call[p])
           /\ OncePerList(call[p]) /\ tagOnMirror = TRUE
           /\ ReportHolds(call[p], ArtifactDir[p], release)
           /\ PlanHolds(call[p], ArtifactDir[p], release)
BY CallFacts DEF CallOK, IInv, TypeOK

(* A write that creates the release of d or completes it.                  *)
LEMMA WriteFacts ==
    ASSUME NEW d \in Destinations, NEW r \in Releases, IInv,
           release' = [release EXCEPT ![d] = r],
           release[d] # NoRelease =>
               /\ r.notes = release[d].notes /\ release[d].assets \subseteq r.assets
               /\ r.title \in {release[d].title, "gated"}
    PROVE  ReleaseTypes(release') /\ Grows(release, release') /\ release'[d] = r
BY DEF IInv, TypeOK, ReleaseTypes, Grows

LEMMA RecordIInv ==
    ASSUME NEW p \in Publishers, NEW d \in Destinations, NEW l \in Lists, IInv,
           call[p].pc \in Publishing, At(p, d),
           call' = [call EXCEPT ![p] = Record(call[p], l, d)],
           ReleaseTypes(release'), Grows(release, release'),
           l # "failed" => Built(release'[d], call[p].notes, ArtifactDir[p]),
           UNCHANGED <<changelog, tagOnMirror>>, BoundTypes'
    PROVE  IInv'
<1> DEFINE n == Record(call[p], l, d)
<1>1. CallOK(call[p], ArtifactDir[p], release', tagOnMirror)
  BY CallFacts, KeptCall
<1>2. n \in Calls /\ CallOK(n, ArtifactDir[p], release', tagOnMirror)
  BY <1>1, PublishingFacts, RecordOK DEF CallOK
<1>3. tagOnMirror = TRUE
  BY PublishingFacts
<1> HIDE DEF n
<1> QED
  BY <1>2, <1>3, PublisherStep DEF n

LEMMA ContinueIInv ==
    ASSUME NEW p \in Publishers, NEW d \in Destinations, NEW left \in SUBSET Assets, IInv,
           NEW c \in Calls, c = call[p] \/ c = [call[p] EXCEPT !.creating = TRUE],
           call[p].pc \in Publishing, At(p, d),
           call' = [call EXCEPT ![p] = Continue(c, d, left)],
           ReleaseTypes(release'), Grows(release, release'),
           Halfway(release'[d], call[p].notes, ArtifactDir[p], left),
           release'[d].title = "gated",
           UNCHANGED <<changelog, tagOnMirror>>, BoundTypes'
    PROVE  IInv'
<1> DEFINE n == Continue(c, d, left)
<1>1. CallOK(call[p], ArtifactDir[p], release', tagOnMirror)
  BY CallFacts, KeptCall
<1>2. c.pc = call[p].pc /\ c.todo = call[p].todo /\ c.notes = call[p].notes
      /\ c.published = call[p].published /\ c.supplemented = call[p].supplemented
      /\ c.skipped = call[p].skipped /\ c.failed = call[p].failed
  BY PublishingFacts DEF Calls
<1>3. First(c, d) /\ Ahead(c) /\ OncePerList(c) /\ ReportHolds(c, ArtifactDir[p], release')
      /\ tagOnMirror = TRUE
  BY <1>1, <1>2, PublishingFacts
     DEF First, Ahead, Reported, OncePerList, ReportHolds, Good, CallOK
<1>4. n \in Calls /\ CallOK(n, ArtifactDir[p], release', tagOnMirror)
  BY <1>2, <1>3, ContinueOK
<1> HIDE DEF n
<1> QED
  BY <1>3, <1>4, PublisherStep DEF n

LEMMA SameRelease ==
    ASSUME IInv, UNCHANGED release
    PROVE  ReleaseTypes(release') /\ Grows(release, release')
BY DEF IInv, TypeOK, ReleaseTypes, Grows

LEMMA PlanIInv ==
    ASSUME NEW p \in Publishers, NEW d \in Destinations, IInv, Plan(p, d)
    PROVE  IInv'
<1> DEFINE c == call[p]
           r == release[d]
           files == ArtifactDir[p]
<1>1. /\ c \in Calls /\ First(c, d) /\ Ahead(c) /\ OncePerList(c) /\ tagOnMirror = TRUE
      /\ ReportHolds(c, files, release) /\ c.pc = "plan"
      /\ BoundTypes' /\ files \in SUBSET Assets
  BY PublishingFacts, CallFacts DEF Plan, Publishing, bounds, BoundTypes
<1>2. CASE ~MaySupplement(r, c.notes, files)
  <2>1. Goto(p, "judge")
    BY <1>2 DEF Plan
  <2> QED
    BY <1>1, <2>1, MoveIInv DEF Plan, Steps, Publishing
<1>3. CASE MaySupplement(r, c.notes, files)
  <2> DEFINE n == [c EXCEPT !.missing = files \ r.assets,
                            !.pc = IF r.title = "gated" THEN "attach" ELSE "retitle"]
  <2>1. call' = [call EXCEPT ![p] = n]
    BY <1>3 DEF Plan
  <2>2. n \in Calls
    BY <1>1 DEF Calls, Steps
  <2>3. n.pc = (IF r.title = "gated" THEN "attach" ELSE "retitle") /\ n.todo = c.todo
        /\ n.missing = files \ r.assets /\ n.notes = c.notes
        /\ n.published = c.published
        /\ n.supplemented = c.supplemented /\ n.skipped = c.skipped /\ n.failed = c.failed
    BY <1>1 DEF Calls
  <2>4. Halfway(r, c.notes, files, files \ r.assets)
    BY <1>3 DEF MaySupplement, Halfway
  <2> HIDE DEF n, c, files
  <2>5. Ahead(n)
    BY <1>1, <2>3 DEF Ahead, Reported, Publishing, Steps
  <2>6. OncePerList(n) /\ ReportHolds(n, files, release)
    BY <1>1, <2>3 DEF OncePerList, ReportHolds, Good
  <2>7. PlanHolds(n, files, release)
    <3> SUFFICES ASSUME NEW e \in Destinations, First(n, e)
                 PROVE  /\ Halfway(release[e], n.notes, files, n.missing)
                        /\ n.pc = "attach" => release[e].title = "gated"
      BY DEF PlanHolds
    <3>1. First(c, e)
      BY <2>3 DEF First
    <3>2. e = d
      BY <1>1, <3>1, FirstIsOne
    <3> QED
      BY <2>3, <2>4, <3>2
  <2>8. CallOK(n, files, release, tagOnMirror)
    BY <1>1, <2>5, <2>6, <2>7 DEF CallOK
  <2> QED
    BY <1>1, <2>1, <2>2, <2>8, CallStep DEF Plan, files
<1> QED
  BY <1>2, <1>3

LEMMA JudgeIInv ==
    ASSUME NEW p \in Publishers, NEW d \in Destinations, IInv, Judge(p, d)
    PROVE  IInv'
<1> DEFINE l == IF AsBuilt(d, call[p].notes, ArtifactDir[p]) THEN "skipped" ELSE "failed"
<1>1. call' = [call EXCEPT ![p] = Record(call[p], l, d)]
  BY DEF Judge
<1>2. l \in Lists /\ (l # "failed" => Built(release'[d], call[p].notes, ArtifactDir[p]))
  BY DEF Judge, Lists, AsBuilt, Built
<1>3. BoundTypes' /\ call[p].pc \in Publishing /\ At(p, d)
  BY CallFacts DEF Judge, bounds, BoundTypes, Publishing
<1> HIDE DEF l
<1> QED
  BY <1>1, <1>2, <1>3, SameRelease, RecordIInv DEF Judge

LEMMA FailIInv ==
    ASSUME NEW p \in Publishers, NEW d \in Destinations, IInv, Fail(p, d)
    PROVE  IInv'
<1>1. BoundTypes'
  BY CallFacts, ReleaseAssumption DEF Fail, Fault, BoundTypes
<1>2. "failed" \in Lists
  BY DEF Lists
<1> QED
  BY <1>1, <1>2, SameRelease, RecordIInv DEF Fail, Fault

(* The release create_release() makes.                                     *)
LEMMA MadeFacts ==
    ASSUME NEW p \in Publishers, NEW d \in Destinations, IInv, ~Exists(d),
           release' = [release EXCEPT ![d] = [title |-> "gated", notes |-> call[p].notes,
                                              assets |-> {}, ours |-> TRUE]]
    PROVE  /\ ReleaseTypes(release') /\ Grows(release, release')
           /\ Halfway(release'[d], call[p].notes, ArtifactDir[p], ArtifactDir[p])
           /\ release'[d].title = "gated"
<1> DEFINE r == [title |-> "gated", notes |-> call[p].notes, assets |-> {}, ours |-> TRUE]
<1>1. r \in Releases
  BY CallFacts DEF Calls, Releases, Titles
<1>2. ReleaseTypes(release') /\ Grows(release, release') /\ release'[d] = r
  BY <1>1, WriteFacts DEF Exists
<1> QED
  BY <1>2 DEF Halfway

LEMMA CreateIInv ==
    ASSUME NEW p \in Publishers, NEW d \in Destinations, IInv, Create(p, d)
    PROVE  IInv'
<1>1. BoundTypes' /\ call[p].pc = "create" /\ At(p, d) /\ tagOnMirror = TRUE
      /\ call[p] \in Calls /\ ArtifactDir[p] \in SUBSET Assets
  BY CallFacts, PublishingFacts DEF Create, bounds, BoundTypes, Publishing
<1>2. CASE Exists(d)
  BY <1>1, <1>2, MoveIInv DEF Create, Steps, Publishing
<1>3. CASE ~Exists(d)
  <2> DEFINE c == [call[p] EXCEPT !.creating = TRUE]
  <2>1. c \in Calls /\ call' = [call EXCEPT ![p] = Continue(c, d, ArtifactDir[p])]
    BY <1>1, <1>3 DEF Create, Calls
  <2>2. /\ ReleaseTypes(release') /\ Grows(release, release')
        /\ Halfway(release'[d], call[p].notes, ArtifactDir[p], ArtifactDir[p])
        /\ release'[d].title = "gated"
    BY <1>3, MadeFacts DEF Create
  <2>3. UNCHANGED <<changelog, tagOnMirror>> /\ call[p].pc \in Publishing
        /\ (c = call[p] \/ c = [call[p] EXCEPT !.creating = TRUE])
    BY <1>1 DEF Create, Publishing
  <2> HIDE DEF c
  <2> QED
    BY <1>1, <2>1, <2>2, <2>3, ContinueIInv
<1> QED
  BY <1>2, <1>3

LEMMA RetitledFacts ==
    ASSUME NEW p \in Publishers, NEW d \in Destinations, IInv,
           call[p].pc = "retitle", At(p, d),
           release' = [release EXCEPT ![d].title = "gated"]
    PROVE  /\ ReleaseTypes(release') /\ Grows(release, release')
           /\ Halfway(release'[d], call[p].notes, ArtifactDir[p], call[p].missing)
           /\ release'[d].title = "gated"
<1> DEFINE r == [release[d] EXCEPT !.title = "gated"]
<1>1. Halfway(release[d], call[p].notes, ArtifactDir[p], call[p].missing)
  BY PublishingFacts DEF PlanHolds, Publishing
<1>2. release[d] \in Releases
  BY <1>1 DEF IInv, TypeOK, Halfway, NoRelease
<1>3. /\ r \in Releases /\ r.title = "gated" /\ r.notes = release[d].notes
      /\ r.assets = release[d].assets
  BY <1>2 DEF Releases, Titles
<1>4. release' = [release EXCEPT ![d] = r]
  OBVIOUS
<1> HIDE DEF r
<1>5. ReleaseTypes(release') /\ Grows(release, release') /\ release'[d] = r
  BY <1>3, <1>4, WriteFacts
<1> QED
  BY <1>1, <1>3, <1>5 DEF Halfway

LEMMA RetitleIInv ==
    ASSUME NEW p \in Publishers, NEW d \in Destinations, IInv, Retitle(p, d)
    PROVE  IInv'
<1>1. BoundTypes' /\ call[p].pc \in Publishing /\ call[p] \in Calls
      /\ UNCHANGED <<changelog, tagOnMirror>> /\ call[p].missing \in SUBSET Assets
      /\ call[p].pc = "retitle" /\ At(p, d)
  BY CallFacts DEF Retitle, bounds, BoundTypes, Publishing, Calls
<1>2. /\ ReleaseTypes(release') /\ Grows(release, release')
      /\ Halfway(release'[d], call[p].notes, ArtifactDir[p], call[p].missing)
      /\ release'[d].title = "gated"
  BY RetitledFacts DEF Retitle
<1>3. call' = [call EXCEPT ![p] = Continue(call[p], d, call[p].missing)]
  BY DEF Retitle
<1> QED
  BY <1>1, <1>2, <1>3, ContinueIInv

LEMMA AttachedFacts ==
    ASSUME NEW p \in Publishers, NEW d \in Destinations, NEW a \in Assets, IInv,
           call[p].pc = "attach", At(p, d),
           release' = [release EXCEPT ![d].assets = @ \cup {a}]
    PROVE  /\ ReleaseTypes(release') /\ Grows(release, release')
           /\ Halfway(release'[d], call[p].notes, ArtifactDir[p], call[p].missing \ {a})
           /\ release'[d].title = "gated"
<1> DEFINE r == [release[d] EXCEPT !.assets = @ \cup {a}]
<1>1. Halfway(release[d], call[p].notes, ArtifactDir[p], call[p].missing)
      /\ release[d].title = "gated"
  BY PublishingFacts DEF PlanHolds, Publishing
<1>2. release[d] \in Releases
  BY <1>1 DEF IInv, TypeOK, Halfway, NoRelease
<1>3. /\ r \in Releases /\ r.title = release[d].title /\ r.notes = release[d].notes
      /\ r.assets = release[d].assets \cup {a}
  BY <1>2 DEF Releases
<1>4. release' = [release EXCEPT ![d] = r]
  OBVIOUS
<1> HIDE DEF r
<1>5. ReleaseTypes(release') /\ Grows(release, release') /\ release'[d] = r
  BY <1>3, <1>4, WriteFacts
<1> QED
  BY <1>1, <1>3, <1>5 DEF Halfway

LEMMA AttachIInv ==
    ASSUME NEW p \in Publishers, NEW d \in Destinations, NEW a \in Assets, IInv,
           Attach(p, d, a)
    PROVE  IInv'
<1>1. BoundTypes' /\ call[p].pc \in Publishing /\ call[p] \in Calls
      /\ UNCHANGED <<changelog, tagOnMirror>> /\ call[p].missing \in SUBSET Assets
      /\ call[p].pc = "attach" /\ At(p, d)
  BY CallFacts DEF Attach, bounds, BoundTypes, Publishing, Calls
<1>2. CASE a \in release[d].assets /\ d \in RefusesCopies
  <2>1. call' = [call EXCEPT ![p] = Record(call[p], "failed", d)] /\ UNCHANGED release
    BY <1>2 DEF Attach
  <2>2. "failed" \in Lists
    BY DEF Lists
  <2> QED
    BY <1>1, <2>1, <2>2, SameRelease, RecordIInv
<1>3. CASE ~(a \in release[d].assets /\ d \in RefusesCopies)
  <2>1. call' = [call EXCEPT ![p] = Continue(call[p], d, call[p].missing \ {a})]
        /\ release' = [release EXCEPT ![d].assets = @ \cup {a}]
    BY <1>3 DEF Attach
  <2>2. /\ ReleaseTypes(release') /\ Grows(release, release')
        /\ Halfway(release'[d], call[p].notes, ArtifactDir[p], call[p].missing \ {a})
        /\ release'[d].title = "gated"
    BY <1>1, <2>1, AttachedFacts
  <2>3. call[p].missing \ {a} \in SUBSET Assets
    BY <1>1
  <2> QED
    BY <1>1, <2>1, <2>2, <2>3, ContinueIInv
<1> QED
  BY <1>2, <1>3

LEMMA CreateUnansweredIInv ==
    ASSUME NEW p \in Publishers, NEW d \in Destinations, IInv, CreateUnanswered(p, d)
    PROVE  IInv'
<1>1. BoundTypes' /\ UNCHANGED <<changelog, tagOnMirror>>
      /\ call[p].pc = "create" /\ call[p].pc \in Publishing /\ At(p, d)
  BY CallFacts, ReleaseAssumption DEF CreateUnanswered, Fault, BoundTypes, Publishing
<1>2. tagOnMirror = TRUE /\ call[p] \in Calls
  BY <1>1, PublishingFacts
<1>3. ReleaseTypes(release') /\ Grows(release, release')
  BY MadeFacts DEF CreateUnanswered
<1>4. CASE Goto(p, "plan")
  <2> DEFINE n == [call[p] EXCEPT !.pc = "plan"]
  <2>1. CallOK(call[p], ArtifactDir[p], release', tagOnMirror)
    BY <1>3, CallFacts, KeptCall
  <2>2. n \in Calls /\ CallOK(n, ArtifactDir[p], release', tagOnMirror)
    BY <1>1, <1>2, <2>1, GotoOK DEF Steps, Publishing
  <2>3. call' = [call EXCEPT ![p] = n]
    BY <1>4 DEF Goto
  <2> HIDE DEF n
  <2> QED
    BY <1>1, <1>2, <1>3, <2>2, <2>3, PublisherStep
<1>5. CASE call' = [call EXCEPT ![p] = Record(@, "failed", d)]
  <2>1. "failed" \in Lists
    BY DEF Lists
  <2> QED
    BY <1>1, <1>3, <1>5, <2>1, RecordIInv
<1> QED
  BY <1>4, <1>5 DEF CreateUnanswered

LEMMA WriteUnansweredIInv ==
    ASSUME NEW p \in Publishers, NEW d \in Destinations, IInv, WriteUnanswered(p, d)
    PROVE  IInv'
<1>1. BoundTypes' /\ UNCHANGED <<changelog, tagOnMirror>> /\ At(p, d)
      /\ call[p].pc \in Publishing
  BY CallFacts, ReleaseAssumption DEF WriteUnanswered, Fault, BoundTypes, Publishing
<1>2. call[p].missing \subseteq Assets
  BY CallFacts DEF Calls
<1>3. ReleaseTypes(release') /\ Grows(release, release')
  <2>1. CASE call[p].pc = "retitle" /\ release' = [release EXCEPT ![d].title = "gated"]
    BY <1>1, <2>1, RetitledFacts
  <2>2. ASSUME NEW a \in call[p].missing, call[p].pc = "attach",
               release' = [release EXCEPT ![d].assets = @ \cup {a}]
        PROVE  ReleaseTypes(release') /\ Grows(release, release')
    <3>1. a \in Assets
      BY <1>2
    <3> QED
      BY <1>1, <2>2, <3>1, AttachedFacts
  <2> QED
    BY <2>1, <2>2 DEF WriteUnanswered
<1>4. "failed" \in Lists /\ call' = [call EXCEPT ![p] = Record(call[p], "failed", d)]
  BY DEF Lists, WriteUnanswered
<1> QED
  BY <1>1, <1>3, <1>4, RecordIInv

----------------------------------------------------------------------------
(* A step of nobody's call.                                                *)
LEMMA OtherStep ==
    ASSUME IInv, UNCHANGED <<call, tagOnMirror>>, changelog' \in Notes \cup {NoNotes},
           ReleaseTypes(release'), Grows(release, release'), BoundTypes',
           Ours(release') => Ours(release)
    PROVE  IInv'
<1>1. TypeOK'
  BY DEF IInv, TypeOK, ReleaseTypes, BoundTypes
<1>2. ASSUME NEW p \in Publishers
      PROVE  CallOK(call'[p], ArtifactDir[p], release', tagOnMirror')
  BY CallFacts, KeptCall
<1> QED
  BY <1>1, <1>2 DEF IInv

LEMMA StrangerIInv ==
    ASSUME NEW d \in Destinations, NEW title \in Titles, NEW notes \in Notes \cup {NoNotes},
           IInv, StrangerCreates(d, title, notes)
    PROVE  IInv'
<1> DEFINE r == [title |-> title, notes |-> notes, assets |-> {}, ours |-> FALSE]
<1>1. r \in Releases /\ r.ours = FALSE
  BY DEF Releases
<1>2. release' = [release EXCEPT ![d] = r] /\ ~Exists(d)
  BY DEF StrangerCreates
<1> HIDE DEF r
<1>3. ReleaseTypes(release') /\ Grows(release, release') /\ release'[d] = r
  BY <1>1, <1>2, WriteFacts DEF Exists
<1>4. Ours(release') => Ours(release)
  BY <1>1, <1>2, <1>3 DEF Ours, IInv, TypeOK
<1>5. BoundTypes' /\ UNCHANGED <<call, tagOnMirror>> /\ changelog' \in Notes \cup {NoNotes}
  BY ReleaseAssumption DEF StrangerCreates, IInv, TypeOK, BoundTypes
<1> QED
  BY <1>3, <1>4, <1>5, OtherStep

LEMMA RetagIInv ==
    ASSUME NEW section \in Notes \cup {NoNotes}, IInv, Retag(section)
    PROVE  IInv'
<1>1. BoundTypes' /\ UNCHANGED <<call, tagOnMirror, release>> /\ changelog' = section
  BY ReleaseAssumption DEF Retag, IInv, TypeOK, BoundTypes
<1> QED
  BY <1>1, SameRelease, OtherStep

LEMMA StutterIInv == ASSUME IInv, UNCHANGED vars PROVE IInv'
<1>1. BoundTypes' /\ UNCHANGED <<call, tagOnMirror, release>> /\ changelog' = changelog
      /\ changelog \in Notes \cup {NoNotes}
  BY DEF vars, bounds, IInv, TypeOK, BoundTypes
<1> QED
  BY <1>1, SameRelease, OtherStep

LEMMA InitIInv == Init => IInv
<1> SUFFICES ASSUME Init PROVE IInv
  OBVIOUS
<1>1. NoCall \in Calls /\ NoRelease.ours = FALSE
  BY DEF NoCall, Calls, Resting, NoRelease
<1>2. NoCall.pc = "idle" /\ Reported(NoCall) = {} /\ Good(NoCall) = {}
      /\ NoCall.published = {} /\ NoCall.supplemented = {} /\ NoCall.skipped = {}
      /\ NoCall.failed = {}
  BY DEF NoCall, Reported, Good
<1>3. TypeOK
  <2>1. release \in [Destinations -> Releases \cup {NoRelease}]
    BY DEF Init
  <2>2. call \in [Publishers -> Calls] /\ \A p \in Publishers : call[p].pc \notin Steps
    BY <1>1, <1>2 DEF Init, Steps
  <2>3. changelog \in Notes \cup {NoNotes} /\ tagOnMirror \in BOOLEAN
    BY DEF Init
  <2>4. retags \in 0..MaxRetags /\ strangers \in 0..MaxStrangers /\ faults \in 0..MaxFaults
    BY ReleaseAssumption DEF Init
  <2> QED
    BY <2>1, <2>2, <2>3, <2>4 DEF TypeOK
<1>4. ~Ours(release)
  BY <1>1 DEF Init, Ours
<1>5. ASSUME NEW p \in Publishers
      PROVE  CallOK(call[p], ArtifactDir[p], release, tagOnMirror)
  <2>1. call[p] = NoCall
    BY DEF Init
  <2>2. Ahead(NoCall)
    BY <1>2 DEF Ahead, Steps, Publishing
  <2>3. OncePerList(NoCall) /\ ReportHolds(NoCall, ArtifactDir[p], release)
        /\ PlanHolds(NoCall, ArtifactDir[p], release)
    BY <1>2 DEF OncePerList, ReportHolds, PlanHolds
  <2> QED
    BY <1>2, <2>1, <2>2, <2>3 DEF CallOK, Publishing
<1> QED
  BY <1>3, <1>4, <1>5 DEF IInv

LEMMA NextIInv == IInv /\ [Next]_vars => IInv'
<1> SUFFICES ASSUME IInv, [Next]_vars PROVE IInv'
  OBVIOUS
<1>1. ASSUME NEW section \in Notes \cup {NoNotes}, Retag(section) PROVE IInv'
  BY <1>1, RetagIInv
<1>2. ASSUME NEW d \in Destinations, NEW title \in Titles, NEW notes \in Notes \cup {NoNotes},
             StrangerCreates(d, title, notes)
      PROVE  IInv'
  BY <1>2, StrangerIInv
<1>3. ASSUME NEW p \in Publishers, Push(p) \/ Reconcile(p) PROVE IInv'
  BY <1>3, PushIInv, ReconcileIInv
<1>4. ASSUME NEW p \in Publishers, Work(p) PROVE IInv'
  BY <1>4, PassGatesIInv, IdentifyIInv, CheckIInv, LookupIInv, PlanIInv, JudgeIInv,
     CreateIInv, RetitleIInv, AttachIInv DEF Work
<1>5. ASSUME NEW p \in Publishers, Trouble(p) PROVE IInv'
  BY <1>5, RaiseIInv, DieIInv, FailIInv, CreateUnansweredIInv, WriteUnansweredIInv DEF Trouble
<1>6. CASE UNCHANGED vars
  BY <1>6, StutterIInv
<1> QED
  BY <1>1, <1>2, <1>3, <1>4, <1>5, <1>6 DEF Next

LEMMA Invariant == Spec => []IInv
BY InitIInv, NextIInv, PTL DEF Spec

(* The variables keep their types, and a running call has a destination    *)
(* ahead of it.                                                            *)
THEOREM TypeCorrect == Spec => []TypeOK
BY Invariant, PTL DEF IInv

(* A destination a call reports as good holds that call's build, whatever  *)
(* the other publishers, strangers and faults do.                          *)
THEOREM ReportsAreTrue == Spec => []ReportedIsAsBuilt
<1>1. IInv => ReportedIsAsBuilt
  BY DEF IInv, CallOK, ReportHolds, Good, Built, ReportedIsAsBuilt, AsBuilt
<1> QED
  BY <1>1, Invariant, PTL

(* A report that is returned answers each destination exactly once.        *)
THEOREM ReportsAreComplete == Spec => []EachAnsweredOnce
<1>1. IInv => EachAnsweredOnce
  <2> SUFFICES ASSUME IInv, NEW p \in Publishers
               PROVE  LET c == call[p] IN
                        /\ c.pc \in Publishing \cup {"returned"} =>
                               c.todo = Destinations \ Reported(c)
                        /\ c.pc = "returned" => c.todo = {}
                        /\ \A d \in Destinations : \A l, m \in Lists :
                              d \in c[l] /\ d \in c[m] => l = m
    BY DEF EachAnsweredOnce, Lists
  <2> DEFINE c == call[p]
  <2>1. Ahead(c) /\ OncePerList(c)
    BY CallFacts DEF CallOK
  <2>2. c["published"] = c.published /\ c["supplemented"] = c.supplemented
        /\ c["skipped"] = c.skipped /\ c["failed"] = c.failed
    OBVIOUS
  <2> HIDE DEF c
  <2>3. \A d \in Destinations : \A l, m \in Lists : d \in c[l] /\ d \in c[m] => l = m
    BY <2>1, <2>2 DEF OncePerList, Lists
  <2> QED
    BY <2>1, <2>3 DEF Ahead, c
<1> QED
  BY <1>1, Invariant, PTL

(* No release object before the tag identity.                              *)
THEOREM TagComesFirst == Spec => []NoReleaseBeforeTag
<1>1. IInv => NoReleaseBeforeTag
  BY DEF IInv, Ours, NoReleaseBeforeTag
<1> QED
  BY <1>1, Invariant, PTL

----------------------------------------------------------------------------
(* One step of the action property.                                        *)
Touch(d) ==
    Exists(d) /\ release'[d] # release[d] =>
        /\ release[d].title # "other"
        /\ release'[d].notes = release[d].notes
        /\ release[d].assets \subseteq release'[d].assets
        /\ \E p \in Publishers : /\ call'[p] # call[p]
                                 /\ At(p, d)
                                 /\ call[p].notes = release[d].notes

(* A write that follows the plan of p.                                     *)
LEMMA PlannedTouch ==
    ASSUME NEW p \in Publishers, NEW d \in Destinations, NEW e \in Destinations, IInv,
           call[p].pc \in {"retitle", "attach"}, At(p, d), call'[p] # call[p],
           ReleaseTypes(release'), Grows(release, release'),
           \A f \in Destinations \ {d} : release'[f] = release[f]
    PROVE  Touch(e)
<1> SUFFICES ASSUME Exists(e), release'[e] # release[e] PROVE Touch(e)
  BY DEF Touch
<1>1. e = d
  OBVIOUS
<1>2. Halfway(release[d], call[p].notes, ArtifactDir[p], call[p].missing)
  BY PublishingFacts DEF PlanHolds, Publishing
<1>3. release'[d].notes = release[d].notes /\ release[d].assets \subseteq release'[d].assets
  BY <1>1 DEF Grows, Exists
<1> QED
  BY <1>1, <1>2, <1>3 DEF Touch, Halfway

LEMMA RecordMoves ==
    ASSUME NEW c \in Calls, NEW d \in Destinations, d \in c.todo, NEW l \in Lists
    PROVE  Record(c, l, d) # c
<1> DEFINE n == Record(c, l, d)
<1>1. n.todo = c.todo \ {d}
  BY DEF Record, Calls, Lists
<1> HIDE DEF n
<1>2. n # c
  BY <1>1
<1> QED
  BY <1>2 DEF n

LEMMA ContinueMoves ==
    ASSUME NEW c \in Calls, NEW d \in Destinations, d \in c.todo, NEW left \in SUBSET Assets,
           c.pc # "attach" \/ left # c.missing
    PROVE  Continue(c, d, left) # c
<1>1. CASE left # {}
  <2> DEFINE n == [c EXCEPT !.pc = "attach", !.missing = left]
  <2>1. n.pc = "attach" /\ n.missing = left
    BY DEF Calls
  <2> HIDE DEF n
  <2>2. n # c
    BY <2>1
  <2> QED
    BY <1>1, <2>2 DEF Continue, n
<1>2. CASE left = {}
  BY <1>2, RecordMoves DEF Continue, Lists
<1> QED
  BY <1>1, <1>2

LEMMA NextTouches ==
    ASSUME IInv, [Next]_vars, NEW e \in Destinations
    PROVE  Touch(e)
<1>0. release \in [Destinations -> Releases \cup {NoRelease}]
  BY DEF IInv, TypeOK
<1>1. CASE UNCHANGED release
  BY <1>1 DEF Touch
<1>2. ASSUME NEW d \in Destinations, ~Exists(d),
             \A f \in Destinations \ {d} : release'[f] = release[f]
      PROVE  Touch(e)
  BY <1>2 DEF Touch
<1>3. ASSUME NEW d \in Destinations, NEW title \in Titles, NEW notes \in Notes \cup {NoNotes},
             StrangerCreates(d, title, notes)
      PROVE  Touch(e)
  BY <1>0, <1>2, <1>3 DEF StrangerCreates
<1>4. ASSUME NEW p \in Publishers, NEW d \in Destinations, Create(p, d) PROVE Touch(e)
  BY <1>0, <1>1, <1>2, <1>4 DEF Create
<1>5. ASSUME NEW p \in Publishers, NEW d \in Destinations, CreateUnanswered(p, d)
      PROVE  Touch(e)
  BY <1>0, <1>2, <1>5 DEF CreateUnanswered
<1>6. ASSUME NEW p \in Publishers, NEW d \in Destinations, Retitle(p, d) PROVE Touch(e)
  <2>1. /\ call[p].pc = "retitle" /\ At(p, d) /\ release' = [release EXCEPT ![d].title = "gated"]
        /\ call' = [call EXCEPT ![p] = Continue(call[p], d, call[p].missing)]
    BY <1>6 DEF Retitle
  <2>2. call[p] \in Calls /\ d \in call[p].todo /\ call[p].missing \in SUBSET Assets
    BY <2>1, CallFacts DEF At, Calls
  <2>3. call'[p] # call[p]
    BY <2>1, <2>2, ContinueMoves DEF IInv, TypeOK
  <2>4. ReleaseTypes(release') /\ Grows(release, release')
    BY <2>1, RetitledFacts
  <2>5. \A f \in Destinations \ {d} : release'[f] = release[f]
    BY <1>0, <2>1
  <2> QED
    BY <2>1, <2>3, <2>4, <2>5, PlannedTouch
<1>7. ASSUME NEW p \in Publishers, NEW d \in Destinations, NEW a \in Assets, Attach(p, d, a)
      PROVE  Touch(e)
  <2>1. CASE UNCHANGED release
    BY <1>1, <2>1
  <2>2. CASE ~UNCHANGED release
    <3>1. /\ call[p].pc = "attach" /\ At(p, d) /\ a \in call[p].missing
          /\ release' = [release EXCEPT ![d].assets = @ \cup {a}]
          /\ call' = [call EXCEPT ![p] = Continue(call[p], d, call[p].missing \ {a})]
      BY <1>7, <2>2 DEF Attach, FirstOf
    <3>2. call[p] \in Calls /\ d \in call[p].todo /\ call[p].missing \in SUBSET Assets
      BY <3>1, CallFacts DEF At, Calls
    <3>3. call'[p] # call[p]
      <4>1. call[p].missing \ {a} # call[p].missing /\ call[p].missing \ {a} \in SUBSET Assets
        BY <3>1, <3>2
      <4>2. Continue(call[p], d, call[p].missing \ {a}) # call[p]
        BY <3>2, <4>1, ContinueMoves
      <4> QED
        BY <3>1, <4>2 DEF IInv, TypeOK
    <3>4. ReleaseTypes(release') /\ Grows(release, release')
      BY <3>1, AttachedFacts
    <3>5. \A f \in Destinations \ {d} : release'[f] = release[f]
      BY <1>0, <3>1
    <3> QED
      BY <3>1, <3>3, <3>4, <3>5, PlannedTouch
  <2> QED
    BY <2>1, <2>2
<1>8. ASSUME NEW p \in Publishers, NEW d \in Destinations, WriteUnanswered(p, d)
      PROVE  Touch(e)
  <2>1. At(p, d) /\ call' = [call EXCEPT ![p] = Record(call[p], "failed", d)]
        /\ call[p].pc \in {"retitle", "attach"}
    BY <1>8 DEF WriteUnanswered
  <2>2. call[p] \in Calls /\ d \in call[p].todo
    BY <2>1, CallFacts DEF At
  <2>3. call'[p] # call[p]
    <3>1. "failed" \in Lists
      BY DEF Lists
    <3>2. Record(call[p], "failed", d) # call[p]
      BY <2>2, <3>1, RecordMoves
    <3> QED
      BY <2>1, <3>2 DEF IInv, TypeOK
  <2>4. /\ ReleaseTypes(release') /\ Grows(release, release')
        /\ \A f \in Destinations \ {d} : release'[f] = release[f]
    <3>1. CASE call[p].pc = "retitle" /\ release' = [release EXCEPT ![d].title = "gated"]
      BY <1>0, <2>1, <3>1, RetitledFacts
    <3>2. ASSUME NEW a \in call[p].missing, call[p].pc = "attach",
                 release' = [release EXCEPT ![d].assets = @ \cup {a}]
          PROVE  /\ ReleaseTypes(release') /\ Grows(release, release')
                 /\ \A f \in Destinations \ {d} : release'[f] = release[f]
      <4>1. a \in Assets
        BY <2>2 DEF Calls
      <4> QED
        BY <1>0, <2>1, <3>2, <4>1, AttachedFacts
    <3> QED
      BY <1>8, <3>1, <3>2 DEF WriteUnanswered
  <2> QED
    BY <2>1, <2>3, <2>4, PlannedTouch
<1>9. ASSUME NEW p \in Publishers, Push(p) \/ Reconcile(p) \/ Raise(p) \/ Die(p)
      PROVE  Touch(e)
  BY <1>1, <1>9 DEF Push, Reconcile, Raise, Die
<1>10. ASSUME NEW p \in Publishers, NEW d \in Destinations,
              Check(p, d) \/ Lookup(p, d) \/ Plan(p, d) \/ Judge(p, d) \/ Fail(p, d)
       PROVE  Touch(e)
  BY <1>1, <1>10 DEF Check, Lookup, Plan, Judge, Fail
<1>11. ASSUME NEW p \in Publishers, PassGates(p) \/ Identify(p) PROVE Touch(e)
  BY <1>1, <1>11 DEF PassGates, Identify
<1>12. ASSUME NEW section \in Notes \cup {NoNotes}, Retag(section) PROVE Touch(e)
  BY <1>1, <1>12 DEF Retag
<1>13. CASE UNCHANGED vars
  BY <1>1, <1>13 DEF vars
<1>14. ASSUME NEW p \in Publishers, Work(p) PROVE Touch(e)
  BY <1>4, <1>6, <1>7, <1>10, <1>11, <1>14 DEF Work
<1>15. ASSUME NEW p \in Publishers, Trouble(p) PROVE Touch(e)
  BY <1>5, <1>8, <1>9, <1>10, <1>15 DEF Trouble
<1> QED
  BY <1>3, <1>9, <1>12, <1>13, <1>14, <1>15 DEF Next

(* No write reaches a release made for another build or under another      *)
(* title, though the decision to write was taken on an earlier read.       *)
THEOREM OthersAreLeftAlone == Spec => TouchesOnlyItsOwn
<1>1. IInv /\ [Next]_vars =>
        [\A d \in Destinations : Exists(d) /\ release'[d] # release[d] =>
          /\ release[d].title # "other"
          /\ release'[d].notes = release[d].notes
          /\ release[d].assets \subseteq release'[d].assets
          /\ \E p \in Publishers : /\ call'[p] # call[p]
                                   /\ At(p, d)
                                   /\ call[p].notes = release[d].notes]_vars
  BY NextTouches DEF Touch
<1> QED
  BY <1>1, Invariant, PTL DEF Spec, TouchesOnlyItsOwn

----------------------------------------------------------------------------
(* A release that exists stays: nothing in the engine deletes one.         *)
LEMMA ExistsStays ==
    ASSUME IInv, [Next]_vars, NEW e \in Destinations, Exists(e)
    PROVE  Exists(e)'
<1>1. /\ release \in [Destinations -> Releases \cup {NoRelease}]
      /\ release[e] \in Releases /\ NoRelease.title \notin Titles
  BY DEF IInv, TypeOK, Exists, NoRelease, Titles
<1>2. release[e].title \in Titles
  BY <1>1 DEF Releases
<1>3. CASE UNCHANGED release
  BY <1>3 DEF Exists
<1>4. ASSUME NEW d \in Destinations, NEW r, release' = [release EXCEPT ![d] = r],
             ~Exists(d) \/ r.title \in Titles
      PROVE  Exists(e)'
  BY <1>1, <1>4 DEF Exists
<1>5. ASSUME NEW d \in Destinations, release' = [release EXCEPT ![d].title = "gated"]
      PROVE  Exists(e)'
  <2>1. CASE d = e
    <3>1. release'[e].title = "gated"
      BY <1>1, <1>5, <2>1 DEF Releases
    <3> QED
      BY <1>1, <3>1 DEF Exists, Titles
  <2>2. CASE d # e
    BY <1>1, <1>5, <2>2 DEF Exists
  <2> QED
    BY <2>1, <2>2
<1>6. ASSUME NEW d \in Destinations, NEW a, release' = [release EXCEPT ![d].assets = @ \cup {a}]
      PROVE  Exists(e)'
  <2>1. CASE d = e
    <3>1. release'[e].title = release[e].title
      BY <1>1, <1>6, <2>1 DEF Releases
    <3> QED
      BY <1>1, <1>2, <3>1 DEF Exists
  <2>2. CASE d # e
    BY <1>1, <1>6, <2>2 DEF Exists
  <2> QED
    BY <2>1, <2>2
<1>7. ASSUME NEW d \in Destinations, NEW title \in Titles, NEW notes \in Notes \cup {NoNotes},
             StrangerCreates(d, title, notes)
      PROVE  Exists(e)'
  BY <1>4, <1>7 DEF StrangerCreates
<1>8. ASSUME NEW p \in Publishers, Work(p) PROVE Exists(e)'
  <2>1. ASSUME NEW d \in Destinations, Create(p, d) PROVE Exists(e)'
    BY <1>3, <1>4, <2>1 DEF Create
  <2>2. ASSUME NEW d \in Destinations, NEW a \in Assets, Attach(p, d, a) PROVE Exists(e)'
    BY <1>3, <1>6, <2>2 DEF Attach
  <2>3. ASSUME NEW d \in Destinations, Retitle(p, d) PROVE Exists(e)'
    BY <1>5, <2>3 DEF Retitle
  <2>4. ASSUME NEW d \in Destinations, Check(p, d) \/ Lookup(p, d) \/ Plan(p, d) \/ Judge(p, d)
        PROVE  Exists(e)'
    BY <1>3, <2>4 DEF Check, Lookup, Plan, Judge
  <2>5. CASE PassGates(p) \/ Identify(p)
    BY <1>3, <2>5 DEF PassGates, Identify
  <2> QED
    BY <1>8, <2>1, <2>2, <2>3, <2>4, <2>5 DEF Work
<1>9. ASSUME NEW p \in Publishers, Trouble(p) PROVE Exists(e)'
  <2>1. ASSUME NEW d \in Destinations, WriteUnanswered(p, d) PROVE Exists(e)'
    BY <1>5, <1>6, <2>1 DEF WriteUnanswered
  <2>2. ASSUME NEW d \in Destinations, CreateUnanswered(p, d) PROVE Exists(e)'
    BY <1>4, <2>2 DEF CreateUnanswered
  <2>3. ASSUME NEW d \in Destinations, Fail(p, d) PROVE Exists(e)'
    BY <1>3, <2>3 DEF Fail
  <2>4. CASE Raise(p) \/ Die(p)
    BY <1>3, <2>4 DEF Raise, Die
  <2> QED
    BY <1>9, <2>1, <2>2, <2>3, <2>4 DEF Trouble
<1> QED
  BY <1>3, <1>7, <1>8, <1>9 DEF Next, Retag, Push, Reconcile, vars

(* The first pass of the reconcile: what it has passed exists, however     *)
(* long ago it was looked at.                                              *)
Checked(c, rel) ==
    /\ c.pc \in {"checking", "up to date"} =>
          \A d \in Destinations \ c.todo : rel[d] # NoRelease
    /\ c.pc = "up to date" => c.todo = {}

LEMMA RecordedPc ==
    ASSUME NEW c \in Calls, NEW d, NEW l \in Lists
    PROVE  Record(c, l, d).pc \in {"returned", "lookup"}
BY DEF Record, Calls, Lists

LEMMA ContinuedPc ==
    ASSUME NEW c \in Calls, NEW d, NEW left
    PROVE  Continue(c, d, left).pc \in {"attach", "returned", "lookup"}
<1>1. CASE left # {}
  BY <1>1 DEF Continue, Calls
<1>2. CASE left = {}
  BY <1>2, RecordedPc DEF Continue, Lists
<1> QED
  BY <1>1, <1>2

(* Every step of a call but the two of that pass leads elsewhere.          *)
LEMMA LeadsElsewhere ==
    ASSUME NEW p \in Publishers, IInv, Work(p) \/ Trouble(p) \/ Push(p),
           \A d \in Destinations : ~Check(p, d)
    PROVE  \E n : call' = [call EXCEPT ![p] = n] /\ n.pc \notin {"checking", "up to date"}
<1> DEFINE Away(n) == n.pc \notin {"checking", "up to date"}
           Goes == \E n : call' = [call EXCEPT ![p] = n] /\ Away(n)
<1> SUFFICES Goes
  OBVIOUS
<1>1. call \in [Publishers -> Calls] /\ call[p] \in Calls
  BY DEF IInv, TypeOK
<1>2. ASSUME NEW pc, pc \notin {"checking", "up to date"}, Goto(p, pc) PROVE Goes
  <2>1. [call[p] EXCEPT !.pc = pc].pc = pc
    BY <1>1 DEF Calls
  <2> QED
    BY <1>1, <1>2, <2>1 DEF Goto
<1>3. ASSUME NEW l \in Lists, NEW d, call' = [call EXCEPT ![p] = Record(@, l, d)] PROVE Goes
  BY <1>1, <1>3, RecordedPc
<1>4. ASSUME NEW d, NEW left, call' = [call EXCEPT ![p] = Continue(@, d, left)] PROVE Goes
  <2>1. call' = [call EXCEPT ![p] = Continue(call[p], d, left)]
    BY <1>1, <1>4
  <2>2. Away(Continue(call[p], d, left))
    BY <1>1, ContinuedPc
  <2> QED
    BY <2>1, <2>2
<1>5. CASE PassGates(p)
  <2>1. CASE Goto(p, "raised")
    BY <1>2, <2>1
  <2>2. CASE call' = [call EXCEPT ![p].pc = "identity", ![p].notes = changelog]
    <3>1. call' = [call EXCEPT ![p] = [call[p] EXCEPT !.pc = "identity", !.notes = changelog]]
      BY <1>1, <2>2
    <3>2. [call[p] EXCEPT !.pc = "identity", !.notes = changelog].pc = "identity"
      BY <1>1 DEF Calls
    <3> QED
      BY <3>1, <3>2
  <2> QED
    BY <1>5, <2>1, <2>2 DEF PassGates
<1>6. CASE Identify(p) \/ Raise(p) \/ Die(p)
  BY <1>2, <1>6 DEF Identify, Raise, Die
<1>7. CASE Push(p)
  <2> DEFINE n == [NoCall EXCEPT !.pc = "gates", !.by = "webhook", !.todo = Destinations]
  <2>1. call' = [call EXCEPT ![p] = n]
    BY <1>7 DEF Push
  <2>2. n.pc = "gates"
    BY DEF NoCall
  <2> HIDE DEF n
  <2> QED
    BY <2>1, <2>2
<1>8. ASSUME NEW d \in Destinations, Lookup(p, d) PROVE Goes
  BY <1>2, <1>8 DEF Lookup
<1>9. ASSUME NEW d \in Destinations, Plan(p, d) PROVE Goes
  <2>1. CASE Goto(p, "judge")
    BY <1>2, <2>1
  <2>2. ASSUME NEW missing, NEW pc \in {"attach", "retitle"},
               call' = [call EXCEPT ![p].missing = missing, ![p].pc = pc]
        PROVE  Goes
    <3>1. call' = [call EXCEPT ![p] = [call[p] EXCEPT !.missing = missing, !.pc = pc]]
      BY <1>1, <2>2
    <3>2. [call[p] EXCEPT !.missing = missing, !.pc = pc].pc = pc
      BY <1>1 DEF Calls
    <3> QED
      BY <3>1, <3>2
  <2> QED
    BY <1>9, <2>1, <2>2 DEF Plan
<1>10. ASSUME NEW d \in Destinations, Judge(p, d) \/ Fail(p, d) \/ WriteUnanswered(p, d)
       PROVE  Goes
  BY <1>3, <1>10 DEF Judge, Fail, WriteUnanswered, Lists
<1>11. ASSUME NEW d \in Destinations, Create(p, d) PROVE Goes
  <2>1. CASE Goto(p, "plan")
    BY <1>2, <2>1
  <2>2. CASE call' = [call EXCEPT ![p] = Continue([@ EXCEPT !.creating = TRUE], d, ArtifactDir[p])]
    <3> DEFINE c == [call[p] EXCEPT !.creating = TRUE]
    <3>1. c \in Calls
      BY <1>1 DEF Calls
    <3>2. call' = [call EXCEPT ![p] = Continue(c, d, ArtifactDir[p])]
      BY <1>1, <2>2
    <3> HIDE DEF c
    <3>3. Away(Continue(c, d, ArtifactDir[p]))
      BY <3>1, ContinuedPc
    <3> QED
      BY <3>2, <3>3
  <2> QED
    BY <1>11, <2>1, <2>2 DEF Create
<1>12. ASSUME NEW d \in Destinations, Retitle(p, d) PROVE Goes
  BY <1>4, <1>12 DEF Retitle
<1>13. ASSUME NEW d \in Destinations, NEW a \in Assets, Attach(p, d, a) PROVE Goes
  BY <1>3, <1>4, <1>13 DEF Attach, Lists
<1>14. ASSUME NEW d \in Destinations, CreateUnanswered(p, d) PROVE Goes
  BY <1>2, <1>3, <1>14 DEF CreateUnanswered, Lists
<1> HIDE DEF Goes
<1>15. CASE Work(p)
  BY <1>5, <1>6, <1>8, <1>9, <1>10, <1>11, <1>12, <1>13, <1>15 DEF Work
<1>16. CASE Trouble(p)
  BY <1>6, <1>10, <1>14, <1>16 DEF Trouble
<1> QED
  BY <1>7, <1>15, <1>16

LEMMA CheckedStep ==
    ASSUME IInv, [Next]_vars, NEW q \in Publishers, Checked(call[q], release)
    PROVE  Checked(call'[q], release')
<1>0. call \in [Publishers -> Calls] /\ call[q] \in Calls
  BY DEF IInv, TypeOK
<1>1. \A d \in Destinations : release[d] # NoRelease => release'[d] # NoRelease
  BY ExistsStays DEF Exists
<1>2. CASE call'[q] = call[q]
  BY <1>1, <1>2 DEF Checked
<1>3. CASE call'[q].pc \notin {"checking", "up to date"}
  BY <1>3 DEF Checked
<1>4. ASSUME NEW p \in Publishers, Work(p) \/ Trouble(p) \/ Push(p),
             \A d \in Destinations : ~Check(p, d)
      PROVE  Checked(call'[q], release')
  BY <1>0, <1>2, <1>3, <1>4, LeadsElsewhere
<1>5. ASSUME NEW p \in Publishers, Reconcile(p) PROVE Checked(call'[q], release')
  <2>1. CASE p = q
    <3>1. call'[q].pc = "checking" /\ call'[q].todo = Destinations
      BY <1>0, <1>5, <2>1 DEF Reconcile, NoCall
    <3> QED
      BY <3>1 DEF Checked
  <2> QED
    BY <1>0, <1>2, <1>5, <2>1 DEF Reconcile
<1>6. ASSUME NEW p \in Publishers, NEW d \in Destinations, Check(p, d)
      PROVE  Checked(call'[q], release')
  <2>1. CASE p # q
    BY <1>0, <1>2, <1>6, <2>1 DEF Check
  <2>2. CASE p = q /\ ~Exists(d)
    <3>1. call'[q].pc = "gates"
      BY <1>0, <1>6, <2>2 DEF Check, Calls
    <3> QED
      BY <1>3, <3>1
  <2>3. CASE p = q /\ Exists(d)
    <3> DEFINE c == call[q]
    <3>1. call' = [call EXCEPT ![q] = [c EXCEPT !.todo = @ \ {d},
                                     !.pc = IF c.todo = {d} THEN "up to date" ELSE @]]
      BY <1>0, <1>6, <2>3 DEF Check
    <3>2. /\ call'[q].todo = c.todo \ {d}
          /\ call'[q].pc = IF c.todo = {d} THEN "up to date" ELSE c.pc
          /\ c.pc = "checking"
      BY <1>0, <1>6, <2>3, <3>1 DEF Check, Calls
    <3>3. \A e \in Destinations \ c.todo : release[e] # NoRelease
      BY <3>2 DEF Checked
    <3>4. release[d] # NoRelease
      BY <2>3 DEF Exists
    <3> HIDE DEF c
    <3> QED
      BY <1>1, <3>2, <3>3, <3>4 DEF Checked
  <2> QED
    BY <2>1, <2>2, <2>3
<1>7. CASE UNCHANGED call
  BY <1>2, <1>7
<1> QED
  BY <1>4, <1>5, <1>6, <1>7 DEF Next, Retag, StrangerCreates, vars

(* What a clean answer is worth.  A report without a failure means that    *)
(* every destination holds the release of that build; and a reconcile that *)
(* finds the tag up to date, although it looked at one destination after   *)
(* the other, means that each has a release (release.py:282-454,           *)
(* reconcile.py:294-321).                                                  *)
CleanAnswersAreTrue ==
    \A p \in Publishers :
        /\ call[p].pc = "returned" /\ call[p].failed = {} =>
              \A d \in Destinations : AsBuilt(d, call[p].notes, ArtifactDir[p])
        /\ call[p].pc = "up to date" => \A d \in Destinations : Exists(d)

THEOREM CleanAnswers == Spec => []CleanAnswersAreTrue
<1> DEFINE AllChecked == \A p \in Publishers : Checked(call[p], release)
<1>1. Init => AllChecked
  <2>1. NoCall.pc = "idle"
    BY DEF NoCall
  <2> QED
    BY <2>1 DEF Init, Checked
<1>2. IInv /\ AllChecked /\ [Next]_vars => AllChecked'
  BY CheckedStep
<1>3. IInv /\ AllChecked => CleanAnswersAreTrue
  <2> SUFFICES ASSUME IInv, AllChecked, NEW p \in Publishers, NEW d \in Destinations
               PROVE  /\ call[p].pc = "returned" /\ call[p].failed = {} =>
                            AsBuilt(d, call[p].notes, ArtifactDir[p])
                      /\ call[p].pc = "up to date" => Exists(d)
    BY DEF CleanAnswersAreTrue
  <2>1. Ahead(call[p]) /\ ReportHolds(call[p], ArtifactDir[p], release)
    BY CallFacts DEF CallOK
  <2>2. call[p].pc = "returned" /\ call[p].failed = {} => d \in Good(call[p])
    BY <2>1 DEF Ahead, Reported, Good, Publishing
  <2>3. Checked(call[p], release)
    OBVIOUS
  <2> QED
    BY <2>1, <2>2, <2>3 DEF ReportHolds, Built, AsBuilt, Checked, Exists
<1> HIDE DEF AllChecked
<1> QED
  BY <1>1, <1>2, <1>3, Invariant, PTL DEF Spec
=============================================================================
