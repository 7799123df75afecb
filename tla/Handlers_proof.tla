--------------------------- MODULE Handlers_proof ---------------------------
(***************************************************************************)
(* Proofs about TagIdentity and MergeHandler, each taken by itself: for    *)
(* every set of callers and tag objects, of heads and checks, and for any  *)
(* number of changes and faults.                                           *)
(***************************************************************************)
EXTENDS TagIdentity, MergeHandler, SequenceTheorems, TLAPS

(* TagIdentity.                                                            *)
Places == {"idle", "canonical", "restore", "push", "readback", "returned", "refused"}
Calls(now) == [at : Places, ref : Tag, obj : Tag, has : 0..now, version : 0..now,
               floor : 0..now]

(* What is left of TagTypeOK when the calls are taken out.                 *)
Surroundings ==
    /\ tags \in Seq(Tag) /\ Now \in 1..MaxMoves + 1
    /\ mirrorTag \in Tag
    /\ foreign \in 0..MaxForeign
    /\ settled \in 0..Now

(* A call past its first read holds the version it read, and read it after *)
(* the floor was taken.                                                    *)
Sound(k) ==
    k.at \in {"restore", "push", "readback"} =>
        /\ k.version > 0 /\ k.obj # NoTag
        /\ k.version >= k.floor
        /\ tags[k.version] = k.obj

(* The inductive invariant.                                                *)
TagIInv ==
    /\ Surroundings
    /\ call \in [Callers -> Calls(Now)]
    /\ \A c \in Callers : Sound(call[c])

LEMMA TagIInvGivesTypes == TagIInv => TagTypeOK
BY DEF TagIInv, Surroundings, Calls, Places, Sound, TagTypeOK

LEMMA TagIInvGivesOrder == TagIInv => LaterCallsNeverGoBack
BY DEF TagIInv, Sound, LaterCallsNeverGoBack

(* A step of one call that leaves the canonical tag alone preserves the    *)
(* invariant if what it makes of the call is sound.                        *)
LEMMA OneCall ==
    ASSUME TagIInv, NEW c \in Callers, NEW k \in Calls(Now), Sound(k),
           call' = [call EXCEPT ![c] = k],
           UNCHANGED <<tags, foreign>>, mirrorTag' \in Tag, settled' \in 0..Now
    PROVE  TagIInv'
<1>1. Now' = Now /\ Surroundings'
  BY DEF TagIInv, Surroundings, Now
<1>2. call' \in [Callers -> Calls(Now)]
  BY DEF TagIInv
<1>3. \A d \in Callers : call'[d] = IF d = c THEN k ELSE call[d]
  BY DEF TagIInv
<1>4. \A d \in Callers : Sound(call[d])'
  BY <1>3 DEF TagIInv, Sound
<1> QED
  BY <1>1, <1>2, <1>4 DEF TagIInv, Calls

(* A call put together from its fields.                                    *)
LEMMA CallOfFields ==
    ASSUME NEW at \in Places, NEW ref \in Tag, NEW has \in 0..Now, NEW obj \in Tag,
           NEW version \in 0..Now, NEW floor \in 0..Now,
           at \in {"restore", "push", "readback"} =>
              version > 0 /\ obj # NoTag /\ version >= floor /\ tags[version] = obj
    PROVE  LET k == [at |-> at, ref |-> ref, has |-> has, obj |-> obj,
                     version |-> version, floor |-> floor]
           IN k \in Calls(Now) /\ Sound(k)
BY DEF Calls, Sound

(* The counts and what surrounds the calls, under the invariant.           *)
LEMMA NowFacts ==
    ASSUME TagIInv
    PROVE  /\ Now \in Nat /\ Now > 0 /\ Now \in 1..Now /\ 0 \in 0..Now
           /\ settled \in 0..Now /\ mirrorTag \in Tag /\ NoTag \in Tag
           /\ \A v \in 1..Now : tags[v] \in Tag
<1>1. Now \in Nat /\ Now > 0
  BY TagAssumption DEF TagIInv, Surroundings
<1>2. \A v \in 1..Now : tags[v] \in Tag
  BY DEF TagIInv, Surroundings, Now
<1> QED
  BY <1>1, <1>2 DEF TagIInv, Surroundings, Tag

(* The shape of a call under the invariant.                                *)
LEMMA CallFacts ==
    ASSUME TagIInv, NEW c \in Callers
    PROVE  /\ call[c] \in Calls(Now) /\ Sound(call[c])
           /\ call[c].ref \in Tag /\ call[c].obj \in Tag
           /\ call[c].has \in 0..Now /\ call[c].version \in 0..Now
           /\ call[c].floor \in 0..Now
           /\ Now \in Nat /\ settled \in 0..Now /\ mirrorTag \in Tag
BY NowFacts DEF TagIInv, Calls

(* Ends() leaves no call behind.                                           *)
LEMMA EndsIInv ==
    ASSUME TagIInv, NEW c \in Callers, NEW how \in {"idle", "returned", "refused"},
           Ends(c, how), UNCHANGED <<tags, foreign>>, mirrorTag' \in Tag,
           settled' \in 0..Now
    PROVE  TagIInv'
<1> DEFINE k == [at |-> how, ref |-> NoTag, has |-> 0, obj |-> NoTag, version |-> 0,
                 floor |-> 0]
<1>1. NoTag \in Tag /\ how \in Places /\ 0 \in 0..Now
  BY NowFacts DEF Places
<1>2. how \notin {"restore", "push", "readback"}
  OBVIOUS
<1>3. k \in Calls(Now) /\ Sound(k)
  BY <1>1, <1>2, CallOfFields
<1>4. [NoPush EXCEPT !.at = how] = k
  BY DEF NoPush
<1>5. call' = [call EXCEPT ![c] = k]
  BY <1>4 DEF Ends
<1> QED
  BY <1>3, <1>5, OneCall

LEMMA InitTagIInv == TagInit => TagIInv
<1> SUFFICES ASSUME TagInit PROVE TagIInv
  OBVIOUS
<1>1. tags \in Seq(Tag) /\ Now = 1
  <2>1. tags \in [1..1 -> Tag] /\ 1 \in Nat
    BY DEF TagInit
  <2>2. tags \in Seq(Tag)
    BY <2>1, SeqDef
  <2>3. Len(tags) \in Nat /\ DOMAIN tags = 1..Len(tags) /\ DOMAIN tags = 1..1
    BY <2>1, <2>2, LenProperties
  <2>4. 1 \in 1..Len(tags)
    BY <2>3
  <2>5. Len(tags) \in 1..Len(tags)
    BY <2>3, <2>4
  <2>6. 1..Len(tags) = 1..1
    BY <2>3
  <2>7. Len(tags) \in 1..1
    BY <2>5, <2>6, Zenon
  <2>8. Len(tags) = 1
    BY <2>7
  <2> QED
    BY <2>2, <2>8 DEF Now
<1> QED
  BY <1>1, TagAssumption
  DEF TagInit, TagIInv, Surroundings, Calls, Places, Sound, NoPush, Tag

LEMMA MoveTagIInv == ASSUME TagIInv, NEW o \in Tag, MoveTag(o) PROVE TagIInv'
<1>1. /\ tags' \in Seq(Tag) /\ Now' = Now + 1 /\ Now' \in 1..MaxMoves + 1
      /\ \A v \in 1..Now : tags'[v] = tags[v]
  BY TagAssumption DEF TagIInv, Surroundings, MoveTag, Now
<1>2. Surroundings'
  BY <1>1, TagAssumption DEF TagIInv, Surroundings, MoveTag
<1>3. call' = call /\ \A c \in Callers : call[c] \in Calls(Now + 1)
  BY TagAssumption DEF TagIInv, Surroundings, Calls, MoveTag
<1>4. ASSUME NEW c \in Callers PROVE Sound(call[c])'
  BY <1>1, <1>3, CallFacts DEF TagIInv, Sound
<1>5. call' \in [Callers -> Calls(Now)']
  BY <1>1, <1>3 DEF TagIInv, Calls
<1> QED
  BY <1>2, <1>4, <1>5 DEF TagIInv

LEMMA ForeignPushIInv == ASSUME TagIInv, NEW o \in Tag, ForeignPush(o) PROVE TagIInv'
BY TagAssumption DEF TagIInv, Surroundings, Calls, Sound, ForeignPush, Now

LEMMA BeginPushIInv ==
    ASSUME TagIInv, NEW c \in Callers, NEW v \in 1..Now, BeginPush(c, v)
    PROVE  TagIInv'
<1> DEFINE k == [at |-> "canonical", ref |-> tags[v], has |-> v, obj |-> NoTag,
                 version |-> 0, floor |-> settled]
<1>1. call' = [call EXCEPT ![c] = k]
  BY DEF BeginPush
<1>2. k \in Calls(Now) /\ Sound(k)
  <2>1. /\ "canonical" \in Places /\ NoTag \in Tag /\ tags[v] \in Tag
        /\ v \in 0..Now /\ 0 \in 0..Now /\ settled \in 0..Now
    BY NowFacts DEF Places
  <2> QED
    BY <2>1, CallOfFields
<1>3. UNCHANGED <<tags, foreign, mirrorTag, settled>>
  BY DEF BeginPush, Elsewhere
<1> QED
  BY <1>1, <1>2, <1>3, OneCall, NowFacts

LEMMA ReadCanonicalIInv ==
    ASSUME TagIInv, NEW c \in Callers, ReadCanonical(c)
    PROVE  TagIInv'
<1>1. UNCHANGED <<tags, foreign, mirrorTag, settled>>
  BY DEF ReadCanonical, Elsewhere
<1>2. CASE tags[Now] = NoTag
  BY <1>1, <1>2, EndsIInv, CallFacts DEF ReadCanonical
<1>3. CASE tags[Now] # NoTag
  <2> DEFINE k == [at |-> "restore", ref |-> call[c].ref, has |-> call[c].has,
                   obj |-> tags[Now], version |-> Now, floor |-> call[c].floor]
  <2>1. call' = [call EXCEPT ![c] = k]
    BY <1>3 DEF ReadCanonical, TagIInv, Calls
  <2>2. k \in Calls(Now) /\ Sound(k)
    <3>1. /\ "restore" \in Places /\ Now \in 1..Now /\ Now \in 0..Now
          /\ tags[Now] \in Tag /\ Now > 0 /\ Now >= call[c].floor
          /\ call[c].ref \in Tag /\ call[c].has \in 0..Now /\ call[c].floor \in 0..Now
      BY NowFacts, CallFacts DEF Places
    <3> QED
      BY <1>3, <3>1, CallOfFields
  <2> QED
    BY <1>1, <2>1, <2>2, OneCall, CallFacts
<1> QED
  BY <1>2, <1>3

LEMMA RestoreIInv == ASSUME TagIInv, NEW c \in Callers, Restore(c) PROVE TagIInv'
<1>1. UNCHANGED <<tags, foreign, mirrorTag, settled>>
  BY DEF Restore, Elsewhere
<1>2. CASE call[c].obj \in Held(c)
  <2> DEFINE k == [call[c] EXCEPT !.at = "push", !.ref = call[c].obj]
  <2>1. call' = [call EXCEPT ![c] = k]
    BY <1>2 DEF Restore, TagIInv
  <2>2. k \in Calls(Now) /\ Sound(k)
    BY CallFacts DEF Restore, Calls, Places, Sound
  <2> QED
    BY <1>1, <2>1, <2>2, OneCall, CallFacts
<1>3. CASE call[c].obj \notin Held(c)
  BY <1>1, <1>3, EndsIInv, CallFacts DEF Restore
<1> QED
  BY <1>2, <1>3

LEMMA PushObjectIInv == ASSUME TagIInv, NEW c \in Callers, PushObject(c) PROVE TagIInv'
<1> DEFINE k == [call[c] EXCEPT !.at = "readback"]
<1>1. call' = [call EXCEPT ![c] = k]
  BY DEF PushObject, Goes, TagIInv
<1>2. k \in Calls(Now) /\ Sound(k)
  BY CallFacts DEF PushObject, Calls, Places, Sound
<1>3. mirrorTag' \in Tag /\ UNCHANGED <<tags, foreign, settled>>
  BY CallFacts DEF PushObject
<1> QED
  BY <1>1, <1>2, <1>3, OneCall, CallFacts

LEMMA ReadBackIInv == ASSUME TagIInv, NEW c \in Callers, ReadBack(c) PROVE TagIInv'
<1>1. settled' \in 0..Now /\ UNCHANGED <<tags, mirrorTag, foreign>>
  BY CallFacts DEF ReadBack, Highest, Elsewhere
<1>2. PICK how \in {"returned", "refused"} : Ends(c, how)
  BY DEF ReadBack
<1> QED
  BY <1>1, <1>2, EndsIInv, CallFacts

LEMMA CheckoutIInv == ASSUME TagIInv, NEW c \in Callers, Checkout(c) PROVE TagIInv'
<1> DEFINE k == [call[c] EXCEPT !.ref = Peel[call[c].ref]]
<1>1. call' = [call EXCEPT ![c] = k]
  BY DEF Checkout, TagIInv
<1>2. Peel[call[c].ref] \in Tag
  BY CallFacts, TagAssumption DEF Checkout, Tag
<1>3. k \in Calls(Now) /\ Sound(k)
  BY <1>2, CallFacts DEF Calls, Places, Sound
<1>4. UNCHANGED <<tags, foreign, mirrorTag, settled>>
  BY DEF Checkout, Elsewhere
<1> QED
  BY <1>1, <1>3, <1>4, OneCall, CallFacts

(* The steps that only end a call, one of them after it has pushed.        *)
LEMMA EndingIInv ==
    ASSUME TagIInv, NEW c \in Callers,
           Refuse(c) \/ GitFails(c) \/ LetGo(c) \/ PushUnanswered(c)
    PROVE  TagIInv'
<1>1. mirrorTag' \in Tag /\ UNCHANGED <<tags, foreign, settled>>
  BY CallFacts DEF Refuse, GitFails, LetGo, PushUnanswered, Elsewhere
<1>2. PICK how \in {"idle", "refused"} : Ends(c, how)
  BY DEF Refuse, GitFails, LetGo, PushUnanswered
<1> QED
  BY <1>1, <1>2, EndsIInv, CallFacts

LEMMA StepTagIInv == TagIInv /\ [TagNext]_tagVars => TagIInv'
<1> SUFFICES ASSUME TagIInv, [TagNext]_tagVars PROVE TagIInv'
  OBVIOUS
<1>1. CASE UNCHANGED tagVars
  BY <1>1 DEF tagVars, TagIInv, Surroundings, Calls, Sound, Now
<1>2. CASE \E o \in Tag : MoveTag(o) \/ ForeignPush(o)
  BY <1>2, MoveTagIInv, ForeignPushIInv
<1>3. ASSUME NEW c \in Callers,
             \/ \E v \in 1..Now : BeginPush(c, v)
             \/ Refuse(c) \/ PushStep(c) \/ Checkout(c) \/ LetGo(c)
      PROVE  TagIInv'
  BY <1>3, BeginPushIInv, EndingIInv, ReadCanonicalIInv, RestoreIInv, PushObjectIInv,
     ReadBackIInv, CheckoutIInv DEF PushStep
<1> QED
  BY <1>1, <1>2, <1>3 DEF TagNext

LEMMA TagInvariant == TagSpec => []TagIInv
BY InitTagIInv, StepTagIInv, PTL DEF TagSpec

----------------------------------------------------------------------------
(* The variables keep their types, in particular: a call that is past its  *)
(* first read has read an existing version of the tag.                     *)
THEOREM TagTypes == TagSpec => []TagTypeOK
BY TagInvariant, TagIInvGivesTypes, PTL

(* No call overwrites with an older tag what a call that ended before it   *)
(* began has verified, however many callers there are                      *)
(* (tag_identity.py:205-281).                                              *)
THEOREM NeverBack == TagSpec => []LaterCallsNeverGoBack
BY TagInvariant, TagIInvGivesOrder, PTL

(* The engine puts on the mirror only what was once the canonical tag.     *)
LEMMA OnlyCanonicalStep ==
    ASSUME TagIInv, [TagNext]_tagVars, mirrorTag' # mirrorTag, foreign' = foreign
    PROVE  \E v \in 1..Now : tags[v] = mirrorTag'
<1>1. foreign' # foreign + 1
  BY TagAssumption DEF TagIInv, Surroundings
<1>2. PICK c \in Callers : PushObject(c) \/ PushUnanswered(c)
  BY <1>1
  DEF TagNext, tagVars, MoveTag, ForeignPush, BeginPush, Refuse,
      PushStep, ReadCanonical, Restore, ReadBack, GitFails, Checkout, LetGo, Elsewhere
<1>3. call[c].at = "push" /\ mirrorTag' = call[c].obj
  BY <1>2 DEF PushObject, PushUnanswered
<1>4. call[c].version > 0 /\ tags[call[c].version] = call[c].obj
  BY <1>3, CallFacts DEF Sound
<1>5. call[c].version \in 1..Now
  BY <1>4, CallFacts
<1> QED
  BY <1>3, <1>4, <1>5

(* Whatever a checkout made of the tag in the clone: the push names an     *)
(* object that was the canonical tag (tag_identity.py:243-260).            *)
THEOREM OnlyCanonical == TagSpec => OnlyCanonicalObjects
<1>1. TagIInv /\ [TagNext]_tagVars
        => [mirrorTag' # mirrorTag /\ foreign' = foreign =>
              \E v \in 1..Now : tags[v] = mirrorTag']_tagVars
  BY OnlyCanonicalStep
<1> QED
  BY <1>1, TagInvariant, PTL DEF TagSpec, OnlyCanonicalObjects
----------------------------------------------------------------------------
(* MergeHandler.  What a running call knows, and what the forge still      *)
(* shows of it.                                                            *)
CallKnows ==
    /\ job.at \in {"checks", "merge"} => job.head \in offered
    /\ job.at = "merge" => job.head \in passed \/ (settings.required = {} /\ faults > 0)
    /\ job.head # NoHead /\ pr.head # job.head => job.pushed
    /\ job.at \in {"reread", "delete"} => pr.merged
ForgeShows ==
    /\ Open(pr) /\ pr.label => pr.head \in offered
    /\ \A h \in Heads : Green(h) => h \in passed

(* The inductive invariant: a merge is what a running call asked for.      *)
MergeIInv ==
    /\ MergeTypeOK /\ CallKnows /\ ForgeShows
    /\ MergesRestOnAGreenHead /\ OnlyMergedBranchesGo

LEMMA InitMergeIInv == MergeInit => MergeIInv
<1> SUFFICES ASSUME MergeInit PROVE MergeIInv
  OBVIOUS
<1>1. (CHOOSE h \in Heads : TRUE) \in Heads
  BY MergeAssumption
<1>2. settings \in Settings
  BY MergeAssumption DEF MergeInit
<1>3. MergeTypeOK
  BY <1>1, <1>2, MergeAssumption
  DEF MergeInit, MergeTypeOK, PullRequests, NoJob, NoMerge, States
<1>4. CallKnows /\ MergesRestOnAGreenHead /\ OnlyMergedBranchesGo
  BY DEF MergeInit, CallKnows, MergesRestOnAGreenHead, OnlyMergedBranchesGo, NoJob, NoMerge
<1>5. ForgeShows
  BY DEF MergeInit, ForgeShows
<1> QED
  BY <1>3, <1>4, <1>5 DEF MergeIInv

(* A change at the forge touches neither the call's place nor the merge.   *)
LEMMA ChangeMergeIInv ==
    ASSUME MergeIInv, Change, pr' \in PullRequests,
           checks' \in [Heads -> [Checks -> States]], news' \subseteq News,
           job' \in [at : {job.at}, head : {job.head}, pushed : BOOLEAN],
           pr'.merged = pr.merged, pr'.branch = pr.branch,
           job.head # NoHead /\ pr'.head # job.head => job'.pushed
    PROVE  MergeIInv'
<1>1. /\ settings' = settings /\ faults' = faults /\ merge' = merge
      /\ changes' \in 0..MaxChanges
      /\ offered \subseteq offered' /\ offered' \subseteq Heads
      /\ passed \subseteq passed' /\ passed' \subseteq Heads
  BY MergeAssumption DEF Change, Noted, MergeIInv, MergeTypeOK, PullRequests
<1>2. job'.at = job.at /\ job'.head = job.head
  OBVIOUS
<1>3. MergeTypeOK'
  BY <1>1, <1>2 DEF MergeIInv, MergeTypeOK, PullRequests
<1>4. CallKnows'
  BY <1>1, <1>2 DEF MergeIInv, CallKnows
<1>5. ForgeShows'
  <2>1. Open(pr') /\ pr'.label => pr'.head \in offered'
    BY DEF Change, Noted
  <2>2. \A h \in Heads : Green(h)' => h \in passed'
    BY DEF Change, Noted
  <2> QED
    BY <2>1, <2>2 DEF ForgeShows
<1>6. MergesRestOnAGreenHead'
  BY <1>1 DEF MergeIInv, MergesRestOnAGreenHead
<1>7. OnlyMergedBranchesGo'
  BY DEF MergeIInv, OnlyMergedBranchesGo
<1> QED
  BY <1>3, <1>4, <1>5, <1>6, <1>7 DEF MergeIInv

LEMMA ForgeChangesMergeIInv == ASSUME MergeIInv, ForgeChanges PROVE MergeIInv'
<1>1. /\ MergeTypeOK /\ CallKnows
      /\ job = [at |-> job.at, head |-> job.head, pushed |-> job.pushed]
      /\ job.pushed \in BOOLEAN
  BY DEF MergeIInv, MergeTypeOK
<1>2. ASSUME NEW h \in Heads, Push(h) PROVE MergeIInv'
  <2>1. /\ pr' \in PullRequests /\ pr'.head = h
        /\ pr'.merged = pr.merged /\ pr'.branch = pr.branch
    BY <1>1, <1>2 DEF Push, MergeTypeOK, PullRequests
  <2>2. /\ job' \in [at : {job.at}, head : {job.head}, pushed : BOOLEAN]
        /\ job'.pushed = (job.head # NoHead)
    BY <1>1, <1>2 DEF Push
  <2> QED
    BY <1>1, <1>2, <2>1, <2>2, ChangeMergeIInv DEF Push, MergeTypeOK
<1>3. ASSUME NEW on \in BOOLEAN, SetLabel(on) PROVE MergeIInv'
  <2>1. /\ pr' \in PullRequests /\ pr'.head = pr.head
        /\ pr'.merged = pr.merged /\ pr'.branch = pr.branch
        /\ news' \subseteq News
    BY <1>1, <1>3 DEF SetLabel, MergeTypeOK, PullRequests, News
  <2> QED
    BY <1>1, <1>3, <2>1, ChangeMergeIInv DEF SetLabel, MergeTypeOK, CallKnows
<1>4. ASSUME Close PROVE MergeIInv'
  <2>1. /\ pr' \in PullRequests /\ pr'.head = pr.head
        /\ pr'.merged = pr.merged /\ pr'.branch = pr.branch
    BY <1>1, <1>4 DEF Close, MergeTypeOK, PullRequests
  <2> QED
    BY <1>1, <1>4, <2>1, ChangeMergeIInv DEF Close, MergeTypeOK, CallKnows
<1>5. ASSUME NEW h \in Heads, NEW k \in Checks, NEW state \in States,
             StatusReports(h, k, state)
      PROVE  MergeIInv'
  <2>1. checks' \in [Heads -> [Checks -> States]] /\ news' \subseteq News
    BY <1>1, <1>5 DEF StatusReports, MergeTypeOK, News
  <2> QED
    BY <1>1, <1>5, <2>1, ChangeMergeIInv DEF StatusReports, MergeTypeOK, CallKnows
<1>6. ASSUME SuiteSucceeds PROVE MergeIInv'
  <2>1. news' \subseteq News
    BY <1>1, <1>6 DEF SuiteSucceeds, MergeTypeOK, News
  <2> QED
    BY <1>1, <1>6, <2>1, ChangeMergeIInv DEF SuiteSucceeds, MergeTypeOK, CallKnows
<1> QED
  BY <1>2, <1>3, <1>4, <1>5, <1>6 DEF ForgeChanges

(* A request that changes nothing at the forge preserves the invariant if  *)
(* the call knows what it must know at its new place.                      *)
LEMMA JobMergeIInv ==
    ASSUME MergeIInv, Asks, UNCHANGED merge, faults' \in 0..MaxFaults,
           faults' >= faults,
           job' \in [at : {"idle", "pr", "checks", "merge", "reread", "delete"},
                     head : Heads \cup {NoHead}, pushed : BOOLEAN],
           job'.at \in {"checks", "merge", "reread", "delete"} <=> job'.head # NoHead,
           job'.at \in {"checks", "merge"} => job'.head \in offered,
           job'.at = "merge" => \/ job'.head \in passed
                                \/ settings.required = {} /\ faults' > 0,
           job'.head # NoHead /\ pr.head # job'.head => job'.pushed,
           job'.at \in {"reread", "delete"} => pr.merged
    PROVE  MergeIInv'
<1>1. UNCHANGED <<settings, pr, checks, news, changes, offered, passed, merge>>
  BY DEF Asks
<1>2. MergeTypeOK'
  BY <1>1 DEF MergeIInv, MergeTypeOK, PullRequests
<1>3. CallKnows'
  BY <1>1 DEF CallKnows
<1>4. ForgeShows' /\ OnlyMergedBranchesGo'
  BY <1>1 DEF MergeIInv, ForgeShows, Green, OnlyMergedBranchesGo
<1>5. MergesRestOnAGreenHead'
  BY <1>1, MergeAssumption DEF MergeIInv, MergeTypeOK, MergesRestOnAGreenHead
<1> QED
  BY <1>2, <1>3, <1>4, <1>5 DEF MergeIInv

(* The shape of the call under the invariant.                              *)
LEMMA JobFacts ==
    ASSUME MergeIInv
    PROVE  /\ job.at \in {"idle", "pr", "checks", "merge", "reread", "delete"}
           /\ job.head \in Heads \cup {NoHead} /\ job.pushed \in BOOLEAN
           /\ job.at \in {"checks", "merge", "reread", "delete"} <=> job.head # NoHead
           /\ \A place : [job EXCEPT !.at = place]
                            = [at |-> place, head |-> job.head, pushed |-> job.pushed]
           /\ faults \in 0..MaxFaults /\ faults \in Nat
           /\ pr.head \in Heads /\ NoHead \notin Heads
BY MergeAssumption DEF MergeIInv, MergeTypeOK, PullRequests

LEMMA ReturnsMergeIInv ==
    ASSUME MergeIInv, Returns, Asks, UNCHANGED merge, faults' \in 0..MaxFaults,
           faults' >= faults
    PROVE  MergeIInv'
<1>1. job' = [at |-> "idle", head |-> NoHead, pushed |-> FALSE]
  BY DEF Returns, NoJob
<1> QED
  BY <1>1, JobMergeIInv, JobFacts

(* One that goes on with the head it has.                                  *)
LEMMA StepsMergeIInv ==
    ASSUME MergeIInv, NEW place \in {"merge", "delete"}, Steps(place), Asks,
           UNCHANGED merge, faults' \in 0..MaxFaults, faults' >= faults,
           place = "merge" => /\ job.at = "checks"
                              /\ \/ job.head \in passed
                                 \/ settings.required = {} /\ faults' > 0,
           place = "delete" => job.at = "reread"
    PROVE  MergeIInv'
<1>1. job' = [at |-> place, head |-> job.head, pushed |-> job.pushed]
  BY JobFacts DEF Steps
<1>2. /\ job.at \in {"checks", "merge"} => job.head \in offered
      /\ job.head # NoHead /\ pr.head # job.head => job.pushed
      /\ job.at \in {"reread", "delete"} => pr.merged
  BY DEF MergeIInv, CallKnows
<1> QED
  BY <1>1, <1>2, JobMergeIInv, JobFacts

LEMMA BeginMergeIInv ==
    ASSUME MergeIInv, NEW what, BeginMerge(what), news' = news
    PROVE  MergeIInv'
<1>1. Asks /\ UNCHANGED <<faults, merge>>
  BY DEF BeginMerge, Asks
<1>2. PICK place \in {"pr", "idle"} :
         job' = [at |-> place, head |-> NoHead, pushed |-> FALSE]
  BY DEF BeginMerge, NoJob
<1>3. job'.at \notin {"checks", "merge", "reread", "delete"} /\ job'.head = NoHead
  BY <1>2
<1>4. job' \in [at : {"idle", "pr", "checks", "merge", "reread", "delete"},
               head : Heads \cup {NoHead}, pushed : BOOLEAN]
  BY <1>2
<1>5. faults' \in 0..MaxFaults /\ faults' >= faults
  BY <1>1, JobFacts
<1> QED
  BY <1>1, <1>3, <1>4, <1>5, JobMergeIInv

LEMMA GetPullRequestMergeIInv == ASSUME MergeIInv, GetPullRequest PROVE MergeIInv'
<1>1. Asks /\ UNCHANGED <<faults, merge>>
  BY DEF GetPullRequest, Answered
<1>2. CASE Open(pr) /\ pr.label
  <2>1. job' = [at |-> "checks", head |-> pr.head, pushed |-> FALSE]
    BY <1>2 DEF GetPullRequest, Read
  <2>2. pr.head \in offered
    BY <1>2 DEF MergeIInv, ForgeShows
  <2> QED
    BY <1>1, <2>1, <2>2, JobMergeIInv, JobFacts
<1>3. CASE ~(Open(pr) /\ pr.label)
  BY <1>1, <1>3, ReturnsMergeIInv, JobFacts DEF GetPullRequest, Returns
<1> QED
  BY <1>2, <1>3

LEMMA ChecksMergeIInv ==
    ASSUME MergeIInv, GetCiStatus \/ StatusUnreadable
    PROVE  MergeIInv'
<1>1. CASE GetCiStatus
  <2>1. Asks /\ UNCHANGED <<faults, merge>> /\ job.at = "checks"
    BY <1>1 DEF GetCiStatus, Answered
  <2>2. CASE Green(job.head)
    <3>1. job.head \in passed
      BY <2>1, <2>2, JobFacts DEF MergeIInv, ForgeShows
    <3>2. Steps("merge")
      BY <1>1, <2>2 DEF GetCiStatus
    <3> QED
      BY <2>1, <3>1, <3>2, StepsMergeIInv, JobFacts
  <2>3. CASE ~Green(job.head)
    BY <1>1, <2>1, <2>3, ReturnsMergeIInv, JobFacts DEF GetCiStatus
  <2> QED
    BY <2>2, <2>3
<1>2. CASE StatusUnreadable
  <2>1. /\ Asks /\ UNCHANGED merge /\ job.at = "checks"
        /\ faults' \in 0..MaxFaults /\ faults' >= faults /\ faults' > 0
    BY <1>2, JobFacts, MergeAssumption DEF StatusUnreadable
  <2>2. CASE settings.required # {}
    BY <1>2, <2>1, <2>2, ReturnsMergeIInv DEF StatusUnreadable
  <2>3. CASE settings.required = {}
    BY <1>2, <2>1, <2>3, StepsMergeIInv DEF StatusUnreadable
  <2> QED
    BY <2>2, <2>3
<1> QED
  BY <1>1, <1>2

(* The forge merges: what the merge rests on is what the call knows.       *)
LEMMA MergedMergeIInv ==
    ASSUME MergeIInv, Merged, job.at = "merge", faults' \in 0..MaxFaults,
           faults' >= faults, Returns \/ Steps("reread")
    PROVE  MergeIInv'
<1>1. /\ UNCHANGED <<settings, checks, news, changes, offered, passed>>
      /\ merge' = [head |-> pr.head, basis |-> job.head, pushed |-> job.pushed]
  BY DEF Merged
<1>2. pr' \in PullRequests /\ pr'.merged /\ pr'.head = pr.head
  BY DEF Merged, Takes, MergeIInv, MergeTypeOK, PullRequests
<1>3. \/ job' = [at |-> "idle", head |-> NoHead, pushed |-> FALSE]
      \/ job' = [at |-> "reread", head |-> job.head, pushed |-> job.pushed]
  BY JobFacts DEF Returns, NoJob, Steps
<1> job.head \in Heads \cup {NoHead} /\ job.pushed \in BOOLEAN /\ pr.head \in Heads
  BY JobFacts
<1>4. /\ job.head \in offered
      /\ job.head \in passed \/ (settings.required = {} /\ faults > 0)
      /\ pr.head # job.head => job.pushed
      /\ job.head # NoHead
  BY JobFacts DEF MergeIInv, CallKnows
<1>5. MergeTypeOK'
  <2>1. /\ job' \in [at : {"idle", "pr", "checks", "merge", "reread", "delete"},
                    head : Heads \cup {NoHead}, pushed : BOOLEAN]
        /\ job'.at \in {"checks", "merge", "reread", "delete"} <=> job'.head # NoHead
    <3>1. CASE job' = [at |-> "idle", head |-> NoHead, pushed |-> FALSE]
      BY <3>1
    <3>2. CASE job' = [at |-> "reread", head |-> job.head, pushed |-> job.pushed]
      BY <3>2, <1>4
    <3> QED
      BY <1>3, <3>1, <3>2
  <2>2. merge' \in [head : Heads \cup {NoHead}, basis : Heads \cup {NoHead},
                   pushed : BOOLEAN]
    BY <1>1
  <2>3. /\ settings' \in Settings /\ checks' \in [Heads -> [Checks -> States]]
        /\ news' \subseteq News /\ changes' \in 0..MaxChanges
        /\ offered' \subseteq Heads /\ passed' \subseteq Heads
    BY <1>1 DEF MergeIInv, MergeTypeOK
  <2> QED
    BY <1>2, <2>1, <2>2, <2>3 DEF MergeTypeOK
<1>6. CallKnows'
  BY <1>1, <1>2, <1>3, <1>4 DEF CallKnows
<1>7. ForgeShows'
  BY <1>1, <1>2 DEF MergeIInv, ForgeShows, Open, Green
<1>8. MergesRestOnAGreenHead'
  BY <1>1, <1>4, JobFacts DEF MergesRestOnAGreenHead
<1>9. OnlyMergedBranchesGo'
  BY <1>2 DEF OnlyMergedBranchesGo
<1> QED
  BY <1>5, <1>6, <1>7, <1>8, <1>9 DEF MergeIInv

LEMMA MergingMergeIInv ==
    ASSUME MergeIInv, MergePullRequest \/ MergeUnanswered
    PROVE  MergeIInv'
<1>1. faults' \in 0..MaxFaults /\ faults' >= faults
  BY JobFacts, MergeAssumption DEF MergePullRequest, MergeUnanswered
<1> QED
  BY <1>1, MergedMergeIInv DEF MergePullRequest, MergeUnanswered

LEMMA DeleteMergeIInv == ASSUME MergeIInv, DeleteTheBranch PROVE MergeIInv'
<1>1. /\ UNCHANGED <<settings, checks, news, changes, faults, offered, passed, merge>>
      /\ job' = [at |-> "idle", head |-> NoHead, pushed |-> FALSE]
  BY DEF DeleteTheBranch, Returns, NoJob
<1>2. /\ pr' \in PullRequests /\ pr'.merged = pr.merged /\ pr'.head = pr.head
      /\ pr'.open = pr.open /\ pr'.label = pr.label
  BY DEF DeleteTheBranch, MergeIInv, MergeTypeOK, PullRequests
<1>3. pr.merged
  BY DEF DeleteTheBranch, MergeIInv, CallKnows
<1>4. MergeTypeOK'
  BY <1>1, <1>2, JobFacts DEF MergeIInv, MergeTypeOK
<1>5. CallKnows'
  BY <1>1 DEF CallKnows
<1>6. ForgeShows'
  BY <1>1, <1>2 DEF MergeIInv, ForgeShows, Open, Green
<1>7. MergesRestOnAGreenHead' /\ OnlyMergedBranchesGo'
  BY <1>1, <1>2, <1>3 DEF MergeIInv, MergesRestOnAGreenHead, OnlyMergedBranchesGo
<1> QED
  BY <1>4, <1>5, <1>6, <1>7 DEF MergeIInv

(* The requests that end the call, or only go on to the deletion.          *)
LEMMA EndingMergeIInv ==
    ASSUME MergeIInv, MergeRefused \/ RequestFails \/ CutShort \/ ReadAgain
    PROVE  MergeIInv'
<1>1. /\ Asks /\ UNCHANGED merge
      /\ faults' \in 0..MaxFaults /\ faults' >= faults
  BY JobFacts, MergeAssumption DEF MergeRefused, RequestFails, CutShort, ReadAgain, Answered
<1>2. CASE ReadAgain
  BY <1>1, <1>2, StepsMergeIInv DEF ReadAgain
<1> QED
  BY <1>1, <1>2, ReturnsMergeIInv DEF MergeRefused, RequestFails, CutShort

LEMMA SendNewsMergeIInv == ASSUME MergeIInv, NEW what, SendNews(what) PROVE MergeIInv'
BY DEF SendNews, MergeIInv, MergeTypeOK, CallKnows, ForgeShows, Green,
       MergesRestOnAGreenHead, OnlyMergedBranchesGo

LEMMA StepMergeIInv == MergeIInv /\ [MergeNext]_mergeVars => MergeIInv'
<1> SUFFICES ASSUME MergeIInv, [MergeNext]_mergeVars PROVE MergeIInv'
  OBVIOUS
<1>1. CASE UNCHANGED mergeVars
  BY <1>1 DEF mergeVars, MergeIInv, MergeTypeOK, CallKnows, ForgeShows, Green,
              MergesRestOnAGreenHead, OnlyMergedBranchesGo
<1>2. CASE HandlerSteps
  BY <1>2, GetPullRequestMergeIInv, ChecksMergeIInv, MergingMergeIInv, EndingMergeIInv,
     DeleteMergeIInv DEF HandlerSteps
<1>3. CASE HandlerFaults
  BY <1>3, ChecksMergeIInv, MergingMergeIInv, EndingMergeIInv DEF HandlerFaults
<1>4. ASSUME NEW what, SendNews(what) \/ Hear(what) PROVE MergeIInv'
  BY <1>4, SendNewsMergeIInv, BeginMergeIInv DEF Hear
<1> QED
  BY <1>1, <1>2, <1>3, <1>4, ForgeChangesMergeIInv, EndingMergeIInv DEF MergeNext

LEMMA MergeInvariant == MergeSpec => []MergeIInv
BY InitMergeIInv, StepMergeIInv, PTL DEF MergeSpec

(* The variables keep their types: a call has read a head exactly when it  *)
(* is past its first request.                                              *)
THEOREM MergeTypes == MergeSpec => []MergeTypeOK
BY MergeInvariant, PTL DEF MergeIInv

(* Every merge rests on a head that was offered and green, for any number  *)
(* of heads, checks, changes and faults (merge.py:85-146).                 *)
THEOREM MergesRestOnGreen == MergeSpec => []MergesRestOnAGreenHead
BY MergeInvariant, PTL DEF MergeIInv

(* No branch is deleted whose pull request has not been merged.            *)
THEOREM OnlyMergedGo == MergeSpec => []OnlyMergedBranchesGo
BY MergeInvariant, PTL DEF MergeIInv
=============================================================================
