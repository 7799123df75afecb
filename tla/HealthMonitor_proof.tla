------------------------- MODULE HealthMonitor_proof -------------------------
(***************************************************************************)
(* Proofs about HealthMonitor, for every configuration, any number of      *)
(* overlapping runs, any size of the first page and any number of upsets.  *)
(***************************************************************************)
EXTENDS HealthMonitor, FiniteSetTheorems, SequenceTheorems, TLAPS

Busy == {"probe", "emit", "comment", "create"}
Places == {"idle", "ended"} \cup Busy
RunType == [at : Places, next : Nat \ {0}, failed : SUBSET ChecksOf(config), code : 0..1]

(* A run stands at a check or at a sink there is.                          *)
Fits(k) ==
    /\ k.at = "probe" => k.next \in ChecksOf(config)
    /\ k.at \in {"comment", "create"} =>
          k.next \in DOMAIN config.sinks /\ config.sinks[k.next] = "github_issue"

(* The checks a run is done with, and the sinks it has tried.              *)
Reached(k) == IF k.at = "probe" THEN {i \in ChecksOf(config) : i < k.next}
              ELSE ChecksOf(config)
TriedSoFar(k) ==
    IF k.at = "probe" THEN {}
    ELSE IF k.at = "emit" THEN {n \in DOMAIN config.sinks : n < k.next}
    ELSE {n \in DOMAIN config.sinks : n <= k.next}

(* What a run k says of its checks has been seen (w), unless a request     *)
(* failed (f), and its sinks are tried in order (t).                       *)
SoFar(k, w, t, f) ==
    /\ Seen(health) \subseteq w
    /\ \A i \in Reached(k) : i \notin k.failed => <<i, TRUE>> \in w
    /\ f = 0 => \A i \in k.failed : <<i, FALSE>> \in w
    /\ t = TriedSoFar(k)
InTheEnd(k, w, t, f) ==
    config.found /\ config.enabled =>
        /\ k.code = 0 /\ config.failRun => \A i \in ChecksOf(config) : <<i, TRUE>> \in w
        /\ k.code = 1 /\ f = 0 => \E i \in ChecksOf(config) :
                                     <<i, FALSE>> \in w \/ config.checks[i] = "no url"
        /\ config.checks # <<>> /\ Probeable => t = DOMAIN config.sinks
Truthful(k, w, t, f) ==
    /\ k.at \in Busy => SoFar(k, w, t, f)
    /\ k.at = "ended" => InTheEnd(k, w, t, f)

Around ==
    /\ config \in Configs
    /\ health \in [ChecksOf(config) -> Health]
    /\ issues \in Seq([ours : BOOLEAN, open : BOOLEAN])
    /\ upsets \in 0..MaxUpsets /\ faults \in 0..upsets
    /\ peak \in Nat /\ crowded \in BOOLEAN
RunsFit ==
    /\ run \in [Runs -> RunType]
    /\ witnessed \in [Runs -> SUBSET (ChecksOf(config) \X BOOLEAN)]
    /\ tried \in [Runs -> SUBSET DOMAIN config.sinks]
    /\ \A r \in Runs : Fits(run[r]) /\ Truthful(run[r], witnessed[r], tried[r], faults)

(* The inductive invariant.                                                *)
IInv == Around /\ RunsFit /\ SingleIssue

LEMMA IInvGivesTypes == IInv => HealthTypeOK
BY DEF IInv, Around, RunsFit, RunType, Places, Busy, Fits, HealthTypeOK, Sink

LEMMA IInvGivesOrder == IInv => RunsEndInOrder
<1> SUFFICES ASSUME IInv PROVE ExitCodeIsTrue /\ EverySinkTried
  BY DEF RunsEndInOrder
<1>1. ASSUME NEW r \in Runs, run[r].at = "ended"
      PROVE  InTheEnd(run[r], witnessed[r], tried[r], faults)
  BY <1>1 DEF IInv, RunsFit, Truthful
<1> QED
  BY <1>1 DEF InTheEnd, ExitCodeIsTrue, EverySinkTried

(* What the configuration is made of.                                      *)
LEMMA ConfigFacts ==
    ASSUME Around
    PROVE  /\ config.checks \in Seq(CheckKinds) /\ config.sinks \in Seq(SinkKinds)
           /\ Len(config.checks) \in Nat /\ ChecksOf(config) = 1..Len(config.checks)
           /\ Len(config.sinks) \in Nat /\ DOMAIN config.sinks = 1..Len(config.sinks)
           /\ upsets \in Nat /\ faults \in Nat
<1>1. config \in ConfigType
  BY HealthAssumption DEF Around
<1>2. config.checks \in Seq(CheckKinds) /\ config.sinks \in Seq(SinkKinds)
  BY <1>1 DEF ConfigType
<1>3. upsets \in Nat /\ faults \in Nat
  BY HealthAssumption DEF Around
<1> QED
  BY <1>2, <1>3, LenProperties DEF ChecksOf

(* The shape of one run.                                                   *)
LEMMA RunFacts ==
    ASSUME RunsFit, NEW r \in Runs
    PROVE  /\ run[r] \in RunType /\ Fits(run[r])
           /\ Truthful(run[r], witnessed[r], tried[r], faults)
           /\ run[r].next \in Nat \ {0} /\ run[r].failed \subseteq ChecksOf(config)
           /\ run[r].code \in 0..1 /\ run[r].at \in Places
           /\ tried[r] \subseteq DOMAIN config.sinks
           /\ witnessed[r] \subseteq ChecksOf(config) \X BOOLEAN
BY DEF RunsFit, RunType

(* What fits and is truthful stays so while configuration and services do. *)
LEMMA StillFits ==
    ASSUME UNCHANGED <<config, health>>, NEW d,
           Fits(run'[d]), Truthful(run'[d], witnessed'[d], tried'[d], faults')
    PROVE  (Fits(run[d]) /\ Truthful(run[d], witnessed[d], tried[d], faults))'
<1>1. Fits(run[d])'
  BY DEF Fits, ChecksOf
<1>2. run'[d].at \in Busy => SoFar(run[d], witnessed[d], tried[d], faults)'
  <2>1. run'[d].at \in Busy => SoFar(run'[d], witnessed'[d], tried'[d], faults')
    BY DEF Truthful
  <2> QED
    BY <2>1 DEF SoFar, Reached, TriedSoFar, Seen, ChecksOf
<1>3. run'[d].at = "ended" => InTheEnd(run[d], witnessed[d], tried[d], faults)'
  <2>1. run'[d].at = "ended" => InTheEnd(run'[d], witnessed'[d], tried'[d], faults')
    BY DEF Truthful
  <2> QED
    BY <2>1 DEF InTheEnd, Probeable, ChecksOf
<1> QED
  BY <1>1, <1>2, <1>3 DEF Truthful

(* A step of one run fits if what it makes of the run does.                *)
LEMMA OneRun ==
    ASSUME IInv, NEW r \in Runs, NEW k \in RunType,
           run' = [run EXCEPT ![r] = k],
           UNCHANGED <<config, health>>, faults' \in Nat, faults' >= faults,
           NEW w \in SUBSET (ChecksOf(config) \X BOOLEAN),
           witnessed' = [witnessed EXCEPT ![r] = w],
           NEW t \in SUBSET DOMAIN config.sinks,
           tried' = [tried EXCEPT ![r] = t],
           Fits(k), Truthful(k, w, t, faults')
    PROVE  RunsFit'
<1>0. RunsFit /\ faults \in Nat
  BY ConfigFacts DEF IInv
<1>1. /\ run' \in [Runs -> RunType]
      /\ witnessed' \in [Runs -> SUBSET (ChecksOf(config) \X BOOLEAN)]
      /\ tried' \in [Runs -> SUBSET DOMAIN config.sinks]
  BY <1>0 DEF RunsFit
<1>2. ASSUME NEW d \in Runs
      PROVE  /\ Fits(run'[d])
             /\ Truthful(run'[d], witnessed'[d], tried'[d], faults')
  <2>1. CASE d = r
    <3>1. run'[d] = k /\ witnessed'[d] = w /\ tried'[d] = t
      BY <1>0, <2>1 DEF RunsFit
    <3> QED
      BY <3>1
  <2>2. CASE d # r
    <3>1. run'[d] = run[d] /\ witnessed'[d] = witnessed[d] /\ tried'[d] = tried[d]
      BY <1>0, <2>2 DEF RunsFit
    <3>2. Fits(run[d]) /\ Truthful(run[d], witnessed[d], tried[d], faults)
      BY <1>0 DEF RunsFit
    <3>3. faults' = 0 => faults = 0
      BY <1>0
    <3>4. Truthful(run[d], witnessed[d], tried[d], faults')
      BY <3>2, <3>3 DEF Truthful, SoFar, InTheEnd
    <3> QED
      BY <3>1, <3>2, <3>4
  <2> QED
    BY <2>1, <2>2
<1> QED
  BY <1>1, <1>2, StillFits DEF RunsFit, RunType, ChecksOf

LEMMA KeepsWitnessed ==
    ASSUME RunsFit, NEW r \in Runs
    PROVE  /\ witnessed = [witnessed EXCEPT ![r] = witnessed[r]]
           /\ tried = [tried EXCEPT ![r] = tried[r]]
BY DEF RunsFit

----------------------------------------------------------------------------
(* Open issues of ours and runs about to create one are finitely many.     *)
LEMMA Finite ==
    ASSUME IInv
    PROVE  /\ IsFiniteSet(Ours) /\ IsFiniteSet(Creators)
           /\ Cardinality(Ours) \in Nat /\ Cardinality(Creators) \in Nat /\ peak \in Nat
<1>1. IsFiniteSet(DOMAIN issues)
  <2>1. issues \in Seq([ours : BOOLEAN, open : BOOLEAN])
    BY DEF IInv, Around
  <2>2. DOMAIN issues = 1..Len(issues) /\ 1 \in Int /\ Len(issues) \in Int
    BY <2>1, LenProperties
  <2> QED
    BY <2>2, FS_Interval
<1>2. Ours \in SUBSET DOMAIN issues /\ Creators \in SUBSET Runs
  BY DEF Ours, OpenOnes, Creators
<1>3. IsFiniteSet(Ours) /\ IsFiniteSet(Creators)
  BY <1>1, <1>2, FS_Subset, HealthAssumption
<1> QED
  BY <1>3, FS_CardinalityType DEF IInv, Around

(* What closes issues or takes back an intention to create one.            *)
LEMMA NoMoreIssues ==
    ASSUME IInv, Ours' \subseteq Ours, Creators' \subseteq Creators,
           UNCHANGED <<peak, crowded>>
    PROVE  SingleIssue'
<1>1. Cardinality(Ours') <= Cardinality(Ours) /\ Cardinality(Creators') <= Cardinality(Creators)
  BY Finite, FS_Subset
<1>2. Cardinality(Ours') \in Nat /\ Cardinality(Creators') \in Nat
  BY Finite, FS_Subset, FS_CardinalityType
<1> QED
  BY <1>1, <1>2, Finite DEF IInv, SingleIssue

LEMMA InitIInv == HealthInit => IInv
<1> SUFFICES ASSUME HealthInit PROVE IInv
  OBVIOUS
<1>1. Around
  <2>1. health \in [ChecksOf(config) -> Health]
    BY DEF HealthInit, Health
  <2>2. <<>> \in Seq([ours : BOOLEAN, open : BOOLEAN])
    BY EmptySeq
  <2>3. MaxUpsets \in Nat
    BY HealthAssumption
  <2>4. upsets \in 0..MaxUpsets /\ faults \in 0..upsets /\ peak \in Nat
    BY <2>3 DEF HealthInit
  <2>5. config \in Configs /\ issues = <<>> /\ crowded \in BOOLEAN
    BY DEF HealthInit
  <2> QED
    BY <2>1, <2>2, <2>4, <2>5 DEF Around
<1>2. RunsFit
  BY DEF HealthInit, RunsFit, RunType, Places, Busy, Fits, Truthful, NotRunning, At
<1>3. Ours = {} /\ Creators = {}
  BY DEF HealthInit, Ours, OpenOnes, Creators, NotRunning, At
<1>4. SingleIssue
  BY <1>3, FS_EmptySet DEF HealthInit, SingleIssue
<1> QED
  BY <1>1, <1>2, <1>4 DEF IInv

LEMMA SeenType ==
    ASSUME NEW state
    PROVE  Seen(state) \subseteq ChecksOf(config) \X BOOLEAN
<1>1. \A i \in ChecksOf(config) : Passes(config.checks[i], state[i]) \in BOOLEAN
  BY DEF Passes
<1>2. \A i \in ChecksOf(config) :
         <<i, Passes(config.checks[i], state[i])>> \in ChecksOf(config) \X BOOLEAN
  BY <1>1
<1> QED
  BY <1>2 DEF Seen

(* A service changes: every run under way sees it.                         *)
LEMMA ServiceIInv ==
    ASSUME IInv, NEW i \in ChecksOf(config), NEW state \in Health, ServiceChanges(i, state)
    PROVE  IInv'
<1>1. /\ health' = [health EXCEPT ![i] = state] /\ upsets' = upsets + 1 /\ upsets < MaxUpsets
      /\ witnessed' = [r \in Runs |-> IF Underway(r) THEN witnessed[r] \cup Seen(health')
                                       ELSE witnessed[r]]
      /\ UNCHANGED <<config, run, issues, faults, tried, peak, crowded>>
  BY DEF ServiceChanges, Upset
<1>2. Around'
  BY <1>1, ConfigFacts, HealthAssumption DEF IInv, Around, ChecksOf
<1>3. Seen(health') \subseteq ChecksOf(config) \X BOOLEAN
  BY SeenType
<1>4. witnessed' \in [Runs -> SUBSET (ChecksOf(config) \X BOOLEAN)]
  BY <1>1, <1>3 DEF IInv, RunsFit
<1>5. ASSUME NEW r \in Runs
      PROVE  (Fits(run[r]) /\ Truthful(run[r], witnessed[r], tried[r], faults))'
  <2>1. Fits(run[r]) /\ Truthful(run[r], witnessed[r], tried[r], faults)
    BY DEF IInv, RunsFit
  <2>2. CASE run[r].at \in Busy
    <3>1. witnessed'[r] = witnessed[r] \cup Seen(health')
      BY <1>1, <2>2 DEF Underway, Busy
    <3>2. SoFar(run[r], witnessed[r], tried[r], faults)
      BY <2>1, <2>2 DEF Truthful
    <3>3. SoFar(run[r], witnessed[r], tried[r], faults)'
      BY <1>1, <3>1, <3>2 DEF SoFar, Reached, TriedSoFar, Seen, ChecksOf
    <3> QED
      BY <1>1, <2>1, <2>2, <3>3 DEF Fits, Truthful, Busy, ChecksOf
  <2>3. CASE run[r].at \notin Busy
    <3>1. witnessed'[r] = witnessed[r]
      BY <1>1, <2>3 DEF Underway, Busy
    <3> QED
      BY <1>1, <2>1, <2>3, <3>1 DEF Fits, Truthful, InTheEnd, Probeable, ChecksOf
  <2> QED
    BY <2>2, <2>3
<1>6. RunsFit'
  BY <1>1, <1>4, <1>5 DEF IInv, RunsFit, RunType, ChecksOf
<1>7. SingleIssue'
  BY <1>1, NoMoreIssues DEF Ours, OpenOnes, Creators
<1> QED
  BY <1>2, <1>6, <1>7 DEF IInv

(* Issues of others come and go, and ours may be closed.                   *)
LEMMA RunsUntouched ==
    ASSUME IInv, UNCHANGED <<config, health, run, faults, witnessed, tried>>
    PROVE  RunsFit'
<1>1. ASSUME NEW d \in Runs
      PROVE  (Fits(run[d]) /\ Truthful(run[d], witnessed[d], tried[d], faults))'
  BY StillFits DEF IInv, RunsFit
<1> QED
  BY <1>1 DEF IInv, RunsFit, RunType, ChecksOf

LEMMA OthersOpenIInv == ASSUME IInv, OthersOpenAnIssue PROVE IInv'
<1>1. /\ issues' = Append(issues, [ours |-> FALSE, open |-> TRUE]) /\ upsets' = upsets + 1
      /\ upsets < MaxUpsets
      /\ UNCHANGED <<config, health, run, faults, witnessed, tried, peak, crowded>>
  BY DEF OthersOpenAnIssue, Upset
<1>2. issues \in Seq([ours : BOOLEAN, open : BOOLEAN])
  BY DEF IInv, Around
<1>3. /\ issues' \in Seq([ours : BOOLEAN, open : BOOLEAN]) /\ Len(issues) \in Nat
      /\ DOMAIN issues = 1..Len(issues) /\ DOMAIN issues' = 1..Len(issues) + 1
      /\ \A n \in 1..Len(issues) : issues'[n] = issues[n]
      /\ issues'[Len(issues) + 1] = [ours |-> FALSE, open |-> TRUE]
  BY <1>1, <1>2, AppendProperties, LenProperties
<1>4. Around'
  BY <1>1, <1>3, ConfigFacts, HealthAssumption DEF IInv, Around, ChecksOf
<1>5. Ours' \subseteq Ours /\ Creators' = Creators
  BY <1>1, <1>3 DEF Ours, OpenOnes, Creators
<1>6. SingleIssue'
  BY <1>1, <1>5, NoMoreIssues
<1> QED
  BY <1>1, <1>4, <1>6, RunsUntouched DEF IInv

LEMMA SomebodyClosesIInv ==
    ASSUME IInv, NEW n \in DOMAIN issues, SomebodyCloses(n)
    PROVE  IInv'
<1>1. /\ issues' = [issues EXCEPT ![n].open = FALSE] /\ upsets' = upsets + 1
      /\ upsets < MaxUpsets
      /\ UNCHANGED <<config, health, run, faults, witnessed, tried, peak, crowded>>
  BY DEF SomebodyCloses, Upset
<1>2. /\ issues \in Seq([ours : BOOLEAN, open : BOOLEAN]) /\ n \in 1..Len(issues)
      /\ issues[n] \in [ours : BOOLEAN, open : BOOLEAN]
  BY LenProperties, ElementOfSeq DEF IInv, Around
<1>3. issues' = [issues EXCEPT ![n] = [issues[n] EXCEPT !.open = FALSE]]
  BY <1>1
<1>4. [issues[n] EXCEPT !.open = FALSE] \in [ours : BOOLEAN, open : BOOLEAN]
  BY <1>2
<1>5. issues' \in Seq([ours : BOOLEAN, open : BOOLEAN])
  BY <1>2, <1>3, <1>4, ExceptSeq
<1>6. Around'
  BY <1>1, <1>5, ConfigFacts, HealthAssumption DEF IInv, Around, ChecksOf
<1>7. Ours' \subseteq Ours /\ Creators' = Creators
  BY <1>1, <1>2 DEF Ours, OpenOnes, Creators
<1>8. SingleIssue'
  BY <1>1, <1>7, NoMoreIssues
<1> QED
  BY <1>1, <1>6, <1>8, RunsUntouched DEF IInv

----------------------------------------------------------------------------
(* A step of a run that touches no issue and does not set out to make one. *)
LEMMA RunStepIInv ==
    ASSUME IInv, NEW r \in Runs, NEW k \in RunType, k.at # "create",
           run' = [run EXCEPT ![r] = k], UNCHANGED <<config, health, issues, peak, crowded>>,
           NoFault \/ Fault,
           NEW w \in SUBSET (ChecksOf(config) \X BOOLEAN),
           witnessed' = [witnessed EXCEPT ![r] = w],
           NEW t \in SUBSET DOMAIN config.sinks,
           tried' = [tried EXCEPT ![r] = t],
           Fits(k), Truthful(k, w, t, faults')
    PROVE  IInv'
<1>1. /\ upsets' \in 0..MaxUpsets /\ faults' \in 0..upsets'
      /\ faults' \in Nat /\ faults' >= faults
  BY ConfigFacts, HealthAssumption DEF IInv, Around, NoFault, Fault, Upset
<1>2. Around'
  BY <1>1 DEF IInv, Around, ChecksOf
<1>3. RunsFit'
  BY <1>1, OneRun
<1>4. Ours' = Ours /\ Creators' \subseteq Creators
  BY DEF Ours, OpenOnes, Creators, IInv, RunsFit
<1> QED
  BY <1>2, <1>3, <1>4, NoMoreIssues DEF IInv

LEMMA BeginIInv == ASSUME IInv, NEW r \in Runs, Begin(r) PROVE IInv'
<1>1. /\ witnessed' = [witnessed EXCEPT ![r] = Seen(health)]
      /\ tried' = [tried EXCEPT ![r] = {}]
      /\ UNCHANGED <<config, health, issues, peak, crowded>> /\ NoFault
  BY DEF Begin, NoFault
<1>2. Seen(health) \in SUBSET (ChecksOf(config) \X BOOLEAN) /\ {} \in SUBSET DOMAIN config.sinks
  BY SeenType
<1>3. ASSUME NEW c \in 0..1, run' = [run EXCEPT ![r] = Ended(c)],
             InTheEnd(Ended(c), Seen(health), {}, faults')
      PROVE  IInv'
  <2> DEFINE k == [at |-> "ended", next |-> 1, failed |-> {}, code |-> c]
  <2>1. Ended(c) = k
    BY DEF Ended
  <2>2. k \in RunType /\ k.at = "ended"
    BY DEF RunType, Places, Busy
  <2>3. run' = [run EXCEPT ![r] = k] /\ InTheEnd(k, Seen(health), {}, faults')
    BY <1>3, <2>1
  <2> HIDE DEF k
  <2>4. Fits(k) /\ Truthful(k, Seen(health), {}, faults')
    BY <2>2, <2>3 DEF Fits, Truthful, Busy
  <2> QED
    BY <1>1, <1>2, <2>2, <2>3, <2>4, RunStepIInv
<1>4. CASE ~config.found
  <2>1. run' = [run EXCEPT ![r] = Ended(1)]
    BY <1>4 DEF Begin
  <2>2. InTheEnd(Ended(1), Seen(health), {}, faults')
    BY <1>4 DEF InTheEnd
  <2> QED
    BY <1>3, <2>1, <2>2
<1>5. CASE config.found /\ (~config.enabled \/ config.checks = <<>>)
  <2>1. run' = [run EXCEPT ![r] = Ended(0)]
    BY <1>5 DEF Begin
  <2>2. Ended(0).code = 0
    BY DEF Ended
  <2>3. config.checks = <<>> => ChecksOf(config) = {}
    BY DEF ChecksOf
  <2>4. Ended(0).code # 1
    BY <2>2
  <2>5. InTheEnd(Ended(0), Seen(health), {}, faults')
    BY <1>5, <2>3, <2>4 DEF InTheEnd
  <2> QED
    BY <1>3, <2>1, <2>5
<1>6. CASE config.found /\ config.enabled /\ config.checks # <<>>
  <2> DEFINE k == [at |-> "probe", next |-> 1, failed |-> {}, code |-> 0]
  <2>1. run' = [run EXCEPT ![r] = k]
    BY <1>6 DEF Begin, At
  <2>2. k \in RunType /\ k.at = "probe" /\ k.next = 1 /\ k.failed = {}
    BY DEF RunType, Places, Busy
  <2> HIDE DEF k
  <2>3. 1 \in ChecksOf(config) /\ \A i \in ChecksOf(config) : ~(i < 1)
    <3>1. config.checks \in Seq(CheckKinds) /\ ChecksOf(config) = 1..Len(config.checks)
      BY ConfigFacts DEF IInv
    <3>2. Len(config.checks) \in Nat \ {0}
      BY <1>6, <3>1, EmptySeq
    <3> QED
      BY <3>1, <3>2
  <2>4. SoFar(k, Seen(health), {}, faults')
    BY <2>2, <2>3 DEF SoFar, Reached, TriedSoFar
  <2>5. Fits(k) /\ Truthful(k, Seen(health), {}, faults')
    BY <2>2, <2>3, <2>4 DEF Fits, Truthful
  <2> QED
    BY <1>1, <1>2, <2>1, <2>2, <2>5, RunStepIInv
<1> QED
  BY <1>4, <1>5, <1>6

(* A probe has an outcome: the check is done with.                         *)
LEMMA OutcomeIInv ==
    ASSUME IInv, NEW r \in Runs, run[r].at = "probe",
           NEW failed \in SUBSET ChecksOf(config), Outcome(r, failed),
           RunOnly, UNCHANGED tried, NoFault \/ Fault,
           failed = run[r].failed \/ failed = run[r].failed \cup {run[r].next},
           run[r].next \notin failed => <<run[r].next, TRUE>> \in witnessed[r],
           faults' = 0 /\ failed # run[r].failed => <<run[r].next, FALSE>> \in witnessed[r]
    PROVE  IInv'
<1> DEFINE k == IF run[r].next < Len(config.checks)
                THEN [at |-> "probe", next |-> run[r].next + 1, failed |-> failed, code |-> 0]
                ELSE [at |-> "emit", next |-> 1, failed |-> failed, code |-> 0]
<1>1. RunsFit /\ Around /\ faults' \in Nat /\ (faults' = 0 => faults = 0)
  BY ConfigFacts DEF IInv, NoFault, Fault
<1>2. /\ run[r] \in RunType /\ run[r].next \in ChecksOf(config)
      /\ SoFar(run[r], witnessed[r], tried[r], faults)
  BY <1>1, RunFacts DEF Fits, Truthful, Busy
<1>3. run' = [run EXCEPT ![r] = k]
  BY DEF Outcome, At
<1>4. /\ ChecksOf(config) = 1..Len(config.checks) /\ Len(config.checks) \in Nat
      /\ DOMAIN config.sinks = 1..Len(config.sinks)
  BY <1>1, ConfigFacts
<1>5. k \in RunType /\ k.at # "create" /\ k.failed = failed
  BY <1>2, <1>4 DEF RunType, Places, Busy
<1>6. Fits(k) /\ (k.at = "probe" \/ (k.at = "emit" /\ k.next = 1))
  <2>1. CASE run[r].next < Len(config.checks)
    <3>1. k.at = "probe" /\ k.next = run[r].next + 1
      BY <2>1
    <3>2. run[r].next + 1 \in ChecksOf(config)
      BY <1>2, <1>4, <2>1
    <3> QED
      BY <3>1, <3>2 DEF Fits
  <2>2. CASE ~(run[r].next < Len(config.checks))
    BY <2>2 DEF Fits
  <2> QED
    BY <2>1, <2>2
<1>7. \A i \in Reached(k) : i = run[r].next \/ i \in Reached(run[r])
  BY <1>2, <1>4 DEF Reached
<1> HIDE DEF k
<1>8. TriedSoFar(k) = {} /\ tried[r] = {}
  BY <1>2, <1>4, <1>6 DEF TriedSoFar, SoFar
<1>9. SoFar(k, witnessed[r], tried[r], faults')
  <2>1. Seen(health) \subseteq witnessed[r]
    BY <1>2 DEF SoFar
  <2>2. ASSUME NEW i \in Reached(k), i \notin k.failed PROVE <<i, TRUE>> \in witnessed[r]
    BY <1>2, <1>5, <1>7, <2>2 DEF SoFar
  <2>3. ASSUME faults' = 0, NEW i \in k.failed PROVE <<i, FALSE>> \in witnessed[r]
    <3>1. faults = 0 /\ i \in failed
      BY <1>1, <1>5, <2>3
    <3>2. \A c \in run[r].failed : <<c, FALSE>> \in witnessed[r]
      BY <1>2, <3>1 DEF SoFar
    <3>3. CASE i \in run[r].failed
      BY <3>2, <3>3
    <3>4. CASE i \notin run[r].failed
      <4>1. i = run[r].next /\ failed # run[r].failed
        BY <3>1, <3>4
      <4> QED
        BY <2>3, <4>1
    <3> QED
      BY <3>3, <3>4
  <2> QED
    BY <1>8, <2>1, <2>2, <2>3 DEF SoFar
<1>10. Truthful(k, witnessed[r], tried[r], faults')
  BY <1>6, <1>9 DEF Truthful
<1>11. /\ witnessed' = [witnessed EXCEPT ![r] = witnessed[r]]
       /\ tried' = [tried EXCEPT ![r] = tried[r]]
       /\ witnessed[r] \in SUBSET (ChecksOf(config) \X BOOLEAN)
       /\ tried[r] \in SUBSET DOMAIN config.sinks
       /\ UNCHANGED <<config, health, issues, peak, crowded>>
  BY <1>1, KeepsWitnessed, RunFacts DEF RunOnly
<1> QED
  BY <1>3, <1>5, <1>6, <1>10, <1>11, RunStepIInv

LEMMA ProbeIInv == ASSUME IInv, NEW r \in Runs, Probe(r) \/ ProbeFails(r) PROVE IInv'
<1>1. run[r].at = "probe" /\ RunOnly /\ UNCHANGED tried
  BY DEF Probe, ProbeFails
<1>2. /\ run[r].failed \subseteq ChecksOf(config) /\ run[r].next \in ChecksOf(config)
      /\ Seen(health) \subseteq witnessed[r]
      /\ \A i \in run[r].failed : faults = 0 => <<i, FALSE>> \in witnessed[r]
  BY <1>1, RunFacts DEF IInv, Fits, Truthful, Busy, SoFar
<1>3. CASE Probe(r)
  <2>1. <<run[r].next, Passes(config.checks[run[r].next], health[run[r].next])>>
          \in witnessed[r]
    BY <1>2 DEF Seen
  <2>2. CASE Passes(config.checks[run[r].next], health[run[r].next])
    <3>1. Outcome(r, run[r].failed) /\ NoFault
      BY <1>3, <2>2 DEF Probe
    <3>2. <<run[r].next, TRUE>> \in witnessed[r]
      <4>1. Passes(config.checks[run[r].next], health[run[r].next]) = TRUE
        BY <2>2 DEF Passes
      <4> QED
        BY <2>1, <4>1
    <3> QED
      BY <1>1, <1>2, <3>1, <3>2, OutcomeIInv
  <2>3. CASE ~Passes(config.checks[run[r].next], health[run[r].next])
    <3>1. Outcome(r, run[r].failed \cup {run[r].next}) /\ NoFault
      BY <1>3, <2>3 DEF Probe
    <3>2. <<run[r].next, FALSE>> \in witnessed[r]
      <4>1. Passes(config.checks[run[r].next], health[run[r].next]) = FALSE
        BY <2>3 DEF Passes
      <4> QED
        BY <2>1, <4>1
    <3>3. run[r].failed \cup {run[r].next} \in SUBSET ChecksOf(config)
      BY <1>2
    <3> QED
      BY <1>1, <3>1, <3>2, <3>3, OutcomeIInv
  <2> QED
    BY <2>2, <2>3
<1>4. CASE ProbeFails(r)
  <2>1. Outcome(r, run[r].failed \cup {run[r].next}) /\ Fault
    BY <1>4 DEF ProbeFails
  <2>2. faults' # 0
    BY <2>1, ConfigFacts DEF IInv, Fault
  <2>3. run[r].failed \cup {run[r].next} \in SUBSET ChecksOf(config)
    BY <1>2
  <2> QED
    BY <1>1, <2>1, <2>2, <2>3, OutcomeIInv
<1> QED
  BY <1>3, <1>4

(* The URL of a check cannot be opened: the run ends without any sink.     *)
LEMMA ProbeRaisesIInv == ASSUME IInv, NEW r \in Runs, ProbeRaises(r) PROVE IInv'
<1> DEFINE k == [at |-> "ended", next |-> 1, failed |-> {}, code |-> 1]
<1>1. /\ run' = [run EXCEPT ![r] = k] /\ NoFault
      /\ UNCHANGED <<config, health, issues, witnessed, tried, peak, crowded>>
  BY DEF ProbeRaises, Ended, RunOnly
<1>2. k \in RunType /\ k.at = "ended"
  BY DEF RunType, Places, Busy
<1> HIDE DEF k
<1>3. run[r].next \in ChecksOf(config) /\ config.checks[run[r].next] = "no url"
  BY RunFacts DEF IInv, ProbeRaises, Fits
<1>4. /\ witnessed[r] \in SUBSET (ChecksOf(config) \X BOOLEAN)
      /\ tried[r] \in SUBSET DOMAIN config.sinks
      /\ SoFar(run[r], witnessed[r], tried[r], faults)
  BY RunFacts DEF IInv, ProbeRaises, Truthful, Busy
<1>5. Fits(k) /\ Truthful(k, witnessed[r], tried[r], faults')
  <2>1. ~Probeable
    BY <1>3 DEF Probeable
  <2>2. k.code = 1 /\ k.code # 0
    BY DEF k
  <2>3. \E i \in ChecksOf(config) :
           <<i, FALSE>> \in witnessed[r] \/ config.checks[i] = "no url"
    BY <1>3
  <2>4. InTheEnd(k, witnessed[r], tried[r], faults')
    BY <2>1, <2>2, <2>3 DEF InTheEnd
  <2> QED
    BY <1>2, <2>4 DEF Fits, Truthful, Busy
<1>6. /\ witnessed' = [witnessed EXCEPT ![r] = witnessed[r]]
      /\ tried' = [tried EXCEPT ![r] = tried[r]]
  BY <1>1, KeepsWitnessed DEF IInv
<1> QED
  BY <1>1, <1>2, <1>4, <1>5, <1>6, RunStepIInv

----------------------------------------------------------------------------
(* A run is done with a sink.                                              *)
LEMMA DoneWithSink ==
    ASSUME IInv, NEW r \in Runs,
           (AtSink(r) /\ Mark(r)) \/ (run[r].at \in {"comment", "create"} /\ UNCHANGED tried),
           NEW k, k = [at |-> "emit", next |-> run[r].next + 1, failed |-> run[r].failed,
                       code |-> 0],
           faults' \in Nat, faults' >= faults
    PROVE  /\ k \in RunType /\ k.at = "emit" /\ Fits(k)
           /\ \E t \in SUBSET DOMAIN config.sinks :
                 /\ tried' = [tried EXCEPT ![r] = t]
                 /\ Truthful(k, witnessed[r], t, faults')
<1>1. RunsFit /\ Around
  BY DEF IInv
<1>2. /\ run[r].next \in Nat \ {0} /\ run[r].failed \subseteq ChecksOf(config)
      /\ run[r].at \in {"emit", "comment", "create"}
      /\ tried[r] \in SUBSET DOMAIN config.sinks
  BY <1>1, RunFacts DEF AtSink
<1>3. SoFar(run[r], witnessed[r], tried[r], faults) /\ Fits(run[r])
  BY <1>1, <1>2, RunFacts DEF Truthful, Busy
<1>4. DOMAIN config.sinks = 1..Len(config.sinks) /\ Len(config.sinks) \in Nat /\ faults \in Nat
  BY <1>1, ConfigFacts
<1>5. run[r].next \in DOMAIN config.sinks
  BY <1>2, <1>3, <1>4 DEF Fits, AtSink
<1>6. k \in RunType
  BY <1>2 DEF RunType, Places, Busy
<1>7. k.at = "emit" /\ k.next = run[r].next + 1 /\ k.failed = run[r].failed
  OBVIOUS
<1>8. PICK t \in SUBSET DOMAIN config.sinks :
         /\ tried' = [tried EXCEPT ![r] = t]
         /\ t = {n \in DOMAIN config.sinks : n < run[r].next + 1}
  <2>1. CASE AtSink(r) /\ Mark(r)
    <3>1. tried[r] = {n \in DOMAIN config.sinks : n < run[r].next}
      BY <1>3, <2>1 DEF SoFar, TriedSoFar, AtSink
    <3>2. tried' = [tried EXCEPT ![r] = tried[r] \cup {run[r].next}]
      BY <2>1 DEF Mark
    <3>3. tried[r] \cup {run[r].next} = {n \in DOMAIN config.sinks : n < run[r].next + 1}
      BY <1>2, <1>4, <1>5, <3>1
    <3> QED
      BY <3>2, <3>3
  <2>2. CASE run[r].at \in {"comment", "create"} /\ UNCHANGED tried
    <3>1. tried[r] = {n \in DOMAIN config.sinks : n <= run[r].next}
      BY <1>3, <2>2 DEF SoFar, TriedSoFar
    <3>2. tried' = [tried EXCEPT ![r] = tried[r]]
      BY <1>1, <2>2, KeepsWitnessed
    <3>3. tried[r] = {n \in DOMAIN config.sinks : n < run[r].next + 1}
      BY <1>2, <1>4, <3>1
    <3> QED
      BY <3>2, <3>3
  <2> QED
    BY <2>1, <2>2
<1>9. SoFar(k, witnessed[r], t, faults')
  <2>1. TriedSoFar(k) = t
    BY <1>7, <1>8 DEF TriedSoFar
  <2>2. Reached(k) = ChecksOf(config) /\ Reached(run[r]) = ChecksOf(config)
    BY <1>2, <1>7 DEF Reached
  <2>3. faults' = 0 => faults = 0
    BY <1>4
  <2> QED
    BY <1>3, <1>7, <2>1, <2>2, <2>3 DEF SoFar
<1>10. Truthful(k, witnessed[r], t, faults')
  BY <1>7, <1>9 DEF Truthful
<1> QED
  BY <1>6, <1>7, <1>8, <1>10 DEF Fits

LEMMA GoesOnIInv ==
    ASSUME IInv, NEW r \in Runs, GoesOn(r), RunOnly, NoFault \/ Fault,
           (AtSink(r) /\ Mark(r)) \/ (run[r].at \in {"comment", "create"} /\ UNCHANGED tried)
    PROVE  IInv'
<1>1. PICK k : k = [at |-> "emit", next |-> run[r].next + 1, failed |-> run[r].failed,
                    code |-> 0]
  OBVIOUS
<1>2. run' = [run EXCEPT ![r] = k]
  BY <1>1 DEF GoesOn, At
<1>3. faults' \in Nat /\ faults' >= faults
  BY ConfigFacts DEF IInv, NoFault, Fault
<1>4. PICK t \in SUBSET DOMAIN config.sinks :
         tried' = [tried EXCEPT ![r] = t] /\ Truthful(k, witnessed[r], t, faults')
  BY <1>1, <1>3, DoneWithSink
<1>5. k \in RunType /\ k.at = "emit" /\ Fits(k)
  BY <1>1, <1>3, DoneWithSink
<1>6. /\ witnessed' = [witnessed EXCEPT ![r] = witnessed[r]]
      /\ witnessed[r] \in SUBSET (ChecksOf(config) \X BOOLEAN)
      /\ UNCHANGED <<config, health, issues, peak, crowded>>
  BY KeepsWitnessed, RunFacts DEF IInv, RunOnly
<1> QED
  BY <1>2, <1>4, <1>5, <1>6, RunStepIInv

LEMMA SinkIInv ==
    ASSUME IInv, NEW r \in Runs,
           Emit(r) \/ SinkFails(r) \/ SkipIssue(r) \/ ListFails(r) \/ Comment(r) \/ WriteFails(r)
    PROVE  IInv'
<1>1. CASE Emit(r) \/ SinkFails(r) \/ SkipIssue(r) \/ ListFails(r)
  BY <1>1, GoesOnIInv DEF Emit, SinkFails, SkipIssue, ListFails
<1>2. CASE Comment(r) \/ WriteFails(r)
  BY <1>2, GoesOnIInv DEF Comment, WriteFails
<1> QED
  BY <1>1, <1>2

(* A run lists the issues: if it finds none, it is one more that is about  *)
(* to create one, and that is counted.                                     *)
LEMMA ListIssuesIInv == ASSUME IInv, NEW r \in Runs, ListIssues(r) PROVE IInv'
<1> DEFINE n == IF Cardinality(Creators') > peak THEN Cardinality(Creators') ELSE peak
<1>1. PICK k : k = [at |-> IF Existing # {} THEN "comment" ELSE "create",
                    next |-> run[r].next, failed |-> run[r].failed, code |-> 0]
  OBVIOUS
<1>2. /\ run' = [run EXCEPT ![r] = k] /\ peak' = n
      /\ tried' = [tried EXCEPT ![r] = tried[r] \cup {run[r].next}]
      /\ crowded' = (crowded \/ (FirstPage \cap Ours = {} /\ Ours # {}))
      /\ UNCHANGED <<config, health, issues, upsets, faults, witnessed>>
      /\ run[r].at = "emit" /\ run[r].next <= Len(config.sinks)
      /\ config.sinks[run[r].next] = "github_issue"
  BY <1>1 DEF ListIssues, Mark, At, AtSink, Sink
<1>3. RunsFit /\ Around /\ faults \in Nat
  BY ConfigFacts DEF IInv
<1>4. /\ run[r].next \in DOMAIN config.sinks /\ run[r].failed \subseteq ChecksOf(config)
      /\ run[r].next \in Nat \ {0}
      /\ DOMAIN config.sinks = 1..Len(config.sinks) /\ Len(config.sinks) \in Nat
  BY <1>2, <1>3, ConfigFacts, RunFacts
<1>5. k \in RunType
  BY <1>1, <1>4 DEF RunType, Places, Busy
<1>6. /\ k.at = IF Existing # {} THEN "comment" ELSE "create"
      /\ k.next = run[r].next /\ k.failed = run[r].failed
  BY <1>1
<1>7. Fits(k)
  BY <1>2, <1>4, <1>6 DEF Fits
<1>8. SoFar(run[r], witnessed[r], tried[r], faults)
  BY <1>2, <1>3, RunFacts DEF Truthful, Busy
<1>9. /\ tried[r] \cup {run[r].next} \in SUBSET DOMAIN config.sinks
      /\ tried[r] \cup {run[r].next} = TriedSoFar(k)
  <2>1. tried[r] = {m \in DOMAIN config.sinks : m < run[r].next}
    BY <1>2, <1>8 DEF SoFar, TriedSoFar
  <2>2. TriedSoFar(k) = {m \in DOMAIN config.sinks : m <= run[r].next}
    BY <1>6 DEF TriedSoFar
  <2> QED
    BY <1>4, <2>1, <2>2
<1>10. Truthful(k, witnessed[r], tried[r] \cup {run[r].next}, faults')
  <2>1. Reached(k) = Reached(run[r])
    BY <1>2, <1>6 DEF Reached
  <2> QED
    BY <1>2, <1>6, <1>8, <1>9, <2>1 DEF Truthful, SoFar
<1>11. /\ witnessed' = [witnessed EXCEPT ![r] = witnessed[r]]
       /\ witnessed[r] \in SUBSET (ChecksOf(config) \X BOOLEAN)
  BY <1>2, <1>3, KeepsWitnessed, RunFacts
<1>12. RunsFit'
  <2>1. PICK t \in SUBSET DOMAIN config.sinks : t = tried[r] \cup {run[r].next}
    BY <1>9
  <2>2. /\ faults' \in Nat /\ faults' >= faults /\ UNCHANGED <<config, health>>
        /\ run' = [run EXCEPT ![r] = k] /\ tried' = [tried EXCEPT ![r] = t]
    BY <1>2, <1>3, <2>1
  <2>3. Truthful(k, witnessed[r], t, faults')
    BY <1>10, <2>1
  <2> HIDE DEF n
  <2> QED
    BY <1>5, <1>7, <1>11, <2>2, <2>3, OneRun
<1>13. /\ Ours' = Ours /\ Creators' \subseteq Creators \cup {r}
       /\ Existing # {} => Creators' \subseteq Creators
  <2>1. Ours' = Ours
    BY <1>2 DEF Ours, OpenOnes
  <2>2. run'[r] = k /\ \A d \in Runs : d # r => run'[d] = run[d]
    BY <1>2, <1>3 DEF RunsFit
  <2> QED
    BY <1>6, <2>1, <2>2 DEF Creators
<1>14. Cardinality(Creators') \in Nat /\ (Creators' \subseteq Creators =>
          Cardinality(Creators') <= Cardinality(Creators))
  <2>1. IsFiniteSet(Creators')
    BY HealthAssumption, FS_Subset DEF Creators
  <2> QED
    BY <2>1, Finite, FS_Subset, FS_CardinalityType
<1>15. peak \in Nat /\ peak' \in Nat /\ peak' >= peak /\ peak' >= Cardinality(Creators')
  BY <1>2, <1>14, Finite
<1>16. Around'
  BY <1>2, <1>3, <1>15 DEF Around, ChecksOf
<1>17. SingleIssue'
  <2>1. CASE Existing # {}
    <3>1. Cardinality(Creators') <= Cardinality(Creators)
      BY <1>13, <1>14, <2>1
    <3>2. crowded \/ Cardinality(Ours) + Cardinality(Creators) <= peak
      BY DEF IInv, SingleIssue
    <3>3. crowded' \/ Cardinality(Ours') + Cardinality(Creators') <= peak'
      <4>1. CASE crowded
        BY <1>2, <4>1
      <4>2. CASE Cardinality(Ours) + Cardinality(Creators) <= peak
        <5>1. /\ Cardinality(Ours) \in Nat /\ Cardinality(Creators) \in Nat
              /\ Cardinality(Ours') = Cardinality(Ours)
          BY <1>13, Finite
        <5> HIDE DEF n
        <5> QED
          BY <1>14, <1>15, <3>1, <4>2, <5>1
      <4> QED
        BY <3>2, <4>1, <4>2
    <3> QED
      BY <3>3 DEF SingleIssue
  <2>2. CASE Existing = {} /\ Ours # {}
    BY <1>2, <2>2 DEF Existing, SingleIssue
  <2>3. CASE Ours = {}
    <3>1. Cardinality(Ours') = 0
      BY <1>13, <2>3, FS_EmptySet
    <3> QED
      BY <1>14, <1>15, <3>1 DEF SingleIssue
  <2> QED
    BY <2>1, <2>2, <2>3
<1> QED
  BY <1>12, <1>16, <1>17 DEF IInv

(* An issue is created: one run less is about to.                          *)
LEMMA CreateIInv == ASSUME IInv, NEW r \in Runs, Create(r) PROVE IInv'
<1>1. PICK k : k = [at |-> "emit", next |-> run[r].next + 1, failed |-> run[r].failed,
                    code |-> 0]
  OBVIOUS
<1>2. /\ run' = [run EXCEPT ![r] = k] /\ run[r].at = "create"
      /\ issues' = Append(issues, [ours |-> TRUE, open |-> TRUE])
      /\ UNCHANGED <<config, health, upsets, faults, witnessed, tried, peak, crowded>>
  BY <1>1 DEF Create, GoesOn, At
<1>3. RunsFit /\ Around /\ faults' \in Nat /\ faults' >= faults
  BY <1>2, ConfigFacts DEF IInv
<1>4. /\ k \in RunType /\ k.at = "emit" /\ Fits(k)
      /\ \E t \in SUBSET DOMAIN config.sinks :
            /\ tried' = [tried EXCEPT ![r] = t]
            /\ Truthful(k, witnessed[r], t, faults')
  BY <1>1, <1>2, <1>3, DoneWithSink
<1>5. PICK t \in SUBSET DOMAIN config.sinks :
         tried' = [tried EXCEPT ![r] = t] /\ Truthful(k, witnessed[r], t, faults')
  BY <1>4
<1>6. /\ witnessed' = [witnessed EXCEPT ![r] = witnessed[r]]
      /\ witnessed[r] \in SUBSET (ChecksOf(config) \X BOOLEAN)
  BY <1>2, <1>3, KeepsWitnessed, RunFacts
<1>7. RunsFit'
  BY <1>2, <1>3, <1>4, <1>5, <1>6, OneRun
<1>8. issues \in Seq([ours : BOOLEAN, open : BOOLEAN])
  BY <1>3 DEF Around
<1>9. /\ issues' \in Seq([ours : BOOLEAN, open : BOOLEAN]) /\ Len(issues) \in Nat
      /\ DOMAIN issues = 1..Len(issues) /\ DOMAIN issues' = 1..Len(issues) + 1
      /\ \A n \in 1..Len(issues) : issues'[n] = issues[n]
      /\ issues'[Len(issues) + 1] = [ours |-> TRUE, open |-> TRUE]
  BY <1>2, <1>8, AppendProperties, LenProperties
<1>10. Around'
  BY <1>2, <1>3, <1>9 DEF Around, ChecksOf
<1>11. Ours' = Ours \cup {Len(issues) + 1} /\ Len(issues) + 1 \notin Ours
  BY <1>9 DEF Ours, OpenOnes
<1>12. Creators' = Creators \ {r} /\ r \in Creators
  <2>1. run'[r] = k /\ \A d \in Runs : d # r => run'[d] = run[d]
    BY <1>2, <1>3 DEF RunsFit
  <2> QED
    BY <1>2, <1>4, <2>1 DEF Creators
<1>13. /\ Cardinality(Ours') = Cardinality(Ours) + 1
       /\ Cardinality(Creators') = Cardinality(Creators) - 1
  BY <1>11, <1>12, Finite, FS_AddElement, FS_RemoveElement
<1>14. crowded' \/ Cardinality(Ours') + Cardinality(Creators') <= peak'
  <2>1. crowded \/ Cardinality(Ours) + Cardinality(Creators) <= peak
    BY DEF IInv, SingleIssue
  <2>2. Cardinality(Ours) \in Nat /\ Cardinality(Creators) \in Nat /\ peak \in Nat
    BY Finite
  <2>3. crowded' = crowded /\ peak' = peak
    BY <1>2
  <2> QED
    BY <1>13, <2>1, <2>2, <2>3
<1> QED
  BY <1>7, <1>10, <1>14 DEF IInv, SingleIssue

(* A run that comes to its end has reached every check and every sink.     *)
LEMMA ExitIInv == ASSUME IInv, NEW r \in Runs, Exit(r) PROVE IInv'
<1>1. PICK k : k = [at |-> "ended", next |-> 1, failed |-> {}, code |-> ExitCode(r)]
  OBVIOUS
<1>2. /\ run' = [run EXCEPT ![r] = k] /\ NoFault
      /\ UNCHANGED <<config, health, issues, witnessed, tried, peak, crowded>>
      /\ run[r].at = "emit" /\ run[r].next > Len(config.sinks)
  BY <1>1 DEF Exit, Ended, RunOnly
<1>3. ExitCode(r) \in 0..1
  BY DEF ExitCode
<1>4. k \in RunType /\ k.at = "ended" /\ k.code = ExitCode(r)
  BY <1>1, <1>3 DEF RunType, Places, Busy
<1>5. /\ SoFar(run[r], witnessed[r], tried[r], faults) /\ run[r].next \in Nat
      /\ run[r].failed \subseteq ChecksOf(config)
      /\ tried[r] \in SUBSET DOMAIN config.sinks
      /\ witnessed[r] \in SUBSET (ChecksOf(config) \X BOOLEAN)
      /\ DOMAIN config.sinks = 1..Len(config.sinks) /\ Len(config.sinks) \in Nat
      /\ faults' = faults
  BY <1>2, RunFacts, ConfigFacts DEF IInv, Truthful, Busy, NoFault
<1>6. tried[r] = DOMAIN config.sinks
  <2>1. tried[r] = {n \in DOMAIN config.sinks : n < run[r].next}
    BY <1>2, <1>5 DEF SoFar, TriedSoFar
  <2> QED
    BY <1>2, <1>5, <2>1
<1>7. k.code = 0 /\ config.failRun => \A i \in ChecksOf(config) : <<i, TRUE>> \in witnessed[r]
  <2>1. k.code = 0 /\ config.failRun => run[r].failed = {}
    BY <1>4 DEF ExitCode
  <2>2. Reached(run[r]) = ChecksOf(config)
    BY <1>2 DEF Reached
  <2> QED
    BY <1>5, <2>1, <2>2 DEF SoFar
<1>8. k.code = 1 /\ faults' = 0 => \E i \in ChecksOf(config) : <<i, FALSE>> \in witnessed[r]
  <2>1. k.code = 1 => run[r].failed # {}
    BY <1>4 DEF ExitCode
  <2> QED
    BY <1>5, <2>1 DEF SoFar
<1>9. Fits(k) /\ Truthful(k, witnessed[r], tried[r], faults')
  BY <1>4, <1>6, <1>7, <1>8 DEF Fits, Truthful, InTheEnd, Busy
<1>10. /\ witnessed' = [witnessed EXCEPT ![r] = witnessed[r]]
       /\ tried' = [tried EXCEPT ![r] = tried[r]]
  BY <1>2, KeepsWitnessed DEF IInv
<1> QED
  BY <1>2, <1>4, <1>5, <1>9, <1>10, RunStepIInv

LEMMA KilledIInv == ASSUME IInv, NEW r \in Runs, Killed(r) PROVE IInv'
<1>1. PICK k : k = [at |-> "idle", next |-> 1, failed |-> {}, code |-> 0]
  OBVIOUS
<1>2. /\ run' = [run EXCEPT ![r] = k] /\ Fault
      /\ UNCHANGED <<config, health, issues, witnessed, tried, peak, crowded>>
  BY <1>1 DEF Killed, NotRunning, At, RunOnly
<1>3. k \in RunType /\ k.at = "idle"
  BY <1>1 DEF RunType, Places, Busy
<1>4. Fits(k) /\ Truthful(k, witnessed[r], tried[r], faults')
  BY <1>3 DEF Fits, Truthful, Busy
<1>5. /\ witnessed' = [witnessed EXCEPT ![r] = witnessed[r]]
      /\ tried' = [tried EXCEPT ![r] = tried[r]]
      /\ tried[r] \in SUBSET DOMAIN config.sinks
      /\ witnessed[r] \in SUBSET (ChecksOf(config) \X BOOLEAN)
  BY <1>2, KeepsWitnessed, RunFacts DEF IInv
<1> QED
  BY <1>2, <1>3, <1>4, <1>5, RunStepIInv

LEMMA UnchangedIInv == ASSUME IInv, UNCHANGED healthVars PROVE IInv'
<1>1. UNCHANGED <<config, health, run, issues, upsets, faults, witnessed, tried, peak, crowded>>
  BY DEF healthVars
<1>2. Around'
  BY <1>1 DEF IInv, Around, ChecksOf
<1>3. RunsFit'
  BY <1>1, RunsUntouched
<1>4. Ours' = Ours /\ Creators' = Creators
  BY <1>1 DEF Ours, OpenOnes, Creators
<1> QED
  BY <1>1, <1>2, <1>3, <1>4, NoMoreIssues DEF IInv

LEMMA StepIInv == ASSUME IInv, [HealthNext]_healthVars PROVE IInv'
<1>1. ASSUME NEW r \in Runs, RunStep(r) \/ Killed(r) PROVE IInv'
  BY <1>1, BeginIInv, ProbeIInv, ProbeRaisesIInv, SinkIInv, ListIssuesIInv, CreateIInv,
     ExitIInv, KilledIInv DEF RunStep
<1> QED
  BY <1>1, ServiceIInv, OthersOpenIInv, SomebodyClosesIInv, UnchangedIInv DEF HealthNext

LEMMA Invariant == HealthSpec => []IInv
BY InitIInv, StepIInv, PTL DEF HealthSpec

----------------------------------------------------------------------------
(* Every value keeps its type: a run stands at a check or a sink there is, *)
(* and the sink it writes an issue for is a github_issue sink.             *)
THEOREM HealthTypes == HealthSpec => []HealthTypeOK
<1> QED
  BY Invariant, IInvGivesTypes, PTL

(* However many runs overlap and whoever opens and closes issues, there    *)
(* are never more open issues of ours than runs that at one time were      *)
(* about to create one, unless the first page was full of others           *)
(* (health_monitor.py:212-241).                                            *)
THEOREM SingleIssueHolds == HealthSpec => []SingleIssue
<1>1. IInv => SingleIssue
  BY DEF IInv
<1> QED
  BY <1>1, Invariant, PTL

(* A run that ends by itself has an exit code that is true of its services *)
(* and has tried every sink (health_monitor.py:265-290).                   *)
THEOREM EndsInOrder == HealthSpec => []RunsEndInOrder
<1> QED
  BY Invariant, IInvGivesOrder, PTL
=============================================================================
