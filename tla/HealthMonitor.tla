--------------------------- MODULE HealthMonitor ---------------------------
(***************************************************************************)
(* ops_engine/modules/health_monitor.py: a scheduled run probes every      *)
(* check, hands the results to every sink in turn and ends with an exit    *)
(* code.  Runs may overlap (a schedule that is faster than a run, a run    *)
(* started by hand); what they share is the list of open issues, which the *)
(* github_issue sink reads and then writes.                                *)
(*                                                                         *)
(* A step is one probe, one sink or one request to the forge.              *)
(***************************************************************************)
EXTENDS Naturals, Sequences, FiniteSets

CONSTANTS
    Runs,           \* the runs that may be under way together
    Configs,        \* the configurations
    PageSize,       \* GitHub's answer: the newest so many issues
    MaxUpsets       \* bound: changes of a service, requests that fail, jobs that
                    \* are cancelled, issues that others open or close

(* What a service answers: "well", 2xx with the expected field; "sick",    *)
(* 2xx without it; "error", a status of 400 or more; "silent", nothing.    *)
Health == {"well", "sick", "error", "silent"}
(* What a check expects: a 2xx status, or the field too, or an error       *)
(* status; "no url" is a check whose URL urllib does not accept.           *)
CheckKinds == {"status", "field", "error status", "no url"}
SinkKinds == {"stdout", "file", "webhook", "github_issue", "unknown"}

(* found: _load_config() finds the section; targeted: --repo and --token.  *)
ConfigType ==
    [found : BOOLEAN, enabled : BOOLEAN, checks : Seq(CheckKinds), sinks : Seq(SinkKinds),
     onlyOnFailure : BOOLEAN, targeted : BOOLEAN, failRun : BOOLEAN]

ASSUME HealthAssumption ==
    /\ IsFiniteSet(Runs) /\ Configs \subseteq ConfigType
    /\ PageSize \in Nat \ {0}
    /\ MaxUpsets \in Nat

VARIABLES
    config,
    health,         \* of the service behind each check
    run,            \* each run: where it is and what it has found
    issues,         \* the issues with the label, in order of creation
    upsets, faults, \* how many upsets there were, and how many of them faults
    \* history: read by no action
    witnessed,      \* what each check would have given since the run began
    tried,          \* the sinks the run has tried
    peak,           \* the most runs that were about to create an issue at once
    crowded         \* an open issue of ours was pushed off the first page

healthVars == <<config, health, run, issues, upsets, faults, witnessed, tried, peak, crowded>>

ChecksOf(c) == DOMAIN c.checks
(* next: the check or sink that is next; failed: checks that failed.       *)
At(place, n, failed) == [at |-> place, next |-> n, failed |-> failed, code |-> 0]
NotRunning == At("idle", 1, {})

(* The operations named X_Y are faulty variants of X, each a bug this      *)
(* code could have had; no specification uses them.                        *)

(* _probe(): urlopen() raises for a status of 400 or more before the       *)
(* status is compared, so that a check can never expect one.               *)
Passes(kind, state) ==
    \/ state = "well" /\ kind \in {"status", "field"}
    \/ state = "sick" /\ kind = "status"

----------------------------------------------------------------------------
HealthInit ==
    /\ config \in Configs
    /\ health = [i \in ChecksOf(config) |-> "well"]
    /\ run = [r \in Runs |-> NotRunning]
    /\ issues = <<>>
    /\ upsets = 0 /\ faults = 0
    /\ witnessed = [r \in Runs |-> {}]
    /\ tried = [r \in Runs |-> {}]
    /\ peak = 0 /\ crowded = FALSE

Upset == upsets < MaxUpsets /\ upsets' = upsets + 1
Fault == Upset /\ faults' = faults + 1
NoFault == UNCHANGED <<upsets, faults>>
Underway(r) == run[r].at \in {"probe", "emit", "comment", "create"}

(* What is seen of a state: pairs of a check and whether it passes.        *)
Seen(state) == {<<i, Passes(config.checks[i], state[i])>> : i \in ChecksOf(config)}
ServiceChanges(i, state) ==
    /\ health[i] # state /\ Upset
    /\ health' = [health EXCEPT ![i] = state]
    /\ witnessed' = [r \in Runs |-> IF Underway(r) THEN witnessed[r] \cup Seen(health')
                                   ELSE witnessed[r]]
    /\ UNCHANGED <<config, run, issues, faults, tried, peak, crowded>>

OthersOpenAnIssue ==
    /\ Upset
    /\ issues' = Append(issues, [ours |-> FALSE, open |-> TRUE])
    /\ UNCHANGED <<config, health, run, faults, witnessed, tried, peak, crowded>>
SomebodyCloses(n) ==
    /\ issues[n].open /\ Upset
    /\ issues' = [issues EXCEPT ![n].open = FALSE]
    /\ UNCHANGED <<config, health, run, faults, witnessed, tried, peak, crowded>>

----------------------------------------------------------------------------
Ended(code) == [at |-> "ended", next |-> 1, failed |-> {}, code |-> code]
(* main(), _load_config() and the first lines of run().                    *)
Begin(r) ==
    /\ run[r].at \in {"idle", "ended"}
    /\ run' = [run EXCEPT ![r] =
          IF ~config.found THEN Ended(1)
          ELSE IF ~config.enabled \/ config.checks = <<>> THEN Ended(0)
          ELSE At("probe", 1, {})]
    /\ witnessed' = [witnessed EXCEPT ![r] = Seen(health)]
    /\ tried' = [tried EXCEPT ![r] = {}]
    /\ UNCHANGED <<config, health, issues, upsets, faults, peak, crowded>>

RunOnly == UNCHANGED <<config, health, issues, witnessed, peak, crowded>>
Outcome(r, failed) ==
    run' = [run EXCEPT ![r] =
        IF run[r].next < Len(config.checks) THEN At("probe", run[r].next + 1, failed)
        ELSE At("emit", 1, failed)]
Probe(r) ==
    LET i == run[r].next IN
    /\ run[r].at = "probe" /\ config.checks[i] # "no url"
    /\ Outcome(r, IF Passes(config.checks[i], health[i]) THEN run[r].failed
                  ELSE run[r].failed \cup {i})
    /\ NoFault /\ UNCHANGED tried /\ RunOnly
ProbeFails(r) ==
    /\ run[r].at = "probe" /\ config.checks[run[r].next] # "no url"
    /\ Fault
    /\ Outcome(r, run[r].failed \cup {run[r].next})
    /\ UNCHANGED tried /\ RunOnly
(* Request() raises outside the try: the run ends with a traceback.        *)
ProbeRaises(r) ==
    /\ run[r].at = "probe" /\ config.checks[run[r].next] = "no url"
    /\ run' = [run EXCEPT ![r] = Ended(1)]
    /\ NoFault /\ UNCHANGED tried /\ RunOnly

----------------------------------------------------------------------------
(* The sinks, in their order; what one raises is logged.                   *)
Sink(r) == config.sinks[run[r].next]
AtSink(r) == run[r].at = "emit" /\ run[r].next <= Len(config.sinks)
Mark(r) == tried' = [tried EXCEPT ![r] = @ \cup {run[r].next}]
GoesOn(r) == run' = [run EXCEPT ![r] = At("emit", run[r].next + 1, run[r].failed)]

Emit(r) ==
    /\ AtSink(r) /\ Sink(r) # "github_issue"
    /\ GoesOn(r) /\ Mark(r)
    /\ NoFault /\ RunOnly
SinkFails(r) ==
    /\ AtSink(r) /\ Sink(r) # "github_issue"
    /\ Fault
    /\ GoesOn(r) /\ Mark(r)
    /\ RunOnly

(* _emit_github_issue(): with nothing to report, or nowhere to.            *)
Silent(r) == (config.onlyOnFailure /\ run[r].failed = {}) \/ ~config.targeted
SkipIssue(r) ==
    /\ AtSink(r) /\ Sink(r) = "github_issue" /\ Silent(r)
    /\ GoesOn(r) /\ Mark(r)
    /\ NoFault /\ RunOnly

OpenOnes == {n \in DOMAIN issues : issues[n].open}
Ours == {n \in OpenOnes : issues[n].ours}
FirstPage == {n \in OpenOnes : Cardinality({k \in OpenOnes : k >= n}) <= PageSize}
Existing_ByTheTimestamp == {}
Existing_ClosedToo == {n \in DOMAIN issues : issues[n].ours}
Existing == FirstPage \cap Ours
Creators == {r \in Runs : run[r].at = "create"}

ListIssues(r) ==
    /\ AtSink(r) /\ Sink(r) = "github_issue" /\ ~Silent(r)
    /\ run' = [run EXCEPT ![r] = At(IF Existing # {} THEN "comment" ELSE "create",
                                    run[r].next, run[r].failed)]
    /\ Mark(r)
    /\ peak' = LET n == Cardinality(Creators') IN IF n > peak THEN n ELSE peak
    /\ crowded' = (crowded \/ (FirstPage \cap Ours = {} /\ Ours # {}))
    /\ UNCHANGED <<config, health, issues, upsets, faults, witnessed>>
ListFails(r) ==
    /\ AtSink(r) /\ Sink(r) = "github_issue" /\ ~Silent(r)
    /\ Fault
    /\ GoesOn(r) /\ Mark(r)
    /\ RunOnly

(* A comment goes to the issue found, which may have been closed since.    *)
Comment(r) ==
    /\ run[r].at = "comment"
    /\ GoesOn(r)
    /\ NoFault /\ UNCHANGED tried /\ RunOnly
(* Whether the answer arrives changes nothing: an error is only logged.    *)
Create(r) ==
    /\ run[r].at = "create"
    /\ issues' = Append(issues, [ours |-> TRUE, open |-> TRUE])
    /\ GoesOn(r)
    /\ UNCHANGED <<config, health, upsets, faults, witnessed, tried, peak, crowded>>
WriteFails(r) ==
    /\ run[r].at \in {"comment", "create"}
    /\ Fault
    /\ GoesOn(r)
    /\ UNCHANGED tried /\ RunOnly

ExitCode_OfTheLastProbe(r) ==
    IF Len(config.checks) \in run[r].failed /\ config.failRun THEN 1 ELSE 0
ExitCode(r) == IF run[r].failed # {} /\ config.failRun THEN 1 ELSE 0
Exit(r) ==
    /\ run[r].at = "emit" /\ run[r].next > Len(config.sinks)
    /\ run' = [run EXCEPT ![r] = Ended(ExitCode(r))]
    /\ NoFault /\ UNCHANGED tried /\ RunOnly

(* The job is cancelled.                                                   *)
Killed(r) ==
    /\ Underway(r) /\ Fault
    /\ run' = [run EXCEPT ![r] = NotRunning]
    /\ UNCHANGED tried /\ RunOnly

----------------------------------------------------------------------------
RunStep(r) ==
    \/ Begin(r) \/ Probe(r) \/ ProbeFails(r) \/ ProbeRaises(r)
    \/ Emit(r) \/ SinkFails(r) \/ SkipIssue(r) \/ ListIssues(r) \/ ListFails(r)
    \/ Comment(r) \/ Create(r) \/ WriteFails(r) \/ Exit(r)

HealthNext ==
    \/ \E i \in ChecksOf(config), state \in Health : ServiceChanges(i, state)
    \/ OthersOpenAnIssue
    \/ \E n \in DOMAIN issues : SomebodyCloses(n)
    \/ \E r \in Runs : RunStep(r) \/ Killed(r)

(* Every request carries a timeout, and the schedule starts a run again.   *)
HealthSpec ==
    /\ HealthInit /\ [][HealthNext]_healthVars
    /\ \A r \in Runs : WF_healthVars(RunStep(r))

----------------------------------------------------------------------------
(* The values the variables take.                                          *)
HealthTypeOK ==
    /\ config \in Configs
    /\ health \in [ChecksOf(config) -> Health]
    /\ run \in [Runs -> [at : {"idle", "probe", "emit", "comment", "create", "ended"},
                         next : Nat \ {0}, failed : SUBSET ChecksOf(config), code : 0..1]]
    /\ \A r \in Runs : run[r].at = "probe" => run[r].next \in ChecksOf(config)
    /\ \A r \in Runs : run[r].at \in {"comment", "create"} =>
          run[r].next \in DOMAIN config.sinks /\ Sink(r) = "github_issue"
    /\ issues \in Seq([ours : BOOLEAN, open : BOOLEAN])
    /\ upsets \in 0..MaxUpsets /\ faults \in 0..upsets
    /\ witnessed \in [Runs -> SUBSET (ChecksOf(config) \X BOOLEAN)]
    /\ tried \in [Runs -> SUBSET DOMAIN config.sinks]
    /\ peak \in Nat /\ crowded \in BOOLEAN

(* "a single labeled issue": there are never more open issues of ours than *)
(* runs that at one time had listed the issues, found none and not yet     *)
(* written; one run at a time keeps a single issue.  Only the first page   *)
(* of the list is read, so issues of others may push ours out of sight     *)
(* (health_monitor.py:212-241).                                            *)
SingleIssue == crowded \/ Cardinality(Ours) + Cardinality(Creators) <= peak

(* A run that ends by itself ends truthfully and has left out nothing.     *)
(* The exit code tells the truth, whatever the sinks do and whenever the   *)
(* services change: after 0 every check has passed at some time during the *)
(* run, after 1 one of them has not, unless a request failed, a URL cannot *)
(* be opened or there is no configuration (health_monitor.py:265-290).     *)
ExitCodeIsTrue ==
    \A r \in Runs : run[r].at = "ended" /\ config.found /\ config.enabled =>
        /\ run[r].code = 0 /\ config.failRun =>
              \A i \in ChecksOf(config) : <<i, TRUE>> \in witnessed[r]
        /\ run[r].code = 1 /\ faults = 0 =>
              \E i \in ChecksOf(config) :
                  <<i, FALSE>> \in witnessed[r] \/ config.checks[i] = "no url"

(* Every sink is tried, whichever of them failed; only a URL that cannot   *)
(* be opened ends a run without any (health_monitor.py:268-288).           *)
Probeable == \A i \in ChecksOf(config) : config.checks[i] # "no url"
EverySinkTried ==
    \A r \in Runs :
        run[r].at = "ended" /\ config.found /\ config.enabled /\ config.checks # <<>>
        /\ Probeable => tried[r] = DOMAIN config.sinks
RunsEndInOrder == ExitCodeIsTrue /\ EverySinkTried

(* In the end an issue is open, and stays so, for an outage that lasts,    *)
(* though requests fail, jobs are cancelled, people close the issue and    *)
(* others crowd the list, a bounded number of times                        *)
(* (health_monitor.py:180-241).                                            *)
Reports ==
    /\ config.found /\ config.enabled /\ config.targeted
    /\ "github_issue" \in {config.sinks[n] : n \in DOMAIN config.sinks}
    /\ Probeable
Outage == \E i \in ChecksOf(config) : ~Passes(config.checks[i], health[i])
LastingOutageIsReported == Reports /\ <>[]Outage => <>[](Ours # {})
=============================================================================
