------------------------------- MODULE Mirror -------------------------------
(***************************************************************************)
(* ops_engine/modules/mirror.py and the drift half of reconcile.py: the   *)
(* heads and tags of one canonical repository are carried to its mirrors  *)
(* by push_event(), sync_state() and sweep_deleted_refs(), and            *)
(* reconcile_mirror() measures one mirror before and after a sync.  Each  *)
(* call works from a payload or a fresh clone that others make stale.     *)
(*                                                                        *)
(* A step is one git command against a remote, or the reading of the      *)
(* branches or of the tags of one forge.  A commit stands for its whole   *)
(* history; a tag is the commit it peels to (tag objects are              *)
(* push_canonical_tag()'s).                                               *)
(* Candidate globs are declared: the configuration is refused otherwise.  *)
(***************************************************************************)
EXTENDS Naturals

CONSTANTS
    Commits,
    History,        \* the commits reachable from a commit, itself included
    Candidates,     \* the commits that touch a candidate path
    Absent,         \* no such ref
    Heads, Tags,    \* ref names
    Kept,           \* refs no sweep deletes; the default branch is one
    Destinations,   \* mirrors, as numbers: their order in the list
    Public,         \* visibility "public"
    Unusable,       \* visibility undeclared, or no host
    OverwritesAhead,\* overwrite_ahead is set
    Receivers,      \* workers that run push_event()
    Reconcilers,    \* workers that run reconcile_mirror() and sync_state()
    Sweepers,       \* workers that run sweep_deleted_refs()
    Measures,       \* the mirror each reconciler measures
    Origins,        \* the canonical repositories to begin with
    MaxEdits,       \* bound: changes of the canonical repository
    MaxStrangers,   \* bound: pushes to a mirror by anybody else
    MaxFaults       \* bound: failed commands, deaths, redeliveries

Refs == Heads \cup Tags
Workers == Receivers \cup Reconcilers \cup Sweepers

ASSUME MirrorAssumption ==
    /\ Absent \notin Commits
    /\ History \in [Commits -> SUBSET Commits]
    /\ \A c \in Commits : c \in History[c]
    /\ \A c \in Commits : \A b \in History[c] : History[b] \subseteq History[c]
    /\ Heads \cap Tags = {}
    /\ Destinations \subseteq Nat /\ Destinations # {}
    /\ Measures \in [Reconcilers -> Destinations]
    /\ Origins \subseteq [Heads \cup Tags -> Commits \cup {Absent}]
    /\ {MaxEdits, MaxStrangers, MaxFaults} \subseteq Nat

VARIABLES
    canonical,      \* the canonical repository's refs
    mirror,         \* each mirror's refs
    events,         \* push events not delivered yet: <<ref, commit>>
    job,            \* each worker's call
    edits, strangers, faults

bounds == <<edits, strangers, faults>>
vars == <<canonical, mirror, events, job, bounds>>

Trees == [Refs -> Commits \cup {Absent}]
Empty == [r \in Refs |-> Absent]

(* A call: what it pushes from (a payload or a clone), the destinations    *)
(* ahead, what it has seen of a mirror's refs, the refs it is about to     *)
(* push or delete there, and for a reconcile what it wanted and found.     *)
NoJob == [op |-> "none", pc |-> "idle", todo |-> {}, tree |-> Empty,
          seen |-> Empty, refs |-> {}, want |-> Empty, synced |-> FALSE,
          behind |-> {}, ahead |-> {}, failed |-> FALSE]
Resting == {"idle", "returned"}
At(w, d) == d \in job[w].todo /\ \A e \in job[w].todo : d <= e

(* The operations named X_Y are faulty variants of X, each a bug this      *)
(* code could have had; no specification uses them.                        *)

(* _touched_candidates(): the whole history is judged, not the tip.        *)
Clean(c) == History[c] \cap Candidates = {}
Admits(d, c) == d \notin Unusable /\ (d \in Public => Clean(c))

(* merge-base --is-ancestor: the mirror's head strictly contains ours.     *)
IsAhead_Swapped(theirs, ours) == theirs # ours /\ theirs \in History[ours]
IsAhead(theirs, ours) == theirs # ours /\ ours \in History[theirs]

(* _gate_clone_refs(): what a destination may get out of a clone.          *)
Admitted(d, tree) == {r \in Refs : tree[r] # Absent /\ Admits(d, tree[r])}
(* A gated list of refs must stay gated when ahead heads are taken out.    *)
Chosen_ListedAgain(d, tree, ahead) ==
    IF ahead = {} THEN Admitted(d, tree) ELSE {r \in Refs : tree[r] # Absent} \ ahead
Chosen(d, tree, ahead) == Admitted(d, tree) \ ahead
(* _ahead_heads(): tags are not protected.                                 *)
AheadHeads(tree, theirs) ==
    {h \in Heads : /\ tree[h] # Absent /\ theirs[h] # Absent
                   /\ IsAhead(theirs[h], tree[h])}

(* A call that is through; a reconcile measures again.                     *)
Over(j) == IF j.op = "reconcile"
           THEN [j EXCEPT !.pc = "want", !.synced = TRUE, !.todo = {},
                          !.tree = Empty, !.seen = Empty, !.refs = {}]
           ELSE NoJob

(* The loop over the destinations goes on after d.                         *)
After_PastTheEnd(j, d, pc) ==
    [j EXCEPT !.todo = @ \ {d}, !.pc = pc, !.seen = Empty,
              !.refs = IF pc = "event" THEN @ ELSE {}]
After(j, d, pc) ==
    IF j.todo = {d} THEN Over(j)
    ELSE [j EXCEPT !.todo = @ \ {d}, !.pc = pc, !.seen = Empty,
                   !.refs = IF pc = "event" THEN @ ELSE {}]

----------------------------------------------------------------------------
(* The canonical repository is what it is, the mirrors are new.            *)
Init ==
    /\ canonical \in Origins
    /\ mirror = [d \in Destinations |-> Empty]
    /\ events = {}
    /\ job = [w \in Workers |-> NoJob]
    /\ edits = 0 /\ strangers = 0 /\ faults = 0

(* A push to the canonical repository, forced ones included: its event is  *)
(* delivered later, in any order.  A deletion's event pushes nothing.      *)
Edit(r, c) ==
    /\ edits < MaxEdits
    /\ c # canonical[r]
    /\ canonical' = [canonical EXCEPT ![r] = c]
    /\ events' = IF c = Absent THEN events ELSE events \cup {<<r, c>>}
    /\ edits' = edits + 1
    /\ UNCHANGED <<mirror, job, strangers, faults>>

(* Somebody pushes to a head of a mirror, and only what it may have.  What *)
(* others do to a destination that is refused is left out.                 *)
StrangerPushes(d, h, c) ==
    /\ strangers < MaxStrangers
    /\ d \notin Unusable
    /\ d \in Public => History[c] \cap Candidates = {}
    /\ c # mirror[d][h]
    /\ mirror' = [mirror EXCEPT ![d][h] = c]
    /\ strangers' = strangers + 1
    /\ UNCHANGED <<canonical, events, job, edits, faults>>

Starts(w, j) ==
    /\ job[w].pc \in Resting
    /\ job' = [job EXCEPT ![w] = j]

Quiet == UNCHANGED <<canonical, events, bounds>>

----------------------------------------------------------------------------
(* push_event(): the payload's commit, not the ref's present one.          *)
TakesEvent(w, r, c) ==
    /\ w \in Receivers
    /\ <<r, c>> \in events
    /\ Starts(w, [NoJob EXCEPT !.op = "event", !.pc = "event", !.refs = {r},
                               !.todo = Destinations, !.tree = [Empty EXCEPT ![r] = c]])
Receive(w, r, c) ==
    /\ TakesEvent(w, r, c)
    /\ events' = events \ {<<r, c>>}
    /\ UNCHANGED <<canonical, mirror, bounds>>

PushEvent(w, d) ==
    /\ job[w].pc = "event" /\ At(w, d)
    /\ mirror' = [mirror EXCEPT ![d] = [r \in Refs |->
            IF r \in job[w].refs /\ Admits(d, job[w].tree[r])
            THEN job[w].tree[r] ELSE @[r]]]
    /\ job' = [job EXCEPT ![w] = After(@, d, "event")]
    /\ Quiet

----------------------------------------------------------------------------
(* reconcile_mirror(), and sync_state() when called by itself.             *)
Reconcile(w) ==
    /\ w \in Reconcilers
    /\ Starts(w, [NoJob EXCEPT !.op = "reconcile", !.pc = "want"])
    /\ Quiet /\ UNCHANGED mirror
Sync(w) ==
    /\ w \in Reconcilers
    /\ Starts(w, [NoJob EXCEPT !.op = "sync", !.pc = "clone"])
    /\ Quiet /\ UNCHANGED mirror

(* measure_drift(): the branches and the tags of one forge are listed one *)
(* after the other, and the mirror's after the canonical ones.            *)
Listed(heads, tags) == [r \in Refs |-> IF r \in Heads THEN heads[r] ELSE tags[r]]

ReadCanonical(w) ==
    /\ job[w].pc = "want"
    /\ job' = [job EXCEPT ![w].want = Listed(canonical, Empty), ![w].pc = "wantTags"]
    /\ Quiet /\ UNCHANGED mirror
ReadCanonicalTags(w) ==
    /\ job[w].pc = "wantTags"
    /\ job' = [job EXCEPT ![w].want = Listed(@, canonical), ![w].pc = "have"]
    /\ Quiet /\ UNCHANGED mirror
ReadMirrorHeads(w) ==
    /\ w \in Reconcilers
    /\ job[w].pc = "have"
    /\ job' = [job EXCEPT ![w].seen = Listed(mirror[Measures[w]], Empty),
                          ![w].pc = "haveTags"]
    /\ Quiet /\ UNCHANGED mirror

(* What the measure has of its mirror once the tags are read, too.        *)
Have(w) == Listed(job[w].seen, mirror[Measures[w]])

Drifted_MissingOnly(want, have) == {r \in Refs : want[r] # Absent /\ have[r] = Absent}
Drifted(want, have) == {r \in Refs : want[r] # Absent /\ have[r] # want[r]}

(* The first measure decides whether to sync.                              *)
ReadMirror(w) ==
    /\ job[w].pc = "haveTags" /\ ~job[w].synced
    /\ job' = [job EXCEPT ![w] =
         IF Drifted(@.want, Have(w)) = {}
         THEN [NoJob EXCEPT !.op = "reconcile", !.pc = "returned"]
         ELSE [@ EXCEPT !.pc = "clone", !.want = Empty, !.seen = Empty]]
    /\ Quiet /\ UNCHANGED mirror

(* The second is reported.  A head that differs is left out if it was kept *)
(* as ahead, on whichever destination that was (reconcile.py:479).         *)
KeptAsAhead(j) == {r \in Refs : \E d \in Destinations : <<d, r>> \in j.ahead}
Report_SilentlyKept(j, have) ==
    [NoJob EXCEPT !.op = "reconcile", !.pc = "returned", !.failed = j.failed,
                  !.behind = {r \in Drifted(j.want, have) :
                                 have[r] # Absent => r \notin KeptAsAhead(j)}]
Report(j, have) ==
    [NoJob EXCEPT !.op = "reconcile", !.pc = "returned", !.failed = j.failed,
                  !.ahead = j.ahead,
                  !.behind = {r \in Drifted(j.want, have) :
                                 have[r] # Absent => r \notin KeptAsAhead(j)}]
ReadMirrorAgain(w) ==
    /\ job[w].pc = "haveTags" /\ job[w].synced
    /\ job' = [job EXCEPT ![w] = Report(@, Have(w))]
    /\ Quiet /\ UNCHANGED mirror

(* sync_state(): a fresh bare clone, then one destination after the other. *)
Clone(w) ==
    /\ job[w].pc = "clone"
    /\ job' = [job EXCEPT ![w].tree = canonical, ![w].todo = Destinations,
                          ![w].pc = "probe"]
    /\ Quiet /\ UNCHANGED mirror

(* The refs to push are chosen from the clone and one look at the mirror.  *)
Probe(w, d) ==
    LET j == job[w]
        ahead == IF d \in OverwritesAhead THEN {}
                 ELSE AheadHeads(j.tree, mirror[d])
        chosen == Chosen(d, j.tree, ahead)
        noted == [j EXCEPT !.ahead = @ \cup {<<d, h>> : h \in ahead}]
    IN
    /\ j.pc = "probe" /\ At(w, d)
    /\ job' = [job EXCEPT ![w] =
         IF Admitted(d, j.tree) = {} THEN After(j, d, "probe")
         ELSE IF chosen = {} THEN After(noted, d, "probe")
         ELSE [noted EXCEPT !.pc = "push", !.refs = chosen, !.seen = mirror[d]]]
    /\ Quiet /\ UNCHANGED mirror

Pushed(w, d, done) ==
    [mirror EXCEPT ![d] = [r \in Refs |-> IF r \in done THEN job[w].tree[r] ELSE @[r]]]

Push(w, d) ==
    /\ job[w].pc = "push" /\ At(w, d)
    /\ mirror' = Pushed(w, d, job[w].refs)
    /\ job' = [job EXCEPT ![w] = After(@, d, "probe")]
    /\ Quiet

----------------------------------------------------------------------------
(* sweep_deleted_refs(): nothing is deleted if the clone holds no ref.     *)
Sweep(w) ==
    /\ w \in Sweepers
    /\ Starts(w, IF canonical = Empty THEN NoJob
                 ELSE [NoJob EXCEPT !.op = "sweep", !.pc = "list",
                                    !.todo = Destinations, !.tree = canonical])
    /\ Quiet /\ UNCHANGED mirror

Doomed_AnyName(d, tree) == {r \in Refs : mirror[d][r] # Absent /\ tree[r] = Absent}
Doomed(d, tree) ==
    {r \in Refs \ Kept : mirror[d][r] # Absent /\ tree[r] = Absent}

List(w, d) ==
    LET doomed == Doomed(d, job[w].tree)
    IN
    /\ job[w].pc = "list" /\ At(w, d)
    /\ job' = [job EXCEPT ![w] =
         IF d \in Unusable \/ doomed = {} THEN After(@, d, "list")
         ELSE [@ EXCEPT !.pc = "delete", !.refs = doomed]]
    /\ Quiet /\ UNCHANGED mirror

(* git push <remote> :<ref>, whatever the ref is by now.                   *)
Struck(j, d, r) == IF j.refs = {r} THEN After(j, d, "list")
                   ELSE [j EXCEPT !.refs = @ \ {r}]
Delete(w, d, r) ==
    /\ job[w].pc = "delete" /\ At(w, d) /\ r \in job[w].refs
    /\ mirror' = [mirror EXCEPT ![d][r] = Absent]
    /\ job' = [job EXCEPT ![w] = Struck(@, d, r)]
    /\ Quiet

----------------------------------------------------------------------------
Fault == /\ faults < MaxFaults
         /\ faults' = faults + 1
         /\ UNCHANGED <<canonical, edits, strangers>>

(* The forge will deliver the event once more.                             *)
ReceiveOneOfTwo(w, r, c) ==
    /\ Fault
    /\ TakesEvent(w, r, c)
    /\ UNCHANGED <<mirror, events>>

(* A clone or a probe fails: nothing is written on that account.           *)
CloneFails(w) ==
    /\ Fault
    /\ job[w].pc = "clone"
    /\ job' = [job EXCEPT ![w] = Over([@ EXCEPT !.failed = TRUE])]
    /\ UNCHANGED <<mirror, events>>
ProbeFails(w, d) ==
    /\ Fault
    /\ job[w].pc = "probe" /\ At(w, d)
    /\ d \notin OverwritesAhead /\ Admitted(d, job[w].tree) # {}
    /\ job' = [job EXCEPT ![w] = After([@ EXCEPT !.failed = TRUE], d, "probe")]
    /\ UNCHANGED <<mirror, events>>

(* A push fails after some of its refs were taken, or its answer is lost.  *)
PushFails(w, d, done) ==
    /\ Fault
    /\ job[w].pc = "push" /\ At(w, d)
    /\ done \subseteq job[w].refs
    /\ mirror' = Pushed(w, d, done)
    /\ job' = [job EXCEPT ![w] = After([@ EXCEPT !.failed = TRUE], d, "probe")]
    /\ UNCHANGED events

(* push_event() cannot judge or push, a mirror's refs cannot be listed, or *)
(* a deletion fails: audited only.                                         *)
EventFails(w, d) ==
    /\ Fault
    /\ job[w].pc = "event" /\ At(w, d)
    /\ job' = [job EXCEPT ![w] = After(@, d, "event")]
    /\ UNCHANGED <<mirror, events>>
ListFails(w, d) ==
    /\ Fault
    /\ job[w].pc = "list" /\ At(w, d) /\ d \notin Unusable
    /\ job' = [job EXCEPT ![w] = After(@, d, "list")]
    /\ UNCHANGED <<mirror, events>>
DeleteFails(w, d, r) ==
    /\ Fault
    /\ job[w].pc = "delete" /\ At(w, d) /\ r \in job[w].refs
    /\ job' = [job EXCEPT ![w] = Struck(@, d, r)]
    /\ UNCHANGED <<mirror, events>>

(* The process stops, or an adapter of measure_drift() raises.             *)
Die(w) ==
    /\ Fault
    /\ job[w].pc \notin Resting
    /\ job' = [job EXCEPT ![w] = NoJob]
    /\ UNCHANGED <<mirror, events>>

----------------------------------------------------------------------------
Work(w) ==
    \/ ReadCanonical(w) \/ ReadCanonicalTags(w) \/ ReadMirrorHeads(w)
    \/ ReadMirror(w) \/ ReadMirrorAgain(w) \/ Clone(w)
    \/ \E d \in Destinations :
          \/ PushEvent(w, d) \/ Probe(w, d) \/ Push(w, d) \/ List(w, d)
          \/ \E r \in Refs : Delete(w, d, r)
Trouble(w) ==
    \/ CloneFails(w) \/ Die(w)
    \/ \E d \in Destinations :
          \/ ProbeFails(w, d) \/ EventFails(w, d) \/ ListFails(w, d)
          \/ \E done \in SUBSET Refs : PushFails(w, d, done)
          \/ \E r \in Refs : DeleteFails(w, d, r)
Engine(w) == Work(w) \/ Trouble(w)

Next ==
    \/ \E r \in Refs, c \in Commits \cup {Absent} : Edit(r, c)
    \/ \E d \in Destinations, h \in Heads, c \in Commits : StrangerPushes(d, h, c)
    \/ \E w \in Workers :
          \/ \E r \in Refs, c \in Commits :
                Receive(w, r, c) \/ ReceiveOneOfTwo(w, r, c)
          \/ Reconcile(w) \/ Sync(w) \/ Sweep(w) \/ Engine(w)

Spec == Init /\ [][Next]_vars

(* A running call is driven on, and the reconcile is run again and again.  *)
(* No event need be delivered, and nobody need sweep.                      *)
FairSpec ==
    /\ Spec
    /\ \A w \in Workers : WF_vars(Work(w))
    /\ \A w \in Reconcilers : WF_vars(Reconcile(w))

----------------------------------------------------------------------------
Jobs == [op : {"none", "event", "sync", "reconcile", "sweep"},
         pc : {"idle", "event", "want", "wantTags", "have", "haveTags", "clone",
               "probe", "push", "list", "delete", "returned"},
         todo : SUBSET Destinations, tree : Trees, seen : Trees,
         refs : SUBSET Refs, want : Trees, synced : BOOLEAN,
         behind : SUBSET Refs, ahead : SUBSET (Destinations \X Refs),
         failed : BOOLEAN]

(* The values the variables take; a call that pushes or deletes has a ref  *)
(* to push or delete on a destination that is still ahead of it.           *)
TypeOK ==
    /\ canonical \in Trees
    /\ mirror \in [Destinations -> Trees]
    /\ events \subseteq Refs \X Commits
    /\ job \in [Workers -> Jobs]
    /\ \A w \in Workers : job[w].pc \in {"event", "probe", "push", "list", "delete"}
                            => job[w].todo # {}
    /\ \A w \in Workers : job[w].pc \in {"push", "delete"} => job[w].refs # {}
    /\ edits \in 0..MaxEdits
    /\ strangers \in 0..MaxStrangers
    /\ faults \in 0..MaxFaults

(* No ref of a public mirror reaches a commit that touches a candidate     *)
(* path, and a destination without a declared visibility or a host gets    *)
(* nothing, whichever call pushed and however stale its clone or payload   *)
(* was (the visibility gate, mirror.py:458-469 and 572-580).               *)
GateHolds ==
    \A d \in Destinations, r \in Refs : mirror[d][r] # Absent =>
        /\ d \notin Unusable
        /\ d \in Public => History[mirror[d][r]] \cap Candidates = {}

(* A ref disappears from a mirror only by a sweep whose clone, which held  *)
(* some ref, did not hold this one; and no ref that is kept ever does      *)
(* (sweep_deleted_refs(), mirror.py:746-761).                              *)
OnlySweepsDelete ==
    [][\A d \in Destinations, r \in Refs :
          mirror[d][r] # Absent /\ mirror'[d][r] = Absent =>
             /\ r \notin Kept
             /\ \E w \in Sweepers : /\ job[w].op = "sweep" /\ job[w].tree # Empty
                                     /\ job[w].tree[r] = Absent
                                     /\ job'[w] # job[w]]_vars

(* A sync overwrites a head that is ahead of its clone only if that head   *)
(* was moved after the probe or overwrite_ahead is set: what the probe     *)
(* found to be ahead is kept (sync_state(), mirror.py:582-587).            *)
ProbedAheadIsKept ==
    [][\A w \in Reconcilers, d \in Destinations \ OverwritesAhead, h \in Heads :
          /\ job[w].pc = "push" /\ At(w, d) /\ job'[w] # job[w]
          /\ mirror'[d][h] # mirror[d][h]
          /\ mirror[d][h] = job[w].seen[h] /\ mirror[d][h] # Absent
          => job[w].tree[h] \notin History[mirror[d][h]]]_vars

(* A reconcile whose report is green found every head and tag it had read  *)
(* on the canonical side at the same commit on the mirror it measures, the *)
(* tags in the step of the report and the heads when it listed them just   *)
(* before (DriftReport.green, reconcile.py:84-87).                         *)
Green(j) == j.behind = {} /\ j.ahead = {} /\ ~j.failed
GreenIsInSync ==
    [][\A w \in Reconcilers :
          job[w].pc = "haveTags" /\ job'[w].pc = "returned" /\ Green(job'[w])
          => /\ \A t \in Tags : job[w].want[t] # Absent =>
                    mirror[Measures[w]][t] = job[w].want[t]
             /\ \A h \in Heads : job[w].want[h] # Absent =>
                    job[w].seen[h] = job[w].want[h]]_vars

(* When the changes end, the repeated reconcile brings every canonical ref *)
(* to each mirror that is measured, unless the mirror may not have it or   *)
(* is ahead: whatever stale pushes, failures, deaths and sweeps came       *)
(* before (reconcile_mirror(), reconcile.py:430-433).                      *)
Settled(d, r) ==
    \/ canonical[r] = Absent
    \/ ~Admits(d, canonical[r])
    \/ mirror[d][r] = canonical[r]
    \/ r \in Heads /\ d \notin OverwritesAhead /\ mirror[d][r] # Absent
          /\ IsAhead(mirror[d][r], canonical[r])
MirrorCatchesUp ==
    \A w \in Reconcilers : <>[](\A r \in Refs : Settled(Measures[w], r))

(* config_loader.py:301, "a mirror head that is AHEAD of the canonical     *)
(* side keeps its commits unless the destination opts in to overwriting    *)
(* it".  push_event() pushes by force and does not look.                   *)
AheadKeepsItsCommits ==
    [][\A d \in Destinations \ OverwritesAhead, h \in Heads :
          /\ mirror[d][h] # Absent /\ canonical[h] # Absent
          /\ IsAhead(mirror[d][h], canonical[h])
          /\ \E w \in Workers : job'[w] # job[w]
          => mirror'[d][h] # Absent /\ mirror[d][h] \in History[mirror'[d][h]]]_vars

(* reconcile.py:478, "An ahead head differs by SHA but is not behind:      *)
(* report it as ahead only": a ref that the second measure finds to differ *)
(* is reported as behind unless it is ahead on that mirror.                *)
BehindIsReported ==
    [][\A w \in Reconcilers :
          job[w].pc = "haveTags" /\ job[w].synced /\ job'[w].pc = "returned"
          => \A r \in Drifted(job[w].want, Have(w)) :
                r \in job'[w].behind \/ <<Measures[w], r>> \in job[w].ahead]_vars
=============================================================================
