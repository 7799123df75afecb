------------------------ MODULE ReleasePublication ------------------------
(***************************************************************************)
(* ops_engine/modules/release.py and the release half of reconcile.py: the *)
(* publication of one tag to every release destination, by any number of  *)
(* publishers at once (webhook deliveries, the reconcile, the workflow).   *)
(* Publishers share nothing but the destinations; each works from what it  *)
(* last read there, and each HTTP exchange with a destination is a step.   *)
(*                                                                         *)
(* A release is only ever created and added to here: nobody deletes one or *)
(* edits its notes.  Drafts are left out: find_release() sees them too.    *)
(* All publishers render the same gated title.                             *)
(***************************************************************************)
EXTENDS Naturals

CONSTANTS
    Publishers,
    Webhooks,       \* the publishers that take tag pushes
    Reconcilers,    \* the publishers that run reconcile_release_tags()
    Destinations,   \* numbers: the order they are resolved in
    Assets,         \* names of artifacts, as numbers: their sorted order
    ArtifactDir,    \* what each publisher's artifact directory holds
    Notes,          \* the notes a CHANGELOG section can carry
    NoNotes,        \* no section for the tag; a release with empty notes
    RefusesCopies,  \* the destinations that refuse a second asset of a name
    MaxRetags,      \* bound: times the tag is moved
    MaxStrangers,   \* bound: releases created by anybody else
    MaxFaults       \* bound: failed or unanswered calls, and deaths

ASSUME ReleaseAssumption ==
    /\ Webhooks \subseteq Publishers /\ Reconcilers \subseteq Publishers
    /\ Destinations \subseteq Nat /\ Destinations # {}
    /\ Assets \subseteq Nat
    /\ ArtifactDir \in [Publishers -> SUBSET Assets]
    /\ NoNotes \notin Notes
    /\ RefusesCopies \subseteq Destinations
    /\ {MaxRetags, MaxStrangers, MaxFaults} \subseteq Nat

VARIABLES
    changelog,      \* the tag's CHANGELOG section: it moves with the tag
    tagOnMirror,    \* push_canonical_tag() has put the tag on the mirror
    release,        \* the tag's release object on each destination
    call,           \* each publisher's call
    retags, strangers, faults

bounds == <<retags, strangers, faults>>
vars == <<changelog, tagOnMirror, release, call, bounds>>

(* "similar": equal to the gated title but for case, spaces, hyphens and   *)
(* underscores (_same_title).                                              *)
Titles == {"gated", "similar", "other"}
NoRelease == [title |-> "none", notes |-> NoNotes, assets |-> {}, ours |-> FALSE]
Releases == [title : Titles, notes : Notes \cup {NoNotes},
             assets : SUBSET Assets, ours : BOOLEAN]
Exists(d) == release[d] # NoRelease

(* A call: where it is, the destinations still ahead, the notes it read at *)
(* the tag, the plan for the current destination and the report so far.    *)
NoCall == [pc |-> "idle", by |-> "webhook", todo |-> {}, notes |-> NoNotes,
           missing |-> {}, creating |-> FALSE,
           published |-> {}, supplemented |-> {}, skipped |-> {}, failed |-> {}]
Resting == {"idle", "returned", "raised", "up to date", "dead"}
Steps == {"checking", "gates", "identity", "lookup", "plan", "judge",
          "create", "retitle", "attach"}
Publishing == {"lookup", "plan", "judge", "create", "retitle", "attach"}
Reported(c) == c.published \cup c.supplemented \cup c.skipped \cup c.failed

(* The destination the loop is at, and the file the upload loop is at.     *)
At(p, d) == d \in call[p].todo /\ \A e \in call[p].todo : d <= e
FirstOf(names, a) == a \in names /\ \A b \in names : a <= b

(* _existing_release_problems(): a release that is as this call builds it. *)
AsBuilt(d, notes, files) ==
    /\ release[d].title = "gated"
    /\ release[d].notes = notes
    /\ files \subseteq release[d].assets

(* The operations named X_Y are faulty variants of X, each a bug this      *)
(* code could have had; no specification uses them.                        *)

(* _plan_supplement(): ours but for the title's spelling and for files.    *)
MaySupplement_AnyNotes(r, notes, files) ==
    /\ r.title \in {"gated", "similar"}
    /\ r.title = "similar" \/ ~(files \subseteq r.assets)
MaySupplement(r, notes, files) ==
    /\ r.notes = notes
    /\ r.title \in {"gated", "similar"}
    /\ r.title = "similar" \/ ~(files \subseteq r.assets)

Goto(p, pc) == call' = [call EXCEPT ![p].pc = pc]

(* The current destination is recorded in one list of the report and the   *)
(* loop goes on to the next, or publish_release() returns.                 *)
Record_OneTooMany(c, list, d) ==
    [c EXCEPT ![list] = @ \cup {d}, !.todo = @ \ {d}, !.missing = {},
              !.creating = FALSE, !.pc = "lookup"]
Record(c, list, d) ==
    [c EXCEPT ![list] = @ \cup {d}, !.todo = @ \ {d}, !.missing = {},
              !.creating = FALSE,
              !.pc = IF c.todo = {d} THEN "returned" ELSE "lookup"]

(* After a write: the upload loop goes on, or the destination is done.     *)
Continue_Forgetful(c, d, left) ==
    IF left # {} THEN [c EXCEPT !.pc = "attach", !.missing = left]
    ELSE [c EXCEPT !.todo = @ \ {d}, !.missing = {}, !.creating = FALSE,
                   !.pc = IF c.todo = {d} THEN "returned" ELSE "lookup"]
Continue(c, d, left) ==
    IF left # {} THEN [c EXCEPT !.pc = "attach", !.missing = left]
    ELSE Record(c, IF c.creating THEN "published" ELSE "supplemented", d)

----------------------------------------------------------------------------
Init ==
    /\ changelog \in Notes \cup {NoNotes}
    /\ tagOnMirror = FALSE
    /\ release = [d \in Destinations |-> NoRelease]
    /\ call = [p \in Publishers |-> NoCall]
    /\ retags = 0 /\ strangers = 0 /\ faults = 0

(* The tag is moved to a commit with another CHANGELOG section.            *)
Retag(section) ==
    /\ retags < MaxRetags
    /\ section # changelog
    /\ changelog' = section
    /\ retags' = retags + 1
    /\ UNCHANGED <<tagOnMirror, release, call, strangers, faults>>

(* Somebody else (the forge's release bot, a maintainer) creates a release *)
(* for the tag, with any title and notes and no files.                     *)
StrangerCreates(d, title, notes) ==
    /\ strangers < MaxStrangers
    /\ ~Exists(d)
    /\ release' = [release EXCEPT ![d] = [title |-> title, notes |-> notes,
                                          assets |-> {}, ours |-> FALSE]]
    /\ strangers' = strangers + 1
    /\ UNCHANGED <<changelog, tagOnMirror, call, retags, faults>>

----------------------------------------------------------------------------
(* process_event() for a pushed tag.                                       *)
Push(p) ==
    /\ p \in Webhooks /\ call[p].pc \in Resting
    /\ call' = [call EXCEPT ![p] = [NoCall EXCEPT !.pc = "gates",
                                                  !.by = "webhook",
                                                  !.todo = Destinations]]
    /\ UNCHANGED <<changelog, tagOnMirror, release, bounds>>

(* reconcile_release_tags() reaches the tag.                               *)
Reconcile(p) ==
    /\ p \in Reconcilers /\ call[p].pc \in Resting
    /\ call' = [call EXCEPT ![p] = [NoCall EXCEPT !.pc = "checking",
                                                  !.by = "reconcile",
                                                  !.todo = Destinations]]
    /\ UNCHANGED <<changelog, tagOnMirror, release, bounds>>

(* _missing_on_a_destination(): up to the first destination without one.   *)
Check_FirstOnly(p, d) ==
    /\ call[p].pc = "checking" /\ At(p, d)
    /\ IF ~Exists(d)
       THEN call' = [call EXCEPT ![p].pc = "gates", ![p].todo = Destinations]
       ELSE call' = [call EXCEPT ![p].todo = {}, ![p].pc = "up to date"]
    /\ UNCHANGED <<changelog, tagOnMirror, release, bounds>>
Check(p, d) ==
    /\ call[p].pc = "checking" /\ At(p, d)
    /\ IF ~Exists(d)
       THEN call' = [call EXCEPT ![p].pc = "gates", ![p].todo = Destinations]
       ELSE call' = [call EXCEPT ![p].todo = @ \ {d},
                                 ![p].pc = IF call[p].todo = {d}
                                           THEN "up to date" ELSE @]
    /\ UNCHANGED <<changelog, tagOnMirror, release, bounds>>

(* _release_tag() up to its last read: the notes are read at the tag, and  *)
(* a tag without a section is refused.                                     *)
PassGates_Straight(p) ==
    /\ call[p].pc = "gates"
    /\ IF changelog = NoNotes
       THEN Goto(p, "raised")
       ELSE call' = [call EXCEPT ![p].pc = "lookup", ![p].notes = changelog]
    /\ UNCHANGED <<changelog, tagOnMirror, release, bounds>>
PassGates(p) ==
    /\ call[p].pc = "gates"
    /\ IF changelog = NoNotes
       THEN Goto(p, "raised")
       ELSE call' = [call EXCEPT ![p].pc = "identity", ![p].notes = changelog]
    /\ UNCHANGED <<changelog, tagOnMirror, release, bounds>>

(* push_canonical_tag(): the tag is on the mirror and has been read back.  *)
Identify(p) ==
    /\ call[p].pc = "identity"
    /\ tagOnMirror' = TRUE
    /\ Goto(p, "lookup")
    /\ UNCHANGED <<changelog, release, bounds>>

(* release_exists() for the next destination of publish_release().         *)
Lookup(p, d) ==
    /\ call[p].pc = "lookup" /\ At(p, d)
    /\ Goto(p, IF Exists(d) THEN "plan" ELSE "create")
    /\ UNCHANGED <<changelog, tagOnMirror, release, bounds>>

(* _plan_supplement(): what it decides is carried out later.               *)
Plan(p, d) ==
    /\ call[p].pc = "plan" /\ At(p, d)
    /\ LET r == release[d]
       IN IF MaySupplement(r, call[p].notes, ArtifactDir[p])
          THEN call' = [call EXCEPT ![p].missing = ArtifactDir[p] \ r.assets,
                                    ![p].pc = IF r.title = "gated"
                                              THEN "attach" ELSE "retitle"]
          ELSE Goto(p, "judge")
    /\ UNCHANGED <<changelog, tagOnMirror, release, bounds>>

(* _existing_release_problems(): a second look, with its own request.      *)
Judge_TitleOnly(p, d) ==
    /\ call[p].pc = "judge" /\ At(p, d)
    /\ call' = [call EXCEPT ![p] =
         Record(@, IF release[d].title = "gated" THEN "skipped" ELSE "failed", d)]
    /\ UNCHANGED <<changelog, tagOnMirror, release, bounds>>
Judge(p, d) ==
    /\ call[p].pc = "judge" /\ At(p, d)
    /\ call' = [call EXCEPT ![p] =
         Record(@, IF AsBuilt(d, @.notes, ArtifactDir[p])
                   THEN "skipped" ELSE "failed", d)]
    /\ UNCHANGED <<changelog, tagOnMirror, release, bounds>>

(* create_release(): one that exists is answered as a duplicate, which     *)
(* release_conflict() turns into the path of an existing release.          *)
Create(p, d) ==
    /\ call[p].pc = "create" /\ At(p, d)
    /\ IF Exists(d)
       THEN /\ Goto(p, "plan")
            /\ UNCHANGED release
       ELSE /\ release' = [release EXCEPT ![d] =
                 [title |-> "gated", notes |-> call[p].notes,
                  assets |-> {}, ours |-> TRUE]]
            /\ call' = [call EXCEPT ![p] =
                 Continue([@ EXCEPT !.creating = TRUE], d, ArtifactDir[p])]
    /\ UNCHANGED <<changelog, tagOnMirror, bounds>>

(* update_release_title(), the first write of _apply_supplement().         *)
Retitle(p, d) ==
    /\ call[p].pc = "retitle" /\ At(p, d)
    /\ release' = [release EXCEPT ![d].title = "gated"]
    /\ call' = [call EXCEPT ![p] = Continue(@, d, @.missing)]
    /\ UNCHANGED <<changelog, tagOnMirror, bounds>>

(* upload_release_asset() for the next file.  A destination may refuse a   *)
(* file somebody attached since the plan, which fails the destination.     *)
Attach(p, d, a) ==
    /\ call[p].pc = "attach" /\ At(p, d) /\ FirstOf(call[p].missing, a)
    /\ IF a \in release[d].assets /\ d \in RefusesCopies
       THEN /\ call' = [call EXCEPT ![p] = Record(@, "failed", d)]
            /\ UNCHANGED release
       ELSE /\ release' = [release EXCEPT ![d].assets = @ \cup {a}]
            /\ call' = [call EXCEPT ![p] = Continue(@, d, @.missing \ {a})]
    /\ UNCHANGED <<changelog, tagOnMirror, bounds>>

----------------------------------------------------------------------------
Fault == /\ faults < MaxFaults
         /\ faults' = faults + 1
         /\ UNCHANGED <<changelog, retags, strangers>>

(* A call that raises before anything was written: an unreadable .ops.yaml *)
(* or CHANGELOG, a refused identity (possibly after its push).             *)
Raise(p) ==
    /\ Fault
    /\ call[p].pc \in {"checking", "gates", "identity"}
    /\ Goto(p, "raised")
    /\ tagOnMirror' \in {tagOnMirror, call[p].pc = "identity" \/ tagOnMirror}
    /\ UNCHANGED release

(* An exchange with the destination fails for good, after the retries of   *)
(* _request(), and has changed nothing there.                              *)
Fail(p, d) ==
    /\ Fault
    /\ call[p].pc \in Publishing /\ At(p, d)
    /\ call' = [call EXCEPT ![p] = Record(@, "failed", d)]
    /\ UNCHANGED <<tagOnMirror, release>>

(* create_release() takes effect but its answer is lost: _request() sends  *)
(* it again and gets the duplicate answer, or no answer to the last try.   *)
CreateUnanswered(p, d) ==
    /\ Fault
    /\ call[p].pc = "create" /\ At(p, d) /\ ~Exists(d)
    /\ release' = [release EXCEPT ![d] = [title |-> "gated", notes |-> call[p].notes,
                                          assets |-> {}, ours |-> TRUE]]
    /\ \/ Goto(p, "plan")
       \/ call' = [call EXCEPT ![p] = Record(@, "failed", d)]
    /\ UNCHANGED tagOnMirror

(* The same for an upload and for the title: failed, but done.  (A second  *)
(* try that is answered is Retitle, or Attach on a tolerant destination.)  *)
WriteUnanswered(p, d) ==
    /\ Fault
    /\ At(p, d)
    /\ \/ /\ call[p].pc = "retitle"
          /\ release' = [release EXCEPT ![d].title = "gated"]
       \/ /\ call[p].pc = "attach"
          /\ \E a \in call[p].missing :
                /\ FirstOf(call[p].missing, a)
                /\ release' = [release EXCEPT ![d].assets = @ \cup {a}]
    /\ call' = [call EXCEPT ![p] = Record(@, "failed", d)]
    /\ UNCHANGED tagOnMirror

(* The process stops, or QueueManager.stop() cancels the handler.          *)
Die(p) ==
    /\ Fault
    /\ call[p].pc \in Steps
    /\ Goto(p, "dead")
    /\ UNCHANGED <<tagOnMirror, release>>

----------------------------------------------------------------------------
Work(p) ==
    \/ PassGates(p) \/ Identify(p)
    \/ \E d \in Destinations :
          \/ Check(p, d) \/ Lookup(p, d) \/ Plan(p, d) \/ Judge(p, d)
          \/ Create(p, d) \/ Retitle(p, d)
          \/ \E a \in Assets : Attach(p, d, a)
Trouble(p) ==
    \/ Raise(p) \/ Die(p)
    \/ \E d \in Destinations :
          Fail(p, d) \/ CreateUnanswered(p, d) \/ WriteUnanswered(p, d)

Next ==
    \/ \E section \in Notes \cup {NoNotes} : Retag(section)
    \/ \E d \in Destinations, title \in Titles, notes \in Notes \cup {NoNotes} :
          StrangerCreates(d, title, notes)
    \/ \E p \in Publishers : Push(p) \/ Reconcile(p) \/ Work(p) \/ Trouble(p)

Spec == Init /\ [][Next]_vars

(* A running call is driven on; the reconcile is run again and again, as a *)
(* layover schedules it.  Nobody has to push a tag twice.                  *)
FairSpec ==
    /\ Spec
    /\ \A p \in Publishers : WF_vars(Work(p))
    /\ \A p \in Reconcilers : WF_vars(Reconcile(p))

----------------------------------------------------------------------------
Calls == [pc : Resting \cup Steps, by : {"webhook", "reconcile"},
          todo : SUBSET Destinations, notes : Notes \cup {NoNotes},
          missing : SUBSET Assets, creating : BOOLEAN,
          published : SUBSET Destinations, supplemented : SUBSET Destinations,
          skipped : SUBSET Destinations, failed : SUBSET Destinations]

(* The values the variables take; a call has a destination ahead of it for *)
(* as long as it runs (publish_release(), release.py:376).                 *)
TypeOK ==
    /\ changelog \in Notes \cup {NoNotes}
    /\ tagOnMirror \in BOOLEAN
    /\ release \in [Destinations -> Releases \cup {NoRelease}]
    /\ call \in [Publishers -> Calls]
    /\ \A p \in Publishers : call[p].pc \in Steps => call[p].todo # {}
    /\ retags \in 0..MaxRetags
    /\ strangers \in 0..MaxStrangers
    /\ faults \in 0..MaxFaults

(* A destination reported as published, supplemented or skipped holds the  *)
(* release of that call's build, whatever other publishers did meanwhile:  *)
(* the gated title, the notes of the tag as the call read them and every   *)
(* file of its artifact directory (publish_release(), release.py:282-454). *)
ReportedIsAsBuilt ==
    \A p \in Publishers :
        \A d \in call[p].published \cup call[p].supplemented \cup call[p].skipped :
            AsBuilt(d, call[p].notes, ArtifactDir[p])

(* Every destination is answered exactly once: those the loop has passed   *)
(* are in one list of the report, those ahead in none, so a report that is *)
(* returned accounts for all (release.py:376-444, CONTRACT.md "a partial   *)
(* publication is a reported state").                                      *)
EachAnsweredOnce ==
    \A p \in Publishers : LET c == call[p] IN
        /\ c.pc \in Publishing \cup {"returned"} =>
               c.todo = Destinations \ Reported(c)
        /\ c.pc = "returned" => c.todo = {}
        /\ \A d \in Destinations : \A l, m \in
               {"published", "supplemented", "skipped", "failed"} :
                  d \in c[l] /\ d \in c[m] => l = m

(* The engine creates no release object before the tag's identity is       *)
(* established on the mirror (_release_tag(), release.py:806-809).         *)
NoReleaseBeforeTag ==
    (\E d \in Destinations : release[d].ours) => tagOnMirror

(* A write to a release that exists is made for a build with the notes     *)
(* that release carries, and never to a foreign title; it leaves notes and *)
(* attached files alone.  The decision was taken on an earlier read        *)
(* (_plan_supplement() and _apply_supplement(), release.py:599-665).       *)
TouchesOnlyItsOwn ==
    [][\A d \in Destinations : Exists(d) /\ release'[d] # release[d] =>
          /\ release[d].title # "other"
          /\ release'[d].notes = release[d].notes
          /\ release[d].assets \subseteq release'[d].assets
          /\ \E p \in Publishers : /\ call'[p] # call[p]
                                   /\ At(p, d)
                                   /\ call[p].notes = release[d].notes]_vars

(* While the tag has a CHANGELOG section, the repeated reconcile gets a    *)
(* release onto every destination, through failed calls, lost answers and  *)
(* deaths of the publishers (reconcile_release_tags(), reconcile.py:221).  *)
ReleasedEverywhere ==
    <>[](changelog # NoNotes) => <>(\A d \in Destinations : Exists(d))

(* A tag is listed as published by the reconcile only if some destination  *)
(* did not fail: "`published` are the tags a release was published for"    *)
(* (ReleaseReconcileReport, reconcile.py:172).  _release_tag() returns     *)
(* after a publication that failed everywhere, so the code does not.       *)
PublishedSomewhere ==
    \A p \in Publishers : call[p].by = "reconcile" /\ call[p].pc = "returned" =>
        call[p].failed # Destinations
=============================================================================
