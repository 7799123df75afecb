---------------------------- MODULE MergeHandler ----------------------------
(***************************************************************************)
(* ops_engine/modules/merge.py and the forge calls it makes: a pull        *)
(* request is merged when it carries the trigger label and its checks are  *)
(* green.  The handler hears of it by webhooks and reads the pull request, *)
(* then the checks, then asks for the merge; meanwhile people push, label  *)
(* and close, and the checks of every head come and go.                    *)
(*                                                                         *)
(* A step is one request to the forge, with its repetitions by _request(). *)
(* One pull request from a branch of its own repository; one handler call  *)
(* at a time, as the queue has one worker.                                 *)
(***************************************************************************)
EXTENDS Naturals

CONSTANTS
    Heads,          \* the commits the branch may point at
    Checks,         \* contexts of commit statuses
    NoHead,
    Settings,       \* the forge, required_checks and delete_branch
    MaxChanges,     \* bound: pushes, labellings, closings and check results
    MaxFaults       \* bound: requests that fail or stay unanswered

ASSUME MergeAssumption ==
    /\ NoHead \notin Heads /\ Heads # {}
    /\ Settings \subseteq [forge : {"github", "forgejo"}, required : SUBSET Checks,
                            delete : BOOLEAN]
    /\ MaxChanges \in Nat /\ MaxFaults \in Nat

VARIABLES
    settings,
    pr,             \* the pull request and its branch, at the forge
    checks,         \* the state of each check of each head
    news,           \* what the forge has to tell: webhooks not yet sent
    job,            \* where the handler call is, and the head it read
    changes, faults,
    \* history: read by no action
    offered,        \* heads that were at some time open and labelled
    passed,         \* heads that were at some time green
    merge           \* the merge the engine brought about, and what it rested on

mergeVars == <<settings, pr, checks, news, job, changes, faults, offered, passed, merge>>

(* head: what the call has read; pushed: the branch has moved since.       *)
NoJob == [at |-> "idle", head |-> NoHead, pushed |-> FALSE]
NoMerge == [head |-> NoHead, basis |-> NoHead, pushed |-> FALSE]
States == {"none", "pending", "success", "failure"}
News == {"label", "suite", "status"}

(* The operations named X_Y are faulty variants of X, each a bug this      *)
(* code could have had; no specification uses them.                        *)

Open(p) == p.open /\ ~p.merged
(* Without required checks only a failed combined status is in the way.    *)
Green(h) ==
    IF settings.required # {} THEN \A k \in settings.required : checks[h][k] = "success"
    ELSE \A k \in Checks : checks[h][k] # "failure"
Ready == Open(pr) /\ pr.label /\ Green(pr.head)

Noted == /\ offered' = IF Open(pr') /\ pr'.label THEN offered \cup {pr'.head} ELSE offered
         /\ passed' = passed \cup {h \in Heads : Green(h)'}

----------------------------------------------------------------------------
MergeInit ==
    /\ settings \in Settings
    /\ pr = [open |-> TRUE, merged |-> FALSE, label |-> FALSE,
             head |-> CHOOSE h \in Heads : TRUE, branch |-> TRUE]
    /\ checks = [h \in Heads |-> [k \in Checks |-> "none"]]
    /\ news = {} /\ job = NoJob
    /\ changes = 0 /\ faults = 0
    /\ offered = {}
    /\ passed = {h \in Heads : Green(h)}
    /\ merge = NoMerge

(* What happens at the forge, and the webhooks it causes.                  *)
Change ==
    /\ changes < MaxChanges
    /\ changes' = changes + 1
    /\ UNCHANGED <<settings, faults, merge>>
    /\ Noted
Push(h) ==
    /\ Open(pr) /\ h # pr.head
    /\ pr' = [pr EXCEPT !.head = h]
    /\ job' = [job EXCEPT !.pushed = job.head # NoHead]
    /\ UNCHANGED <<checks, news>> /\ Change
SetLabel(on) ==
    /\ pr.label # on
    /\ pr' = [pr EXCEPT !.label = on]
    /\ news' = IF on THEN news \cup {"label"} ELSE news
    /\ UNCHANGED <<checks, job>> /\ Change
Close ==
    /\ Open(pr)
    /\ pr' = [pr EXCEPT !.open = FALSE]
    /\ UNCHANGED <<checks, news, job>> /\ Change
(* The webhook of a commit status lists no pull requests; that of a check  *)
(* suite that succeeds lists those with its head, and is no commit status. *)
StatusReports(h, k, state) ==
    /\ checks[h][k] # state
    /\ checks' = [checks EXCEPT ![h][k] = state]
    /\ news' = IF state = "success" THEN news \cup {"status"} ELSE news
    /\ UNCHANGED <<pr, job>> /\ Change
SuiteSucceeds ==
    /\ Open(pr) /\ "suite" \notin news
    /\ news' = news \cup {"suite"}
    /\ UNCHANGED <<pr, checks, job>> /\ Change

----------------------------------------------------------------------------
Steps(place) == job' = [job EXCEPT !.at = place]
Returns == job' = NoJob
Asks == UNCHANGED <<settings, pr, checks, news, changes, offered, passed>>
Answered == Asks /\ UNCHANGED <<faults, merge>>

(* process_event(), _handle_ci_event(), _handle_label_event().             *)
BeginMerge(what) ==
    /\ job = NoJob
    /\ job' = IF what \in {"label", "suite"} THEN [NoJob EXCEPT !.at = "pr"] ELSE NoJob
    /\ UNCHANGED <<settings, pr, checks, changes, faults, offered, passed, merge>>

Read(h) == [at |-> "checks", head |-> h, pushed |-> FALSE]
GetPullRequest_AnyLabel ==
    /\ job.at = "pr"
    /\ job' = IF Open(pr) THEN Read(pr.head) ELSE NoJob
    /\ Answered
GetPullRequest ==
    /\ job.at = "pr"
    /\ job' = IF Open(pr) /\ pr.label THEN Read(pr.head) ELSE NoJob
    /\ Answered

GetCiStatus ==
    /\ job.at = "checks"
    /\ IF Green(job.head) THEN Steps("merge") ELSE Returns
    /\ Answered
(* Unreadable checks are in the way only if some are required.             *)
StatusUnreadable ==
    /\ job.at = "checks" /\ faults < MaxFaults
    /\ IF settings.required # {} THEN Returns ELSE Steps("merge")
    /\ faults' = faults + 1
    /\ Asks /\ UNCHANGED merge

(* The forge merges the head of the moment.  Forgejo deletes the branch    *)
(* with it.                                                                *)
Takes(p) == [p EXCEPT !.merged = TRUE,
                      !.branch = ~(settings.forge = "forgejo" /\ settings.delete)]
Merged ==
    /\ Open(pr)
    /\ pr' = Takes(pr)
    /\ merge' = [head |-> pr.head, basis |-> job.head, pushed |-> job.pushed]
    /\ UNCHANGED <<settings, checks, news, changes, offered, passed>>
MergePullRequest ==
    /\ job.at = "merge"
    /\ Merged
    /\ IF settings.forge = "github" /\ settings.delete THEN Steps("reread") ELSE Returns
    /\ UNCHANGED faults
(* merged, but the answer is lost: the repetition is refused, and the      *)
(* handler logs an error.                                                  *)
MergeUnanswered ==
    /\ job.at = "merge" /\ faults < MaxFaults
    /\ Merged
    /\ Returns
    /\ faults' = faults + 1
(* Closed, merged or protected: the forge refuses.                         *)
MergeRefused_GoesOn ==
    /\ job.at = "merge" /\ ~Open(pr)
    /\ Steps("reread")
    /\ Answered
MergeRefused ==
    /\ job.at = "merge" /\ ~Open(pr)
    /\ Returns
    /\ Answered

(* The GitHub adapter reads the pull request again and deletes its branch. *)
ReadAgain ==
    /\ job.at = "reread"
    /\ Steps("delete")
    /\ Answered
DeleteTheBranch ==
    /\ job.at = "delete"
    /\ pr' = [pr EXCEPT !.branch = FALSE]
    /\ Returns
    /\ UNCHANGED <<settings, checks, news, changes, faults, offered, passed, merge>>

(* A request fails without effect; every caller gives up, and logs.        *)
RequestFails ==
    /\ job.at \in {"pr", "merge", "reread", "delete"} /\ faults < MaxFaults
    /\ Returns
    /\ faults' = faults + 1
    /\ Asks /\ UNCHANGED merge

(* The worker is cancelled while the handler waits.                        *)
CutShort ==
    /\ Returns
    /\ Answered

ForgeChanges ==
    \/ \E h \in Heads : Push(h)
    \/ \E on \in BOOLEAN : SetLabel(on)
    \/ Close
    \/ \E h \in Heads, k \in Checks, state \in States \ {"none"} : StatusReports(h, k, state)
    \/ SuiteSucceeds
HandlerSteps ==
    \/ GetPullRequest \/ GetCiStatus \/ MergePullRequest \/ MergeRefused
    \/ ReadAgain \/ DeleteTheBranch
HandlerFaults == StatusUnreadable \/ MergeUnanswered \/ RequestFails

(* The webhook leaves the forge, and some webhook starts a call.           *)
SendNews(what) ==
    /\ what \in news /\ news' = news \ {what}
    /\ UNCHANGED <<settings, pr, checks, job, changes, faults, offered, passed, merge>>
Hear(what) == BeginMerge(what) /\ UNCHANGED news

MergeNext ==
    \/ ForgeChanges \/ HandlerSteps \/ HandlerFaults \/ CutShort
    \/ \E what \in News \cup {"other"} : SendNews(what) \/ Hear(what)

MergeSpec == MergeInit /\ [][MergeNext]_mergeVars

----------------------------------------------------------------------------
PullRequests == [open : BOOLEAN, merged : BOOLEAN, label : BOOLEAN, head : Heads,
                 branch : BOOLEAN]

(* The values the variables take; a call past its first request has read a *)
(* head.                                                                   *)
MergeTypeOK ==
    /\ settings \in Settings
    /\ pr \in PullRequests
    /\ checks \in [Heads -> [Checks -> States]]
    /\ news \subseteq News
    /\ job \in [at : {"idle", "pr", "checks", "merge", "reread", "delete"},
                head : Heads \cup {NoHead}, pushed : BOOLEAN]
    /\ job.at \in {"checks", "merge", "reread", "delete"} <=> job.head # NoHead
    /\ changes \in 0..MaxChanges /\ faults \in 0..MaxFaults
    /\ offered \subseteq Heads /\ passed \subseteq Heads
    /\ merge \in [head : Heads \cup {NoHead}, basis : Heads \cup {NoHead},
                  pushed : BOOLEAN]

(* Every merge rests on a head that had been the head of the open,         *)
(* labelled pull request and had passed its checks, the two read one after *)
(* the other.  What is merged is another head only if it was pushed while  *)
(* the call was under way, for the request does not name the head; and     *)
(* checks that could not be read stop nothing when none is required        *)
(* (merge.py:85-146).                                                      *)
MergesRestOnAGreenHead ==
    merge # NoMerge =>
        /\ merge.basis \in offered
        /\ settings.required # {} \/ faults = 0 => merge.basis \in passed
        /\ merge.head # merge.basis => merge.pushed

(* The engine deletes no branch whose pull request has not been merged,    *)
(* whichever request failed, was refused, was repeated or was cut short    *)
(* (github_adapter.py:217-237, forgejo_adapter.py:214-228).                *)
OnlyMergedBranchesGo == ~pr.branch => pr.merged
=============================================================================
