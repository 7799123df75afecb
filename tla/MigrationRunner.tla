-------------------------- MODULE MigrationRunner --------------------------
(***************************************************************************)
(* ops_engine/modules/migration_runner.py: apply_pending() and            *)
(* check_pending() calls, made by any number of processes at once,        *)
(* against one Postgres database.  Each call works from its own checkout  *)
(* of the source and from one later reading of the tracking table, both   *)
(* of which may be stale by the time it applies or reports a file; what   *)
(* holds the calls together is the tracking table's primary key, inserted *)
(* in the transaction that runs the file's body.                          *)
(*                                                                        *)
(* A step is one transaction, one autocommit statement, one SELECT or one *)
(* materialization of the source.  A content of a file is a number that   *)
(* stands for its bytes and for their checksum.                           *)
(***************************************************************************)
EXTENDS Naturals, Sequences

CONSTANTS
    Runners,        \* the processes that call apply_pending(), check_pending()
    MayCrash,       \* those of them that may die at any point
    Files,          \* version numbers, in the order of the file names
    Contents,       \* the contents a file can have
    Statements,     \* CREATE INDEX CONCURRENTLY statements of each file
    MaxRetries,     \* max_retries
    MaxEdits        \* bound: edits of the source

Absent == 0         \* no such file, or no such row

ASSUME MigrationAssumption ==
    /\ MayCrash \subseteq Runners
    /\ Files \subseteq Nat
    /\ Contents \subseteq Nat \ {Absent}
    /\ Statements \in [Files -> Nat]
    /\ MaxRetries \in Nat
    /\ MaxEdits \in Nat

VARIABLES
    source,         \* the content of each file in the source repository
    tableExists,    \* ensure_tracking_table() has run
    rows,           \* the tracking table: each version's checksum
    built,          \* the <<file, statement>> pairs whose index exists
    call,           \* each runner's call of apply_pending() or check_pending()
    \* history: read by no action of the runner
    published,      \* every set of files the source has held
    log,            \* the committed bodies, in order
    edits           \* edits of the source

database == <<tableExists, rows, built, log>>
repository == <<source, published, edits>>
vars == <<database, repository, call>>

Present(tree) == {f \in Files : tree[f] # Absent}
Recorded == {f \in Files : rows[f] # Absent}

(* A call: where it is, its arguments and locals, its ApplyResult, and of *)
(* a CheckResult the mismatches (the pending files are the local).  since *)
(* is history: how many bodies had run when a check listed the source.    *)
NoCall == [pc |-> "idle", dry |-> FALSE, checkout |-> [f \in Files |-> Absent],
           pending |-> {}, attempt |-> 0, statement |-> 0,
           applied |-> {}, skipped |-> {}, errors |-> {}, drifted |-> {}, since |-> 0]
Active(r) == call[r].pc \in {"listed", "applying", "indexing", "comparing"}

(* The file the loop over the sorted pending files is at.                 *)
IsNext(r, f) == f \in call[r].pending /\ \A g \in call[r].pending : f <= g

(* The versions that check_pending() reports when it lists a tree, edited *)
(* files and rows without a file alike.                                   *)
Mismatches(tree) == {f \in Recorded : tree[f] # rows[f]}

(* The operations named X_Y are faulty variants of X, each a bug this     *)
(* code could have had; no specification uses them.                       *)

(* The transaction of _apply_one(): the body and the row together, unless *)
(* the row's primary key is taken.                                        *)
Commit_NoPrimaryKey(f, content) ==
    /\ tableExists
    /\ rows' = [rows EXCEPT ![f] = content]
    /\ log' = Append(log, [file |-> f, content |-> content])
    /\ UNCHANGED <<tableExists, built>>
Commit_ChecksumReadAgain(f, content) ==
    /\ tableExists
    /\ rows[f] = Absent
    /\ rows' = [rows EXCEPT ![f] = IF source[f] # Absent THEN source[f] ELSE content]
    /\ log' = Append(log, [file |-> f, content |-> content])
    /\ UNCHANGED <<tableExists, built>>
Commit(f, content) ==
    /\ tableExists
    /\ rows[f] = Absent
    /\ rows' = [rows EXCEPT ![f] = content]
    /\ log' = Append(log, [file |-> f, content |-> content])
    /\ UNCHANGED <<tableExists, built>>

----------------------------------------------------------------------------
Init ==
    /\ source \in [Files -> Contents \cup {Absent}]
    /\ tableExists = FALSE
    /\ rows = [f \in Files |-> Absent]
    /\ built = {}
    /\ call = [r \in Runners |-> NoCall]
    /\ published = {Present(source)}
    /\ log = <<>>
    /\ edits = 0

(* Somebody adds, changes or deletes a file: in any order of versions.    *)
Edit(f, content) ==
    /\ edits < MaxEdits
    /\ content # source[f]
    /\ source' = [source EXCEPT ![f] = content]
    /\ published' = published \cup {Present(source')}
    /\ edits' = edits + 1
    /\ UNCHANGED <<database, call>>

(* ensure_tracking_table(): CREATE TABLE IF NOT EXISTS.                   *)
EnsureTrackingTable ==
    /\ tableExists' = TRUE
    /\ UNCHANGED <<rows, built, log, repository, call>>

----------------------------------------------------------------------------
(* apply_pending(): the checkout first, the tracking table after it.      *)
Materialize(r, dry) ==
    /\ ~Active(r)
    /\ call' = [call EXCEPT ![r] = [NoCall EXCEPT !.pc = "listed", !.dry = dry,
                                                  !.checkout = source]]
    /\ UNCHANGED <<database, repository>>

FetchApplied(r) ==
    LET new == Present(call[r].checkout) \ Recorded
        working == new # {} /\ ~call[r].dry
    IN
    /\ call[r].pc = "listed"
    /\ tableExists
    /\ call' = [call EXCEPT
            ![r].pc = IF working THEN "applying" ELSE "returned",
            ![r].pending = IF working THEN new ELSE {},
            ![r].applied = IF working THEN {} ELSE new,
            ![r].skipped = Present(call[r].checkout) \cap Recorded]
    /\ UNCHANGED <<database, repository>>

(* The SELECT fails: no table yet, no connection.  Nothing catches that.  *)
FetchRaises(r) ==
    /\ call[r].pc \in {"listed", "comparing"}
    /\ call' = [call EXCEPT ![r].pc = "raised"]
    /\ UNCHANGED <<database, repository>>

----------------------------------------------------------------------------
(* check_pending() and verify_checksums(): list_files() materializes the  *)
(* source and gives the checkout up; the SELECT comes after it, and other *)
(* calls and people act in between.                                       *)
ListFiles(r) ==
    /\ ~Active(r)
    /\ call' = [call EXCEPT ![r] = [NoCall EXCEPT !.pc = "comparing", !.checkout = source,
                                                  !.since = Len(log)]]
    /\ UNCHANGED <<database, repository>>

CompareApplied(r) ==
    /\ call[r].pc = "comparing"
    /\ tableExists
    /\ call' = [call EXCEPT
            ![r].pc = "checked",
            ![r].pending = Present(call[r].checkout) \ Recorded,
            ![r].drifted = Mismatches(call[r].checkout)]
    /\ UNCHANGED <<database, repository>>

----------------------------------------------------------------------------
(* The except clause of the loop: the file is reported, the notifier is   *)
(* called and may raise, and the loop ends, its locals with it.           *)
EndInError(r, f, applied) ==
    \E end \in {"returned", "raised"} :
        call' = [call EXCEPT ![r].pc = end,
                             ![r].applied = applied,
                             ![r].errors = @ \cup {f},
                             ![r].pending = {}, ![r].attempt = 0, ![r].statement = 0]

(* _apply_one(): the transaction commits.                                 *)
ApplyBody(r, f) ==
    /\ call[r].pc = "applying" /\ IsNext(r, f)
    /\ Commit(f, call[r].checkout[f])
    /\ call' = [call EXCEPT ![r].pc = "indexing", ![r].statement = 0]
    /\ UNCHANGED repository

(* The COMMIT is carried out but its answer is lost.                      *)
ApplyBodyUnanswered(r, f) ==
    /\ call[r].pc = "applying" /\ IsNext(r, f)
    /\ Commit(f, call[r].checkout[f])
    /\ EndInError(r, f, call[r].applied)
    /\ UNCHANGED repository

MayRetry_OnceMore(r) == call[r].attempt <= MaxRetries
MayRetry(r) == call[r].attempt < MaxRetries

(* lock_timeout: rolled back, then retried after a pause.                 *)
LockTimesOut_StartsOver(r, f) ==
    /\ call[r].pc = "applying" /\ IsNext(r, f)
    /\ MayRetry(r)
    /\ call' = [call EXCEPT ![r].pc = "listed", ![r].pending = {}]
    /\ UNCHANGED <<database, repository>>
LockTimesOut(r, f) ==
    /\ call[r].pc = "applying" /\ IsNext(r, f)
    /\ MayRetry(r)
    /\ call' = [call EXCEPT ![r].attempt = @ + 1]
    /\ UNCHANGED <<database, repository>>

(* Rolled back for good: the body or the row is refused, the connection   *)
(* breaks, or the lock was not had in the last attempt either.            *)
BodyFails(r, f) ==
    /\ call[r].pc = "applying" /\ IsNext(r, f)
    /\ EndInError(r, f, call[r].applied)
    /\ UNCHANGED <<database, repository>>

(* CREATE INDEX CONCURRENTLY, one statement after the other.              *)
BuildIndex(r, f) ==
    /\ call[r].pc = "indexing" /\ IsNext(r, f)
    /\ call[r].statement < Statements[f]
    /\ built' = built \cup {<<f, call[r].statement + 1>>}
    /\ call' = [call EXCEPT ![r].statement = @ + 1]
    /\ UNCHANGED <<tableExists, rows, log, repository>>

IndexFails(r, f) ==
    /\ call[r].pc = "indexing" /\ IsNext(r, f)
    /\ call[r].statement < Statements[f]
    /\ EndInError(r, f, call[r].applied)
    /\ UNCHANGED <<database, repository>>

(* _apply_one() returns: the file counts as applied, and the loop goes on *)
(* unless the notifier raises, which reports the file in errors as well.  *)
IndexesDone_Skipped(r, f) == TRUE
IndexesDone(r, f) == call[r].statement = Statements[f]

FileApplied(r, f) ==
    LET left == call[r].pending \ {f}
    IN
    /\ call[r].pc = "indexing" /\ IsNext(r, f)
    /\ IndexesDone(r, f)
    /\ call' = [call EXCEPT
            ![r].pc = IF left = {} THEN "returned" ELSE "applying",
            ![r].pending = left,
            ![r].attempt = 0, ![r].statement = 0,
            ![r].applied = @ \cup {f}]
    /\ UNCHANGED <<database, repository>>

NotifierRaises(r, f) ==
    /\ call[r].pc = "indexing" /\ IsNext(r, f)
    /\ IndexesDone(r, f)
    /\ EndInError(r, f, call[r].applied \cup {f})
    /\ UNCHANGED <<database, repository>>

(* The process dies; Postgres rolls back what it had not committed.       *)
Crash(r) ==
    /\ r \in MayCrash
    /\ Active(r)
    /\ call' = [call EXCEPT ![r] = NoCall]
    /\ UNCHANGED <<database, repository>>

----------------------------------------------------------------------------
Work(r) ==
    \/ FetchApplied(r) \/ FetchRaises(r) \/ CompareApplied(r)
    \/ \E f \in Files :
        \/ ApplyBody(r, f) \/ ApplyBodyUnanswered(r, f)
        \/ LockTimesOut(r, f) \/ BodyFails(r, f)
        \/ BuildIndex(r, f) \/ IndexFails(r, f)
        \/ FileApplied(r, f) \/ NotifierRaises(r, f)

Next ==
    \/ \E f \in Files, content \in Contents \cup {Absent} : Edit(f, content)
    \/ EnsureTrackingTable
    \/ \E r \in Runners :
        \/ \E dry \in BOOLEAN : Materialize(r, dry)
        \/ ListFiles(r)
        \/ Work(r)
        \/ Crash(r)

(* A call runs in one thread to its end; every statement it waits for is  *)
(* bounded by lock_timeout or answered by Postgres.                       *)
Spec == Init /\ [][Next]_vars
FairSpec == Spec /\ \A r \in Runners : WF_vars(Work(r))

----------------------------------------------------------------------------
(* Every variable stays in its type; a call retries at most max_retries   *)
(* times, and has a file to work on exactly while it applies one.         *)
Trees == [Files -> Contents \cup {Absent}]
CallType ==
    [pc : {"idle", "listed", "applying", "indexing", "returned", "raised",
           "comparing", "checked"},
     dry : BOOLEAN, checkout : Trees, pending : SUBSET Files,
     attempt : 0 .. MaxRetries, statement : Nat,
     applied : SUBSET Files, skipped : SUBSET Files, errors : SUBSET Files,
     drifted : SUBSET Files, since : Nat]

TypeOK ==
    /\ source \in Trees /\ rows \in Trees
    /\ tableExists \in BOOLEAN
    /\ built \subseteq Files \X Nat
    /\ call \in [Runners -> CallType]
    /\ published \subseteq SUBSET Files
    /\ log \in Seq([file : Files, content : Contents])
    /\ edits \in Nat

(* What check_pending() reports, although the source is edited and bodies *)
(* run between its listing and its SELECT, and after a COMMIT whose       *)
(* answer was lost: a file that had run before the check is pending for   *)
(* nobody, and is reported if other content ran than was listed; a file   *)
(* is reported only if other content ran than was listed; and a listed    *)
(* file that is in neither list ran as it was listed.                     *)
Ran(f, content) == \E i \in DOMAIN log : log[i] = [file |-> f, content |-> content]
RanOtherwise(f, content) == \E i \in DOMAIN log : log[i].file = f /\ log[i].content # content

NoDriftIsMissed(r) ==
    \A i \in 1 .. call[r].since :
        /\ log[i].file \notin call[r].pending
        /\ log[i].content # call[r].checkout[log[i].file] => log[i].file \in call[r].drifted
DriftIsReal(r) ==
    \A f \in call[r].drifted : RanOtherwise(f, call[r].checkout[f])
RestIsInSync(r) ==
    \A f \in Present(call[r].checkout) \ (call[r].pending \cup call[r].drifted) :
        Ran(f, call[r].checkout[f])
CheckIsTrue(r) == NoDriftIsMissed(r) /\ DriftIsReal(r) /\ RestIsInSync(r)
DriftIsSeen == \A r \in Runners : call[r].pc = "checked" => CheckIsTrue(r)

(* What a call reports is true, in spite of the other calls: a file it    *)
(* counts as applied has run with the content of its own checkout and has *)
(* all its indexes, and a call that returns without errors leaves no file *)
(* of its checkout unrecorded.                                            *)
Indexed(f) == \A k \in 1 .. Statements[f] : <<f, k>> \in built
AppliedIsDone ==
    \A r \in Runners : ~call[r].dry => \A f \in call[r].applied :
        rows[f] = call[r].checkout[f] /\ Indexed(f)
OkIsUpToDate ==
    \A r \in Runners : call[r].pc = "returned" /\ ~call[r].dry /\ call[r].errors = {}
        => Present(call[r].checkout) \subseteq Recorded
ReportsAreTrue == AppliedIsDone /\ OkIsUpToDate

(* Bodies take effect forward only, each at most once and without holes,  *)
(* whatever calls race, crash, retry or lose the answer to a COMMIT.      *)
History == INSTANCE SchemaHistory WITH log <- [i \in DOMAIN log |-> log[i].file]
ForwardOnly == History!Spec

(* Every call ends, however often the lock is refused.                    *)
CallsEnd == \A r \in Runners : Active(r) ~> ~Active(r)

(* migration_runner.py:465-468, "remaining pending files are NOT silently *)
(* skipped": a call skips a file only when its migration is complete or   *)
(* under way in another call.                                             *)
SkipsOnlyComplete ==
    \A r \in Runners : \A f \in call[r].skipped :
        \/ Indexed(f)
        \/ \E o \in Runners : call[o].pc = "indexing" /\ IsNext(o, f)
=============================================================================
