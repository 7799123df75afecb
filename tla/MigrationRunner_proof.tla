----------------------- MODULE MigrationRunner_proof -----------------------
(***************************************************************************)
(* Proofs about MigrationRunner, for every number of racing calls, every  *)
(* set of files and contents, and every number of retries and edits.      *)
(***************************************************************************)
EXTENDS MigrationRunner, SequenceTheorems, TLAPS

(* The tracking table is the log: a row for each body that ran, with the  *)
(* checksum of what ran.                                                  *)
RowsAreLog ==
    /\ \A i \in DOMAIN log : rows[log[i].file] = log[i].content
    /\ \A f \in Recorded : \E i \in DOMAIN log : log[i].file = f

(* A call in progress works on a published state of the source, and has   *)
(* only recorded files behind it.                                         *)
FromPublished(r) == Active(r) => Present(call[r].checkout) \in published
BehindRecorded(r) ==
    call[r].pc \in {"applying", "indexing"}
        => /\ call[r].pending \subseteq Present(call[r].checkout)
           /\ Present(call[r].checkout) \ call[r].pending \subseteq Recorded
(* While it builds indexes, the file it is at is recorded already.        *)
BuildingRecorded(r) ==
    call[r].pc = "indexing" => \A f \in Files : IsNext(r, f) =>
        /\ f \in Recorded /\ rows[f] = call[r].checkout[f]
        /\ \A k \in 1 .. call[r].statement : <<f, k>> \in built
DoneIsDone(r) ==
    ~call[r].dry => \A f \in call[r].applied :
        f \in Recorded /\ rows[f] = call[r].checkout[f] /\ Indexed(f)
OkLeavesNothing(r) ==
    call[r].pc = "returned" /\ ~call[r].dry /\ call[r].errors = {}
        => Present(call[r].checkout) \subseteq Recorded

(* A check knows a beginning of the log, and what it has reported is true.*)
Checks(r) == /\ call[r].pc \in {"comparing", "checked"} => call[r].since \in 0 .. Len(log)
             /\ call[r].pc = "checked" => CheckIsTrue(r)

CallInv(r) == /\ FromPublished(r) /\ BehindRecorded(r) /\ BuildingRecorded(r)
              /\ DoneIsDone(r) /\ OkLeavesNothing(r) /\ Checks(r)

IInv == /\ TypeOK
        /\ RowsAreLog
        /\ Present(source) \in published
        /\ \A r \in Runners : CallInv(r)

----------------------------------------------------------------------------
(* Rows are never changed or removed, nor are indexes or what has run.    *)
LogGrows == /\ Len(log) \in Nat /\ Len(log') \in Nat /\ Len(log) <= Len(log')
            /\ \A i \in 1 .. Len(log) : log'[i] = log[i]
Grows ==
    /\ \A f \in Recorded : rows'[f] = rows[f]
    /\ built \subseteq built'
    /\ published \subseteq published'
    /\ LogGrows

LEMMA RecordedGrows == ASSUME Grows PROVE Recorded \subseteq Recorded'
BY DEF Grows, Recorded

(* The log as the sequence it is.                                         *)
LEMMA LogFacts ==
    ASSUME TypeOK
    PROVE  /\ DOMAIN log = 1 .. Len(log) /\ Len(log) \in Nat
           /\ \A i \in 1 .. Len(log) : log[i].file \in Files /\ log[i].content \in Contents
                /\ log[i] = [file |-> log[i].file, content |-> log[i].content]
<1> DEFINE Line == [file : Files, content : Contents]
<1>1. log \in Seq(Line)
  BY DEF TypeOK
<1>2. \A x \in Line : /\ x.file \in Files /\ x.content \in Contents
                      /\ x = [file |-> x.file, content |-> x.content]
  OBVIOUS
<1> HIDE DEF Line
<1>3. DOMAIN log = 1 .. Len(log) /\ Len(log) \in Nat /\ \A i \in 1 .. Len(log) : log[i] \in Line
  BY <1>1
<1> QED
  BY <1>2, <1>3

LEMMA LogStays ==
    ASSUME TypeOK, log' = log
    PROVE  LogGrows
<1>1. Len(log) \in Nat
  BY LogFacts
<1> QED
  BY <1>1 DEF LogGrows

(* What a check has reported stays true while the log grows.              *)
LEMMA KeptChecks ==
    ASSUME NEW r \in Runners, TypeOK, Checks(r), LogGrows, call'[r] = call[r],
           DOMAIN log' = 1 .. Len(log')
    PROVE  Checks(r)'
<1>1. DOMAIN log = 1 .. Len(log)
  BY LogFacts
<1>2. \A i \in DOMAIN log : i \in DOMAIN log' /\ log'[i] = log[i]
  BY <1>1 DEF LogGrows
<1>3. call[r].since \in 0 .. Len(log) => call[r].since \in 0 .. Len(log')
  BY DEF LogGrows
<1>4. ASSUME call[r].pc = "checked", CheckIsTrue(r) PROVE CheckIsTrue(r)'
  <2>1. call[r].since \in 0 .. Len(log)
    BY <1>4 DEF Checks
  <2>2. \A i \in 1 .. call[r].since : log'[i] = log[i]
    BY <2>1 DEF LogGrows
  <2>3. NoDriftIsMissed(r)'
    BY <1>4, <2>2 DEF CheckIsTrue, NoDriftIsMissed
  <2>4. DriftIsReal(r)'
    BY <1>2, <1>4 DEF CheckIsTrue, DriftIsReal, RanOtherwise
  <2>5. RestIsInSync(r)'
    BY <1>2, <1>4 DEF CheckIsTrue, RestIsInSync, Ran, Present
  <2> QED
    BY <2>3, <2>4, <2>5 DEF CheckIsTrue
<1> QED
  BY <1>3, <1>4 DEF Checks

LEMMA KeptCall ==
    ASSUME NEW r \in Runners, TypeOK, CallInv(r), Grows, call'[r] = call[r],
           DOMAIN log' = 1 .. Len(log')
    PROVE  CallInv(r)'
<1>1. Recorded \subseteq Recorded'
  BY RecordedGrows
<1>2. FromPublished(r)' /\ BehindRecorded(r)'
  BY <1>1 DEF CallInv, FromPublished, BehindRecorded, Active, Present, Grows
<1>3. BuildingRecorded(r)'
  BY <1>1 DEF CallInv, BuildingRecorded, IsNext, Grows
<1>4. DoneIsDone(r)'
  BY <1>1 DEF CallInv, DoneIsDone, Indexed, Grows
<1>5. OkLeavesNothing(r)'
  BY <1>1 DEF CallInv, OkLeavesNothing, Present
<1>6. Checks(r)'
  BY KeptChecks DEF CallInv, Grows
<1> QED
  BY <1>2, <1>3, <1>4, <1>5, <1>6 DEF CallInv

LEMMA InitIInv == Init => IInv
<1> SUFFICES ASSUME Init PROVE IInv
  OBVIOUS
<1>1. NoCall \in CallType
  BY MigrationAssumption DEF NoCall, CallType, Trees
<1>2. TypeOK
  <2>1. source \in Trees /\ rows \in Trees /\ built = {} /\ log = <<>> /\ edits = 0
        /\ tableExists = FALSE
    BY DEF Init, Trees
  <2>2. published \subseteq SUBSET Files
    BY DEF Init, Present
  <2>3. call \in [Runners -> CallType]
    BY <1>1 DEF Init
  <2>4. built \subseteq Files \X Nat
    BY <2>1
  <2>5. log \in Seq([file : Files, content : Contents])
    BY <2>1
  <2>6. edits \in Nat /\ tableExists \in BOOLEAN
    BY <2>1
  <2> QED
    BY <2>1, <2>2, <2>3, <2>4, <2>5, <2>6 DEF TypeOK
<1>3. RowsAreLog
  BY DEF Init, RowsAreLog, Recorded
<1>4. ASSUME NEW r \in Runners PROVE CallInv(r)
  <2>1. call[r] = NoCall
    BY DEF Init
  <2> QED
    BY <2>1 DEF NoCall, CallInv, FromPublished, BehindRecorded, BuildingRecorded,
                DoneIsDone, OkLeavesNothing, Checks, Active
<1> QED
  BY <1>2, <1>3, <1>4 DEF Init, IInv

(* A step of one runner leaves the other calls alone, so only its own has *)
(* to be looked at.                                                       *)
OnlyCall(r) == \A o \in Runners \ {r} : call'[o] = call[o]

LEMMA RunnerStep ==
    ASSUME NEW r \in Runners, IInv, OnlyCall(r), Grows, UNCHANGED repository,
           TypeOK', RowsAreLog', CallInv(r)'
    PROVE  IInv'
<1>0. (DOMAIN log = 1 .. Len(log))'
  BY LogFacts
<1>1. ASSUME NEW o \in Runners \ {r} PROVE CallInv(o)'
  BY <1>0, KeptCall DEF IInv, OnlyCall
<1>2. (Present(source) \in published)'
  BY DEF IInv, repository, Present
<1> QED
  BY <1>1, <1>2 DEF IInv

(* What is left to show when the step does not touch the database.        *)
LEMMA CallStep ==
    ASSUME NEW r \in Runners, IInv, OnlyCall(r), UNCHANGED <<database, repository>>,
           call' \in [Runners -> CallType], CallInv(r)'
    PROVE  IInv'
<1>1. Grows
  BY LogStays DEF IInv, Grows, database, repository
<1>2. TypeOK'
  BY DEF IInv, TypeOK, database, repository
<1>3. RowsAreLog'
  BY DEF IInv, RowsAreLog, Recorded, database
<1> QED
  BY <1>1, <1>2, <1>3, RunnerStep

(* A call set to a given value.                                           *)
LEMMA CallSet ==
    ASSUME NEW r \in Runners, call \in [Runners -> CallType], NEW c \in CallType,
           call' = [call EXCEPT ![r] = c]
    PROVE  call' \in [Runners -> CallType] /\ call'[r] = c /\ OnlyCall(r)
BY DEF OnlyCall

LEMMA MaterializeIInv ==
    ASSUME NEW r \in Runners, NEW dry \in BOOLEAN, IInv, Materialize(r, dry)
    PROVE  IInv'
<1> DEFINE c == [NoCall EXCEPT !.pc = "listed", !.dry = dry, !.checkout = source]
<1>1. c \in CallType /\ c.pc = "listed" /\ c.applied = {} /\ c.checkout = source
  <2>1. source \in Trees
    BY DEF IInv, TypeOK
  <2>2. NoCall \in CallType /\ NoCall.applied = {}
    BY MigrationAssumption DEF NoCall, CallType, Trees
  <2> HIDE DEF NoCall
  <2>3. c \in CallType
    BY <2>1, <2>2 DEF CallType
  <2> QED
    BY <2>1, <2>2, <2>3 DEF CallType
<1>2. call' = [call EXCEPT ![r] = c] /\ UNCHANGED <<database, repository>>
  BY DEF Materialize
<1> HIDE DEF c
<1>3. call' \in [Runners -> CallType] /\ call'[r] = c /\ OnlyCall(r)
  BY <1>1, <1>2, CallSet DEF IInv, TypeOK
<1>4. CallInv(r)'
  BY <1>1, <1>2, <1>3 DEF CallInv, FromPublished, BehindRecorded, BuildingRecorded, DoneIsDone,
                OkLeavesNothing, Checks, Active, IInv, repository
<1> QED
  BY <1>2, <1>3, <1>4, CallStep

LEMMA CrashIInv ==
    ASSUME NEW r \in Runners, IInv, Crash(r)
    PROVE  IInv'
<1>1. NoCall \in CallType /\ NoCall.pc = "idle" /\ NoCall.applied = {}
  BY MigrationAssumption DEF NoCall, CallType, Trees
<1>2. call' = [call EXCEPT ![r] = NoCall] /\ UNCHANGED <<database, repository>>
  BY DEF Crash
<1>3. call' \in [Runners -> CallType] /\ call'[r] = NoCall /\ OnlyCall(r)
  BY <1>1, <1>2, CallSet DEF IInv, TypeOK
<1>4. CallInv(r)'
  BY <1>1, <1>3 DEF CallInv, FromPublished, BehindRecorded, BuildingRecorded, DoneIsDone,
                OkLeavesNothing, Checks, Active
<1> QED
  BY <1>2, <1>3, <1>4, CallStep

LEMMA FetchRaisesIInv ==
    ASSUME NEW r \in Runners, IInv, FetchRaises(r)
    PROVE  IInv'
<1>1. call \in [Runners -> CallType] /\ CallInv(r)
  BY DEF IInv, TypeOK
<1>2. /\ call' = [call EXCEPT ![r].pc = "raised"]
      /\ UNCHANGED <<database, repository>>
  BY DEF FetchRaises
<1>3. call' \in [Runners -> CallType] /\ OnlyCall(r)
  BY <1>1, <1>2 DEF CallType, OnlyCall
<1>4. /\ call'[r].pc = "raised" /\ call'[r].dry = call[r].dry
      /\ call'[r].checkout = call[r].checkout /\ call'[r].applied = call[r].applied
  BY <1>1, <1>2 DEF CallType
<1>5. DoneIsDone(r)'
  BY <1>1, <1>2, <1>4 DEF CallInv, DoneIsDone, Recorded, Indexed, database
<1>6. CallInv(r)'
  BY <1>4, <1>5 DEF CallInv, FromPublished, BehindRecorded, BuildingRecorded, OkLeavesNothing,
                    Checks, Active
<1> QED
  BY <1>2, <1>3, <1>6, CallStep

LEMMA FetchAppliedIInv ==
    ASSUME NEW r \in Runners, IInv, FetchApplied(r)
    PROVE  IInv'
<1> DEFINE tree == Present(call[r].checkout)
           new == tree \ Recorded
           working == new # {} /\ ~call[r].dry
           place == IF working THEN "applying" ELSE "returned"
           left == IF working THEN new ELSE {}
           done == IF working THEN {} ELSE new
<1>1. call \in [Runners -> CallType] /\ CallInv(r) /\ call[r].pc = "listed"
  BY DEF IInv, TypeOK, FetchApplied
<1>2. /\ call' = [call EXCEPT ![r].pc = place, ![r].pending = left, ![r].applied = done,
                              ![r].skipped = tree \cap Recorded]
      /\ UNCHANGED <<database, repository>>
  BY DEF FetchApplied
<1>3. /\ place \in {"applying", "returned"} /\ left \subseteq Files /\ done \subseteq Files
      /\ tree \cap Recorded \subseteq Files
  BY DEF Present
<1>4. /\ place = "applying" => left = new /\ done = {}
      /\ place = "returned" /\ ~call[r].dry => new = {} /\ done = {}
  OBVIOUS
<1> HIDE DEF place, left, done, working
<1>5. call' \in [Runners -> CallType] /\ OnlyCall(r)
  <2> DEFINE old == tree \cap Recorded
  <2>1. old \subseteq Files /\ call' = [call EXCEPT ![r].pc = place, ![r].pending = left,
                                          ![r].applied = done, ![r].skipped = old]
    BY <1>2, <1>3
  <2> HIDE DEF old, tree, new
  <2> DEFINE c == [call[r] EXCEPT !.pc = place, !.pending = left, !.applied = done, !.skipped = old]
  <2>2. call' = [call EXCEPT ![r] = c]
    BY <1>1, <2>1
  <2>3. call[r] \in CallType
    BY <1>1
  <2>4. c \in CallType
    BY <1>3, <2>1, <2>3 DEF CallType
  <2> QED
    BY <1>1, <2>2, <2>4, CallSet
<1>6. /\ call'[r].pc = place /\ call'[r].pending = left /\ call'[r].applied = done
      /\ call'[r].dry = call[r].dry /\ call'[r].checkout = call[r].checkout
  BY <1>1, <1>2 DEF CallType
<1>7. /\ Present(call[r].checkout)' = tree /\ Recorded' = Recorded
      /\ published' = published
  BY <1>2, <1>6 DEF Present, Recorded, database, repository
<1>8. FromPublished(r)'
  BY <1>1, <1>7 DEF CallInv, FromPublished, Active
<1>9. BehindRecorded(r)'
  BY <1>3, <1>4, <1>6, <1>7 DEF BehindRecorded
<1>10. BuildingRecorded(r)' /\ DoneIsDone(r)' /\ OkLeavesNothing(r)' /\ Checks(r)'
  BY <1>3, <1>4, <1>6, <1>7 DEF BuildingRecorded, DoneIsDone, OkLeavesNothing, Checks
<1> QED
  BY <1>2, <1>5, <1>8, <1>9, <1>10, CallStep DEF CallInv

LEMMA ListFilesIInv ==
    ASSUME NEW r \in Runners, IInv, ListFiles(r)
    PROVE  IInv'
<1> DEFINE n == Len(log)
           c == [NoCall EXCEPT !.pc = "comparing", !.checkout = source, !.since = n]
<1>1. /\ c \in CallType /\ c.pc = "comparing" /\ c.applied = {} /\ c.checkout = source
      /\ c.since = n
  <2>1. source \in Trees /\ n \in Nat
    BY LogFacts DEF IInv, TypeOK
  <2>2. NoCall \in CallType /\ NoCall.applied = {}
    BY MigrationAssumption DEF NoCall, CallType, Trees
  <2> HIDE DEF NoCall, n
  <2>3. c \in CallType
    BY <2>1, <2>2 DEF CallType
  <2> QED
    BY <2>1, <2>2, <2>3 DEF CallType
<1>2. call' = [call EXCEPT ![r] = c] /\ UNCHANGED <<database, repository>>
  BY DEF ListFiles
<1> HIDE DEF c
<1>3. call' \in [Runners -> CallType] /\ call'[r] = c /\ OnlyCall(r)
  BY <1>1, <1>2, CallSet DEF IInv, TypeOK
<1>4. Checks(r)'
  <2>1. n \in Nat /\ Len(log') = n
    BY <1>2, LogFacts DEF IInv, database
  <2> HIDE DEF n
  <2> QED
    BY <1>1, <1>3, <2>1 DEF Checks
<1>5. CallInv(r)'
  BY <1>1, <1>2, <1>3, <1>4 DEF CallInv, FromPublished, BehindRecorded, BuildingRecorded,
                DoneIsDone, OkLeavesNothing, Active, IInv, repository
<1> QED
  BY <1>2, <1>3, <1>5, CallStep

(* The rows that the SELECT returns are the log of that moment, so what   *)
(* the comparison says of the listed tree it says of the bodies that ran. *)
LEMMA CompareAppliedIInv ==
    ASSUME NEW r \in Runners, IInv, CompareApplied(r)
    PROVE  IInv'
<1> DEFINE tree == call[r].checkout
           new == Present(tree) \ Recorded
           drifted == Mismatches(tree)
           c == [call[r] EXCEPT !.pc = "checked", !.pending = new, !.drifted = drifted]
<1>1. /\ UNCHANGED <<database, repository>>
      /\ call \in [Runners -> CallType] /\ call[r] \in CallType /\ CallInv(r)
      /\ call[r].pc = "comparing" /\ TypeOK /\ RowsAreLog
  BY DEF CompareApplied, IInv, TypeOK
<1>2. call' = [call EXCEPT ![r] = c]
  BY <1>1 DEF CompareApplied
<1>3. new \subseteq Files /\ drifted \subseteq Files
  BY DEF Present, Mismatches, Recorded
<1>4. c \in CallType
  <2> HIDE DEF new, drifted
  <2> QED
    BY <1>1, <1>3 DEF CallType
<1>5. /\ c.pc = "checked" /\ c.pending = new /\ c.drifted = drifted /\ c.checkout = tree
      /\ c.since = call[r].since /\ c.dry = call[r].dry /\ c.applied = call[r].applied
  <2> HIDE DEF new, drifted
  <2> QED
    BY <1>1 DEF CallType
<1> HIDE DEF c
<1>6. call' \in [Runners -> CallType] /\ OnlyCall(r) /\ call'[r] = c
  BY <1>1, <1>2, <1>4, CallSet
<1>7. /\ log' = log /\ rows' = rows /\ built' = built /\ published' = published
      /\ Present(tree)' = Present(tree)
  BY <1>1, <1>5, <1>6 DEF database, repository, Present
<1>8. \A i \in 1 .. Len(log) :
         /\ log[i].file \in Recorded /\ rows[log[i].file] = log[i].content
         /\ log[i] = [file |-> log[i].file, content |-> log[i].content]
  BY <1>1, LogFacts, MigrationAssumption DEF RowsAreLog, Recorded
<1>9. \A f \in Recorded : \E i \in DOMAIN log : log[i].file = f /\ log[i].content = rows[f]
  BY <1>1 DEF RowsAreLog
<1>10. call[r].since \in 0 .. Len(log)
  BY <1>1 DEF CallInv, Checks
<1>11. CheckIsTrue(r)'
  <2>1. ASSUME NEW i \in 1 .. call[r].since
        PROVE  /\ log[i].file \notin new
               /\ log[i].content # tree[log[i].file] => log[i].file \in drifted
    <3>1. i \in 1 .. Len(log)
      BY <1>1, <1>10, LogFacts
    <3> QED
      BY <1>8, <3>1 DEF Mismatches
  <2>2. ASSUME NEW f \in drifted PROVE RanOtherwise(f, tree[f])
    BY <1>9 DEF Mismatches, RanOtherwise
  <2>3. ASSUME NEW f \in Present(tree) \ (new \cup drifted) PROVE Ran(f, tree[f])
    <3>1. f \in Recorded /\ rows[f] = tree[f]
      BY DEF Mismatches
    <3>2. PICK i \in DOMAIN log : log[i].file = f /\ log[i].content = rows[f]
      BY <1>9, <3>1
    <3>3. log[i] = [file |-> f, content |-> tree[f]]
      BY <1>1, <1>8, <3>1, <3>2, LogFacts
    <3> QED
      BY <3>3 DEF Ran
  <2>4. /\ call'[r].pending = new /\ call'[r].drifted = drifted
        /\ call'[r].checkout = tree /\ call'[r].since = call[r].since
    BY <1>5, <1>6
  <2> HIDE DEF new, drifted
  <2>5. NoDriftIsMissed(r)'
    BY <1>7, <2>1, <2>4 DEF NoDriftIsMissed
  <2>6. DriftIsReal(r)'
    BY <1>7, <2>2, <2>4 DEF DriftIsReal, RanOtherwise
  <2>7. RestIsInSync(r)'
    BY <1>7, <2>3, <2>4 DEF RestIsInSync, Ran
  <2> QED
    BY <2>5, <2>6, <2>7 DEF CheckIsTrue
<1>12. Checks(r)'
  BY <1>5, <1>6, <1>7, <1>10, <1>11 DEF Checks
<1>13. DoneIsDone(r)'
  BY <1>1, <1>5, <1>6, <1>7 DEF CallInv, DoneIsDone, Recorded, Indexed
<1>14. CallInv(r)'
  BY <1>5, <1>6, <1>12, <1>13 DEF CallInv, FromPublished, BehindRecorded, BuildingRecorded,
                                  OkLeavesNothing, Active
<1> QED
  BY <1>1, <1>6, <1>14, CallStep

----------------------------------------------------------------------------
(* A commit adds one row and one line of the log, which agree.            *)
LEMMA CommitFacts ==
    ASSUME TypeOK, RowsAreLog, NEW f \in Files, NEW content \in Contents, Commit(f, content),
           UNCHANGED repository
    PROVE  /\ Grows /\ RowsAreLog'
           /\ rows' \in Trees /\ log' \in Seq([file : Files, content : Contents])
           /\ rows'[f] = content /\ Recorded' = Recorded \cup {f}
           /\ UNCHANGED <<tableExists, built, repository>>
<1> DEFINE line == [file |-> f, content |-> content]
           Line == [file : Files, content : Contents]
<1>1. /\ rows[f] = Absent /\ rows' = [rows EXCEPT ![f] = content]
      /\ log' = Append(log, line)
      /\ UNCHANGED <<tableExists, built>>
  BY DEF Commit
<1>2. rows \in Trees /\ log \in Seq(Line) /\ content # Absent
  BY MigrationAssumption DEF TypeOK
<1>3. line \in Line /\ line.file = f /\ line.content = content
  OBVIOUS
<1>4. /\ rows' \in Trees /\ rows'[f] = content
      /\ \A g \in Files \ {f} : rows'[g] = rows[g]
  BY <1>1, <1>2 DEF Trees
<1>5. Recorded' = Recorded \cup {f}
  BY <1>2, <1>4 DEF Recorded
<1>6. f \notin Recorded
  BY <1>1 DEF Recorded
<1> HIDE DEF line, Line
<1>8. log' \in Seq(Line)
  BY <1>1, <1>2, <1>3
<1>9. /\ DOMAIN log = 1 .. Len(log) /\ DOMAIN log' = 1 .. Len(log) + 1 /\ Len(log) \in Nat
      /\ log'[Len(log) + 1] = line
      /\ \A i \in 1 .. Len(log) : log'[i] = log[i] /\ log[i] \in Line
  BY <1>1, <1>2
<1>10. \A i \in 1 .. Len(log) : log[i].file \in Files \ {f}
  <2> SUFFICES ASSUME NEW i \in 1 .. Len(log) PROVE log[i].file \in Files \ {f}
    OBVIOUS
  <2>1. log[i].file \in Files /\ log[i].content \in Contents
    BY <1>9 DEF Line
  <2>2. rows[log[i].file] = log[i].content
    BY <1>9 DEF RowsAreLog
  <2>3. log[i].content # Absent
    BY <2>1, MigrationAssumption
  <2> QED
    BY <1>1, <2>1, <2>2, <2>3
<1>7. Grows
  <2>1. LogGrows
    <3>1. Len(log') = Len(log) + 1
      BY <1>1, <1>2, <1>3
    <3> QED
      BY <1>9, <3>1 DEF LogGrows
  <2> QED
    BY <1>1, <1>4, <1>6, <2>1 DEF Grows, Recorded, repository
<1>11. RowsAreLog'
  <2>1. ASSUME NEW i \in DOMAIN log' PROVE rows'[log'[i].file] = log'[i].content
    <3>1. CASE i = Len(log) + 1
      BY <1>3, <1>4, <1>9, <3>1
    <3>2. CASE i \in 1 .. Len(log)
      BY <1>4, <1>9, <1>10, <3>2 DEF RowsAreLog
    <3> QED
      BY <1>9, <3>1, <3>2
  <2>2. ASSUME NEW g \in Recorded' PROVE \E i \in DOMAIN log' : log'[i].file = g
    <3>1. CASE g = f
      BY <1>3, <1>9, <3>1
    <3>2. CASE g \in Recorded
      BY <1>9, <3>2 DEF RowsAreLog
    <3> QED
      BY <1>5, <3>1, <3>2
  <2> QED
    BY <2>1, <2>2 DEF RowsAreLog
<1> QED
  BY <1>1, <1>4, <1>5, <1>7, <1>8, <1>11 DEF Line

(* A step at file f of the loop ends the call: what its result says of    *)
(* the applied files has to be true afterwards, and nothing else.         *)
LEMMA EndFacts ==
    ASSUME NEW r \in Runners, NEW f \in Files, NEW S \in SUBSET Files,
           call \in [Runners -> CallType], EndInError(r, f, S)
    PROVE  /\ call' \in [Runners -> CallType] /\ OnlyCall(r)
           /\ call'[r].pc \in {"returned", "raised"}
           /\ call'[r].dry = call[r].dry /\ call'[r].checkout = call[r].checkout
           /\ call'[r].applied = S /\ f \in call'[r].errors
<1>1. PICK end \in {"returned", "raised"} :
        call' = [call EXCEPT ![r].pc = end, ![r].applied = S, ![r].errors = @ \cup {f},
                             ![r].pending = {}, ![r].attempt = 0, ![r].statement = 0]
  BY DEF EndInError
<1> DEFINE failed == call[r].errors \cup {f}
           c == [call[r] EXCEPT !.pc = end, !.applied = S, !.errors = failed,
                                !.pending = {}, !.attempt = 0, !.statement = 0]
<1>2. call[r] \in CallType
  OBVIOUS
<1>3. call' = [call EXCEPT ![r] = c]
  BY <1>1, <1>2 DEF CallType
<1>4. c \in CallType
  <2>1. failed \in SUBSET Files /\ {} \in SUBSET Files /\ 0 \in 0 .. MaxRetries
    BY <1>2, MigrationAssumption DEF CallType
  <2>2. end \in {"idle", "listed", "applying", "indexing", "returned", "raised",
                 "comparing", "checked"}
    OBVIOUS
  <2> HIDE DEF failed
  <2> QED
    BY <1>2, <2>1, <2>2 DEF CallType
<1>5. /\ c.pc = end /\ c.dry = call[r].dry /\ c.checkout = call[r].checkout
      /\ c.applied = S /\ f \in c.errors
  BY <1>2 DEF CallType
<1> HIDE DEF c
<1> QED
  BY <1>3, <1>4, <1>5, CallSet

LEMMA EndInv ==
    ASSUME NEW r \in Runners, NEW f \in Files, NEW S \in SUBSET Files,
           call \in [Runners -> CallType], EndInError(r, f, S),
           \A g \in S : ~call[r].dry =>
                /\ g \in Recorded' /\ rows'[g] = call[r].checkout[g] /\ Indexed(g)'
    PROVE  CallInv(r)'
BY EndFacts DEF CallInv, FromPublished, BehindRecorded, BuildingRecorded, DoneIsDone,
                OkLeavesNothing, Checks, Active

LEMMA BodyFailsIInv ==
    ASSUME NEW r \in Runners, NEW f \in Files, IInv,
           BodyFails(r, f) \/ IndexFails(r, f)
    PROVE  IInv'
<1>1. /\ EndInError(r, f, call[r].applied) /\ UNCHANGED <<database, repository>>
      /\ call \in [Runners -> CallType] /\ DoneIsDone(r) /\ call[r].applied \in SUBSET Files
  BY DEF BodyFails, IndexFails, IInv, TypeOK, CallInv, CallType
<1>2. CallInv(r)'
  BY <1>1, EndInv DEF DoneIsDone, Recorded, Indexed, database
<1> QED
  BY <1>1, <1>2, EndFacts, CallStep

LEMMA NotifierRaisesIInv ==
    ASSUME NEW r \in Runners, NEW f \in Files, IInv, NotifierRaises(r, f)
    PROVE  IInv'
<1>1. /\ EndInError(r, f, call[r].applied \cup {f}) /\ UNCHANGED <<database, repository>>
      /\ call \in [Runners -> CallType] /\ DoneIsDone(r) /\ BuildingRecorded(r)
      /\ call[r].applied \cup {f} \in SUBSET Files
      /\ call[r].pc = "indexing" /\ IsNext(r, f) /\ call[r].statement = Statements[f]
  BY DEF NotifierRaises, IndexesDone, IInv, TypeOK, CallInv, CallType
<1>2. f \in Recorded /\ rows[f] = call[r].checkout[f] /\ Indexed(f)
  BY <1>1 DEF BuildingRecorded, Indexed
<1>3. CallInv(r)'
  BY <1>1, <1>2, EndInv DEF DoneIsDone, Recorded, Indexed, database
<1> QED
  BY <1>1, <1>3, EndFacts, CallStep

(* A file the loop is at has a content in the checkout.                   *)
LEMMA NextHasContent ==
    ASSUME NEW r \in Runners, NEW f \in Files, IInv, IsNext(r, f),
           call[r].pc \in {"applying", "indexing"}
    PROVE  call[r].checkout[f] \in Contents
<1>1. call[r] \in CallType /\ BehindRecorded(r)
  BY DEF IInv, TypeOK, CallInv
<1> QED
  BY <1>1 DEF BehindRecorded, IsNext, Present, CallType, Trees

LEMMA CommitTypes ==
    ASSUME IInv, rows' \in Trees, log' \in Seq([file : Files, content : Contents]),
           UNCHANGED <<tableExists, built, repository>>, call' \in [Runners -> CallType]
    PROVE  TypeOK'
BY DEF IInv, TypeOK, repository

(* The loop is at one file only.                                          *)
LEMMA OnlyOneNext ==
    ASSUME NEW r \in Runners, NEW f \in Files, NEW g \in Files, IsNext(r, f)', IsNext(r, g)'
    PROVE  g = f
<1>1. f <= g /\ g <= f
  BY DEF IsNext
<1>2. f \in Nat /\ g \in Nat
  BY MigrationAssumption
<1> QED
  BY <1>1, <1>2

LEMMA UnansweredIInv ==
    ASSUME NEW r \in Runners, NEW f \in Files, IInv, ApplyBodyUnanswered(r, f)
    PROVE  IInv'
<1> DEFINE content == call[r].checkout[f]
<1>1. /\ Commit(f, content) /\ UNCHANGED repository
      /\ EndInError(r, f, call[r].applied)
      /\ call \in [Runners -> CallType] /\ DoneIsDone(r) /\ call[r].applied \in SUBSET Files
  BY DEF ApplyBodyUnanswered, IInv, TypeOK, CallInv, CallType
<1>2. content \in Contents
  BY NextHasContent DEF ApplyBodyUnanswered
<1> HIDE DEF content
<1>3. /\ Grows /\ RowsAreLog'
      /\ rows' \in Trees /\ log' \in Seq([file : Files, content : Contents])
      /\ UNCHANGED <<tableExists, built, repository>>
  BY <1>1, <1>2, CommitFacts DEF IInv
<1>4. CallInv(r)'
  BY <1>1, <1>3, EndInv, RecordedGrows DEF DoneIsDone, Indexed, Grows
<1>5. TypeOK'
  BY <1>1, <1>3, EndFacts, CommitTypes
<1> QED
  BY <1>1, <1>3, <1>4, <1>5, EndFacts, RunnerStep

LEMMA ApplyBodyIInv ==
    ASSUME NEW r \in Runners, NEW f \in Files, IInv, ApplyBody(r, f)
    PROVE  IInv'
<1> DEFINE content == call[r].checkout[f]
           c == [call[r] EXCEPT !.pc = "indexing", !.statement = 0]
<1>1. /\ Commit(f, content) /\ UNCHANGED repository
      /\ call \in [Runners -> CallType] /\ call[r] \in CallType /\ CallInv(r)
      /\ call[r].pc = "applying" /\ IsNext(r, f)
  BY DEF ApplyBody, IInv, TypeOK
<1>2. content \in Contents
  BY NextHasContent DEF ApplyBody
<1>3. c \in CallType
  BY <1>1 DEF CallType
<1>4. call' = [call EXCEPT ![r] = c]
  BY <1>1 DEF ApplyBody
<1>5. /\ c.pc = "indexing" /\ c.statement = 0
      /\ c.pending = call[r].pending /\ c.checkout = call[r].checkout
      /\ c.dry = call[r].dry /\ c.applied = call[r].applied
  BY <1>1 DEF CallType
<1> HIDE DEF c
<1>6. call' \in [Runners -> CallType] /\ OnlyCall(r) /\ call'[r] = c
  BY <1>1, <1>3, <1>4, CallSet
<1>7. /\ Grows /\ RowsAreLog' /\ rows'[f] = content /\ Recorded' = Recorded \cup {f}
      /\ rows' \in Trees /\ log' \in Seq([file : Files, content : Contents])
      /\ UNCHANGED <<tableExists, built, repository>>
  BY <1>1, <1>2, CommitFacts DEF IInv
<1>8. CallInv(r)'
  <2>1. FromPublished(r)'
    BY <1>1, <1>5, <1>6, <1>7 DEF CallInv, FromPublished, Active, Present, repository
  <2>2. BehindRecorded(r)'
    BY <1>1, <1>5, <1>6, <1>7 DEF CallInv, BehindRecorded, Present
  <2>3. \A g \in Files : IsNext(r, g)' => g = f
    <3>1. IsNext(r, f)' /\ call'[r].pending = call[r].pending
      BY <1>1, <1>5, <1>6 DEF IsNext
    <3> QED
      BY <3>1, OnlyOneNext
  <2>4. BuildingRecorded(r)'
    BY <1>5, <1>6, <1>7, <2>3 DEF BuildingRecorded
  <2>5. DoneIsDone(r)'
    BY <1>1, <1>5, <1>6, <1>7 DEF CallInv, DoneIsDone, Indexed, Grows
  <2>6. OkLeavesNothing(r)' /\ Checks(r)'
    BY <1>5, <1>6 DEF OkLeavesNothing, Checks
  <2> QED
    BY <2>1, <2>2, <2>4, <2>5, <2>6 DEF CallInv
<1>9. TypeOK'
  BY <1>6, <1>7, CommitTypes
<1> QED
  BY <1>6, <1>7, <1>8, <1>9, RunnerStep

LEMMA LockIInv ==
    ASSUME NEW r \in Runners, NEW f \in Files, IInv, LockTimesOut(r, f)
    PROVE  IInv'
<1> DEFINE c == [call[r] EXCEPT !.attempt = @ + 1]
<1>1. /\ UNCHANGED <<database, repository>>
      /\ call \in [Runners -> CallType] /\ call[r] \in CallType /\ CallInv(r)
      /\ call[r].pc = "applying" /\ call[r].attempt < MaxRetries
  BY DEF LockTimesOut, MayRetry, IInv, TypeOK
<1>2. call[r].attempt + 1 \in 0 .. MaxRetries
  BY <1>1, MigrationAssumption DEF CallType
<1>3. c \in CallType
  BY <1>1, <1>2 DEF CallType
<1>4. call' = [call EXCEPT ![r] = c]
  BY <1>1 DEF LockTimesOut
<1>5. /\ c.pc = "applying" /\ c.pending = call[r].pending /\ c.checkout = call[r].checkout
      /\ c.dry = call[r].dry /\ c.applied = call[r].applied
  BY <1>1 DEF CallType
<1> HIDE DEF c
<1>6. call' \in [Runners -> CallType] /\ OnlyCall(r) /\ call'[r] = c
  BY <1>1, <1>3, <1>4, CallSet
<1>7. /\ Recorded' = Recorded /\ UNCHANGED <<rows, built, published>>
      /\ Present(call[r].checkout)' = Present(call[r].checkout)
  BY <1>1, <1>5, <1>6 DEF Recorded, Present, database, repository
<1>8. CallInv(r)'
  BY <1>1, <1>5, <1>6, <1>7 DEF CallInv, FromPublished, BehindRecorded, BuildingRecorded,
                                DoneIsDone, OkLeavesNothing, Checks, Active, Indexed
<1> QED
  BY <1>1, <1>6, <1>8, CallStep

LEMMA BuildIndexIInv ==
    ASSUME NEW r \in Runners, NEW f \in Files, IInv, BuildIndex(r, f)
    PROVE  IInv'
<1> DEFINE c == [call[r] EXCEPT !.statement = @ + 1]
           k == call[r].statement + 1
<1>1. /\ UNCHANGED <<tableExists, rows, log, repository>> /\ built' = built \cup {<<f, k>>}
      /\ call \in [Runners -> CallType] /\ call[r] \in CallType /\ CallInv(r)
      /\ call[r].pc = "indexing" /\ IsNext(r, f)
  BY DEF BuildIndex, IInv, TypeOK
<1>2. k \in Nat /\ call[r].statement \in Nat
  BY <1>1 DEF CallType
<1>3. c \in CallType
  BY <1>1, <1>2 DEF CallType
<1>4. call' = [call EXCEPT ![r] = c]
  BY <1>1 DEF BuildIndex
<1>5. /\ c.pc = "indexing" /\ c.pending = call[r].pending /\ c.checkout = call[r].checkout
      /\ c.dry = call[r].dry /\ c.applied = call[r].applied /\ c.statement = k
  BY <1>1 DEF CallType
<1> HIDE DEF c
<1>6. call' \in [Runners -> CallType] /\ OnlyCall(r) /\ call'[r] = c
  BY <1>1, <1>3, <1>4, CallSet
<1>7. /\ Recorded' = Recorded /\ Grows
      /\ Present(call[r].checkout)' = Present(call[r].checkout)
  BY <1>1, <1>5, <1>6, LogStays DEF Recorded, Present, Grows, repository, IInv
<1>8. BuildingRecorded(r)'
  <2>1. \A g \in Files : IsNext(r, g)' => g = f
    <3>1. IsNext(r, f)' /\ call'[r].pending = call[r].pending
      BY <1>1, <1>5, <1>6 DEF IsNext
    <3> QED
      BY <3>1, OnlyOneNext
  <2>2. /\ f \in Recorded /\ rows[f] = call[r].checkout[f]
        /\ \A j \in 1 .. call[r].statement : <<f, j>> \in built
    BY <1>1 DEF CallInv, BuildingRecorded
  <2>3. \A j \in 1 .. k : <<f, j>> \in built'
    BY <1>1, <1>2, <2>2
  <2> HIDE DEF k
  <2> QED
    BY <1>1, <1>5, <1>6, <1>7, <2>1, <2>2, <2>3 DEF BuildingRecorded
<1>9. CallInv(r)'
  <2>1. FromPublished(r)' /\ BehindRecorded(r)' /\ OkLeavesNothing(r)' /\ Checks(r)'
    BY <1>1, <1>5, <1>6, <1>7 DEF CallInv, FromPublished, BehindRecorded, OkLeavesNothing,
                                  Checks, Active, repository
  <2>2. DoneIsDone(r)'
    BY <1>1, <1>5, <1>6, <1>7 DEF CallInv, DoneIsDone, Indexed, Grows
  <2> QED
    BY <1>8, <2>1, <2>2 DEF CallInv
<1>10. TypeOK'
  <2>1. built' \subseteq Files \X Nat
    BY <1>1, <1>2 DEF IInv, TypeOK
  <2> QED
    BY <1>1, <1>6, <2>1 DEF IInv, TypeOK, repository
<1>11. RowsAreLog'
  BY <1>1, <1>7 DEF IInv, RowsAreLog
<1> QED
  BY <1>1, <1>6, <1>7, <1>9, <1>10, <1>11, RunnerStep

LEMMA FileAppliedIInv ==
    ASSUME NEW r \in Runners, NEW f \in Files, IInv, FileApplied(r, f)
    PROVE  IInv'
<1> DEFINE left == call[r].pending \ {f}
           place == IF left = {} THEN "returned" ELSE "applying"
           done == call[r].applied \cup {f}
           c == [call[r] EXCEPT !.pc = place, !.pending = left, !.attempt = 0, !.statement = 0,
                                !.applied = done]
<1>1. /\ UNCHANGED <<database, repository>>
      /\ call \in [Runners -> CallType] /\ call[r] \in CallType /\ CallInv(r)
      /\ call[r].pc = "indexing" /\ IsNext(r, f) /\ call[r].statement = Statements[f]
  BY DEF FileApplied, IndexesDone, IInv, TypeOK
<1>2. /\ left \subseteq Files /\ done \subseteq Files
      /\ place \in {"returned", "applying"} /\ place # "indexing"
      /\ place = "returned" => left = {}
      /\ 0 \in 0 .. MaxRetries
  BY <1>1, MigrationAssumption DEF CallType
<1>3. call' = [call EXCEPT ![r] = c]
  BY <1>1 DEF FileApplied
<1> HIDE DEF left, place, done
<1>4. c \in CallType
  BY <1>1, <1>2 DEF CallType
<1>5. /\ c.pc = place /\ c.pending = left /\ c.checkout = call[r].checkout
      /\ c.dry = call[r].dry /\ c.applied = done
  BY <1>1 DEF CallType
<1> HIDE DEF c
<1>6. call' \in [Runners -> CallType] /\ OnlyCall(r) /\ call'[r] = c
  BY <1>1, <1>3, <1>4, CallSet
<1>7. /\ Recorded' = Recorded /\ UNCHANGED <<rows, built, published>>
      /\ Present(call[r].checkout)' = Present(call[r].checkout)
  BY <1>1, <1>5, <1>6 DEF Recorded, Present, database, repository
<1>8. f \in Recorded /\ rows[f] = call[r].checkout[f] /\ Indexed(f)
  BY <1>1 DEF CallInv, BuildingRecorded, Indexed
<1>9. /\ left \subseteq Present(call[r].checkout)
      /\ Present(call[r].checkout) \ left \subseteq Recorded
  BY <1>1, <1>8 DEF CallInv, BehindRecorded, left
<1>10. CallInv(r)'
  <2>1. FromPublished(r)'
    BY <1>1, <1>5, <1>6, <1>7 DEF CallInv, FromPublished, Active
  <2>2. BehindRecorded(r)' /\ OkLeavesNothing(r)' /\ Checks(r)'
    BY <1>2, <1>5, <1>6, <1>7, <1>9 DEF BehindRecorded, OkLeavesNothing, Checks
  <2>3. BuildingRecorded(r)'
    <3>1. call'[r].pc # "indexing"
      BY <1>2, <1>5, <1>6
    <3> QED
      BY <3>1 DEF BuildingRecorded
  <2>4. DoneIsDone(r)'
    BY <1>1, <1>5, <1>6, <1>7, <1>8 DEF CallInv, DoneIsDone, Indexed, done
  <2> QED
    BY <2>1, <2>2, <2>3, <2>4 DEF CallInv
<1> QED
  BY <1>1, <1>6, <1>10, CallStep

(* Steps of no runner: the calls stay as they are.                        *)
LEMMA OtherStep ==
    ASSUME IInv, TypeOK', RowsAreLog', Grows, UNCHANGED call, (Present(source) \in published)'
    PROVE  IInv'
<1>0. (DOMAIN log = 1 .. Len(log))'
  BY LogFacts
<1>1. ASSUME NEW r \in Runners PROVE CallInv(r)'
  BY <1>0, KeptCall DEF IInv
<1> QED
  BY <1>1 DEF IInv

LEMMA EditIInv ==
    ASSUME NEW f \in Files, NEW content \in Contents \cup {Absent}, IInv, Edit(f, content)
    PROVE  IInv'
<1>1. /\ source' = [source EXCEPT ![f] = content] /\ edits' = edits + 1
      /\ published' = published \cup {Present(source')} /\ UNCHANGED <<database, call>>
  BY DEF Edit
<1>2. Grows
  BY <1>1, LogStays DEF Grows, database, IInv
<1>3. RowsAreLog' /\ (Present(source) \in published)'
  BY <1>1 DEF IInv, RowsAreLog, Recorded, database, Present
<1>4. source' \in Trees /\ published' \subseteq SUBSET Files /\ edits' \in Nat
  BY <1>1 DEF IInv, TypeOK, Trees, Present
<1>5. TypeOK'
  BY <1>1, <1>4 DEF IInv, TypeOK, database
<1> QED
  BY <1>1, <1>2, <1>3, <1>5, OtherStep

LEMMA EnsureIInv == ASSUME IInv, EnsureTrackingTable PROVE IInv'
<1>1. tableExists' = TRUE /\ UNCHANGED <<rows, built, log, repository, call>>
  BY DEF EnsureTrackingTable
<1>2. Grows /\ RowsAreLog' /\ (Present(source) \in published)'
  BY <1>1, LogStays DEF Grows, IInv, RowsAreLog, Recorded, repository, Present
<1>3. TypeOK'
  BY <1>1 DEF IInv, TypeOK, repository
<1> QED
  BY <1>1, <1>2, <1>3, OtherStep

LEMMA StutterIInv == ASSUME IInv, UNCHANGED vars PROVE IInv'
<1>1. UNCHANGED <<source, tableExists, rows, built, call, published, log, edits>>
  BY DEF vars, database, repository
<1>2. Grows /\ RowsAreLog' /\ (Present(source) \in published)'
  BY <1>1, LogStays DEF Grows, IInv, RowsAreLog, Recorded, Present
<1>3. TypeOK'
  BY <1>1 DEF IInv, TypeOK
<1> QED
  BY <1>1, <1>2, <1>3, OtherStep

LEMMA NextIInv == IInv /\ [Next]_vars => IInv'
<1> SUFFICES ASSUME IInv, [Next]_vars PROVE IInv'
  OBVIOUS
<1>1. ASSUME NEW f \in Files, NEW content \in Contents \cup {Absent}, Edit(f, content)
      PROVE  IInv'
  BY <1>1, EditIInv
<1>2. CASE EnsureTrackingTable
  BY <1>2, EnsureIInv
<1>3. ASSUME NEW r \in Runners, NEW dry \in BOOLEAN, Materialize(r, dry) PROVE IInv'
  BY <1>3, MaterializeIInv
<1>7. ASSUME NEW r \in Runners, ListFiles(r) PROVE IInv'
  BY <1>7, ListFilesIInv
<1>4. ASSUME NEW r \in Runners, Work(r) PROVE IInv'
  BY <1>4, FetchAppliedIInv, FetchRaisesIInv, CompareAppliedIInv, ApplyBodyIInv, UnansweredIInv, LockIInv,
     BodyFailsIInv, BuildIndexIInv, FileAppliedIInv, NotifierRaisesIInv DEF Work
<1>5. ASSUME NEW r \in Runners, Crash(r) PROVE IInv'
  BY <1>5, CrashIInv
<1>6. CASE UNCHANGED vars
  BY <1>6, StutterIInv
<1> QED
  BY <1>1, <1>2, <1>3, <1>4, <1>5, <1>6, <1>7 DEF Next

LEMMA Invariant == Spec => []IInv
BY InitIInv, NextIInv, PTL DEF Spec

(* The variables keep their types: in particular no call retries a lock   *)
(* more than max_retries times.                                           *)
THEOREM TypeCorrect == Spec => []TypeOK
BY Invariant, PTL DEF IInv

(* What calls report stays true, however many of them race and crash.     *)
THEOREM ReportsStayTrue == Spec => []ReportsAreTrue
<1>1. IInv => ReportsAreTrue
  BY DEF IInv, CallInv, DoneIsDone, OkLeavesNothing, ReportsAreTrue, AppliedIsDone, OkIsUpToDate
<1> QED
  BY <1>1, Invariant, PTL

(* What check_pending() says of its listing is true of the bodies that    *)
(* ran, however many calls and edits fall between the listing and its     *)
(* SELECT: no drift older than the check is missed, none is made up, and  *)
(* what is in neither list is in sync.                                    *)
THEOREM DriftIsAlwaysSeen == Spec => []DriftIsSeen
<1>1. IInv => DriftIsSeen
  BY DEF IInv, CallInv, Checks, DriftIsSeen
<1> QED
  BY <1>1, Invariant, PTL

----------------------------------------------------------------------------
(* The files of the log, as SchemaHistory sees them.                      *)
FilesRun == [i \in DOMAIN log |-> log[i].file]

HistoryStep == [History!Next]_(History!vars)

LEMMA RanIsRecorded ==
    ASSUME IInv, NEW f \in Files
    PROVE  History!Ran(f) <=> f \in Recorded
<1>1. \A i \in DOMAIN log : log[i].file = f => f \in Recorded
  <2> SUFFICES ASSUME NEW i \in DOMAIN log, log[i].file = f PROVE rows[f] # Absent
    BY DEF Recorded
  <2> DEFINE Line == [file : Files, content : Contents]
  <2>1. log \in Seq(Line)
    BY DEF IInv, TypeOK
  <2> HIDE DEF Line
  <2>2. log[i] \in Line
    BY <2>1
  <2> QED
    BY <2>2, MigrationAssumption DEF Line, IInv, RowsAreLog
<1>2. f \in Recorded => \E i \in DOMAIN log : log[i].file = f
  BY DEF IInv, RowsAreLog
<1> QED
  BY <1>1, <1>2 DEF History!Ran

(* Any step that leaves log and source history alone is invisible above.  *)
LEMMA HistoryStutter ==
    ASSUME UNCHANGED <<log, published>>
    PROVE  HistoryStep
BY DEF HistoryStep, History!vars

LEMMA CommitIsApply ==
    ASSUME NEW r \in Runners, NEW f \in Files, IInv, call[r].pc = "applying", IsNext(r, f),
           Commit(f, call[r].checkout[f]), UNCHANGED repository
    PROVE  HistoryStep
<1> DEFINE content == call[r].checkout[f]
           line == [file |-> f, content |-> content]
           Line == [file : Files, content : Contents]
<1>1. content \in Contents
  BY NextHasContent
<1>2. rows[f] = Absent /\ log' = Append(log, line) /\ log \in Seq(Line)
  BY DEF Commit, IInv, TypeOK
<1>3. FromPublished(r) /\ BehindRecorded(r)
  BY DEF IInv, CallInv
<1>4. ~History!Ran(f)
  BY <1>2, RanIsRecorded DEF Recorded
<1>5. /\ Present(call[r].checkout) \in published
      /\ f \in Present(call[r].checkout)
      /\ \A g \in Present(call[r].checkout) : g < f => g \in Recorded
  <2>1. \A g \in Files : g < f => ~(f <= g)
    BY MigrationAssumption
  <2> QED
    BY <1>3, <2>1 DEF FromPublished, BehindRecorded, Active, IsNext, Present
<1>6. \A g \in Present(call[r].checkout) : g < f => History!Ran(g)
  BY <1>5, RanIsRecorded DEF Present
<1>7. FilesRun' = Append(FilesRun, f)
  <2>1. line \in Line /\ line.file = f
    BY <1>1
  <2> HIDE DEF line, Line
  <2>2. /\ DOMAIN log = 1 .. Len(log) /\ DOMAIN log' = 1 .. Len(log) + 1 /\ Len(log) \in Nat
        /\ log'[Len(log) + 1] = line
        /\ \A i \in 1 .. Len(log) : log'[i] = log[i] /\ log[i] \in Line
    BY <1>2, <2>1
  <2>3. \A i \in 1 .. Len(log) : log[i].file \in Files
    BY <2>2 DEF Line
  <2>4. FilesRun = [i \in 1 .. Len(log) |-> log[i].file]
    BY <2>2 DEF FilesRun
  <2>5. FilesRun \in Seq(Files) /\ Len(FilesRun) = Len(log)
    BY <2>2, <2>3, <2>4
  <2>6. FilesRun' = [i \in 1 .. Len(log) + 1 |-> log'[i].file]
    BY <2>2 DEF FilesRun
  <2>7. /\ DOMAIN Append(FilesRun, f) = 1 .. Len(log) + 1
        /\ \A i \in 1 .. Len(log) + 1 :
             Append(FilesRun, f)[i] = IF i = Len(log) + 1 THEN f ELSE FilesRun[i]
    BY <2>2, <2>5
  <2>8. \A i \in 1 .. Len(log) + 1 : log'[i].file = Append(FilesRun, f)[i]
    BY <2>1, <2>2, <2>4, <2>7
  <2>9. Append(FilesRun, f) \in Seq(Files) /\ Len(Append(FilesRun, f)) = Len(log) + 1
    BY <2>2, <2>5
  <2>10. FilesRun' \in Seq(Files) /\ Len(FilesRun') = Len(log) + 1
    <3>1. \A i \in 1 .. Len(log) + 1 : log'[i].file \in Files
      BY <2>1, <2>2, <2>3
    <3> QED
      BY <2>2, <2>6, <3>1
  <2>11. \A i \in 1 .. Len(log) + 1 : FilesRun'[i] = Append(FilesRun, f)[i]
    BY <2>6, <2>8
  <2> HIDE DEF FilesRun
  <2> QED
    BY <2>9, <2>10, <2>11, SeqEqual
<1>8. published' = published
  BY DEF repository
<1>9. History!Apply(f)
  BY <1>4, <1>5, <1>6, <1>7, <1>8 DEF History!Apply, FilesRun
<1> QED
  BY <1>9 DEF HistoryStep, History!Next

LEMMA NextHistory == IInv /\ [Next]_vars => HistoryStep
<1> SUFFICES ASSUME IInv, [Next]_vars PROVE HistoryStep
  OBVIOUS
<1>1. ASSUME NEW f \in Files, NEW content \in Contents \cup {Absent}, Edit(f, content)
      PROVE  HistoryStep
  <2>1. published' = published \cup {Present(source')} /\ log' = log
    BY <1>1 DEF Edit, database
  <2>2. Present(source') \in SUBSET Files
    BY DEF Present
  <2>3. History!Publish(Present(source'))
    BY <2>1 DEF History!Publish
  <2> QED
    BY <2>2, <2>3 DEF HistoryStep, History!Next
<1>2. CASE EnsureTrackingTable
  BY <1>2, HistoryStutter DEF EnsureTrackingTable, repository
<1>3. ASSUME NEW r \in Runners, NEW dry \in BOOLEAN, Materialize(r, dry) PROVE HistoryStep
  BY <1>3, HistoryStutter DEF Materialize, database, repository
<1>7. ASSUME NEW r \in Runners, ListFiles(r) PROVE HistoryStep
  BY <1>7, HistoryStutter DEF ListFiles, database, repository
<1>4. ASSUME NEW r \in Runners, Work(r) PROVE HistoryStep
  <2>1. CASE FetchApplied(r) \/ FetchRaises(r) \/ CompareApplied(r)
    BY <2>1, HistoryStutter DEF FetchApplied, FetchRaises, CompareApplied, database, repository
  <2>2. ASSUME NEW f \in Files, ApplyBody(r, f) \/ ApplyBodyUnanswered(r, f) PROVE HistoryStep
    BY <2>2, CommitIsApply DEF ApplyBody, ApplyBodyUnanswered
  <2>3. ASSUME NEW f \in Files,
               LockTimesOut(r, f) \/ BodyFails(r, f) \/ BuildIndex(r, f) \/ IndexFails(r, f)
                 \/ FileApplied(r, f) \/ NotifierRaises(r, f)
        PROVE  HistoryStep
    BY <2>3, HistoryStutter DEF LockTimesOut, BodyFails, BuildIndex, IndexFails, FileApplied,
                                NotifierRaises, database, repository
  <2> QED
    BY <1>4, <2>1, <2>2, <2>3 DEF Work
<1>5. ASSUME NEW r \in Runners, Crash(r) PROVE HistoryStep
  BY <1>5, HistoryStutter DEF Crash, database, repository
<1>6. CASE UNCHANGED vars
  BY <1>6, HistoryStutter DEF vars, database, repository
<1> QED
  BY <1>1, <1>2, <1>3, <1>4, <1>5, <1>6, <1>7 DEF Next

LEMMA InitHistory == Init => History!Init
<1> SUFFICES ASSUME Init PROVE History!Init
  OBVIOUS
<1>1. FilesRun = [i \in {} |-> log[i].file]
  BY DEF Init, FilesRun
<1>2. FilesRun \in Seq(Files) /\ Len(FilesRun) = 0
  BY <1>1
<1>3. FilesRun = <<>>
  BY <1>2, EmptySeq
<1>4. Present(source) \in SUBSET Files /\ published = {Present(source)}
  BY DEF Init, Present
<1> QED
  BY <1>3, <1>4 DEF History!Init, FilesRun

(* However many calls race, crash or lose an answer, bodies take effect   *)
(* at most once each, forward only and without holes.                     *)
THEOREM MigratesForwardOnly == Spec => ForwardOnly
<1>1. IInv /\ [Next]_vars => [History!Next]_(History!vars)
  BY NextHistory DEF HistoryStep
<1> QED
  BY <1>1, Invariant, InitHistory, PTL DEF Spec, ForwardOnly, History!Spec
=============================================================================
