---------------------------- MODULE TagIdentity ----------------------------
(***************************************************************************)
(* ops_engine/modules/tag_identity.py: push_canonical_tag() puts the       *)
(* canonical tag object of one release tag on the mirror and reads it     *)
(* back.  The layover and the release workflow call it, each in a clone of *)
(* its own, while the tag is moved on the canonical forge.                 *)
(*                                                                         *)
(* A step is one git command.  An object is named by its content, so every *)
(* clone that holds it agrees on the commit it peels to.                   *)
(***************************************************************************)
EXTENDS Naturals, Sequences

CONSTANTS
    Callers,        \* the processes that push the tag
    Objects,        \* tag objects and commits
    Peel,           \* the commit of an object; a commit is its own
    NoTag,
    MaxMoves,       \* bound: how often the canonical tag changes
    MaxForeign      \* bound: pushes to the mirror by others

ASSUME TagAssumption ==
    /\ Peel \in [Objects -> Objects] /\ \A o \in Objects : Peel[Peel[o]] = Peel[o]
    /\ NoTag \notin Objects
    /\ MaxMoves \in Nat /\ MaxForeign \in Nat

VARIABLES
    tags,           \* what the canonical tag has been; the last is what it is
    mirrorTag,      \* the tag on the mirror
    call,           \* the call of each process
    foreign,        \* pushes to the mirror by others
    \* history: read by no action
    settled         \* the newest version a call that returned had read

tagVars == <<tags, mirrorTag, call, foreign, settled>>

Now == Len(tags)
Tag == Objects \cup {NoTag}

(* ref: the tag in the clone; has: the version it was fetched at; obj,     *)
(* version: what was read from the canonical side; floor: `settled' when   *)
(* the call began.                                                         *)
NoPush == [at |-> "idle", ref |-> NoTag, has |-> 0, obj |-> NoTag, version |-> 0,
           floor |-> 0]

(* The operations named X_Y are faulty variants of X, each a bug this      *)
(* code could have had; no specification uses them.                        *)

Held(c) == UNION {{tags[v], Peel[tags[v]]} : v \in {v \in 1..call[c].has : tags[v] # NoTag}}

Goes(c, place) == call' = [call EXCEPT ![c].at = place]
Ends(c, how) == call' = [call EXCEPT ![c] = [NoPush EXCEPT !.at = how]]
Running(c) == call[c].at \in {"canonical", "restore", "push", "readback"}
Elsewhere == UNCHANGED <<tags, mirrorTag, foreign>>

----------------------------------------------------------------------------
TagInit ==
    /\ tags \in [1..1 -> Tag]
    /\ mirrorTag = NoTag
    /\ call = [c \in Callers |-> NoPush]
    /\ foreign = 0
    /\ settled = 0

(* Somebody moves, creates or deletes the canonical tag, or pushes a tag   *)
(* of his own to the mirror.                                               *)
MoveTag(o) ==
    /\ Now <= MaxMoves
    /\ o # tags[Now]
    /\ tags' = Append(tags, o)
    /\ UNCHANGED <<mirrorTag, call, foreign, settled>>
ForeignPush(o) ==
    /\ foreign < MaxForeign
    /\ foreign' = foreign + 1
    /\ mirrorTag' = o
    /\ UNCHANGED <<tags, call, settled>>

(* A call with a canonical credential, in a clone of any age.              *)
BeginPush(c, v) ==
    /\ ~Running(c)
    /\ call' = [call EXCEPT ![c] =
          [at |-> "canonical", ref |-> tags[v], has |-> v, obj |-> NoTag, version |-> 0,
           floor |-> settled]]
    /\ Elsewhere /\ UNCHANGED settled

(* The caller refuses before: a gate, or no canonical credential.          *)
Refuse(c) ==
    /\ ~Running(c)
    /\ Ends(c, "refused")
    /\ Elsewhere /\ UNCHANGED settled

(* ls-remote against the canonical forge.                                  *)
ReadCanonical_InTheClone(c) ==
    /\ call[c].at = "canonical"
    /\ call' = [call EXCEPT ![c].at = "restore", ![c].obj = call[c].ref,
                            ![c].version = call[c].has]
    /\ Elsewhere /\ UNCHANGED settled
ReadCanonical(c) ==
    /\ call[c].at = "canonical"
    /\ IF tags[Now] = NoTag THEN Ends(c, "refused")
       ELSE call' = [call EXCEPT ![c].at = "restore", ![c].obj = tags[Now],
                                 ![c].version = Now]
    /\ Elsewhere /\ UNCHANGED settled

(* cat-file, rev-parse and update-ref: the object must be in the clone and *)
(* peel as the forge says.                                                 *)
Restore(c) ==
    /\ call[c].at = "restore"
    /\ IF call[c].obj \in Held(c)
       THEN call' = [call EXCEPT ![c].at = "push", ![c].ref = call[c].obj]
       ELSE Ends(c, "refused")
    /\ Elsewhere /\ UNCHANGED settled

(* push --force of the object, never of the ref name.                      *)
PushObject_ByName(c) ==
    /\ call[c].at = "push"
    /\ mirrorTag' = call[c].ref
    /\ Goes(c, "readback")
    /\ UNCHANGED <<tags, foreign, settled>>
PushObject(c) ==
    /\ call[c].at = "push"
    /\ mirrorTag' = call[c].obj
    /\ Goes(c, "readback")
    /\ UNCHANGED <<tags, foreign, settled>>
(* The mirror has taken it, and git never hears so.                        *)
PushUnanswered(c) ==
    /\ call[c].at = "push"
    /\ mirrorTag' = call[c].obj
    /\ Ends(c, "refused")
    /\ UNCHANGED <<tags, foreign, settled>>

Highest(v, w) == IF v > w THEN v ELSE w
(* Object first, then peel.                                                *)
ReadBack(c) ==
    LET same == /\ mirrorTag = call[c].obj
                /\ Peel[mirrorTag] = Peel[call[c].obj]
    IN
    /\ call[c].at = "readback"
    /\ Ends(c, IF same THEN "returned" ELSE "refused")
    /\ settled' = IF same THEN Highest(settled, call[c].version) ELSE settled
    /\ Elsewhere

(* A git command fails without effect.                                     *)
GitFails(c) ==
    /\ Running(c)
    /\ Ends(c, "refused")
    /\ Elsewhere /\ UNCHANGED settled

(* A checkout in the clone fetches the tag anew, as +<commit>:<ref>.       *)
Checkout(c) ==
    /\ call[c].at \in {"canonical", "restore", "push"} /\ call[c].ref # NoTag
    /\ call' = [call EXCEPT ![c].ref = Peel[@]]
    /\ Elsewhere /\ UNCHANGED settled

(* The process stops, or has taken note of the end.                        *)
LetGo(c) ==
    /\ Ends(c, "idle")
    /\ Elsewhere /\ UNCHANGED settled

PushStep(c) ==
    \/ ReadCanonical(c) \/ Restore(c) \/ PushObject(c) \/ PushUnanswered(c)
    \/ ReadBack(c) \/ GitFails(c)

TagNext ==
    \/ \E o \in Tag : MoveTag(o) \/ ForeignPush(o)
    \/ \E c \in Callers :
          \/ \E v \in 1..Now : BeginPush(c, v)
          \/ Refuse(c) \/ PushStep(c) \/ Checkout(c) \/ LetGo(c)

TagSpec == TagInit /\ [][TagNext]_tagVars

----------------------------------------------------------------------------
(* The values the variables take; a call past its first read has read      *)
(* some version of the tag.                                                *)
TagTypeOK ==
    /\ tags \in Seq(Tag) /\ Now \in 1..MaxMoves + 1
    /\ mirrorTag \in Tag
    /\ call \in [Callers -> [at : {"idle", "canonical", "restore", "push", "readback",
                                   "returned", "refused"},
                             ref : Tag, obj : Tag, has : 0..Now, version : 0..Now,
                             floor : 0..Now]]
    /\ \A c \in Callers : call[c].at \in {"restore", "push", "readback"} =>
          call[c].version > 0 /\ call[c].obj # NoTag
    /\ foreign \in 0..MaxForeign
    /\ settled \in 0..Now

(* Whatever a checkout made of the tag in the clone, and however old the   *)
(* clone is, the engine puts nothing on the mirror that was not the        *)
(* canonical tag: an annotated tag never arrives as its commit             *)
(* (tag_identity.py:243-260).                                              *)
OnlyCanonicalObjects ==
    [][mirrorTag' # mirrorTag /\ foreign' = foreign =>
          \E v \in 1..Now : tags[v] = mirrorTag']_tagVars

(* The push is forced, so a call that read an older tag may overwrite a    *)
(* newer one; but only a call that was already running when the newer one  *)
(* was verified.  What a finished call reported is not taken back by a     *)
(* call that began after it (tag_identity.py:205-281).                     *)
LaterCallsNeverGoBack ==
    \A c \in Callers : call[c].at \in {"restore", "push", "readback"} =>
        call[c].version >= call[c].floor
=============================================================================
