--------------------------- MODULE SchemaHistory ---------------------------
(***************************************************************************)
(* What migrating a database promises, with nothing about how: the bodies *)
(* of the migration files take effect one at a time, each at most once,   *)
(* and a file's only after those of all lower-numbered files of some      *)
(* published state of the source: forward only, without holes.            *)
(***************************************************************************)
EXTENDS Naturals, Sequences

CONSTANT Files      \* version numbers

VARIABLES
    published,      \* every set of files the source has ever held
    log             \* the files in the order their bodies took effect

vars == <<published, log>>

Ran(f) == \E i \in DOMAIN log : log[i] = f

Init ==
    /\ \E present \in SUBSET Files : published = {present}
    /\ log = <<>>

Publish(present) ==
    /\ published' = published \cup {present}
    /\ UNCHANGED log

Apply(f) ==
    /\ ~Ran(f)
    /\ \E present \in published :
        /\ f \in present
        /\ \A g \in present : g < f => Ran(g)
    /\ log' = Append(log, f)
    /\ UNCHANGED published

Next ==
    \/ \E present \in SUBSET Files : Publish(present)
    \/ \E f \in Files : Apply(f)

Spec == Init /\ [][Next]_vars
=============================================================================
