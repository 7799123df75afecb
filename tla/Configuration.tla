---------------------------- MODULE Configuration ----------------------------
(***************************************************************************)
(* ops_engine/config_loader.py and what reads or rewrites an organisation's *)
(* config.yml (Layer 2) and a repository's .ops.yaml (Layer 3): the engine  *)
(* in memory, mirror.py's resolve_destinations(), the release workflow, and *)
(* the scripts migrate-org-keys, mirror-destination-audit and              *)
(* mirror-destination-propose.  The files change under all of them.        *)
(*                                                                         *)
(* A step is one command or one call: none of them waits while it reads or *)
(* writes a file.  An organisation has one repository.  Of a section, what *)
(* decides where refs are pushed is kept; a glob list is declared or not.  *)
(***************************************************************************)
EXTENDS Naturals, Sequences

CONSTANTS
    Keys,           \* spellings of organisation names
    Lower,          \* str.lower() of a spelling
    Position,       \* the order in which a file holds its keys
    None,           \* nothing there; null
    Unset,          \* a field a .ops.yaml does not set
    Malformed,      \* a .ops.yaml that is no mapping, or no YAML
    Repos,          \* destinations' repo fields, as [owner, name]
    Mirrors,        \* `mirror' sections
    RepoConfigs,    \* what a config.yml may say of a repository
    Overlays,       \* what a .ops.yaml may set
    Files,          \* what the operator may write into config.yml
    MaxEdits        \* bound: edits of the two files

Layouts == {"orgs", "top", "broken"}
DestinationTypes ==
    [forge : {"github", "gitlab", "forgejo", "local"}, repo : Repos,
     role : {"mirror", "release", "replica"},
     visibility : {"public", "private", "undeclared"}, host : BOOLEAN]
MirrorTypes ==
    [github : Repos \cup {None}, url : Repos \cup {None}, forge : {"github", "forgejo"},
     visibility : {"public", "private", "undeclared"}]
Sections == [repo : RepoConfigs \cup {None}, login : Keys \cup {None}]
FileTypes == [layout : Layouts, orgs : [Keys -> Sections \cup {None}]]

ASSUME ConfigurationAssumption ==
    /\ Lower \in [Keys -> Keys] /\ \A k \in Keys : Lower[Lower[k]] = Lower[k]
    /\ Position \in [Keys -> Nat]
    /\ \A j, k \in Keys : Position[j] = Position[k] => j = k
    /\ \A S \in SUBSET Keys : S # {} =>
          \E k \in S : \A j \in S : Position[k] <= Position[j]
    /\ None \notin Keys /\ None \notin Sections /\ None \notin RepoConfigs
    /\ None \notin FileTypes
    /\ None \notin [Keys -> Sections \cup {None}]
    /\ Unset \notin Mirrors \cup {None} /\ Unset \notin Seq(DestinationTypes)
    /\ Unset \notin BOOLEAN
    /\ Mirrors \subseteq MirrorTypes
    /\ RepoConfigs \subseteq [destinations : Seq(DestinationTypes),
                              mirror : Mirrors \cup {None}, globs : BOOLEAN]
    /\ Overlays \subseteq [destinations : Seq(DestinationTypes) \cup {Unset},
                           mirror : Mirrors \cup {None, Unset},
                           globs : BOOLEAN \cup {Unset}]
    /\ None \notin Overlays /\ Malformed \notin Overlays /\ None # Malformed
    /\ Malformed \notin [destinations : Seq(DestinationTypes),
                         mirror : Mirrors \cup {None}, globs : BOOLEAN]
    /\ Files \subseteq FileTypes
    /\ MaxEdits \in Nat

VARIABLES
    file,           \* config.yml: its layout and its organisations
    overlay,        \* the repository's .ops.yaml
    config,         \* the organisations of the configuration in force
    recorded,       \* the file whose hash last_config_sha256() reports
    said,           \* what the last command answered
    edits

vars == <<file, overlay, config, recorded, said, edits>>

NoOrgs == [k \in Keys |-> None]
Silent == [by |-> "nobody", key |-> None, ok |-> FALSE, list |-> <<>>,
           globs |-> FALSE, rows |-> {}]

(* The operations named X_Y are faulty variants of X, each a bug this      *)
(* code could have had; no specification uses them.                        *)

----------------------------------------------------------------------------
(* RepoConfig and its validators.                                          *)
Aliased(m) == m # None /\ (m.github # None \/ m.url # None)
Reachable(d) == d.host \/ d.forge \in {"github", "gitlab"}
Declares(v) == v \in {"public", "private"}
DestinationsValid(ds) ==
    \A i \in DOMAIN ds : ds[i].role = "mirror" =>
        Declares(ds[i].visibility) /\ Reachable(ds[i])
MirrorValid(m) == Aliased(m) => Declares(m.visibility)

(* _require_candidate_globs()                                              *)
GlobsDeclared(c) ==
    \/ c.globs
    \/ /\ \A i \in DOMAIN c.destinations :
             c.destinations[i].role = "mirror" => c.destinations[i].visibility # "public"
       /\ Aliased(c.mirror) => c.mirror.visibility # "public"
Valid(c) ==
    DestinationsValid(c.destinations) /\ MirrorValid(c.mirror) /\ GlobsDeclared(c)

(* The deprecated aliases; mirror.github wins over mirror_url.             *)
Alias(m) ==
    IF ~Aliased(m) THEN <<>>
    ELSE <<[forge |-> IF m.github # None THEN "github" ELSE m.forge,
            repo |-> IF m.github # None THEN m.github ELSE m.url,
            role |-> "mirror", visibility |-> m.visibility, host |-> FALSE]>>
ResolveDestinations(c) == c.destinations \o Alias(c.mirror)

(* load_ops_yaml() checks the fields it sets; the globs are left for the   *)
(* merge, which checks nothing else.                                       *)
OverlayValid(o) ==
    /\ o # Malformed
    /\ o.destinations # Unset => DestinationsValid(o.destinations)
    /\ o.mirror # Unset => MirrorValid(o.mirror)
Over(set, below) == IF set = Unset THEN below ELSE set
Merged(c, o) == [destinations |-> Over(o.destinations, c.destinations),
                 mirror |-> Over(o.mirror, c.mirror),
                 globs |-> Over(o.globs, c.globs)]
MergeLayer3_Unchecked(c, o) == Merged(c, o)
MergeLayer3(c, o) == IF GlobsDeclared(Merged(c, o)) THEN Merged(c, o) ELSE Malformed

(* get_repo_config(): the key itself, else the first that lowers alike; a  *)
(* repository that is not listed has no destination.                       *)
Bare == [destinations |-> <<>>, mirror |-> None, globs |-> FALSE]
Alike(orgs, key) == {k \in Keys : orgs[k] # None /\ Lower[k] = Lower[key]}
Lookup(orgs, key) ==
    IF orgs[key] # None THEN orgs[key]
    ELSE IF Alike(orgs, key) = {} THEN None
    ELSE orgs[CHOOSE k \in Alike(orgs, key) :
                  \A j \in Alike(orgs, key) : Position[k] <= Position[j]]
RepoOf(section) == IF section.repo = None THEN Bare ELSE section.repo

(* mirror.py's resolve_destinations(): the configuration it was resolved   *)
(* from, or a refusal.                                                     *)
Resolved(orgs, key, o) ==
    IF Lookup(orgs, key) = None THEN Malformed
    ELSE IF o = None THEN RepoOf(Lookup(orgs, key))
    ELSE IF ~OverlayValid(o) THEN Malformed
    ELSE MergeLayer3(RepoOf(Lookup(orgs, key)), o)

SectionValid(s) == s.repo # None => Valid(s.repo)
Held(f) == {k \in Keys : f.orgs[k] # None}
(* OpsEngineConfig.load() reads `orgs:' and ignores any other key.         *)
Loadable_LayoutOnly(f) == f.layout # "broken"
Loadable(f) ==
    /\ f.layout # "broken"
    /\ f.layout = "orgs" => \A k \in Held(f) : SectionValid(f.orgs[k])
OrgsOf(f) == IF f.layout = "orgs" THEN f.orgs ELSE NoOrgs

(* migrate_orgs(): refuses two keys that lower alike; the old key becomes  *)
(* github.login unless there is one.                                       *)
Collides(f) == \E j, k \in Held(f) : j # k /\ Lower[j] = Lower[k]
Source(f, key) == CHOOSE k \in Held(f) : Lower[k] = key
Relogged(s, k) == IF s.login = None THEN [s EXCEPT !.login = k] ELSE s
Rekeyed(f) ==
    [layout |-> "orgs",
     orgs |-> [k \in Keys |->
        IF \E j \in Held(f) : Lower[j] = k
        THEN Relogged(f.orgs[Source(f, k)], Source(f, k)) ELSE None]]
Migratable_LastWins(f) == f.layout # "broken" /\ (f.layout = "top" => Held(f) # {})
Migratable(f) ==
    /\ f.layout # "broken" /\ (f.layout = "top" => Held(f) # {})
    /\ ~Collides(f)

(* mirror-destination-audit and -propose take each section by itself; one  *)
(* that is no organisation, or does not validate, is left out.             *)
IsOrgRoot(s) == s.repo # None \/ s.login # None
Roots(f) == {k \in Held(f) : (f.layout = "orgs" \/ IsOrgRoot(f.orgs[k]))
                               /\ SectionValid(f.orgs[k])}
Listed(f) == {k \in Roots(f) : f.orgs[k].repo # None}
Github(ds) == {i \in DOMAIN ds : ds[i].forge = "github"}
Earliest(ds) == ds[CHOOSE i \in Github(ds) : \A j \in Github(ds) : i <= j]
Row(k, class, repo) == [org |-> k, class |-> class, repo |-> repo]

(* classify_declared(): what GitHub answers, or could not be asked, for a  *)
(* name that is well formed.                                               *)
Class(repo, answers) ==
    IF repo.owner = None \/ repo.name = None THEN "5" ELSE answers[repo]
RowsOf_First(k, ds, answers) ==
    IF Github(ds) = {} THEN {Row(k, "4", None)}
    ELSE {Row(k, Class(Earliest(ds).repo, answers), Earliest(ds).repo)}
RowsOf(k, ds, answers) ==
    IF Github(ds) = {} THEN {Row(k, "4", None)}
    ELSE {Row(k, Class(ds[i].repo, answers), ds[i].repo) : i \in Github(ds)}
Census(f, answers) ==
    UNION {RowsOf(k, ResolveDestinations(f.orgs[k].repo), answers) : k \in Listed(f)}

(* propose_from_config(): the first on GitHub; an owner is not asked for.  *)
Proposal(k, ds) ==
    IF Github(ds) = {} THEN Row(k, "no-github-dest", None)
    ELSE IF Earliest(ds).repo.name = None THEN Row(k, "refused", None)
    ELSE Row(k, "paired", Earliest(ds).repo)
Proposals(f) == {Proposal(k, ResolveDestinations(f.orgs[k].repo)) : k \in Listed(f)}

----------------------------------------------------------------------------
Answers == [{r \in Repos : r.owner # None /\ r.name # None}
                -> {"1", "2", "3", "UNMEASURED"}]

Init ==
    /\ file \in Files
    /\ overlay = None
    /\ config = None /\ recorded = None
    /\ said = Silent
    /\ edits = 0

Edit == /\ edits < MaxEdits
        /\ edits' = edits + 1
        /\ said' = Silent
        /\ UNCHANGED <<config, recorded>>
WriteFile(f) ==
    /\ Edit
    /\ f # file /\ file' = f
    /\ UNCHANGED overlay
WriteOverlay(o) ==
    /\ Edit
    /\ o # overlay /\ overlay' = o
    /\ UNCHANGED file

Says(word) == said' = word
Reads == UNCHANGED <<file, overlay, edits>>

(* load_config_file(): the hash is recorded once the file is a             *)
(* configuration, and the caller keeps its old one if it is not.           *)
Load_HashFirst ==
    /\ Says([Silent EXCEPT !.by = "load", !.ok = Loadable(file)])
    /\ recorded' = file
    /\ config' = IF Loadable(file) THEN OrgsOf(file) ELSE config
    /\ Reads
Load ==
    /\ Says([Silent EXCEPT !.by = "load", !.ok = Loadable(file)])
    /\ recorded' = IF Loadable(file) THEN file ELSE recorded
    /\ config' = IF Loadable(file) THEN OrgsOf(file) ELSE config
    /\ Reads

(* The process starts again.                                               *)
Restart ==
    /\ config # None
    /\ config' = None /\ recorded' = None
    /\ Says(Silent)
    /\ Reads

(* A lookup by an organisation's key: a webhook's, or one a caller holds.  *)
Answer(by, key, c) ==
    IF c = Malformed THEN [Silent EXCEPT !.by = by, !.key = key]
    ELSE [by |-> by, key |-> key, ok |-> TRUE, rows |-> {},
          list |-> ResolveDestinations(c), globs |-> c.globs]
Resolve(key) ==
    /\ config # None
    /\ Says(Answer("resolve", key, Resolved(config, key, overlay)))
    /\ Reads /\ UNCHANGED <<config, recorded>>

(* canonical_org_key(): of full_name, else of the owner's username.        *)
CanonicalOrgKey(fullName, username) ==
    IF fullName # None THEN Lower[fullName]
    ELSE IF username # None THEN Lower[username] ELSE None
Deliver(fullName, username) ==
    LET key == CanonicalOrgKey(fullName, username)
    IN
    /\ config # None
    /\ Says(IF key = None THEN [Silent EXCEPT !.by = "resolve"]
            ELSE Answer("resolve", key, Resolved(config, key, overlay)))
    /\ Reads /\ UNCHANGED <<config, recorded>>

(* The release workflow builds a configuration of its own from the         *)
(* .ops.yaml: four fields of each destination, and no globs.               *)
Rebuilt(o) ==
    [destinations |-> [i \in DOMAIN o.destinations |->
                         [o.destinations[i] EXCEPT !.host = FALSE]],
     mirror |-> None, globs |-> FALSE]
WorkflowResolve ==
    LET o == overlay
        usable == /\ o # None /\ OverlayValid(o)
                  /\ o.destinations # Unset /\ o.destinations # <<>>
    IN
    /\ Says(Answer("workflow", None,
                   IF usable /\ Valid(Rebuilt(o)) THEN Rebuilt(o) ELSE Malformed))
    /\ Reads /\ UNCHANGED <<config, recorded>>

(* migrate-org-keys migrate --in-place, and check.                         *)
Migrate ==
    /\ Says([Silent EXCEPT !.by = "migrate", !.ok = Migratable(file)])
    /\ file' = IF Migratable(file) THEN Rekeyed(file) ELSE file
    /\ UNCHANGED <<overlay, config, recorded, edits>>
Canonical(f) == Migratable(f) /\ \A k \in Held(f) : Lower[k] = k
Check ==
    /\ Says([Silent EXCEPT !.by = "check", !.ok = Canonical(file)])
    /\ Reads /\ UNCHANGED <<config, recorded>>

Report(by, rows) ==
    LET reported == IF file.layout = "broken" THEN {} ELSE rows
    IN [Silent EXCEPT !.by = by, !.ok = reported # {}, !.rows = reported]
Audit(answers) ==
    /\ Says(Report("audit", Census(file, answers)))
    /\ Reads /\ UNCHANGED <<config, recorded>>
(* A connection that fails while a name is looked up ends the audit.       *)
AuditDies ==
    /\ \E answers \in Answers :
          \E r \in Report("audit", Census(file, answers)).rows : r.class \notin {"4", "5"}
    /\ Says([Silent EXCEPT !.by = "audit"])
    /\ Reads /\ UNCHANGED <<config, recorded>>
Propose ==
    /\ Says(Report("propose", Proposals(file)))
    /\ Reads /\ UNCHANGED <<config, recorded>>

Next ==
    \/ \E f \in Files : WriteFile(f)
    \/ \E o \in Overlays \cup {None, Malformed} : WriteOverlay(o)
    \/ Load \/ Restart \/ WorkflowResolve \/ Migrate \/ Check \/ Propose
    \/ \E key \in Keys : Resolve(key)
    \/ \E fullName, username \in Keys \cup {None} : Deliver(fullName, username)
    \/ \E answers \in Answers : Audit(answers)
    \/ AuditDies

Spec == Init /\ [][Next]_vars

----------------------------------------------------------------------------
Rows == [org : Keys, repo : Repos \cup {None},
         class : {"1", "2", "3", "4", "5", "UNMEASURED",
                  "paired", "no-github-dest", "refused"}]
Words == [by : {"nobody", "load", "resolve", "workflow", "migrate", "check",
                "audit", "propose"},
          key : Keys \cup {None}, ok : BOOLEAN, list : Seq(DestinationTypes),
          globs : BOOLEAN, rows : SUBSET Rows]

(* The values the variables take; the configuration in force is valid.     *)
TypeOK ==
    /\ file \in FileTypes
    /\ overlay \in Overlays \cup {None, Malformed}
    /\ config \in [Keys -> Sections \cup {None}] \cup {None}
    /\ config # None => \A k \in Keys : config[k] # None => SectionValid(config[k])
    /\ recorded \in FileTypes \cup {None}
    /\ said \in Words
    /\ edits \in 0..MaxEdits

(* Whatever was written into the two files, in whichever order, and        *)
(* whichever of them is newer than the configuration in force: a list of   *)
(* destinations that is handed on holds no mirror without a visibility,    *)
(* and a public mirror only together with candidate globs, for without     *)
(* them the gate would let everything through (OE-035 and OE-037,          *)
(* config_loader.py:423-503 and 559-576).                                  *)
GuardedDestinations ==
    said.ok => \A i \in DOMAIN said.list : said.list[i].role = "mirror" =>
        /\ Declares(said.list[i].visibility)
        /\ said.list[i].visibility = "public" => said.globs

(* The hash the process reports is the hash of the configuration it works  *)
(* with, and there is one if and only if there is a configuration: a load  *)
(* that fails, or a restart, parts neither from the other                  *)
(* (load_config_file(), config_loader.py:798-810).                         *)
RecordedIsInForce ==
    IF recorded = None THEN config = None
    ELSE Loadable(recorded) /\ config = OrgsOf(recorded)

(* A file that migrate-org-keys rewrites means what it meant: an           *)
(* organisation is found afterwards under every spelling, as the section   *)
(* it was found as before, and nothing is found that was not there         *)
(* (migrate-org-keys.py:93-131 against get_repo_config()).                 *)
MigrationKeepsLookups ==
    [][said'.by = "migrate" /\ said'.ok =>
          \A k \in Keys :
             LET before == Lookup(file.orgs, k)
                 after == Lookup(file'.orgs, k)
             IN IF before = None THEN after = None
                ELSE after # None /\ after.repo = before.repo
                     /\ (before.login # None => after.login = before.login)]_vars

(* No destination on GitHub to which the engine would publish, had it      *)
(* loaded this file and without a .ops.yaml, is missing from the audit;    *)
(* and what is proposed as a pairing is such a destination: the scripts    *)
(* take sections one by one, the engine all or none                        *)
(* (mirror-destination-audit.py:250-290, mirror-destination-propose.py).   *)
ReportsCoverTheEngine ==
    said.ok /\ file.layout = "orgs" /\ Loadable(file) =>
        /\ said.by = "audit" =>
             \A k \in Keys : LET c == Resolved(file.orgs, k, None) IN
                c # Malformed =>
                  \A i \in DOMAIN ResolveDestinations(c) :
                     ResolveDestinations(c)[i].forge = "github" =>
                        \E r \in said.rows : r.repo = ResolveDestinations(c)[i].repo
        /\ said.by = "propose" =>
             \A r \in said.rows : r.class = "paired" =>
                \E i \in DOMAIN ResolveDestinations(Resolved(file.orgs, r.org, None)) :
                   ResolveDestinations(Resolved(file.orgs, r.org, None))[i].repo = r.repo
=============================================================================
