-------------------------- MODULE Configuration_proof --------------------------
(***************************************************************************)
(* Proofs about Configuration, for every set of organisations, every       *)
(* config.yml and .ops.yaml and any number of edits: what is handed on is  *)
(* guarded, a migrated file means what it meant, and the reports of the    *)
(* scripts cover what the engine would publish to.                         *)
(***************************************************************************)
EXTENDS Configuration, SequenceTheorems, WellFoundedInduction, TLAPS

RepoConfigTypes ==
    [destinations : Seq(DestinationTypes), mirror : Mirrors \cup {None}, globs : BOOLEAN]
OrgsTypes == [Keys -> Sections \cup {None}]

(* Organisations that have been loaded.                                    *)
AllValid(orgs) == \A k \in Keys : orgs[k] # None => SectionValid(orgs[k])

Written ==
    /\ file \in FileTypes
    /\ overlay \in Overlays \cup {None, Malformed}
InForce == config # None => config \in OrgsTypes /\ AllValid(config)

(* The inductive invariant.                                                *)
IInv == Written /\ InForce /\ RecordedIsInForce /\ GuardedDestinations

(* A public mirror has globs, and every mirror a visibility.               *)
Guarded(list, globs) ==
    \A i \in DOMAIN list : list[i].role = "mirror" =>
        /\ Declares(list[i].visibility)
        /\ list[i].visibility = "public" => globs

(* What resolve_destinations() makes of a valid configuration is guarded.  *)
LEMMA ValidIsGuarded ==
    ASSUME NEW c \in RepoConfigTypes, Valid(c)
    PROVE  Guarded(ResolveDestinations(c), c.globs)
<1> DEFINE a == Alias(c.mirror)
<1>1. c.destinations \in Seq(DestinationTypes)
  BY DEF RepoConfigTypes
<1>2. /\ Len(c.destinations) \in Nat
      /\ DOMAIN c.destinations = 1..Len(c.destinations)
  BY <1>1, LenProperties
<1>3. ASSUME NEW i \in DOMAIN c.destinations, c.destinations[i].role = "mirror"
      PROVE  /\ Declares(c.destinations[i].visibility)
             /\ c.destinations[i].visibility = "public" => c.globs
  BY <1>3 DEF Valid, DestinationsValid, GlobsDeclared
<1>4. CASE ~Aliased(c.mirror)
  <2>1. ResolveDestinations(c) = c.destinations
    BY <1>1, <1>4, ConcatEmptySeq DEF ResolveDestinations, Alias
  <2> QED
    BY <1>3, <2>1 DEF Guarded
<1>5. CASE Aliased(c.mirror)
  <2> DEFINE d == [forge |-> IF c.mirror.github # None THEN "github" ELSE c.mirror.forge,
                   repo |-> IF c.mirror.github # None THEN c.mirror.github ELSE c.mirror.url,
                   role |-> "mirror", visibility |-> c.mirror.visibility, host |-> FALSE]
  <2>1. ResolveDestinations(c) = c.destinations \o <<d>>
    BY <1>5 DEF ResolveDestinations, Alias
  <2>2. d.visibility = c.mirror.visibility
    OBVIOUS
  <2>3. Declares(d.visibility) /\ (d.visibility = "public" => c.globs)
    BY <1>5, <2>2 DEF Valid, MirrorValid, GlobsDeclared
  <2> HIDE DEF d
  <2>4. /\ DOMAIN (c.destinations \o <<d>>) = 1..Len(c.destinations) + 1
        /\ \A i \in 1..Len(c.destinations) : (c.destinations \o <<d>>)[i] = c.destinations[i]
        /\ (c.destinations \o <<d>>)[Len(c.destinations) + 1] = d
    BY <1>1, <1>2
  <2>5. ASSUME NEW i \in 1..Len(c.destinations) + 1
        PROVE  i \in 1..Len(c.destinations) \/ i = Len(c.destinations) + 1
    BY <1>2
  <2> QED
    BY <1>2, <1>3, <2>1, <2>3, <2>4, <2>5 DEF Guarded
<1> QED
  BY <1>4, <1>5

LEMMA BareIsValid == Bare \in RepoConfigTypes /\ Valid(Bare)
<1>1. <<>> \in Seq(DestinationTypes)
  BY EmptySeq
<1> QED
  BY <1>1 DEF Bare, RepoConfigTypes, Valid, DestinationsValid, MirrorValid, GlobsDeclared,
              Aliased

(* get_repo_config() finds a section of the file, or none.                 *)
LEMMA LookupFinds ==
    ASSUME NEW orgs \in OrgsTypes, NEW key \in Keys
    PROVE  Lookup(orgs, key) = None \/
             \E k \in Keys : orgs[k] # None /\ Lookup(orgs, key) = orgs[k]
                             /\ Lower[k] = Lower[key]
<1>1. CASE orgs[key] # None
  BY <1>1 DEF Lookup
<1>2. CASE orgs[key] = None /\ Alike(orgs, key) = {}
  BY <1>2 DEF Lookup
<1>3. CASE orgs[key] = None /\ Alike(orgs, key) # {}
  <2> DEFINE First(k) == \A j \in Alike(orgs, key) : Position[k] <= Position[j]
  <2>1. \E k \in Alike(orgs, key) : First(k)
    <3>1. Alike(orgs, key) \in SUBSET Keys
      BY DEF Alike
    <3> QED
      BY <1>3, <3>1, ConfigurationAssumption
  <2>2. (CHOOSE k \in Alike(orgs, key) : First(k)) \in Alike(orgs, key)
    <3> HIDE DEF First
    <3> QED
      BY <2>1
  <2>3. Lookup(orgs, key) = orgs[CHOOSE k \in Alike(orgs, key) : First(k)]
    BY <1>3 DEF Lookup
  <2>4. PICK k \in Alike(orgs, key) : Lookup(orgs, key) = orgs[k]
    BY <2>2, <2>3
  <2> QED
    BY <2>4 DEF Alike
<1> QED
  BY <1>1, <1>2, <1>3

LEMMA FoundIsValid ==
    ASSUME NEW orgs \in OrgsTypes, AllValid(orgs), NEW key \in Keys, Lookup(orgs, key) # None
    PROVE  RepoOf(Lookup(orgs, key)) \in RepoConfigTypes /\ Valid(RepoOf(Lookup(orgs, key)))
<1>1. PICK k \in Keys : orgs[k] # None /\ Lookup(orgs, key) = orgs[k]
  BY LookupFinds
<1>2. orgs[k] \in Sections /\ SectionValid(orgs[k])
  BY <1>1 DEF OrgsTypes, AllValid
<1>3. CASE orgs[k].repo = None
  BY <1>1, <1>3, BareIsValid DEF RepoOf
<1>4. CASE orgs[k].repo # None
  <2>1. orgs[k].repo \in RepoConfigs /\ Valid(orgs[k].repo)
    BY <1>2, <1>4 DEF Sections, SectionValid
  <2>2. orgs[k].repo \in RepoConfigTypes
    BY <2>1, ConfigurationAssumption DEF RepoConfigTypes
  <2> QED
    BY <1>1, <1>4, <2>1, <2>2 DEF RepoOf
<1> QED
  BY <1>3, <1>4

(* Layer 3 over Layer 2: what the merge lets through is valid.             *)
LEMMA MergedIsValid ==
    ASSUME NEW c \in RepoConfigTypes, Valid(c), NEW o \in Overlays, OverlayValid(o),
           MergeLayer3(c, o) # Malformed
    PROVE  MergeLayer3(c, o) \in RepoConfigTypes /\ Valid(MergeLayer3(c, o))
<1> DEFINE m == [destinations |-> Over(o.destinations, c.destinations),
                 mirror |-> Over(o.mirror, c.mirror), globs |-> Over(o.globs, c.globs)]
<1>1. MergeLayer3(c, o) = m /\ GlobsDeclared(m)
  BY DEF MergeLayer3, Merged
<1>2. /\ o.destinations \in Seq(DestinationTypes) \cup {Unset}
      /\ o.mirror \in Mirrors \cup {None, Unset} /\ o.globs \in BOOLEAN \cup {Unset}
  BY ConfigurationAssumption
<1>3. /\ Over(o.destinations, c.destinations) \in Seq(DestinationTypes)
      /\ DestinationsValid(Over(o.destinations, c.destinations))
  BY <1>2 DEF Over, OverlayValid, Valid, RepoConfigTypes
<1>4. Over(o.mirror, c.mirror) \in Mirrors \cup {None} /\ MirrorValid(Over(o.mirror, c.mirror))
  BY <1>2 DEF Over, OverlayValid, Valid, RepoConfigTypes
<1>5. Over(o.globs, c.globs) \in BOOLEAN
  BY <1>2 DEF Over, RepoConfigTypes
<1>6. m \in RepoConfigTypes
  BY <1>3, <1>4, <1>5 DEF RepoConfigTypes
<1>7. DestinationsValid(m.destinations) /\ MirrorValid(m.mirror)
  BY <1>3, <1>4
<1> QED
  BY <1>1, <1>6, <1>7 DEF Valid

LEMMA ResolvedIsValid ==
    ASSUME NEW orgs \in OrgsTypes, AllValid(orgs), NEW key \in Keys,
           NEW o \in Overlays \cup {None, Malformed}, Resolved(orgs, key, o) # Malformed
    PROVE  Resolved(orgs, key, o) \in RepoConfigTypes /\ Valid(Resolved(orgs, key, o))
<1>1. Lookup(orgs, key) # None
  BY DEF Resolved
<1>2. RepoOf(Lookup(orgs, key)) \in RepoConfigTypes /\ Valid(RepoOf(Lookup(orgs, key)))
  BY <1>1, FoundIsValid
<1>3. CASE o = None
  BY <1>1, <1>2, <1>3 DEF Resolved
<1>4. CASE o # None
  <2>1. OverlayValid(o) /\ Resolved(orgs, key, o) = MergeLayer3(RepoOf(Lookup(orgs, key)), o)
    BY <1>1, <1>4 DEF Resolved
  <2>2. o \in Overlays
    BY <1>4, <2>1 DEF OverlayValid
  <2> QED
    BY <1>2, <2>1, <2>2, MergedIsValid
<1> QED
  BY <1>3, <1>4

----------------------------------------------------------------------------
LEMMA GuardedSaid == GuardedDestinations <=> (said.ok => Guarded(said.list, said.globs))
BY DEF GuardedDestinations, Guarded

(* An answer with the destinations of a valid configuration is guarded.    *)
LEMMA AnswerGuarded ==
    ASSUME NEW by, NEW key, NEW c, c = Malformed \/ (c \in RepoConfigTypes /\ Valid(c)),
           said' = Answer(by, key, c)
    PROVE  GuardedDestinations'
<1>1. CASE c = Malformed
  <2>1. said'.ok = FALSE
    BY <1>1 DEF Answer, Silent
  <2> QED
    BY <2>1 DEF GuardedDestinations
<1>2. CASE c # Malformed
  <2>1. said'.list = ResolveDestinations(c) /\ said'.globs = c.globs
    BY <1>2 DEF Answer
  <2>2. Guarded(said'.list, said'.globs)
    BY <1>2, <2>1, ValidIsGuarded
  <2> QED
    BY <2>2 DEF GuardedDestinations, Guarded
<1> QED
  BY <1>1, <1>2

(* Every other answer has no destinations.                                 *)
LEMMA NothingListed == ASSUME said'.list = <<>> PROVE GuardedDestinations'
<1>1. DOMAIN said'.list = {}
  OBVIOUS
<1> QED
  BY <1>1 DEF GuardedDestinations

LEMMA InitIInv == Init => IInv
<1> SUFFICES ASSUME Init PROVE IInv
  OBVIOUS
<1>1. Written /\ InForce /\ RecordedIsInForce
  BY ConfigurationAssumption DEF Init, Written, InForce, RecordedIsInForce
<1>2. said.ok = FALSE
  BY DEF Init, Silent
<1> QED
  BY <1>1, <1>2 DEF IInv, GuardedDestinations

LEMMA EditIInv ==
    ASSUME IInv,
           (\E f \in Files : WriteFile(f)) \/
           (\E o \in Overlays \cup {None, Malformed} : WriteOverlay(o))
    PROVE  IInv'
<1>1. UNCHANGED <<config, recorded>> /\ said' = Silent
  BY DEF WriteFile, WriteOverlay, Edit
<1>2. file' \in FileTypes /\ overlay' \in Overlays \cup {None, Malformed}
  BY ConfigurationAssumption DEF WriteFile, WriteOverlay, IInv, Written
<1>3. Written' /\ InForce' /\ RecordedIsInForce'
  BY <1>1, <1>2 DEF IInv, Written, InForce, RecordedIsInForce
<1>4. said'.list = <<>>
  BY <1>1 DEF Silent
<1> QED
  BY <1>3, <1>4, NothingListed DEF IInv

LEMMA LoadIInv == ASSUME IInv, Load PROVE IInv'
<1>1. /\ said' = [Silent EXCEPT !.by = "load", !.ok = Loadable(file)]
      /\ UNCHANGED <<file, overlay, edits>>
  BY DEF Load, Says, Reads
<1>2. said'.list = <<>>
  BY <1>1 DEF Silent
<1>3. Written' /\ file \in FileTypes
  BY <1>1 DEF IInv, Written
<1>4. CASE ~Loadable(file)
  <2>1. UNCHANGED <<config, recorded>>
    BY <1>4 DEF Load
  <2> QED
    BY <1>2, <1>3, <2>1, NothingListed DEF IInv, InForce, RecordedIsInForce
<1>5. CASE Loadable(file)
  <2>1. recorded' = file /\ config' = OrgsOf(file)
    BY <1>5 DEF Load
  <2>2. file # None /\ file.orgs \in OrgsTypes
    BY <1>3, ConfigurationAssumption DEF FileTypes, OrgsTypes
  <2>3. NoOrgs \in OrgsTypes /\ AllValid(NoOrgs)
    BY DEF NoOrgs, OrgsTypes, AllValid
  <2>4. OrgsOf(file) \in OrgsTypes /\ AllValid(OrgsOf(file))
    BY <1>5, <2>2, <2>3 DEF OrgsOf, Loadable, AllValid, Held
  <2>5. InForce' /\ RecordedIsInForce'
    BY <1>5, <2>1, <2>2, <2>4 DEF InForce, RecordedIsInForce
  <2> QED
    BY <1>2, <1>3, <2>5, NothingListed DEF IInv
<1> QED
  BY <1>4, <1>5

LEMMA RestartIInv == ASSUME IInv, Restart PROVE IInv'
<1>1. config' = None /\ recorded' = None /\ said' = Silent /\ UNCHANGED <<file, overlay>>
  BY DEF Restart, Says, Reads
<1>2. said'.list = <<>>
  BY <1>1 DEF Silent
<1>3. Written' /\ InForce' /\ RecordedIsInForce'
  BY <1>1 DEF IInv, Written, InForce, RecordedIsInForce
<1> QED
  BY <1>2, <1>3, NothingListed DEF IInv

(* What only reads the files and the configuration.                        *)
LEMMA ReadIInv ==
    ASSUME IInv, Reads, UNCHANGED <<config, recorded>>, GuardedDestinations'
    PROVE  IInv'
BY DEF IInv, Reads, Written, InForce, RecordedIsInForce

LEMMA LookupSays ==
    ASSUME IInv,
           (\E key \in Keys : Resolve(key)) \/
           (\E fullName, username \in Keys \cup {None} : Deliver(fullName, username))
    PROVE  /\ Reads /\ UNCHANGED <<config, recorded>>
           /\ \/ said' = [Silent EXCEPT !.by = "resolve"]
              \/ \E key \in Keys : \E c :
                    /\ c = Malformed \/ (c \in RepoConfigTypes /\ Valid(c))
                    /\ said' = Answer("resolve", key, c)
<1>1. Reads /\ UNCHANGED <<config, recorded>> /\ config # None
  BY DEF Resolve, Deliver
<1>2. config \in OrgsTypes /\ AllValid(config) /\ overlay \in Overlays \cup {None, Malformed}
  BY <1>1 DEF IInv, InForce, Written
<1>3. ASSUME NEW key \in Keys, said' = Answer("resolve", key, Resolved(config, key, overlay))
      PROVE  \E c : /\ c = Malformed \/ (c \in RepoConfigTypes /\ Valid(c))
                   /\ said' = Answer("resolve", key, c)
  BY <1>2, <1>3, ResolvedIsValid
<1>4. CASE \E key \in Keys : Resolve(key)
  <2>1. PICK key \in Keys : said' = Answer("resolve", key, Resolved(config, key, overlay))
    BY <1>4 DEF Resolve, Says
  <2> QED
    BY <1>1, <1>3, <2>1
<1>5. CASE \E fullName, username \in Keys \cup {None} : Deliver(fullName, username)
  <2>1. PICK fullName, username \in Keys \cup {None} : Deliver(fullName, username)
    BY <1>5
  <2> DEFINE key == CanonicalOrgKey(fullName, username)
  <2>2. key \in Keys \cup {None}
    BY ConfigurationAssumption DEF CanonicalOrgKey
  <2>3. said' = IF key = None THEN [Silent EXCEPT !.by = "resolve"]
                ELSE Answer("resolve", key, Resolved(config, key, overlay))
    BY <2>1 DEF Deliver, Says
  <2> HIDE DEF key
  <2> QED
    BY <1>1, <1>3, <2>2, <2>3
<1> QED
  BY <1>4, <1>5

LEMMA LookupIInv ==
    ASSUME IInv,
           (\E key \in Keys : Resolve(key)) \/
           (\E fullName, username \in Keys \cup {None} : Deliver(fullName, username))
    PROVE  IInv'
<1>1. CASE said' = [Silent EXCEPT !.by = "resolve"]
  <2>1. said'.list = <<>>
    BY <1>1 DEF Silent
  <2> QED
    BY <2>1, LookupSays, NothingListed, ReadIInv
<1>2. CASE said' # [Silent EXCEPT !.by = "resolve"]
  BY <1>2, LookupSays, AnswerGuarded, ReadIInv
<1> QED
  BY <1>1, <1>2

(* The workflow's own configuration: what it makes of a .ops.yaml is of    *)
(* the right shape, and it asks of it what RepoConfig does.                *)
Usable(o) ==
    o # None /\ OverlayValid(o) /\ o.destinations # Unset /\ o.destinations # <<>>

LEMMA RebuiltType ==
    ASSUME IInv, Usable(overlay) PROVE Rebuilt(overlay) \in RepoConfigTypes
<1>1. overlay \in Overlays
  BY DEF IInv, Written, OverlayValid, Usable
<1>2. overlay.destinations \in Seq(DestinationTypes)
  BY <1>1, ConfigurationAssumption DEF Usable
<1>3. /\ Len(overlay.destinations) \in Nat
      /\ DOMAIN overlay.destinations = 1..Len(overlay.destinations)
      /\ \A i \in 1..Len(overlay.destinations) :
            overlay.destinations[i] \in DestinationTypes
  BY <1>2, LenProperties, ElementOfSeq
<1> DEFINE ds == [i \in DOMAIN overlay.destinations |->
                    [overlay.destinations[i] EXCEPT !.host = FALSE]]
<1>4. \A i \in 1..Len(overlay.destinations) :
         [overlay.destinations[i] EXCEPT !.host = FALSE] \in DestinationTypes
  BY <1>3 DEF DestinationTypes
<1>5. ds \in Seq(DestinationTypes)
  BY <1>3, <1>4
<1>6. Rebuilt(overlay) = [destinations |-> ds, mirror |-> None, globs |-> FALSE]
  BY DEF Rebuilt
<1> HIDE DEF ds
<1> QED
  BY <1>5, <1>6 DEF RepoConfigTypes

LEMMA WorkflowSays ==
    ASSUME IInv, WorkflowResolve
    PROVE  /\ Reads /\ UNCHANGED <<config, recorded>>
           /\ \E c : /\ c = Malformed \/ (c \in RepoConfigTypes /\ Valid(c))
                    /\ said' = Answer("workflow", None, c)
<1> DEFINE c == IF Usable(overlay) /\ Valid(Rebuilt(overlay)) THEN Rebuilt(overlay)
                ELSE Malformed
<1>1. Reads /\ UNCHANGED <<config, recorded>> /\ said' = Answer("workflow", None, c)
  BY DEF WorkflowResolve, Says, Usable
<1>2. c = Malformed \/ (c \in RepoConfigTypes /\ Valid(c))
  BY RebuiltType
<1> QED
  BY <1>1, <1>2

LEMMA WorkflowIInv == ASSUME IInv, WorkflowResolve PROVE IInv'
BY WorkflowSays, AnswerGuarded, ReadIInv

----------------------------------------------------------------------------
(* migrate-org-keys.  A section found under a key that nothing else lowers *)
(* alike is what is found under every spelling of the key.                 *)
LEMMA OneAlike ==
    ASSUME NEW orgs \in OrgsTypes, NEW key \in Keys, NEW k \in Keys,
           orgs[k] # None, Lower[k] = Lower[key],
           \A j \in Keys : orgs[j] # None /\ Lower[j] = Lower[key] => j = k
    PROVE  Lookup(orgs, key) = orgs[k]
<1>1. Lookup(orgs, key) # None
  <2>1. CASE orgs[key] # None
    BY <2>1 DEF Lookup
  <2>2. CASE orgs[key] = None
    <3> DEFINE First(m) == \A j \in Alike(orgs, key) : Position[m] <= Position[j]
    <3>1. Alike(orgs, key) = {k}
      BY DEF Alike
    <3>2. First(k)
      <4>1. Position \in [Keys -> Nat]
        BY ConfigurationAssumption
      <4>2. Position[k] \in Nat
        BY <4>1
      <4>3. Position[k] <= Position[k]
        BY <4>2
      <4> QED
        BY <3>1, <4>3
    <3>3. (CHOOSE m \in Alike(orgs, key) : First(m)) \in Alike(orgs, key)
      <4> HIDE DEF First
      <4> QED
        BY <3>1, <3>2
    <3>4. Lookup(orgs, key) = orgs[CHOOSE m \in Alike(orgs, key) : First(m)]
      BY <2>2, <3>1 DEF Lookup
    <3> QED
      BY <3>1, <3>3, <3>4
  <2> QED
    BY <2>1, <2>2
<1> QED
  BY <1>1, LookupFinds

LEMMA NoneAlike ==
    ASSUME NEW orgs \in OrgsTypes, NEW key \in Keys,
           \A j \in Keys : orgs[j] # None => Lower[j] # Lower[key]
    PROVE  Lookup(orgs, key) = None
BY LookupFinds

(* Each section moves to the lower spelling of its key.                    *)
LEMMA RekeyedFacts ==
    ASSUME NEW f \in FileTypes, Migratable(f)
    PROVE  /\ f.orgs \in OrgsTypes /\ Rekeyed(f).orgs \in OrgsTypes
           /\ Rekeyed(f).layout = "orgs"
           /\ \A k \in Keys : f.orgs[k] # None =>
                 /\ Rekeyed(f).orgs[Lower[k]] = Relogged(f.orgs[k], k)
                 /\ Rekeyed(f).orgs[Lower[k]] # None
           /\ \A l \in Keys : Rekeyed(f).orgs[l] # None =>
                 \E k \in Keys : f.orgs[k] # None /\ Lower[k] = l
<1> DEFINE R(k) == IF \E j \in Held(f) : Lower[j] = k
                   THEN Relogged(f.orgs[Source(f, k)], Source(f, k)) ELSE None
           S(l) == CHOOSE k \in Held(f) : Lower[k] = l
<1>1. f.orgs \in OrgsTypes
  BY DEF FileTypes, OrgsTypes
<1>2. Rekeyed(f).orgs = [k \in Keys |-> R(k)] /\ Rekeyed(f).layout = "orgs"
  BY DEF Rekeyed
<1>3. ASSUME NEW k \in Held(f) PROVE Source(f, Lower[k]) = k
  <2>1. Source(f, Lower[k]) \in Held(f) /\ Lower[Source(f, Lower[k])] = Lower[k]
    BY <1>3 DEF Source
  <2> QED
    BY <2>1 DEF Migratable, Collides
<1>4. ASSUME NEW k \in Held(f)
      PROVE  Relogged(f.orgs[k], k) \in Sections
  <2>1. k \in Keys /\ f.orgs[k] \in Sections
    BY <1>1 DEF Held, OrgsTypes
  <2> QED
    BY <2>1 DEF Relogged, Sections
<1>5. ASSUME NEW k \in Held(f)
      PROVE  Lower[k] \in Keys /\ R(Lower[k]) = Relogged(f.orgs[k], k)
  <2>1. Lower[k] \in Keys /\ \E j \in Held(f) : Lower[j] = Lower[k]
    BY ConfigurationAssumption DEF Held
  <2> QED
    BY <1>3, <2>1
<1>6. ASSUME NEW l \in Keys PROVE R(l) \in Sections \cup {None}
  <2>1. CASE \E j \in Held(f) : Lower[j] = l
    BY <1>4, <1>5, <2>1
  <2>2. CASE ~\E j \in Held(f) : Lower[j] = l
    BY <2>2
  <2> QED
    BY <2>1, <2>2
<1>7. ASSUME NEW l \in Keys, R(l) # None
      PROVE  \E k \in Keys : f.orgs[k] # None /\ Lower[k] = l
  BY <1>7 DEF Held
<1>8. None \notin Sections /\ \A k \in Keys : f.orgs[k] # None => k \in Held(f)
  BY ConfigurationAssumption DEF Held
<1> HIDE DEF R
<1>9. Rekeyed(f).orgs \in OrgsTypes
  BY <1>2, <1>6 DEF OrgsTypes
<1>10. ASSUME NEW k \in Keys, f.orgs[k] # None
       PROVE  /\ Rekeyed(f).orgs[Lower[k]] = Relogged(f.orgs[k], k)
              /\ Rekeyed(f).orgs[Lower[k]] # None
  <2>1. k \in Held(f)
    BY <1>8, <1>10
  <2>2. Lower[k] \in Keys /\ R(Lower[k]) = Relogged(f.orgs[k], k)
    BY <1>5, <2>1
  <2>3. Relogged(f.orgs[k], k) # None
    BY <1>4, <1>8, <2>1
  <2> QED
    BY <1>2, <2>2, <2>3
<1>11. ASSUME NEW l \in Keys, Rekeyed(f).orgs[l] # None
       PROVE  \E k \in Keys : f.orgs[k] # None /\ Lower[k] = l
  <2>1. R(l) # None
    BY <1>2, <1>11
  <2> QED
    BY <1>7, <2>1
<1> QED
  BY <1>1, <1>2, <1>9, <1>10, <1>11

LEMMA RekeyedType ==
    ASSUME NEW f \in FileTypes, Migratable(f) PROVE Rekeyed(f) \in FileTypes
<1>1. Rekeyed(f).orgs \in [Keys -> Sections \cup {None}]
  BY RekeyedFacts DEF OrgsTypes
<1>2. Rekeyed(f) = [layout |-> "orgs", orgs |-> Rekeyed(f).orgs]
  BY DEF Rekeyed
<1> QED
  BY <1>1, <1>2 DEF FileTypes, Layouts

SameMeaning(before, after) ==
    IF before = None THEN after = None
    ELSE after # None /\ after.repo = before.repo
         /\ (before.login # None => after.login = before.login)

LEMMA RekeyedMeansTheSame ==
    ASSUME NEW f \in FileTypes, Migratable(f), NEW key \in Keys
    PROVE  SameMeaning(Lookup(f.orgs, key), Lookup(Rekeyed(f).orgs, key))
<1>0. /\ Lower \in [Keys -> Keys] /\ \A k \in Keys : Lower[Lower[k]] = Lower[k]
  BY ConfigurationAssumption
<1>1. /\ f.orgs \in OrgsTypes /\ Rekeyed(f).orgs \in OrgsTypes
      /\ \A k \in Keys : f.orgs[k] # None =>
            /\ Rekeyed(f).orgs[Lower[k]] = Relogged(f.orgs[k], k)
            /\ Rekeyed(f).orgs[Lower[k]] # None
      /\ \A l \in Keys : Rekeyed(f).orgs[l] # None =>
            \E k \in Keys : f.orgs[k] # None /\ Lower[k] = l
  BY RekeyedFacts
<1>2. \A j, k \in Keys : f.orgs[j] # None /\ f.orgs[k] # None /\ Lower[j] = Lower[k] => j = k
  BY DEF Migratable, Collides, Held
<1>3. CASE \A k \in Keys : f.orgs[k] # None => Lower[k] # Lower[key]
  <2>1. Lookup(f.orgs, key) = None
    BY <1>1, <1>3, NoneAlike
  <2>2. \A l \in Keys : Rekeyed(f).orgs[l] # None => Lower[l] # Lower[key]
    BY <1>0, <1>1, <1>3
  <2>3. Lookup(Rekeyed(f).orgs, key) = None
    BY <1>1, <2>2, NoneAlike
  <2> QED
    BY <2>1, <2>3 DEF SameMeaning
<1>4. CASE \E k \in Keys : f.orgs[k] # None /\ Lower[k] = Lower[key]
  <2>1. PICK k \in Keys : f.orgs[k] # None /\ Lower[k] = Lower[key]
    BY <1>4
  <2>2. Lookup(f.orgs, key) = f.orgs[k]
    BY <1>1, <1>2, <2>1, OneAlike
  <2>3. /\ Lower[k] \in Keys /\ Lower[Lower[k]] = Lower[key]
        /\ Rekeyed(f).orgs[Lower[k]] # None
    BY <1>0, <1>1, <2>1
  <2>4. \A l \in Keys : Rekeyed(f).orgs[l] # None /\ Lower[l] = Lower[key] => l = Lower[k]
    <3>1. SUFFICES ASSUME NEW l \in Keys, Rekeyed(f).orgs[l] # None, Lower[l] = Lower[key]
                   PROVE  l = Lower[k]
      OBVIOUS
    <3>2. PICK j \in Keys : f.orgs[j] # None /\ Lower[j] = l
      BY <1>1, <3>1
    <3> QED
      BY <1>0, <1>2, <2>1, <3>1, <3>2
  <2>5. Lookup(Rekeyed(f).orgs, key) = Rekeyed(f).orgs[Lower[k]]
    BY <1>1, <2>3, <2>4, OneAlike
  <2>6. Lookup(Rekeyed(f).orgs, key) = Relogged(f.orgs[k], k)
    BY <1>1, <2>1, <2>5
  <2>7. f.orgs[k] \in Sections
    BY <1>1, <2>1 DEF OrgsTypes
  <2>8. /\ Relogged(f.orgs[k], k).repo = f.orgs[k].repo
        /\ f.orgs[k].login # None => Relogged(f.orgs[k], k).login = f.orgs[k].login
    BY <2>7 DEF Relogged, Sections
  <2> QED
    BY <2>1, <2>2, <2>3, <2>5, <2>6, <2>8 DEF SameMeaning
<1> QED
  BY <1>3, <1>4

LEMMA CommandIInv ==
    ASSUME IInv,
           Migrate \/ Check \/ Propose \/ AuditDies \/ (\E answers \in Answers : Audit(answers))
    PROVE  IInv'
<1>1. UNCHANGED <<overlay, config, recorded>>
  BY DEF Migrate, Check, Propose, AuditDies, Audit, Reads
<1>2. said'.list = <<>>
  BY DEF Migrate, Check, Propose, AuditDies, Audit, Says, Report, Silent
<1>3. file' \in FileTypes
  <2>1. CASE Migrate
    <3>1. file' = file \/ (Migratable(file) /\ file' = Rekeyed(file))
      BY <2>1 DEF Migrate
    <3> QED
      BY <3>1, RekeyedType DEF IInv, Written
  <2>2. CASE ~Migrate
    BY <2>2 DEF Check, Propose, AuditDies, Audit, Reads, IInv, Written
  <2> QED
    BY <2>1, <2>2
<1>4. Written' /\ InForce' /\ RecordedIsInForce'
  BY <1>1, <1>3 DEF IInv, Written, InForce, RecordedIsInForce
<1> QED
  BY <1>2, <1>4, NothingListed DEF IInv

LEMMA StepIInv == ASSUME IInv, [Next]_vars PROVE IInv'
<1>1. CASE UNCHANGED vars
  BY <1>1 DEF vars, IInv, Written, InForce, RecordedIsInForce, GuardedDestinations
<1> QED
  BY <1>1, EditIInv, LoadIInv, RestartIInv, LookupIInv, WorkflowIInv, CommandIInv DEF Next

LEMMA Invariant == Spec => []IInv
BY InitIInv, StepIInv, PTL DEF Spec

----------------------------------------------------------------------------
(* A list of destinations that is handed on, by the engine or by the       *)
(* release workflow, holds no mirror without a visibility, and a public    *)
(* one only together with candidate globs (config_loader.py:423-503,       *)
(* 559-576).                                                               *)
THEOREM MirrorsAreGuarded == Spec => []GuardedDestinations
<1>1. IInv => GuardedDestinations
  BY DEF IInv
<1> QED
  BY <1>1, Invariant, PTL

(* The hash reported is the hash of the configuration in force             *)
(* (config_loader.py:798-810).                                             *)
THEOREM HashOfTheConfigInForce == Spec => []RecordedIsInForce
<1>1. IInv => RecordedIsInForce
  BY DEF IInv
<1> QED
  BY <1>1, Invariant, PTL

(* migrate-org-keys changes the spelling of a file and not its meaning     *)
(* (migrate-org-keys.py:93-131).                                           *)
THEOREM MigrationKeepsMeaning == Spec => MigrationKeepsLookups
<1>1. ASSUME IInv, [Next]_vars
      PROVE  [said'.by = "migrate" /\ said'.ok =>
                \A k \in Keys :
                   LET before == Lookup(file.orgs, k)
                       after == Lookup(file'.orgs, k)
                   IN IF before = None THEN after = None
                      ELSE after # None /\ after.repo = before.repo
                           /\ (before.login # None => after.login = before.login)]_vars
  <2>1. SUFFICES ASSUME ~UNCHANGED vars, said'.by = "migrate", said'.ok,
                        NEW k \in Keys
                 PROVE  SameMeaning(Lookup(file.orgs, k), Lookup(file'.orgs, k))
    BY DEF SameMeaning
  <2>2. Migrate
    <3>1. Next
      BY <1>1, <2>1
    <3>2. ASSUME NEW f \in Files, WriteFile(f) PROVE FALSE
      BY <2>1, <3>2 DEF WriteFile, Edit, Silent
    <3>3. ASSUME NEW o, WriteOverlay(o) PROVE FALSE
      BY <2>1, <3>3 DEF WriteOverlay, Edit, Silent
    <3>4. ~Load /\ ~Restart /\ ~Check
      <4>1. /\ [Silent EXCEPT !.by = "load", !.ok = Loadable(file)].by = "load"
            /\ [Silent EXCEPT !.by = "check", !.ok = Canonical(file)].by = "check"
        BY DEF Silent
      <4>2. Silent.by # "migrate"
        BY DEF Silent
      <4>3. Load => said' = [Silent EXCEPT !.by = "load", !.ok = Loadable(file)]
        BY DEF Load, Says
      <4>4. Check => said' = [Silent EXCEPT !.by = "check", !.ok = Canonical(file)]
        BY DEF Check, Says
      <4>5. Restart => said' = Silent
        BY DEF Restart, Says
      <4> QED
        BY <2>1, <4>1, <4>2, <4>3, <4>4, <4>5
    <3>5. ~Propose /\ ~AuditDies /\ ~\E answers \in Answers : Audit(answers)
      BY <2>1 DEF Propose, AuditDies, Audit, Report, Says, Silent
    <3>6. ASSUME NEW by, NEW key, NEW c, said' = Answer(by, key, c) PROVE by = "migrate"
      <4>1. Answer(by, key, c).by = by
        BY DEF Answer, Silent
      <4> QED
        BY <2>1, <3>6, <4>1
    <3>7. ~WorkflowResolve
      BY <3>6 DEF WorkflowResolve, Says
    <3>8. ASSUME NEW key \in Keys, Resolve(key) PROVE FALSE
      <4>1. said' = Answer("resolve", key, Resolved(config, key, overlay))
        BY <3>8 DEF Resolve, Says
      <4> QED
        BY <3>6, <4>1
    <3>9. ASSUME NEW n, NEW u, Deliver(n, u) PROVE FALSE
      <4>1. \/ said' = [Silent EXCEPT !.by = "resolve"]
            \/ \E key, c : said' = Answer("resolve", key, c)
        BY <3>9 DEF Deliver, Says
      <4>2. [Silent EXCEPT !.by = "resolve"].by # "migrate"
        BY DEF Silent
      <4> QED
        BY <2>1, <3>6, <4>1, <4>2
    <3> QED
      BY <3>1, <3>2, <3>3, <3>4, <3>5, <3>7, <3>8, <3>9 DEF Next
  <2>3. Migratable(file) /\ file' = Rekeyed(file)
    BY <2>1, <2>2 DEF Migrate, Says, Silent
  <2> QED
    BY <1>1, <2>3, RekeyedMeansTheSame DEF IInv, Written
<1> QED
  BY <1>1, Invariant, PTL DEF Spec, MigrationKeepsLookups

----------------------------------------------------------------------------
(* A set of numbers that is not empty has a least member.                  *)
LEMMA LeastMember ==
    ASSUME NEW T, T \subseteq Nat, T # {}
    PROVE  \E x \in T : \A y \in T : x <= y
<1>1. PICK x \in T : \A y \in T : ~(<<y, x>> \in OpToRel(<, Nat))
  BY NatLessThanWellFounded, WFMin, Zenon
<1>2. \A y \in T : (<<y, x>> \in OpToRel(<, Nat)) <=> y < x
  BY SMT DEF OpToRel
<1>3. \A y \in T : ~(y < x)
  BY <1>1, <1>2, Zenon
<1> QED
  BY <1>3, SMT

(* The destinations of a configuration, the deprecated alias among them.   *)
LEMMA AliasType ==
    ASSUME NEW m \in Mirrors \cup {None} PROVE Alias(m) \in Seq(DestinationTypes)
<1>1. CASE ~Aliased(m)
  BY <1>1, EmptySeq DEF Alias
<1>2. CASE Aliased(m)
  <2>1. m \in MirrorTypes
    BY <1>2, ConfigurationAssumption DEF Aliased
  <2> DEFINE forge == IF m.github # None THEN "github" ELSE m.forge
             repo == IF m.github # None THEN m.github ELSE m.url
  <2>2. /\ forge \in {"github", "forgejo"} /\ repo \in Repos
        /\ m.visibility \in {"public", "private", "undeclared"}
    BY <1>2, <2>1 DEF Aliased, MirrorTypes
  <2>3. Alias(m) = <<[forge |-> forge, repo |-> repo, role |-> "mirror",
                      visibility |-> m.visibility, host |-> FALSE]>>
    BY <1>2 DEF Alias
  <2> HIDE DEF forge, repo
  <2>4. [forge |-> forge, repo |-> repo, role |-> "mirror",
         visibility |-> m.visibility, host |-> FALSE] \in DestinationTypes
    BY <2>2 DEF DestinationTypes
  <2> QED
    BY <2>3, <2>4
<1> QED
  BY <1>1, <1>2

LEMMA DestinationsType ==
    ASSUME NEW c \in RepoConfigTypes
    PROVE  /\ ResolveDestinations(c) \in Seq(DestinationTypes)
           /\ DOMAIN ResolveDestinations(c) \subseteq Nat
           /\ \A i \in DOMAIN ResolveDestinations(c) :
                 ResolveDestinations(c)[i] \in DestinationTypes
<1>1. c.destinations \in Seq(DestinationTypes) /\ c.mirror \in Mirrors \cup {None}
  BY DEF RepoConfigTypes
<1>2. ResolveDestinations(c) \in Seq(DestinationTypes)
  BY <1>1, AliasType, ConcatProperties DEF ResolveDestinations
<1> QED
  BY <1>2, LenProperties, ElementOfSeq

LEMMA EarliestIsOnGithub ==
    ASSUME NEW c \in RepoConfigTypes, Github(ResolveDestinations(c)) # {}
    PROVE  \E i \in Github(ResolveDestinations(c)) :
              Earliest(ResolveDestinations(c)) = ResolveDestinations(c)[i]
<1> DEFINE G == Github(ResolveDestinations(c))
           Least(i) == \A j \in G : i <= j
<1>1. G \subseteq Nat /\ G # {}
  BY DestinationsType DEF Github
<1>2. \E i \in G : Least(i)
  <2> HIDE DEF G
  <2> QED
    BY <1>1, LeastMember
<1>3. Earliest(ResolveDestinations(c)) = ResolveDestinations(c)[CHOOSE i \in G : Least(i)]
  BY DEF Earliest
<1>4. (CHOOSE i \in G : Least(i)) \in G
  <2> HIDE DEF Least, G
  <2> QED
    BY <1>2
<1> QED
  BY <1>3, <1>4

----------------------------------------------------------------------------
(* What the scripts make of one repository.                                *)
LEMMA RowType ==
    ASSUME NEW k \in Keys, NEW class \in {"1", "2", "3", "4", "5", "UNMEASURED",
                                          "paired", "no-github-dest", "refused"},
           NEW repo \in Repos \cup {None}
    PROVE  Row(k, class, repo) \in Rows
BY DEF Row, Rows

LEMMA ListedIsValid ==
    ASSUME NEW f \in FileTypes, NEW k \in Listed(f)
    PROVE  k \in Keys /\ f.orgs[k] \in Sections /\ f.orgs[k].repo \in RepoConfigTypes
<1>1. k \in Keys /\ f.orgs[k] # None /\ f.orgs[k].repo # None
  BY DEF Listed, Roots, Held
<1>2. f.orgs[k] \in Sections
  BY <1>1 DEF FileTypes
<1>3. f.orgs[k].repo \in RepoConfigs
  BY <1>1, <1>2 DEF Sections
<1> QED
  BY <1>1, <1>2, <1>3, ConfigurationAssumption DEF RepoConfigTypes

LEMMA ClassType ==
    ASSUME NEW repo \in Repos, NEW answers \in Answers
    PROVE  Class(repo, answers) \in {"1", "2", "3", "5", "UNMEASURED"}
BY DEF Class, Answers

LEMMA CensusType ==
    ASSUME NEW f \in FileTypes, NEW answers \in Answers
    PROVE  Census(f, answers) \subseteq Rows
<1>1. ASSUME NEW k \in Listed(f), NEW r \in RowsOf(k, ResolveDestinations(f.orgs[k].repo), answers)
      PROVE  r \in Rows
  <2> DEFINE ds == ResolveDestinations(f.orgs[k].repo)
  <2>1. k \in Keys /\ \A i \in DOMAIN ds : ds[i] \in DestinationTypes
    BY ListedIsValid, DestinationsType
  <2>2. r = Row(k, "4", None)
        \/ \E i \in DOMAIN ds : r = Row(k, Class(ds[i].repo, answers), ds[i].repo)
    BY <1>1 DEF RowsOf, Github
  <2>3. CASE r = Row(k, "4", None)
    BY <2>1, <2>3, RowType
  <2>4. CASE \E i \in DOMAIN ds : r = Row(k, Class(ds[i].repo, answers), ds[i].repo)
    <3>1. PICK i \in DOMAIN ds : r = Row(k, Class(ds[i].repo, answers), ds[i].repo)
      BY <2>4
    <3>2. ds[i].repo \in Repos
      BY <2>1 DEF DestinationTypes
    <3> QED
      BY <2>1, <3>1, <3>2, ClassType, RowType
  <2> QED
    BY <2>2, <2>3, <2>4
<1> QED
  BY <1>1 DEF Census

LEMMA ProposalsType ==
    ASSUME NEW f \in FileTypes PROVE Proposals(f) \subseteq Rows
<1>1. ASSUME NEW k \in Listed(f) PROVE Proposal(k, ResolveDestinations(f.orgs[k].repo)) \in Rows
  <2> DEFINE ds == ResolveDestinations(f.orgs[k].repo)
  <2>1. k \in Keys /\ \A i \in DOMAIN ds : ds[i] \in DestinationTypes
    BY ListedIsValid, DestinationsType
  <2>2. CASE Github(ds) = {}
    BY <2>1, <2>2, RowType DEF Proposal
  <2>3. CASE Github(ds) # {}
    <3>1. PICK i \in Github(ds) : Earliest(ds) = ds[i]
      BY <2>3, ListedIsValid, EarliestIsOnGithub
    <3>2. Earliest(ds).repo \in Repos
      BY <2>1, <3>1 DEF Github, DestinationTypes
    <3>3. \/ Proposal(k, ds) = Row(k, "refused", None)
          \/ Proposal(k, ds) = Row(k, "paired", Earliest(ds).repo)
      BY <2>3 DEF Proposal
    <3> QED
      BY <2>1, <3>2, <3>3, RowType
  <2> QED
    BY <2>2, <2>3
<1> QED
  BY <1>1 DEF Proposals

LEMMA SilentType == Silent \in Words
<1>1. <<>> \in Seq(DestinationTypes)
  BY EmptySeq
<1> QED
  BY <1>1 DEF Silent, Words

LEMMA WordType ==
    ASSUME NEW by \in {"load", "resolve", "workflow", "migrate", "check", "audit", "propose"},
           NEW key \in Keys \cup {None}, NEW ok \in BOOLEAN, NEW rows \in SUBSET Rows
    PROVE  /\ [Silent EXCEPT !.by = by, !.ok = ok, !.rows = rows] \in Words
           /\ [Silent EXCEPT !.by = by, !.ok = ok] \in Words
           /\ [Silent EXCEPT !.by = by, !.key = key] \in Words
           /\ [Silent EXCEPT !.by = by] \in Words
BY SilentType DEF Words

LEMMA ReportType ==
    ASSUME NEW by \in {"audit", "propose"}, NEW rows \in SUBSET Rows
    PROVE  Report(by, rows) \in Words
<1> DEFINE reported == IF file.layout = "broken" THEN {} ELSE rows
           ok == reported # {}
<1>1. reported \in SUBSET Rows /\ ok \in BOOLEAN
  OBVIOUS
<1>2. Report(by, rows) = [Silent EXCEPT !.by = by, !.ok = ok, !.rows = reported]
  BY DEF Report
<1> HIDE DEF reported, ok
<1>3. [Silent EXCEPT !.by = by, !.ok = ok, !.rows = reported] \in Words
  BY <1>1, WordType
<1> QED
  BY <1>2, <1>3

----------------------------------------------------------------------------
(* What the engine finds in a file that loads is what the scripts list.    *)
LEMMA FoundIsListed ==
    ASSUME NEW f \in FileTypes, f.layout = "orgs", Loadable(f), NEW key \in Keys,
           Resolved(f.orgs, key, None) # Malformed
    PROVE  \/ Resolved(f.orgs, key, None) = Bare
           \/ \E k \in Listed(f) : Resolved(f.orgs, key, None) = f.orgs[k].repo
<1>1. f.orgs \in OrgsTypes
  BY DEF FileTypes, OrgsTypes
<1>2. Lookup(f.orgs, key) # None /\ Resolved(f.orgs, key, None) = RepoOf(Lookup(f.orgs, key))
  BY DEF Resolved
<1>3. PICK k \in Keys : f.orgs[k] # None /\ Lookup(f.orgs, key) = f.orgs[k]
  BY <1>1, <1>2, LookupFinds
<1>4. k \in Roots(f)
  BY <1>3 DEF Roots, Held, Loadable
<1> QED
  BY <1>2, <1>3, <1>4 DEF RepoOf, Listed

LEMMA ListedIsFound ==
    ASSUME NEW f \in FileTypes, NEW k \in Listed(f)
    PROVE  Resolved(f.orgs, k, None) = f.orgs[k].repo
<1>1. k \in Keys /\ f.orgs[k] # None /\ f.orgs[k].repo # None
  BY DEF Listed, Roots, Held
<1> QED
  BY <1>1 DEF Resolved, Lookup, RepoOf

LEMMA CensusCovers ==
    ASSUME NEW f \in FileTypes, f.layout = "orgs", Loadable(f), NEW answers \in Answers,
           NEW key \in Keys, Resolved(f.orgs, key, None) # Malformed,
           NEW i \in DOMAIN ResolveDestinations(Resolved(f.orgs, key, None)),
           ResolveDestinations(Resolved(f.orgs, key, None))[i].forge = "github"
    PROVE  \E r \in Census(f, answers) :
              r.repo = ResolveDestinations(Resolved(f.orgs, key, None))[i].repo
<1>1. Resolved(f.orgs, key, None) # Bare
  <2>1. Alias(None) = <<>>
    BY DEF Alias, Aliased
  <2>2. ResolveDestinations(Bare) = <<>> \o <<>>
    BY <2>1 DEF ResolveDestinations, Bare
  <2>3. DOMAIN ResolveDestinations(Bare) = {}
    BY <2>2
  <2> QED
    BY <2>3
<1>2. PICK k \in Listed(f) : Resolved(f.orgs, key, None) = f.orgs[k].repo
  BY <1>1, FoundIsListed
<1> DEFINE ds == ResolveDestinations(f.orgs[k].repo)
           r == Row(k, Class(ds[i].repo, answers), ds[i].repo)
<1>3. i \in Github(ds)
  BY <1>2 DEF Github
<1>4. r \in RowsOf(k, ds, answers)
  BY <1>3 DEF RowsOf
<1>5. r \in Census(f, answers)
  BY <1>4 DEF Census
<1>6. r.repo = ds[i].repo
  BY DEF Row
<1> QED
  BY <1>2, <1>5, <1>6

LEMMA PairedIsPublished ==
    ASSUME NEW f \in FileTypes, NEW r \in Proposals(f), r.class = "paired"
    PROVE  \E i \in DOMAIN ResolveDestinations(Resolved(f.orgs, r.org, None)) :
              ResolveDestinations(Resolved(f.orgs, r.org, None))[i].repo = r.repo
<1>1. PICK k \in Listed(f) : r = Proposal(k, ResolveDestinations(f.orgs[k].repo))
  BY DEF Proposals
<1> DEFINE ds == ResolveDestinations(f.orgs[k].repo)
<1>2. Github(ds) # {} /\ r = Row(k, "paired", Earliest(ds).repo)
  BY <1>1 DEF Proposal, Row
<1>3. PICK i \in Github(ds) : Earliest(ds) = ds[i]
  BY <1>2, ListedIsValid, EarliestIsOnGithub
<1>4. r.org = k /\ r.repo = ds[i].repo /\ i \in DOMAIN ds
  BY <1>2, <1>3 DEF Row, Github
<1>5. Resolved(f.orgs, r.org, None) = f.orgs[k].repo
  BY <1>4, ListedIsFound
<1> QED
  BY <1>4, <1>5

(* The rest of the inductive invariant: what a command answered, and that  *)
(* a report covers the file it was made of.                                *)
Answered ==
    /\ said \in Words
    /\ recorded \in FileTypes \cup {None}
    /\ edits \in 0..MaxEdits
    /\ ReportsCoverTheEngine

LEMMA NoReport ==
    ASSUME said'.by \notin {"audit", "propose"} \/ ~said'.ok PROVE ReportsCoverTheEngine'
BY DEF ReportsCoverTheEngine

LEMMA ReportKept ==
    ASSUME NEW by, NEW rows \in SUBSET Rows, file \in FileTypes, file' = file,
           said' = Report(by, rows),
           \/ by = "audit" /\ \E answers \in Answers : rows = Census(file, answers)
           \/ by = "propose" /\ rows = Proposals(file)
    PROVE  ReportsCoverTheEngine'
<1> SUFFICES ASSUME file.layout = "orgs", Loadable(file) PROVE ReportsCoverTheEngine'
  BY DEF ReportsCoverTheEngine
<1>1. said'.by = by /\ said'.rows = rows
  BY DEF Report, Silent
<1>2. CASE by = "audit"
  <2>1. PICK answers \in Answers : rows = Census(file, answers)
    BY <1>2
  <2>2. said'.by = "audit" /\ said'.rows = Census(file, answers)
    BY <1>1, <1>2, <2>1
  <2> QED
    BY <2>2, CensusCovers DEF ReportsCoverTheEngine
<1>3. CASE by = "propose"
  <2>1. rows = Proposals(file)
    BY <1>3
  <2>2. said'.by = "propose" /\ said'.rows = Proposals(file)
    BY <1>1, <1>3, <2>1
  <2> QED
    BY <2>2, PairedIsPublished DEF ReportsCoverTheEngine
<1> QED
  BY <1>2, <1>3

LEMMA InitAnswered == Init => Answered
<1> SUFFICES ASSUME Init PROVE Answered
  OBVIOUS
<1>1. said \in Words /\ ~said.ok
  BY SilentType DEF Init, Silent
<1>2. recorded \in FileTypes \cup {None} /\ edits \in 0..MaxEdits
  BY ConfigurationAssumption DEF Init
<1> QED
  BY <1>1, <1>2 DEF Answered, ReportsCoverTheEngine

LEMMA EditAnswered ==
    ASSUME Answered,
           (\E f \in Files : WriteFile(f)) \/
           (\E o \in Overlays \cup {None, Malformed} : WriteOverlay(o))
    PROVE  Answered'
<1>1. said' = Silent /\ recorded' = recorded /\ edits' = edits + 1 /\ edits < MaxEdits
  BY DEF WriteFile, WriteOverlay, Edit
<1>2. said' \in Words /\ ~said'.ok
  BY <1>1, SilentType DEF Silent
<1>3. edits' \in 0..MaxEdits
  BY <1>1, ConfigurationAssumption DEF Answered
<1> QED
  BY <1>1, <1>2, <1>3, NoReport DEF Answered

LEMMA PlainAnswered ==
    ASSUME IInv, Answered, Load \/ Restart \/ Migrate \/ Check \/ AuditDies
    PROVE  Answered'
<1>1. Loadable(file) \in BOOLEAN /\ Migratable(file) \in BOOLEAN /\ Canonical(file) \in BOOLEAN
  BY DEF Loadable, Migratable, Canonical
<1>2. /\ recorded' \in FileTypes \cup {None} /\ edits' \in 0..MaxEdits
  BY DEF IInv, Written, Answered, Load, Restart, Migrate, Check, AuditDies, Reads
<1>3. said' = Silent \/ \E by \in {"load", "migrate", "check"}, ok \in BOOLEAN :
                           said' = [Silent EXCEPT !.by = by, !.ok = ok]
      \/ said' = [Silent EXCEPT !.by = "audit"]
  BY <1>1 DEF Load, Restart, Migrate, Check, AuditDies, Says
<1>4. CASE said' = [Silent EXCEPT !.by = "audit"]
  <2>1. ~said'.ok
    BY <1>4 DEF Silent
  <2>2. said' \in Words
    BY <1>4, WordType
  <2> QED
    BY <1>2, <2>1, <2>2, NoReport DEF Answered
<1>5. ASSUME NEW by \in {"load", "migrate", "check"}, NEW ok \in BOOLEAN,
             said' = [Silent EXCEPT !.by = by, !.ok = ok]
      PROVE  Answered'
  <2>1. said'.by = by
    BY <1>5 DEF Silent
  <2>2. said' \in Words
    BY <1>5, WordType
  <2> QED
    BY <1>2, <2>1, <2>2, NoReport DEF Answered
<1>6. CASE said' = Silent
  <2>1. ~said'.ok /\ said' \in Words
    BY <1>6, SilentType DEF Silent
  <2> QED
    BY <1>2, <2>1, NoReport DEF Answered
<1> QED
  BY <1>3, <1>4, <1>5, <1>6

LEMMA AnswerType ==
    ASSUME NEW by \in {"resolve", "workflow"}, NEW key \in Keys \cup {None},
           NEW c, c = Malformed \/ c \in RepoConfigTypes
    PROVE  Answer(by, key, c) \in Words /\ Answer(by, key, c).by = by
<1>1. CASE c = Malformed
  <2>1. Answer(by, key, c) = [Silent EXCEPT !.by = by, !.key = key]
    BY <1>1 DEF Answer
  <2>2. [Silent EXCEPT !.by = by, !.key = key] \in Words
    BY WordType
  <2>3. [Silent EXCEPT !.by = by, !.key = key].by = by
    BY DEF Silent
  <2> QED
    BY <2>1, <2>2, <2>3
<1>2. CASE c # Malformed
  <2>1. ResolveDestinations(c) \in Seq(DestinationTypes) /\ c.globs \in BOOLEAN
    BY <1>2, DestinationsType DEF RepoConfigTypes
  <2>2. Answer(by, key, c) = [by |-> by, key |-> key, ok |-> TRUE, rows |-> {},
                              list |-> ResolveDestinations(c), globs |-> c.globs]
    BY <1>2 DEF Answer
  <2> QED
    BY <2>1, <2>2 DEF Words
<1> QED
  BY <1>1, <1>2

LEMMA LookupAnswered ==
    ASSUME IInv, Answered,
           (\E key \in Keys : Resolve(key)) \/
           (\E fullName, username \in Keys \cup {None} : Deliver(fullName, username))
    PROVE  Answered'
<1>1. recorded' \in FileTypes \cup {None} /\ edits' \in 0..MaxEdits
  BY LookupSays DEF Answered, Reads
<1>2. said' \in Words /\ said'.by = "resolve"
  <2>1. CASE said' = [Silent EXCEPT !.by = "resolve"]
    <3>1. [Silent EXCEPT !.by = "resolve"] \in Words
      BY WordType
    <3> QED
      BY <2>1, <3>1 DEF Silent
  <2>2. ASSUME NEW key \in Keys, NEW c, c = Malformed \/ (c \in RepoConfigTypes /\ Valid(c)),
               said' = Answer("resolve", key, c)
        PROVE  said' \in Words /\ said'.by = "resolve"
    BY <2>2, AnswerType
  <2> QED
    BY <2>1, <2>2, LookupSays
<1> QED
  BY <1>1, <1>2, NoReport DEF Answered

LEMMA WorkflowAnswered == ASSUME IInv, Answered, WorkflowResolve PROVE Answered'
<1>1. recorded' \in FileTypes \cup {None} /\ edits' \in 0..MaxEdits
  BY WorkflowSays DEF Answered, Reads
<1>2. said' \in Words /\ said'.by = "workflow"
  BY WorkflowSays, AnswerType
<1> QED
  BY <1>1, <1>2, NoReport DEF Answered

LEMMA ReportAnswered ==
    ASSUME IInv, Answered, Propose \/ (\E answers \in Answers : Audit(answers))
    PROVE  Answered'
<1>1. /\ recorded' \in FileTypes \cup {None} /\ edits' \in 0..MaxEdits
      /\ file' = file /\ file \in FileTypes
  BY DEF IInv, Written, Answered, Propose, Audit, Reads
<1>2. CASE Propose
  <2>1. said' = Report("propose", Proposals(file)) /\ Proposals(file) \in SUBSET Rows
    BY <1>1, <1>2, ProposalsType DEF Propose, Says
  <2>2. said' \in Words
    BY <2>1, ReportType
  <2>3. ReportsCoverTheEngine'
    BY <1>1, <2>1, ReportKept
  <2> QED
    BY <1>1, <2>2, <2>3 DEF Answered
<1>3. ASSUME NEW answers \in Answers, Audit(answers) PROVE Answered'
  <2>1. said' = Report("audit", Census(file, answers)) /\ Census(file, answers) \in SUBSET Rows
    BY <1>1, <1>3, CensusType DEF Audit, Says
  <2>2. said' \in Words
    BY <2>1, ReportType
  <2>3. ReportsCoverTheEngine'
    BY <1>1, <2>1, ReportKept
  <2> QED
    BY <1>1, <2>2, <2>3 DEF Answered
<1> QED
  BY <1>2, <1>3

LEMMA StepAnswered == IInv /\ Answered /\ [Next]_vars => Answered'
<1> SUFFICES ASSUME IInv, Answered, [Next]_vars PROVE Answered'
  OBVIOUS
<1>1. CASE UNCHANGED vars
  BY <1>1 DEF vars, Answered, ReportsCoverTheEngine
<1> QED
  BY <1>1, EditAnswered, PlainAnswered, LookupAnswered, WorkflowAnswered, ReportAnswered DEF Next

LEMMA AnsweredAlways == Spec => []Answered
BY InitAnswered, StepAnswered, Invariant, PTL DEF Spec

(* Every variable stays in its type: the configuration in force consists   *)
(* of sections that validate, whatever is written into the files, and each *)
(* command answers with destinations and rows of the right shape.          *)
THEOREM ConfigurationTypes == Spec => []TypeOK
<1>1. IInv /\ Answered => TypeOK
  BY DEF IInv, Written, InForce, Answered, TypeOK, AllValid, OrgsTypes
<1> QED
  BY <1>1, Invariant, AnsweredAlways, PTL

(* No destination on GitHub that the engine would publish to is missing    *)
(* from the audit, and every pairing that is proposed is one               *)
(* (mirror-destination-audit.py:250-290, mirror-destination-propose.py:    *)
(* 148-209).                                                               *)
THEOREM ReportsMissNothing == Spec => []ReportsCoverTheEngine
<1>1. Answered => ReportsCoverTheEngine
  BY DEF Answered
<1> QED
  BY <1>1, AnsweredAlways, PTL

(* A migrated file holds lower spellings only, each with a login, so that  *)
(* nothing is left for a second migration to do.                           *)
LEMMA RekeyedSettles ==
    ASSUME NEW f \in FileTypes, Migratable(f)
    PROVE  /\ Canonical(Rekeyed(f)) /\ Rekeyed(Rekeyed(f)) = Rekeyed(f)
           /\ f.layout = "orgs" /\ Loadable(f) => Loadable(Rekeyed(f))
<1> DEFINE g == Rekeyed(f)
<1>0. Lower \in [Keys -> Keys] /\ \A k \in Keys : Lower[Lower[k]] = Lower[k]
  BY ConfigurationAssumption
<1>1. /\ f.orgs \in OrgsTypes /\ g.orgs \in OrgsTypes /\ g.layout = "orgs"
      /\ \A k \in Keys : f.orgs[k] # None =>
            g.orgs[Lower[k]] = Relogged(f.orgs[k], k) /\ g.orgs[Lower[k]] # None
      /\ \A l \in Keys : g.orgs[l] # None => \E k \in Keys : f.orgs[k] # None /\ Lower[k] = l
  BY RekeyedFacts
<1>2. g = [layout |-> "orgs", orgs |-> g.orgs]
  BY DEF Rekeyed
<1>3. Rekeyed(g).orgs = [l \in Keys |-> IF \E j \in Held(g) : Lower[j] = l
                                        THEN Relogged(g.orgs[Source(g, l)], Source(g, l))
                                        ELSE None]
      /\ Rekeyed(g) = [layout |-> "orgs", orgs |-> Rekeyed(g).orgs]
  BY DEF Rekeyed
<1>4. ASSUME NEW s \in Sections, NEW k \in Keys
      PROVE  /\ Relogged(s, k).repo = s.repo /\ Relogged(s, k).login # None
             /\ s.login # None => \A l \in Keys : Relogged(s, l) = s
  BY ConfigurationAssumption DEF Relogged, Sections
<1> HIDE DEF g
<1>5. ASSUME NEW l \in Held(g)
      PROVE  l \in Keys /\ Lower[l] = l /\ g.orgs[l] \in Sections /\ g.orgs[l].login # None
             /\ \E k \in Held(f) : g.orgs[l].repo = f.orgs[k].repo
  <2>1. l \in Keys /\ g.orgs[l] # None /\ g.orgs[l] \in Sections
    BY <1>1 DEF Held, OrgsTypes
  <2>2. PICK k \in Keys : f.orgs[k] # None /\ Lower[k] = l
    BY <1>1, <2>1
  <2>3. f.orgs[k] \in Sections /\ k \in Held(f)
    BY <1>1, <2>2 DEF OrgsTypes, Held
  <2>4. g.orgs[l] = Relogged(f.orgs[k], k)
    BY <1>1, <2>2
  <2> QED
    BY <1>0, <1>4, <2>1, <2>2, <2>3, <2>4
<1>6. ASSUME NEW l \in Held(g) PROVE Source(g, l) = l
  <2>1. Source(g, l) \in Held(g) /\ Lower[Source(g, l)] = l
    BY <1>5 DEF Source
  <2> QED
    BY <1>5, <2>1
<1>7. Canonical(g)
  <2>1. g.layout # "broken" /\ g.layout # "top"
    BY <1>1
  <2>2. ~Collides(g)
    BY <1>5 DEF Collides
  <2>3. \A k \in Held(g) : Lower[k] = k
    BY <1>5
  <2> QED
    BY <2>1, <2>2, <2>3 DEF Canonical, Migratable
<1>8. Rekeyed(g) = g
  <2>1. ASSUME NEW l \in Keys
        PROVE  (IF \E j \in Held(g) : Lower[j] = l
                THEN Relogged(g.orgs[Source(g, l)], Source(g, l)) ELSE None) = g.orgs[l]
    <3>1. CASE l \in Held(g)
      <4>1. Source(g, l) = l /\ \E j \in Held(g) : Lower[j] = l
        BY <1>5, <1>6, <3>1
      <4>2. Relogged(g.orgs[l], l) = g.orgs[l]
        BY <1>4, <1>5, <3>1
      <4> QED
        BY <4>1, <4>2
    <3>2. CASE l \notin Held(g)
      <4>1. g.orgs[l] = None
        BY <3>2 DEF Held
      <4>2. ~\E j \in Held(g) : Lower[j] = l
        BY <1>5, <3>2
      <4> QED
        BY <4>1, <4>2
    <3> QED
      BY <3>1, <3>2
  <2>2. Rekeyed(g).orgs = [l \in Keys |-> g.orgs[l]]
    BY <1>3, <2>1
  <2>3. g.orgs = [l \in Keys |-> g.orgs[l]]
    BY <1>1 DEF OrgsTypes
  <2>4. Rekeyed(g).orgs = g.orgs
    BY <2>2, <2>3
  <2> QED
    BY <1>2, <1>3, <2>4
<1>9. ASSUME f.layout = "orgs", Loadable(f) PROVE Loadable(g)
  <2>1. \A k \in Held(f) : SectionValid(f.orgs[k])
    BY <1>9 DEF Loadable
  <2>2. \A l \in Held(g) : SectionValid(g.orgs[l])
    BY <1>5, <2>1 DEF SectionValid
  <2> QED
    BY <1>1, <2>2 DEF Loadable
<1> QED
  BY <1>7, <1>8, <1>9 DEF g

(* After a migration, `check' passes and a second one would change nothing;*)
(* and a file the engine could load, it still can                          *)
(* (migrate-org-keys.py:87-122 and 254-279).                               *)
THEOREM MigrationSettles ==
    Spec => [][Migrate /\ Migratable(file) =>
                  /\ Canonical(file') /\ Rekeyed(file') = file'
                  /\ file.layout = "orgs" /\ Loadable(file) => Loadable(file')]_vars
<1>1. IInv /\ [Next]_vars =>
         [Migrate /\ Migratable(file) =>
             /\ Canonical(file') /\ Rekeyed(file') = file'
             /\ file.layout = "orgs" /\ Loadable(file) => Loadable(file')]_vars
  BY RekeyedSettles DEF IInv, Written, Migrate
<1> QED
  BY <1>1, Invariant, PTL DEF Spec
=============================================================================
