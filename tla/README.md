# A verification project for ops-engine

ops-engine is a library of forge automation: an organisation's *layover* (a small
web application) receives webhooks from GitHub or Forgejo, hands them to a queue,
and the engine's handlers publish releases, mirror repositories, merge pull
requests and notify people. A migration runner for Postgres is part of it too.

This directory holds TLA+ models of the parts that carry state between calls or
work against something others write at the same time, the TLC configurations that
check them on small instances, and TLAPS proofs for every instance.

Paths in this text are relative to `src/src/ops_engine/` unless they start with
`src/`.

## 1. Inventory

### The parts, their state and how they meet

| part | state it keeps | operations | works against |
|---|---|---|---|
| event queue, `core/queue_manager.py` | an `asyncio.Queue` with its join count, the dead-letter list, the metrics, `_shutting_down`, the worker task | `start`, `stop`, `enqueue`, the worker loop | the handlers it awaits; the layover that calls `start`/`stop` |
| deduplication, `core/event_dedup.py` | delivery id -> time first seen | `is_duplicate`, `clear` | the layover's endpoint, before the queue (`src/README.md:108-134`) |
| release publication, `modules/release.py` | none of its own: the release objects on the forges | `process_event` -> `_release_tag` -> `publish_release` | one forge adapter per destination; the release workflow runs the same `publish_release` |
| release reconcile, `modules/reconcile.py` | none | `reconcile_release_tags` | the release path above, called again for a tag missing somewhere |
| tag identity, `modules/tag_identity.py` | the tag on the mirror, a local clone | `push_canonical_tag` | both git remotes; called by the release path before any release object |
| mirror, `modules/mirror.py` | the mirrors' heads and tags | `process_event`, `push_event`, `sync_state`, `sweep_deleted_refs` | git remotes anybody pushes to |
| mirror drift and reconcile, `modules/reconcile.py` | none | `measure_drift`, `reconcile_mirror` | both forges' ref lists, then `sync_state` |
| migration runner, `modules/migration_runner.py` | the tracking table in the database | `apply_pending`, `check_pending` | other processes on the same database; a source repository that is edited |
| merge, `modules/merge.py` | none | `process_event` -> `_try_merge_pr` | a pull request whose head moves |
| notification, `modules/notification.py` | ids of the deliveries already announced | `process_event` | chat webhooks |
| health monitor, `modules/health_monitor.py` | none: issues on the forge | `run` | the forge's issue list |
| config, `config_loader.py` | the configuration in force, the hash of its file | loading, validation, layer merge, resolving destinations, lookup by organisation | `config.yml` and `.ops.yaml`, which people and scripts rewrite |
| configuration scripts, `src/scripts/migrate-org-keys.py`, `mirror-destination-audit.py`, `mirror-destination-propose.py` | `config.yml` | `migrate`, `check`, census, proposals | the same files, section by section |
| adapters, `adapters/` | none | HTTP calls, each repeated up to three times on 429/502/503 and transport errors | the forges |

Calls go one way: endpoint -> dedup -> queue -> handler -> adapter -> forge. The
handlers share no memory. What they share are the forges, which the release
workflow, maintainers, other bots and a second delivery of the same webhook write
to as well. That is where the difficulty lies: *every decision rests on an earlier
read of something that others change*.

### What is hard in it, and what would make it correct

* **Event queue.** Retries and new events interleave in one bounded queue; `stop()`
  may arrive at any await of the worker, and may cancel a handler halfway. Correct
  means: an accepted event has exactly one fate, the counters add up at every
  moment, retries are bounded, a drain that ends has lost nothing, a shutdown ends.
* **Deduplication.** An id is remembered before the event is verified and enqueued.
  Correct means: at most one enqueueing per id within the TTL, and no event lost
  because its first delivery was refused.
* **Release publication.** Two publishers with different artifacts race on one tag,
  with a forge that loses answers and a bot that creates releases of its own.
  Correct means: what is reported as good *is* as the tag builds it, every
  destination is accounted for, nothing of anybody else's is overwritten, no
  release before the tag.
* **Release reconcile.** Correct means: a destination without a release gets one in
  the end, and the report says what happened.
* **Tag identity.** Two pushes around a moved tag. Correct means: a returned identity
  was on the mirror at some moment of the call, and a degraded local tag never is.
* **Mirror.** Fresh clones that are stale by the time they are pushed. Correct means:
  no refused history on a public mirror, nothing deleted by a sync, nothing ahead
  overwritten, no protected ref deleted by a sweep.
* **Migration runner.** Racing processes, lost COMMIT answers, non-transactional
  indexes, an edited source. Correct means: bodies run once, in order, without
  holes; reports are true, and so is a check of the tree it listed.
* **Merge, notification, health monitor.** Small read-then-write races.
* **Config.** Which layer wins, which destinations result; two files that are edited
  under a running process, and four readers that validate different parts of them.
  Correct means: nobody is handed a destination the visibility rules refuse, the
  reported hash belongs to the configuration in force, a rewritten file means what it
  meant, and what the scripts report is what the engine would do.
* **The parts together.** A handler is retried, cut short by `stop()` or lost in a
  restart in the middle of a push or a merge; a delivery is repeated after any of these.
  Correct means that each part keeps its promise in that company.

`PROJECT.json` lists these hazards one by one at the line where each bites, with the
property that covers it or the reason why none does.

## 2. What is modelled

| module | models | proofs |
|---|---|---|
| `QueueManager` | `core/queue_manager.py`, completely | `QueueManager_proof` |
| `EventLedger` | what the queue promises: one final fate per event | |
| `MigrationRunner` | `apply_pending`, `check_pending`, the tracking table | `MigrationRunner_proof` |
| `SchemaHistory` | what migrating promises: forward only, once, no holes | |
| `ReleasePublication` | the tag push, `publish_release`, `reconcile_release_tags` | `ReleasePublication_proof` |
| `Mirror` | `push_event`, `sync_state`, `sweep_deleted_refs`, `measure_drift`, `reconcile_mirror` | `Mirror_proof` |
| `Configuration` | `config_loader.py`, `resolve_destinations()` and the three configuration scripts | `Configuration_proof` |
| `TagIdentity` | `push_canonical_tag()` command by command | `Handlers_proof` |
| `MergeHandler` | `modules/merge.py` and the merge calls of both adapters | `Handlers_proof` |
| `Layover` | deduplication, the endpoint, notification, and the composition of `QueueManager`, `TagIdentity` and `MergeHandler` | `Layover_proof` |
| `HealthMonitor` | `modules/health_monitor.py` | `HealthMonitor_proof` |

`MC...` modules extend these with the values of the small instances.

An operator named `X_Y` is a faulty variant of `X`: a bug the code could have had.
No specification uses it. Each property has one that breaks it, so no property
holds for the mere shape of its model.

### QueueManager

A step is what one asyncio task does between two suspension points: that is the
granularity at which the code's tasks interleave. `enqueue()` never suspends and is
one action; the worker is suspended in `queue.get()` (`idle`), in the handler
(`handling`) or in the rate limit sleep (`sleeping`); `stop()` is suspended in
`queue.join()` (`draining`) or in the await of the cancelled task (`awaiting`).
`asyncio.Queue` is modelled with its join count, because a handler that is cancelled
skips `task_done()` and leaves the count one too high for the rest of the manager's
life. `metrics`, `deadLetters`, `unfinished` and `shuttingDown` are the program's;
`accepted`, `tried`, `processed`, `interrupted` and `timedOut` are history.

Assumed: one owner calls `start()` and `stop()`, as the layover's lifespan does
(`src/examples/layover-template/main.py:25-30`); an event stands for one
`enqueue()` call.

### MigrationRunner

A step is one transaction, one autocommit statement, one SELECT or one
materialization. A call works from its checkout and from one reading of the table,
both possibly stale. `Commit` is the heart of it: the body and the tracking row in one
transaction, which the row's primary key refuses to the second of two racing calls.
The CONCURRENTLY statements run after that commit, one by one. A COMMIT whose answer
is lost, a lock timeout, a failing index, a notifier that raises and a process that
dies are actions.

`check_pending()` is two steps: `ListFiles` materializes the source and gives the
checkout up again (`migration_runner.py:428`), `CompareApplied` reads the table
(`:429`) and fills the report. Edits and the bodies of other calls fall between the
two, so a report cannot be exact about any one moment. What it can be is true of the
tree that was listed, which is what `DriftIsSeen` says: a file that had run before the
listing is not pending, and is reported if other content ran than was listed; nothing
is reported unless other content ran than was listed; and a listed file that is in
neither list ran as listed.

Assumed: each call has a checkout of its own (`GitRepoSource`; `LocalDirSource`
reads the live directory again for each file and is not modelled).

### ReleasePublication

`call[p]` is one publisher's run through `_release_tag` and `publish_release`: where it
is, the destinations still ahead, the notes it read at the tag, the plan for the
current destination, and the four lists of `PublicationReport`. Every HTTP exchange
is a step, so a plan made on one read is carried out against whatever the release has
become. `Create` on a destination that has a release by now takes the duplicate
answer, as `release_conflict()` does. `CreateUnanswered` and `WriteUnanswered` are
exchanges that took effect but whose answer was lost; `_request()` repeats a POST, so
the publisher's own first try may be the duplicate of its second.

The workflow `src/.forgejo/workflows/forgejo-release.yml` calls
`publish_release(skip_existing=True)` as well and is just another publisher.

Assumed: nobody deletes a release or edits its notes; `find_release()` sees drafts (it
lists with a write token); all publishers render the same gated title.

### Mirror

`canonical` and `mirror[d]` are the remotes' refs; `job[w]` is one worker's call: the
destinations still to do, the tree it pushes from (a payload's single ref, or a clone),
what the probe saw on the current destination, and the refs it is about to push or
delete there. A step is one git command against a remote, or the listing of the
branches or of the tags of one forge, so every tree is stale by the time it is used.
`measure_drift()` is four such listings; a report is `green` for the tags as they are in
its last step and for the heads as they were listed one step before (`GreenIsInSync`). Commits form a small
ancestor order: `History[c]` is what is reachable from `c`, and it decides both
gates: `Clean` (does any reachable commit touch a candidate path) and `IsAhead`
(does the mirror's head strictly contain ours). Edits of the canonical repository put
push events into `events`, which are delivered in any order, once, twice or never.
`PushFails` may have moved some of its refs. Foreign pushes go to heads of mirrors.

Assumed: foreign pushes respect the gate, which only the engine's own pushes are
answerable for; candidate globs are declared (the loader refuses a public mirror
without them). Tags are the commits they peel to. Webhook verification, the per-ref
gate overrides and the checks of a destination's identity are left out; so is
`process_event()`, which waits, reads one head and reports.

### Configuration

`file` is `config.yml`: its layout (`orgs:`, the older top-level layout, or broken) and
what it says under each spelling of an organisation's name; `overlay` is the
repository's `.ops.yaml`; `config` is what the process holds in memory; `recorded` is
the file whose hash it reports. Commands and calls are single steps, because none of
them waits between reading and writing a file; what interleaves is edits, loads,
restarts, lookups and script runs. `Resolved` is the whole of `resolve_destinations()`:
case-insensitive lookup, the Layer-3 merge, the globs check after it, and the two
deprecated aliases appended last. Of a section only what decides where refs go is
kept.

### TagIdentity and MergeHandler

A step is one git command, or one request to a forge. `TagIdentity` has any number of
callers, each with a clone of any age in which a checkout may replace an annotated tag
by its commit; the canonical tag moves, disappears and comes back, and others push to
the mirror. `MergeHandler` has one call at a time, a pull request whose head, label,
state and checks change between its requests, and the two forges' different ways of
deleting the branch. Answers may be lost and requests may fail.

Assumed: the branch of the pull request lies in the repository itself. A pull request from
a fork, where a branch of the same name may exist in the repository, is not modelled, and
`OnlyMergedBranchesGo` says nothing of it.

### Layover

The composition. The forge sends webhooks (`wire`), which arrive in any order, once, more
often or never (`arrivals`). The endpoint asks `EventDeduplicator` and enqueues one item
for every enabled handler without looking at what `enqueue()` returns. The worker of
`QueueManager` (`INSTANCE ... WITH Events <- Items`) takes an item and its handler
begins: the release handler as a caller of `TagIdentity`, `MergeHandler`, or
`NotificationHandler`, which is modelled here. Whatever cancels the worker cuts
the running handler short where it is; a refused tag push raises, and the queue retries
it; a restart forgets everything in memory.

Assumed: the endpoint is the example of `src/README.md`; a layover's own may differ. Of
the release handler only the tag identity is kept: `ReleasePublication` has the rest.

### HealthMonitor

Each of `Runs` is one process: it probes check after check, hands the results to
sink after sink, and for a `github_issue` sink lists the open issues and then writes a
comment or a new issue in another request. Services change while runs are under
way, requests fail, jobs are cancelled, people close our issue and open others with the
label. `witnessed` collects what each check would have answered since a run began:
that is what the exit code can be true of.

## 3. What the runs show

| run | bounds | shows |
|---|---|---|
| `queue` | 3 events, 2 slots, 2 attempts, 2 start/stop cycles | type, counters, order of first attempts, bounded attempts, lossless drain, `EventLedger`, and that events settle and `stop()` returns |
| `queue_graceful` | 2 events | **violated**: `stop()` is "graceful" only if something is *waiting*. With an empty queue and a handler running, it cancels the handler at once |
| `migrations` | 2 calls, 2 files, 2 contents, 1 index, 1 retry, 1 edit | reports are true, what a check says is true of its listing, `SchemaHistory`, calls end |
| `migration_skips` | 1 call at a time, no edit, no crash | **violated**: after a failed index the file counts as applied, and no later call builds the index |
| `release` | 2 publishers, 2 destinations, 2 files, 1 tag move, 1 foreign release, 1 fault | reports are true and complete, tag before release, foreign releases untouched, a release everywhere in the end |
| `reconcile_report` | 1 reconciler, no tag move | **violated**: a tag whose publication failed everywhere is listed as published |
| `mirror` | 3 mirrors (public, private, unusable), 3 commits, 2 refs, 1 edit, 1 foreign push, 1 fault | gate, deletions, ahead protection, true green reports, and convergence |
| `mirror_ahead` | push events only, 2 edits | **violated**: a push event overwrites a mirror head that is ahead; only `sync_state()` protects it |
| `mirror_report` | one reconciler, 1 edit, no fault | **violated**: a head kept as ahead on one mirror is dropped from the report about another that is behind |
| `configuration` | 2 edits, 2 organisations (one in 3 spellings), 7 declarations, 8 overlays | destinations handed on obey the visibility rules, the hash is in force, migrating keeps the meaning, the reports cover the engine |
| `layover` | five scenarios, below | the promises of the handlers, at most one handling and one announcement per delivery, and that a ready pull request is merged |
| `health` | 2 overlapping runs, 7 configurations, 3 upsets | as many issues as overlaps and no more, true exit codes, every sink tried, a lasting outage is reported in the end |

Why these bounds. Each hazard needs two actors and one disturbance; the bounds give
two actors, two of everything they fight over, and the disturbances that can combine.
*Queue*: two slots and three events are the least with which the queue fills up
while a handler is running; a second cycle lets what one shutdown left behind meet the
next; two attempts are the least with a retry. *Migrations*: two files are the least
that can have a hole or be out of order, and the second carries the index so that
failing there leaves a predecessor behind. *Release*: the two publishers hold
different artifact directories, so one can find the other's release incomplete; two
files make a half-done upload possible; one destination refuses a second asset
of the same name and the other accepts it, as the two forges do. *Mirror*: two commits
that both extend a third are the least history with ahead, behind and diverged heads; the commit that is refused is
one of them; one mirror of each kind of treatment, and the one that is measured
comes first so that the others are still to do when it is done; one worker takes events
and sweeps while the other reconciles. *Configuration*: two edits are the least with
which both files can change between a load and a lookup; the declarations cover every
rule of the validators on both sides; two spellings in one file are the least that
collide. *Layover*: five scenarios keep apart what does not interact: the tag with a
second process and one move; the pull request with three changes on either forge; tag
and pull request queued one behind the other; three deliveries of which two fit into the
queue, with a clock; and two with a restart. A TTL of 0 with two instants has
the two cases there are, at the last instant and after it; a memory of one id that
is cut back to none (10000 and 5000 in the code) overflows with the second id. Two
slots, two attempts and one start are enough for a retry, a refusal and a stop. *Health*:
two runs are the least that overlap; a first page of one issue is crowded by the first
foreign one; three upsets let a service fail, a request fail and a person interfere in
one behaviour. Higher bounds on
faults or tag moves add repetitions, and most safety properties are proved for
all values anyway.

The `queue`, `layover` and `health` configurations say `CHECK_DEADLOCK FALSE`: after its
last `stop()` the manager may rest for ever, and so may a system to which nothing happens
any more. In the other models an idle system can always be called
again, and deadlock is checked.

### Fairness

* Queue: the worker, the timer of the drain and the return from `stop()` are weakly
  fair. The event loop runs every ready task; a handler ends because its HTTP calls
  carry timeouts; `wait_for()` and `sleep()` are timers. Nobody has to call
  `start()`, `stop()` or `enqueue()`.
* Migrations: a call that is running goes on; its statements are answered by Postgres
  or bounded by `lock_timeout`. Nobody has to call it.
* Release: a running call goes on (`_request()` bounds every exchange), and the
  reconcile is run again and again, which is what it is for: it exists so that a tag
  whose push was lost is published later. No tag push is assumed to be delivered, and
  the number of faults is finite.

* Mirror: a running call goes on (git commands end), and the reconcile is run again and
  again, as a timer of the layover does. No event need be delivered and nobody need
  sweep; edits, foreign pushes and faults are finite. `MirrorCatchesUp` thus
  rests on the reconcile alone.

* Layover: the endpoint goes on enqueueing, for it does not suspend; the worker goes on,
  for every request of a handler carries a timeout and every git command ends; and the
  timer of the drain runs. Nothing is assumed of the forge, of people or of the owner of
  the queue. `ReadyGetsMerged` therefore begins with an item that waits in the queue, and
  gives up when the pull request changes, a request fails or the queue is stopped.
* Health: a run that is under way goes on, and the schedule starts it again. Upsets are
  finite.
* Configuration has safety properties only: everything in it is a single call.

### Consequences worth knowing

* A publication that fails on some destination does not raise, so the queue does not
  retry it; and the reconcile asks only whether a release *exists*
  (`modules/reconcile.py:277-307`), so it does not complete one that lacks files. Only a
  redelivered push or the workflow does. `ReleasedEverywhere` therefore promises
  existence and no more.
* A handler cut short by `stop()` is neither dead-lettered nor counted as an error: it
  appears only as the gap between `enqueued` and the other counters.
* Ahead protection holds between a probe and its push only for what the probe saw: a
  commit that reaches the mirror in between is overwritten (`mirror.py:646-677`). A push
  event does not look at all (`mirror_ahead`).
* A branch that is created and mirrored while a sweep runs is deleted from the mirrors
  by it; the next sync brings it back.
* A retry re-runs the whole handler after later events. `FirstAttemptsInOrder` is all
  the order there is.
* Two processes that push a moved tag can leave the older object on the mirror, pushed
  last with `--force`, and its own read-back agrees. What holds is weaker: a call that
  began after another had returned does not take back what that one verified
  (`LaterCallsNeverGoBack`).
* The merge request does not name the head that was checked (`merge.py:139`), so a commit
  pushed between the reads and the merge is merged with it. A push during the reading of
  the checks makes the handler give up although the new head may be ready: no further
  webhook need come, which is why `ReadyGetsMerged` asks for the same head.
* A webhook of a commit status never merges anything, for its payload lists no pull
  requests; and the combined status of GitHub does not contain check runs
  (`merge.py:60-69`).
* `is_duplicate()` answers for what has *arrived*; its docstring says "already
  processed". If the queue refuses the first delivery, the redelivery is dropped within
  the TTL. The code does lose that event, so no property here excludes it:
  `OncePerDelivery` says that a delivery is not handled twice, not that it is handled.
* `verify_checksums()` says that a non-empty answer "means somebody hand-edited a
  historical migration on disk" and that callers should "hard-fail at startup"
  (`migration_runner.py:452-453`). It also means that a file was added to the source, or
  changed in it, and applied by another process between the listing and the SELECT of
  this check (`:428-429`): such a file has a row, and is missing from the listing or has
  another content there, although no migration that had run was edited. `DriftIsSeen`
  holds in spite of it, because it speaks of the tree that was listed; a second check
  gives the right answer.
* The "single labeled issue" of `health_monitor.py:174` holds for runs that do not overlap
  and while ours is on the first page of the list. A check that expects a status of 400 or
  more can never pass, because `urlopen()` raises first; a URL that urllib does not
  accept ends the run before any sink; and with `only_on_failure: false` an issue titled
  as a failure is opened when nothing failed.
* The health monitor reads the older top-level layout only, while `migrate-org-keys`
  moves a file to `orgs:`.
* `propose --apply` never writes: its rows carry no owner
  (`src/scripts/mirror-destination-propose.py:43-45`). Its documentation says that a
  destination without an `owner/` prefix is refused (`:47-49`); the code asks only for a
  slash and a name after it (`:197-198`), so `/name` and a URL are paired. `Proposal` follows the code, and
  no property rests on it. A read failure in the audit's
  `repo_status()` is not caught, although its docstring promises UNMEASURED.
* The release workflow builds a configuration of its own from the `.ops.yaml` and drops
  hosts and globs on the way (`src/.forgejo/workflows/forgejo-release.yml:634-659`): so
  it refuses every public mirror and every mirror on a forge that needs a host.
* A `.ops.yaml` replaces the destinations of `config.yml` but not its deprecated aliases,
  which are appended; a Forgejo alias has no host and is not refused for it.

## 4. What is proved

For every value of the constants that the modules' assumptions allow: any number of
events, calls, publishers, destinations and files, any capacity, any bounds.

* **Queue** (`QueueManager_proof`). `TypeCorrect`; `CountsAlwaysBalance`;
  `DrainIsLossless`; `EventsHaveOnePlace`; `RefinesLedger`; `AttemptsAreInOrder`;
  `AttemptsAreBounded`. `CountsBalance` with
  `TypeOK` is inductive: the three equations of the counters need each other, because a
  cancelled handler moves an item from in-hand to interrupted without touching the join
  count. From it follows that `join()` returning means nothing waits and nothing is
  in hand. The refinement also needs `OnePlace`: an accepted event is in one place
  only, or else one event could be processed twice.
  `FirstAttemptsInOrder` is inductive with these two. It speaks of the first attempts
  among what waits (`FreshEvents`, a recursive function on the prefixes of the queue);
  the lemmas say what appending an item or taking the head does to it, and are proved by
  induction on the length of the prefix. The library's induction theorem takes an
  operator, which the provers cannot instantiate, so `SetInduction` states induction for
  sets of numbers and derives it from the least member of a set, which well-founded `<`
  gives. For `AttemptsBounded` the obvious invariant is a sum of retry counts over the
  queue. The proof avoids the sum: every attempt is charged to a slot, a pair of an
  accepted event and an attempt number below the limit. `Spent` says that there is a set
  of slots, as many as there were attempts, that holds none which a waiting or running
  item may still use; the slots of n events are n times the limit.
* **Migrations** (`MigrationRunner_proof`). `TypeCorrect`; `ReportsStayTrue`;
  `DriftIsAlwaysSeen`; `MigratesForwardOnly`. The invariant says what a call may still
  believe of the database although it looked long ago: below the file it is at,
  everything of its checkout is recorded; a row is never changed or removed; and the
  log and the rows say the same. That is why a stale reading is harmless. For
  `DriftIsAlwaysSeen` it also says of a finished check that what it knew when it listed
  is a beginning of the log. Since rows stay and the log only grows, what the report
  says remains true whatever runs afterwards.
* **Releases** (`ReleasePublication_proof`). `TypeCorrect`; `ReportsAreTrue`;
  `ReportsAreComplete`; `TagComesFirst`; `OthersAreLeftAlone`; `CleanAnswers`. The invariant is one
  predicate per call over the releases: the destinations ahead are in no list
  of the report, each destination is in at most one list, a positive report holds, and
  the plan in progress is one that its release still admits. The last conjunct
  carries the proof: releases only grow and keep their notes, so a plan does not
  become wrong while others work. Its step lemmas show that a step of one call keeps
  the predicate of every other. `CleanAnswers` says what a caller may conclude: from a
  report without failures that every destination holds that build, and from "up to date"
  that every destination has a release, though the reconcile looked at one after the
  other. It needs that a release that exists stays (`ExistsStays`), which is true of the
  engine; a release that somebody deletes is outside the model.
* **Mirror** (`Mirror_proof`). `TypeCorrect`; `GateAlwaysHolds`; `OnlySweepsTakeAway`;
  `WhatIsProbedAheadIsKept`; `GreenReportsAreTrue`. The invariant (`Fit`) says what a
  call holds on to while the remotes change under it: the refs it is about to push are
  in its tree, were admitted by the destination it is at, and were not behind what the
  probe saw; the refs it is about to delete are not kept and not in its clone. It is a
  predicate of one job, so steps of others cannot disturb it. The three action
  properties follow from it and from two lemmas that name who can write a mirror
  (`Writers`) and who can move a call (`Mover`).
* **Configuration** (`Configuration_proof`). `MirrorsAreGuarded`;
  `HashOfTheConfigInForce`; `MigrationKeepsMeaning`; `MigrationSettles`;
  `ConfigurationTypes`; `ReportsMissNothing`. The first rests on one lemma per
  layer: what `load()` accepts is valid, a valid overlay merged over a valid section is
  valid once the globs have been asked for again, and what a valid configuration
  resolves to is guarded. The two on migration are about one step (and about the
  sections of the file: the engine finds nothing in the older top-level layout before it
  is migrated, so there the theorem says that no section is lost or changed): without two keys that
  lower alike, a lookup has exactly one section to find, before and after; and the
  rewritten file is canonical, is its own migration, and loads if it did before and had
  its organisations under `orgs:`. `ReportsMissNothing` compares two ways of reading one
  file: whatever a lookup finds in a file that loads is among the sections the scripts
  list (`FoundIsListed`), and each section they list is what a lookup of its key finds
  (`ListedIsFound`). Together with the types of the answers it is the second inductive
  invariant, `Answered`.
* **Handlers** (`Handlers_proof`). For the tag: `TagTypes`, `NeverBack`,
  `OnlyCanonical`. The invariant keeps with each call that its object is the version it
  read and that this version is not older than what was settled when it began. For the
  merge: `MergeTypes`, `MergesRestOnGreen`, `OnlyMergedGo`. The invariant says what the
  head a call has read has been (`offered`, and `passed` once the checks are read), and
  that a head can only have changed since if the push was noted.
* **Layover** (`Layover_proof`). `LayoverTypes`; `LayoverPushesTags` and `LayoverMerges`: the
  composition implements both handler specifications, so `HandlersKeepTheirWord` carries
  their theorems over. `RepeatedDeliveriesCountOnce` is the property of the composition:
  everything enqueued comes from arrivals that were new when they came, and what the
  deduplicator or the notification handler has let go is known to be old, or
  forgotten. The queue is not refined by the layover as a whole, because a restart empties
  it at any moment. But each step is a step of the queue, leaves it alone, or is the
  restart, after which it is as in its `Init` (`LayoverQueueStep`). So the invariant of
  `QueueManager_proof`, taken over by instantiating that module (`QP`), holds here too:
  `QueueKeepsItsWord` for balance, places, order and the bound on retries, and
  `LayoverKeepsTheLedger` for `EventLedger` between two restarts. `DrainIsGraceful` is
  about all of them: a drain that ends in time finds no merge, release or notification
  under way. It needs `OneHandler`, that a handler runs only while the worker holds an
  item, and only one. `Extent` bounds the histories by the scenario, which shows that every
  enqueued item is one of the instance's `Events`.
* **Health** (`HealthMonitor_proof`). `HealthTypes`; `SingleIssueHolds`; `EndsInOrder`. The
  sum of our open issues and the runs about to create one does not grow but in
  `ListIssues`, and there it is measured; a run's findings are tied to `witnessed` check
  by check and its sinks to `tried` one by one. (`HealthTypeOK` is proved and not checked
  again in a run.)

Every safety property a passing run checks has a theorem. Only model-checked are the
liveness properties (`AcceptedSettles`, `StopComesBack`, `CallsEnd`, `ReleasedEverywhere`,
`MirrorCatchesUp`, `ReadyGetsMerged`, `LastingOutageIsReported`): they rest on fairness,
hence on `ENABLED`, which the provers do not handle. The proofs assume of the constants only
what the modules' `ASSUME`s state; the layover asks of its queue's sizes what
`QueueManager` asks of its own.

## 5. Plan

The order is by weight in the system. Done: queue, migrations, releases, mirror,
configuration, tag identity, merge, the layover that composes them, health monitor.

1. `LocalDirSource` of the migration runner: a directory that changes between the
   checksum and the body of a file.
2. More proofs: an abstract specification of a release on a forge, which every step of
   `ReleasePublication` implements; the same for one mirror ref.

## 6. What is not modelled

* Release gates and the changelog parser: text rules. `ReleasePublication` keeps what
  they decide: notes, or a refusal.
* Adapters beyond the calls above: request and response formatting.
* Triage, dispatcher, stale manager, dependency trigger, runtime identity, rate limit
  tracker: stubs, one-call handlers, or bookkeeping without interaction.
* The other scripts of `src/scripts` (among them `ci_variable_boundary_gate.py`) and the
  other workflows: batch checks over the text of files, without state or interaction. The
  release workflow is a publisher of `ReleasePublication`, a reader of `Configuration` and a
  caller of `TagIdentity`.
* The per-ref gate of `mirror.py` with its override, `resolve_destination()` and
  `prove_destination()`: functions without state that nothing in the engine calls. Consuming
  workflows do, and those are not in this repository.
* Templates, rate limits and the other sections of the configuration: field validation.
