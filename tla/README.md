# A verification project for the ICIL validator

The repository is the validator of a competition between robot policies: it
takes submissions into a queue, duels each one against the reigning model on a
list of units, and publishes signed results that a third party can verify.
This directory holds TLA+ modules of it, translated from the code under `src/`
(paths below are relative to `src/src/icilval/`), TLC configurations that check
them on small instances, and proofs that TLAPS checks for every instance.

    tlasany M.tla                                   parse a module
    tlc -workers 2 -config X.cfg M                  check a run
    tlapm M.tla                                     check the proofs of a module *Proofs

`PROJECT.json` lists the runs with their modules, the lines each definition
models, the mutants that show that a property can fail, the hazards and the
findings.

## 1. Inventory

| Component | State | Operations | What is hard | What makes it correct |
|---|---|---|---|---|
| Result store (`store/writer.py`, `store/records.py`, `ids.py`) | `manifest.json`, `head.json`, `index-NNNN.jsonl`, `events/`, `media/`, the flock, `touched` in memory | `init`, `write_event`, `append`, `write_head`, `put_media`, `drain_touched` | four separate writes per publication, several kinds of writing process, crashes | evidence before its record, a head backed by the index, numbers without holes, a chain of crowns |
| Challenger queue (`queue.py`) | a list per process, `queue.json`, `queue.json.tmp` | `add`, `remove`, `pop`, `start`, `finish`, `advance_block`, each with `save` | threads and processes share one file and one list with no lock of its own | acknowledged entries stay, each is taken up at most once and in the end, one per key, the file is whole |
| Admin server (`admin.py`) | the lock, the `Queue` object | submit, health | its lock is not taken by the daemon, whose object it may share | every request ends |
| Validator daemon (`daemon.py`) | the flock, the block number, the duel in hand | `lock`, `step`, `publish_queue`, `_mirror`, `run` | peek and pop are apart, a duel lies between; what a genesis raises, what a duel raises and what a push raises end in three places | the same as its queue, store and mirror; the snapshot shows what is; a king does not block the queue |
| Duel orchestrator (`duel/orchestrate.py`) | unit verdicts, clips pending and done, the run directory | `run`, `_run_side_inprocess`, `_run_side_docker`, `_poll_side`, `_merge`, `_flush_media`, `publish_genesis` | containers that outlive it, a duel that is run again in the same directory | every unit judged on both sides, from what the sides wrote, clips linked, the duel ends |
| Side runner (`duel/side_runner.py`) | `units.jsonl` | `run_side`, `read_results`, `_append` | resuming, torn lines, wall time | a unit is run once per side, or voided |
| Scoring (`duel/score.py`) | none | `skill_rate`, `average`, `crown_moves`, `tally`, `verdict`, `void_fraction` | margin and epsilon, void units, skills without a score | a copy never wins, the margin is exact, voids decide nothing |
| Mirror (`store/mirror.py`) | the remote repository | `push`, `push_all`, `replace_all` | a failed commit after the touched set was drained, a daemon that dies with it, a store rebuilt under the same mirror | what is public is consistent, and the operator can restore it |
| Command line (`cli.py`) | none | `daemon`, `duel`, `genesis`, `queue`, `admin`, `run-side`, ... | each process reads the store and the queue for itself | it takes the lock when it publishes |
| Store verifier (`store/verify.py`) | none | reads a store | counting on after a fault | it reports each fault of a store once |
| Live reporter (`live.py`) | time of the last post | `post` | rate limit | best effort |
| Submission, fingerprint (`submission.py`, `model/fingerprint.py`) | a download | `fetch_model`, `check_submission` | what is refused, what is not downloaded, what is checked and what is loaded are four different sets of files; a local directory skips the first two | what passed once passes again |
| Unit derivation (`pools/units.py`, `rng.py`) | the generator's counter | `derive_units`, `_spread`, `below`, `shuffled` | remainders, caps, rejection, empty choices | an even list, unbiased draws, demonstrations from elsewhere |
| Pools (`pools/schema.py`, `build*.py`, `demos.py`, `upgrade.py`, `validate.py`) | `pool.json`, the files of tasks, variants and demonstrations beside it, the pool in memory | the six stages, `save`, `seal`, upgrade, generate | a build of hours that dies anywhere, stages run alone or again, a save that does not seal | nothing is named that is not there, a finished pool loads and serves, the same sources give the same id |
| Episodes, simulators (`sim/`) | an environment, the executor's one worker thread, torch's generator | reset, prompt, `act`, step, record | an act that outlives its time-out, its unit or its policy | a unit's steps come from its own demonstration, wall times hold, the side ends |
| Policy, prompt (`model/`) | the prompt of the policy | `chunk_layout`, `chunk_actions`, `set_prompt`, inference | chunk boundaries, demonstrations shorter than a chunk | a prompt has every step of one demonstration, once and in order |
| Canonical JSON, keys, spec (`canon.py`, `spec.py`) | none | conversions | - | - |

How they interact: the daemon's thread peeks an entry, advances the block,
pops, marks the duel in progress and calls the orchestrator. The orchestrator
runs the two sides one after the other, each in its own process or in a
container that shares a directory with it, copies clips into the store, and
publishes clips, event, index line and head. The daemon then publishes the
queue's snapshot and pushes what was touched to the mirror. Admin threads and
`icilval queue` change the queue; `icilval duel` and `icilval genesis` publish
into the same store. 

The hazards, each at its line and with the properties that would catch it, are
in `PROJECT.json`.

## 2. Modules

| Module | Models | Runs |
|---|---|---|
| `CrownChain` | the abstract store: a chain of records, a crown | through `ImplementsChain` |
| `ResultStore` | the publication protocol and its writers | through `StoreVerifier` |
| `StoreVerifier` | what the verifier reports of that store | `StoreAnyWriters`, `StoreLoneDaemon` |
| `IndexFile` | index lines that are written in part, and their readers | `IndexTorn` |
| `ChallengerQueue` | the queue, the daemon's thread, admin threads, commands | `QueueSafety`, `QueueLive`, `QueueRaceLoses` |
| `Duel` | orchestrator and side runners | `DuelRuns` |
| `Submission` | what is refused, fetched, checked and loaded of a repository | through `Validator` |
| `Validator` | the daemon with its queue, fetch, check, duel, store, snapshot and mirror | `MirrorOutage` |
| `Score` | the verdict of a duel | `ScoreVerdicts` |
| `Prompt` | chunks and frames of a demonstration | through `Episode` |
| `Episode` | the units of a side, the main and the worker thread | `SideEpisodes` |
| `UnitLists` | the derivation of a skill's units, the generator | `UnitDerivation` |
| `PoolBuild` | the stages of `icilval pools build`, `upgrade`, `generate`, saving and sealing | `PoolStages` |
| `MC*` | model values, deployments and symmetries for the runs | |
| `ResultStoreProofs`, `QueueProofs`, `DuelProofs`, `EpisodeProofs`, `ValidatorProofs`, `IndexProofs`, `PoolProofs`, `UnitProofs` | proofs about the module of the name; `DuelProofs` also about `Score` (section 4) | - |

**ResultStore.** A process goes through the labels of `pc`: `Boot`,
`WriteManifest`, `WriteFirstHead` are `make_runtime` and `Store.init`;
`LoadQueue`, `StartDaemon`, `LockRefused`, `StartDuel`, `StartGenesis` are the
commands, `TakeEntry` is `Daemon.step`; `Evaluate` is everything up to the
stored clips; `WriteEvent`, `AssignSeq`, `AppendLine`, `AdvanceHead` are the
writes of a publication in the code's order, one action each because a crash
can come between any two. `WriteFails` is an exception that `run()` logs: the
daemon goes on. A model is a value; an event id is the tuple that the code
hashes; signatures and times are left out. Each write is atomic here.

**StoreVerifier.** It extends `ResultStore` and adds no variable: `Lines` is the
index as `verify_store` reads it, part by part, and `SeqErrors`,
`EvidenceErrors`, `HeadError` are its reports. `VerifierCounts` compares them
with the records that no later step of the store stands on.

**IndexFile.** One writer, and lines that need not be whole: a part is the
sequence of what was appended to it, each with the seam that it is `cut` before
(body, tab, signature, newline, or none). A line of the file begins where a
whole one ends, so that a cut line and the one after it are one line to a
reader. `Index` is `iter_index`: the lines that parse (`Fields`), sorted by their
numbers as `list.sort` does it (`BySeq`). `Records`, `Unread`, `Unsigned`,
`OutOfSequence`, `HeadError` are what `verify_store` sees and reports.

**ChallengerQueue.** One action is what a thread does between two points where
another can run: `save()` is `BuildText`, `OpenTmp`, `WriteTmp`, `Rename` (or
`RenameFails`, when another thread has renamed the shared temporary file
first), `add()` is `ReadOne` per element, `Bind`, `AppendEntry`. File handles
are modelled, since a renamed file that is still open goes on being written.
A deployment, chosen at the start, says which threads there are. An entry
carries the number of its `add()`, so that a resubmission is another entry.

**Duel.** `file[s]` is `units.jsonl` of a side; a runner is a pair of the
number of the start and the side, so that the container of an earlier start can
still append. `RunUnit` logs a line (in the orchestrator's process it merges it
too), `Poll` and `EndSide` are `_poll_side`, `Flush` is `_flush_media`. `site`,
chosen at the start, is a deployment: containers or one process, the room of the
stderr pipe that is only read at the end, a mirror or none, and which of the
faults can happen (the orchestrator dies, a container outlives it, an act hangs,
a side dies in the middle of a line). The wall times are choices: a side's turns
units void, the duel's fails it.

**Submission.** A repository is a set of files, each a directory and a kind, and
how its configuration and tensors compare with the template of each skill.
`Refused` is `fetch_model` before the download, `Fetched` what is there after
it, `CheckSubmission` the complaints of the check, `Loads` what `load()` of a
policy needs. How a tensor or a configuration comes to compare as it does is a
choice of the repository.

**Validator.** The composition: one daemon and its admin thread, operators, and
the Hub. `queue` is the one in memory and `saved` is `queue.json`; what `step()`
does to the queue between two of its calls is atomic here (`ChallengerQueue`
takes it apart), a duel is its fetch, its check, its clips and its verdict (`Duel`, `Episode` and
`Score` have the inside). A file is its content, so that a pushed file is the
file as it is at the push: the head is a seq, a block and a king, a part of the
index the blocks of its records, an event its block, its kind and the clips that
its units refer to, the snapshot what `publish_queue` writes. `touched` and `drained` are the two sets of names that the code passes on.
`Fails` says where each failure ends: a duel's always in `FinishDuel`, a
genesis's in `run()` without a snapshot unless it was refused. A full disk makes
any write raise: those of the event, the line and the head (`WriteFails`), the
`fsync()` behind a line that is there (`SyncFails`), the clip of a demonstration
(`DemoFails`), `write_queue()` at the end of a step, before a duel and at the
start of the daemon (`PublishFails`), each `save()` of the queue by the daemon
(the second alternatives of `TakeGenesis`, `DropKing`, `TakeChallenger` and
`FinishDuel`, which leave in `saved` what the save before it wrote) or by the
admin thread (`Submit`), and the first head of a store (`InitFails`). What
raises in a step ends in `StepRaises`: the daemon is idle with what was touched
still in memory. `Rebuild`, `PushAll` and `ReplaceAll` are what an operator does
while no daemon runs. History: `raised` (a step raised before it published, or a
daemon died, and nothing was published since), `cutShort` (nobody is at the duel
that the queue or its snapshot names), `unsynced` (parts of the index with a line
whose `fsync()` raised), `waived` (the king took the throne unchecked), `harm`
(the mirror lacks files, or has those of a store that was rebuilt).

**Score.** Rates are integers over a common denominator, the crown rule is
compared exactly, and the epsilon is `1 / EpsilonInverse`. Its specification is
`ScoreSpec`, so that the module can stand beside `Duel` in `DuelProofs`.

**Prompt, Episode.** An action or a frame of a demonstration is its number in it.
The main thread's `pc` goes `unit` (the loops of `run_side` and
`_run_libero`/`_run_draw`), `prompt`, `loop`, `wait` (`fut.result`), `step`. The
queue of the executor is `work`, its head starts with `StartAct` and ends, if it
ever does, with `FinishAct`; a time-out leaves both alone. A chunk of steps is
one action, since nothing looks at the simulator within it. What an act depends
on is kept as history: the demonstrations it was prompted with while it ran and
the units whose acts have drawn since the generator was seeded. The clock `now`
advances by waiting and by what takes time; it needs no bound because every unit
ends.

**UnitLists.** `derive_units` for one skill, an action per group, pick and unit.
The pool is chosen at the start. A word of the generator is any of `0..Word-1`;
`Limit`, `Below`, `Draws`, `Shuffled` are what the code makes of words. Angles
are integers.

**PoolBuild.** `json` is `pool.json`, `pool` the one in memory; beside them lie
`files` (the half-written ones among them are `halves`), `demos` and `torn`. A
build is `Open`, a `BeginStage` per stage with the steps of its loop over the
tasks `left`, which it takes in the fixed `Order`, `Finalize`, and `Close` with
the last `Save`; every `pool.save()` of the code is a `Save` of its own, since a
build can die before it or in it. `pools upgrade` is a build whose first stage is
"upgrade" (`CopyTask`, `CopyVariants`), `pools generate` and `generate-draw` are
stages that `Close` does not save after. The sources, and what the simulator
says of their scenes, are chosen at the start (`world`). The id of a pool is its
content, so that a stale id is one that differs from it. `Discard` is not code:
whoever owns a pool that does not load has to remove `pool.json`, and the rest
stays where it is. `cut` is history: what a build has died amid.

## 3. Runs

Passing runs:

| Run | Bounds | Shows |
|---|---|---|
| `StoreAnyWriters` | a daemon, a `duel`, a `genesis`, one model, 1 block, commands start below 1 record; faults | order of writes and lock protect readers whoever writes |
| `StoreLoneDaemon` | a daemon, two models, 5 blocks, the store not initialised; faults | the daemon's chain, with the refinement of `CrownChain`, and what the verifier says of it (2 lines per part) |
| `QueueSafety` | two keys, 2 waiting entries at most, 3 accepted, 2 duels; deployments {daemon}, {2 admin threads}, {command}, {daemon + 2 admin threads}; crashes in the first three | see the properties |
| `QueueLive` | the same keys with 2 accepted; deployments {daemon}, {daemon + 2 admin threads}; no crash, fairness | every entry taken up, every request ends |
| `DuelRuns` | 2 units a side, 2 starts, flushes of 2 clips, 1 void tolerated; three deployments: containers that outlive a dying orchestrator; containers with torn lines, clips, acts that hang and a pipe of 2 lines; one process with torn lines, clips and a mirror that refuses | verdicts are complete, grounded and stable, every clip is stored and, but for a refused last commit, linked, the duel ends |
| `IndexTorn` | 5 lines in parts of 2, each cut at any of its seams, crashes | what a torn line costs, and that a loss is reported |
| `MirrorOutage` | a sound model, a local directory without configurations and a repository that is too large, 2 skills, 1 waiting entry; a behaviour has the outages of Hub, clips and publications, or a full disk, or deaths, each with 3 blocks, or a full disk together with deaths or with lost publications, with 2 blocks; the large repository is submitted in the first; 2 lines per index part, rebuilds | what a reader of the mirror can rely on, the snapshot, the king |
| `ScoreVerdicts` | 2 skills of 2 units, all verdicts of both sides, a margin of 25 points, 25 % voids | the crown rule, and that no side is compared over fewer skills |
| `SideEpisodes` | 3 units in 2 skills, any of them resumed, 2 chunks a unit, demonstrations of 1, 3 or 5 steps, chunks of 3 padded with zeros and of 2 not padded, 1 error allowed, side wall 3, unit wall 2, time-out 1 | late acts, prompts, wall times, the end of a side |
| `UnitDerivation` | 5 units over 2 groups of up to 2 entries, 2 states, 2 demonstrations, 0 or 2 directions, 3 angles, words of 3 bits | an even and unbiased list |
| `PoolStages` | 2 base tasks, 2 generated (1 by the organizer), 3 drawings (2 by the organizer), 2 demonstrations a task, 3 builds, 11 invocations (all stages, any one of them, an upgrade with and without more, what is generated), 5 worlds (all well, absent, broken, barren, broken and barren), crashes between any two steps and in the middle of a file | what a build leaves, and that it is reproducible |

Why the bounds are enough. A store fault needs two publications, one that dies
and one that follows it: five blocks give chains of that. Two models are a king
and a challenger who may come back. Two admin threads contend for the lock, a
third accepted entry makes a list in which the daemon's pop shifts what `add()`
has still to read. Two starts of a duel and two units give a unit that was done
before the crash and one that was not, and with `FlushUnits = 2` a flush that
waits and one that goes. Two lines per part and three blocks cross a part
boundary, and five lines leave a part with a torn line in its middle and one with
it at its end. One of the three models is checked and passes, one passes with the
flag alone, one is refused; with three blocks one of them is king, is challenged,
and is met again as king after an outage. Two skills of two units make a skill
lose a unit, or both, to voids. Three units in two skills let an act outlive its unit and its policy; the walls
are such that each of the three limits is met first in some behaviour. Five
units over two groups leave a remainder, three picks over two entries meet the
cap, and 8 words have a remainder for 3. A demonstration of 1 step is shorter
than both chunks, 3 fill one of them, 5 are a multiple of neither. Two base
tasks make a stage save twice, which is when an id goes stale; three
builds are one that dies, one that runs part of the stages and one that finishes
(four were checked once on a smaller pool, with the same result).

Faults: a process dies at any label or in the middle of a file, a write raises or
writes a part, a rename fails, a fetch or a commit fails, a side fails or hangs.
The runs with `CHECK_DEADLOCK FALSE` are those where the system may stop: a duel
command ends (`DuelRuns`), so do the runner (`SideEpisodes`), a function
(`ScoreVerdicts`, `UnitDerivation`), and lines and builds are counted
(`IndexTorn`, `PoolStages`).

Fairness. `QueueLive` assumes weak fairness of each thread's work once it has
begun, which is what the interpreter's scheduling gives; submissions are under
no fairness, they may never come. `DuelRuns` assumes it of the orchestrator's
steps and of each side runner; nothing says that a duel is started, that a side
fails or that a poll falls at some moment. `SideEpisodes` assumes it of the main
thread alone, an act may take for ever; `UnitDerivation` of the one thread there
is.

The violation run, a property that the code's own answer states and the code
does not keep (`findings` in `PROJECT.json` quote it):

* `QueueRaceLoses`: the daemon peeks and pops without the admin server's lock;
  an entry that took the peeked one's place is popped and never dueled.

Other divergences met while modelling, which the modules can show when a
constant or a property is changed, and which have no run of their own:

* In one process, units found in `units.jsonl` are not run again and not merged
  either (`side_runner.py:111`), so a resumed duel is published with units that
  miss a side: `LostByResuming` in `EveryUnitJudged`.
* A line appended to a torn tail of `units.jsonl` is lost with it, and the
  container ends well (`side_runner.py:279`): the same exception, for a site with
  `tears`.
* When the last commit of clips fails, units are published without clips that
  are in the store (`orchestrate.py:129`): the exception of `ClipsLinked`, which
  `refused` remembers. A commit that succeeds links what the refused ones before
  it did not.
* A container with an act that hangs does not end, since the interpreter joins
  the worker thread, and the orchestrator waits for it past `duel_wall_seconds`
  (`side_runner.py:130`, `orchestrate.py:239`): the exception of `DuelEnds`. So does one that logs
  more than its stderr pipe holds: `DuelEnds` with `pipe |-> 1`.
* `save()` seals a pool only while it has no id (`pools/schema.py:182`): a stage
  that saves per task leaves a `pool.json` with the id of its first save, which
  does not load, after a build of that stage alone: `SealedPoolServes` with
  `"spatial"` for `"finalize"` in `Finished`. All stages in one go end well
  because `finalize` seals again.
* A demonstration file left by an interrupted import passes for the whole import
  (`pools/build.py:110`): `Reproducible` without `"demos" \notin cut`.
* An upgrade takes over a file that a died one has half written
  (`pools/upgrade.py:26`): the exception in `FilesFirst`.
* Where a base scene cannot be built, its pose, level and lighting variants are
  marked as validated without having been checked (`pools/build.py:309`), against
  `docs/pools.md:22`: `Unchecked` in `SealedPoolServes`.
* `pools build` never records from which initial state a demonstration starts;
  `pools upgrade` carries the record over where it is (`pools/upgrade.py:73`). In
  a pool without it LIBERO demonstrations are chosen as if none started from the
  scored state, against `docs/protocol.md:23`.
* Where every demonstration of a task starts from the drawn state, one of them is
  taken (`pools/units.py:129`): `DemoElsewhere` has that exception.
* The next seq comes from the head, which is written after the index line
  (`store/writer.py:172`): a crash between the two makes a number repeat, which
  the verifier reports as an error. `VerifierCounts` says how often.
* The result of `os.write()` is not looked at (`store/writer.py:166`): the head
  advances to a line of which a part is there, and the next line is glued to it,
  against `writer.py:12`. `TornCostsTwo` says what is lost, `LossReported` that
  the verifier finds it.
* `publish_queue` drains the touched files before the push (`daemon.py:62`): the
  files of a failed publication are not in the next one, against `daemon.py:70`.
  `harm` remembers it.
* A genesis that raises anything but a refusal skips `publish_queue()`
  (`daemon.py:92`): the snapshot goes on showing the entry that was taken.
  `SnapshotTrue` without `~raised`.
* When the `save()` in `finish()` or `write_queue()` raises in the `finally` of a
  duel (`daemon.py:127`), the snapshot shows a duel that is over, and the record
  that was written is not on the mirror until the next publication, against
  `store/verify.py:152`, "rewritten every cycle": `SnapshotTrue` and the second
  part of `MirrorCurrent` without `~raised`.
* What raises between the peek and the `try` of `step()` (`daemon.py:102` to
  `121`), a save or the publication before the duel, leaves an entry popped that
  is never dueled, and perhaps `in_progress` set with no duel running, against
  `admin.py:173`: the same exception, and `cutShort`.
* When `os.fsync()` raises behind an index line (`store/writer.py:167`), the line is
  there but its part is not touched: it is not in the next publication, against
  `docs/operations.md:38`, "The daemon mirrors as it publishes". `MirrorCurrent`
  without `unsynced`.
* The skip flag excuses the challenger, never the king (`orchestrate.py:318`): a
  king crowned with it makes every later duel fail, while the entries are taken:
  `KingPasses` without `~waived`. A king whose repository is gone does the same.
* A late act draws from torch's generator after the next unit has seeded it
  (`sim/episode.py:124`): `OwnPromptAndSeed` without `~lapsed` fails.
* `icilval genesis` publishes without the lock (`cli.py:468`; add it to the
  `Publishing` processes of `OneWriter`).
* A process that sees no manifest initialises the store before it takes the
  lock (`daemon.py:173`): `FreshStore = TRUE` with two daemons breaks
  `HeadForward`.
* A daemon reads its queue before it takes the lock (`cli.py:501`): with two
  daemons `UniqueEvents` does not hold.
* `icilval duel --king K` puts its own king, or the winner over it, into the
  head, whoever reigns (`store/writer.py:171`): one more reason why
  `CrownSuccession` is about daemons alone.
* `icilval duel` without `--block` publishes the same pair twice under one
  event id (`cli.py:794`): `UniqueEvents` with two duel commands.
* The daemon and an admin thread save through one temporary name
  (`store/writer.py:50`): `disk` is torn or empty in `{daemon, admin thread}`,
  which is why `DiskWhole` speaks of deployments apart from each other.
* `icilval queue add` writes a file that a running daemon never reads and
  overwrites (`cli.py:83`): `NoLostEntry` with `{daemon, command}`.

## 4. Proofs

Every theorem holds for any values of the constants that the named assumptions
of its module admit: any sets of models, units, tasks and threads, any bounds.
A hypothesis beyond these is in the column "Assumes". The shape is always the
same: an inductive invariant, one lemma or step per action, and the property
from the invariant. What a recursive function computes (`Part`, `Lines`,
`Others`, `Shuffled`, `Fields`, `FlattenSeq`) is proved without the library's induction theorems, which
no prover here can instantiate: a closed form satisfies the function's equation,
and two functions that satisfy it agree, since there is no least place where
they differ. Sums and products over sets, which are folds of the community
modules, are proved about in the same way: unfolded at their operator each is a
recursive function over subsets, which exists since it does for the subsets of
at most `n` elements for each `n` (`FoldExists`), and in which any element can be
the last step where the steps commute (`FoldAnyOrder`).

| Module | Theorem (property) | Assumes | Argument |
|---|---|---|---|
| `ResultStoreProofs` | `Typing` | - | one step per action |
| | `EvidenceHolds` (`EvidenceFirst`) | - | `EvidenceInv`: a record on its way to the index already has its event and clips. `EvidenceFirst` alone is not inductive, since `AppendLine` appends from `rec`. |
| | `HeadBackedHolds` (`HeadBacked`) | - | `HeadInv`: a process at `head` has its record in the index |
| | `OneWriterHolds` (`OneWriter`) | - | `LockInv`: a process that publishes, or is a daemon between two steps, holds the flock |
| | `SeqDenseHolds`, `HeadForwardHolds` | no genesis command; a store with no manifest has one writer (`LoneStart`) | `Settled` (initialisation is over before anything is published) and `SeqInv` (the last line's seq is the head's or one more, and so is the seq of a record being published) |
| | `CrownSuccessionHolds` | moreover no `duel` command | `CrownInv`: a record being published fits the throne that the head names, and the head's king is what the last line with its seq leaves |
| | `StoreImplementsChain` (`ImplementsChain`) | the same | `KeptInv`: each number up to the head has a last line; a step that advances the head appends one link to the chain and every other step stutters |
| | `UniqueEventsHold` (`UniqueEvents`) | one daemon, no commands | the block is saved before anything is published under it, and what is in the index is of blocks that were saved |
| | `VerifierCountsRight` (`VerifierCounts`) | the same | `LinesAreIndex`: the parts joined are the index, so the verifier's lines are its records; `RepeatsCount`: in a list of numbers that repeat or go up by one, the lines that repeat one are as many as those that are overtaken; `AgreeInv`: an event has the seq of its record, and `HeadNames`: the head is a record of the last seq but for one that is not reached |
| `QueueProofs` | `ListsHold` (`OneEntryPerKey`) | - | `Rebuilt`: the list that `add()` rebuilds precedes, key by key and number by number, what its iterator has still to read, however many entries the daemon pops meanwhile |
| | `WholeHolds` (`DiskWhole`), `AcknowledgedHolds` (`AckDurable`), `TakenOnceHolds` (`AtMostOnce`) | `LoneCommands`: no queue command runs beside another process | the admin lock excludes two handlers, so one thread at a time is in `save()`; the temporary file is whole when it is renamed; an entry is the first of its list until it is popped, and after that it is nowhere but in the old file, until the rename |
| `DuelProofs` | `StableVerdicts` (`VerdictStable`) | - | `MergedOnce`: what was merged of a side was seen by a poll, or its unit is not run again |
| | `UnitsJudged` (`EveryUnitJudged`) | - | `Covered`: of the side at hand each unit is logged, still to run or lost by resuming; `MergedIsJudged`: what is merged is judged or void |
| | `ClipsStored` (`ClipsLinked`) | - | each clip of a side that is over was found by a flush; a forced flush leaves nothing pending; what is stored is linked, or the commit that was tried last was refused |
| | `SkillsScored` (`EverySkillScored`) | - | a skill whose units are all void is more than the limit tolerates, by the cardinality of a product and `VoidAssumption` |
| | `PublishedComparesAll` | the units are the skills' and `VoidLimit` is the scoring's limit (`SameUnits`) | `UnitsJudged` and `FewVoid`, that nothing is merged after the scoring, put together with the lemma under `SkillsScored` |
| | `MarginIsExact` (`ExactMargin`) | `FineEpsilon`: with `n` skills of `L` units, `100 * L^(2n) * n * max(1, n-1)` is less than `1 / SCORE_EPSILON` | both ways to compute an average are one fraction (`MeanIsAverage`); if both averages are over the same number of skills the excess over the margin is a multiple of that number and the tolerance is less, otherwise the tolerance is none (`FineTolerance`) |
| | `CopyStaysHolds` | `SCORE_EPSILON` is below one percentage point | the excess of a copy is the margin, below zero, times the square of the denominator |
| | `TallyDecidesHolds` | `100 * n * L^n` is less than `1 / SCORE_EPSILON` | the units counted skill by skill are the units (`CountByPart`), and the excess is a multiple of wins less losses less the margin |
| | `PublishedIsExact` | `SameUnits`, and `100 * n * L^n` is less than `1 / SCORE_EPSILON` | from `PublishedComparesAll`: both sides were judged on the same units, so the excess is a multiple of the one denominator, and the tolerance is less (`SameTolerance`) |
| `EpisodeProofs` | `Typing` | - | one step per action; the units left are distinct |
| | `OwnActions` (`OwnPromptAndSeed`) | - | `ActsOfPast`: an act that still occupies the worker is of the unit in hand or of one that will not come again; `OwnNoise`: as long as no act was given up the worker has no other work |
| | `UnitsEndInTime` (`WallTimes`) | - | the clock at each label is within the wall, an act and a chunk of the unit's start |
| | `WholeDemonstration` (`PromptCovers`) | - | `BuiltInv`: a prompt is always what `BuildPrompt` makes of one unit; a position of the joined chunks is one of a chunk by division |
| `ValidatorProofs` | `HeadNeverAhead`, `EvidenceMirrored` (`MirrorEvidence`), `MirrorIsStore` (`MirrorCurrent`) | - | `FilesInv`: an event refers to clips that are in the store, and so does the job before the event is written; `TouchInv`: the part of the index that has the head's record is touched, and drained, together with the head; `Pushed`: a file that differs from the mirror's is touched, on its way or unsynced, unless a push was lost; so what a part names when it reaches the mirror goes with it or is there (`Served`) |
| | `KingsPass` (`KingPasses`) | - | a commit never changes, so the answer of the check is the same in every duel; the job in hand after `Check` has passed it or is excused |
| | `SnapshotHolds` (`SnapshotTrue`) | - | `QueueInv`: a duel that the queue in memory or its snapshot names is the one in hand unless nobody is at it; between a publication and the next step the snapshot is the queue but for entries that were added since, and `Others` keeps the key of every entry |
| `IndexProofs` | `TornCosts` (`TornCostsTwo`) | - | `FileInv`: the lines in the order of writing have numbers that repeat or go up by one, and each lies in the part of its number; what `Fields` takes of a part and `FlattenSeq` joins keeps the order, and `BySeq` leaves a list whose numbers do not go down as it is |
| | `LossIsReported` (`LossReported`) | - | `Counted`: a number that the head has passed has a line; if all that begin a line parse and are signed, a claimed line that is not read is glued to a body cut short, and then a number is missing among the records or the last is not the head's |
| `PoolProofs` | `FilesFirstHolds` (`FilesFirst`) | - | `Backed` and `Intact` of both documents: what they name is there, and whole; `GrowInv`: until it is saved the pool in memory has all that `pool.json` has, except in an upgrade; `StageInv`: an upgrade is a first stage and its pool begins empty; `HalvesInv`: only a death leaves a half |
| | `SealedPoolServesHolds` (`SealedPoolServes`) | half a `pool.json` is not a whole one (`Torn \notin Pools`) | `SealInv`: from a last "finalize" to the end of the build nothing is added, and what is saved is what was judged and sealed |
| | `ReproducibleHolds` (`Reproducible`) | neither half a `pool.json` nor none is a whole one | `KnownInv`: a document holds nothing the sources lack, and a LIBERO task has all its demonstrations or none unless a build died among them; `RestInv`, `LabelInv`: the stages left are the end of the list the build began with; `BuildInv`: what each stage makes is in the pool or still due, so at the end it is all there |
| `UnitProofs` | `DemosElsewhere` (`DemoElsewhere`) | - | the two steps that make a unit, and that no other does |
| | `FairDraws` (`DrawsFair`) | - | words below a multiple of `n` with one remainder are in bijection with those of another; two series of draws that differ first at a position leave different entries there, and no later swap touches it |
| | `SpreadEvenly` (`EvenlySpread`) | - | `SpreadInv`: the shuffled list has each entry once; those before the position in hand were picked once more than those behind it, so that the cap is met by none before the last round; the groups that are done have their size |

The assumptions are not conveniences: without them the properties fail, as the
divergences above say (`genesis` without a lock, initialisation before the
lock, `--king`, two duel commands, a command beside a daemon). `FineEpsilon` is
about numbers: `spec.json` has two skills of at most 42 units, which makes
`100 * 42^4 * 2`, or 622,339,200, against the 1,000,000,000 of `SCORE_EPSILON`. Two
skills of 48 units would be too many for the theorem, and a reason to look at
`SCORE_EPSILON` again.

Model-checked only, and why:

* `TakenUp`, `RequestEnds`, `DuelEnds`, `SideEnds`, `DerivationEnds`: liveness
  under fairness is out of the prover's reach.
* `NoLostEntry`: it is violated.

## 5. Not modelled

* Numeric code: policies, simulators, rendering, task generation, the rotations
  and the similarity of drawings. What the models need of it is a choice: a scene
  builds or does not, an episode ends in one of its verdicts.
* `live.py`: best-effort posts at a limited rate; nothing reads an answer or
  waits for one.
* `canon.py`, `spec.py`, keys: pure conversions without state. The schemas that
  `verify.py` applies to documents are left out for the same reason.
* HTTP, argument parsing, authentication and validation of a request: a
  precondition of `Submit`.
* `icilval store mirror` beside a running daemon: one commit of a folder that
  moves. `docs/operations.md` has it for a store built by hand.
* The steps of `save()` inside `Validator`: the queue is atomic there, and in
  steps in `ChallengerQueue`. So is a death between two saves of one step:
  `ChallengerQueue` has it, and here a failing save leaves the same `queue.json`.
* A demonstration that is too long for the policy: it is one of the ways a unit
  becomes void.
* `pools build --limit`, `--suites`, `--no-validate`, `pools push` and `pull`.

## 6. Plan

What is left, in the order of what it would add:

1. Two daemons, and a daemon beside `icilval duel`, in `Validator`: the stale
   queue of `cli.py:501` with the store and the mirror.
2. A `store mirror` whose files are read one by one while a daemon publishes.
3. `DuelRuns` with three units, and `Duel` refined by an abstract duel that judges
   a unit in one step.
