# A verification project for RiftLift

RiftLift is a launcher for Meta Rift games: it signs accounts in, lists and
downloads the games they own, keeps them in a library and starts them through
Proton or Windows with a translation of the Oculus API to OpenVR or OpenXR.
This directory models the parts of it that are hard to test, checks the models
with TLC and proves theorems about them with TLAPS. Paths below are relative
to the repository, whose program is under `src/src`.

* [The system](#the-system) — inventory of its components
* [Modules](#modules) — what is modelled, and how state and actions correspond to the code
* [Runs](#runs) — what each run asks, its bounds, the fairness it assumes
* [Theorems](#theorems) — what is proved, from what, along which argument
* [Findings](#findings)
* [Not modelled](#not-modelled), [Plan](#plan)

## The system

| Component | Source | State it keeps | Operations | Hard behaviour |
|---|---|---|---|---|
| Download queue | `common/download/manager.*` | the list of jobs, their states and tokens; a worker pool; `downloads.json` | enqueue, enqueue a pinned version, cancel, remove, move, resume, cancel an account or all, adopt jobs of an old file, parallel limit | worker threads and the UI thread on one list; entries outlive their place in it; crash and restart; lost wake-ups |
| Game installation | `Manager::install`, `discard_files` | game folders, segment cache, manifest, marker, record | plan, scan, fetch, assemble, publish manifest, unmark, record, clean; discard | interrupted updates; jobs sharing a folder, its `.part` files or a cache; deletion beside installation |
| HTTP transfers | `common/http/client.cpp` | a `.part` file per transfer | fetch, resume, retry | retry and range mismatch, stalled transfers |
| Meta accounts | `common/meta/accounts.cpp`, `platform/*/secret_store.*` | an index file, one secret per account, the keyring | add, sign out, remove, select, reconcile, migrate from version 1 | crash between secret and index; two processes; the limit of four |
| Sign-in and store | `common/meta/auth.cpp`, `store.cpp` | one sign-in attempt; query documents | start, finish; library, builds, versions | superseded attempts, expired documents |
| Platform broker and relay | `common/meta/platform.cpp`, `runtime/platform_relay.cpp`, `common/ipc.cpp` | the account pinned to a launch, an app token | entitlement, credentials, proof, scoped id | identity changed under a running game; retries; one outstanding call on a pipe; askers that gave up |
| Platform shim | `compat/riftlift-platform-shim.c` | the user's identity, a ring of messages, a thread per call | initialize, the calls of Meta's platform library, pop a message | threads in one identity fetch; a full ring; late replies |
| Launcher core | `launcher/core.cpp`, `worker.h`, `platform/posix/auth_browser.cpp` | session, epoch, busy flags, library; the worker's tasks; the sign-in window's process | sign in and out, switch, refresh, install, uninstall, launch, Steam sync, tick | completions that arrive after the account changed; other processes; Steam closing and starting |
| Library and settings | `common/library/library.cpp`, `common/rift/*` | game records, settings | record install, uninstall, local games | two processes, partial removal |
| Play time | `common/playtime.cpp` | seconds and launches per game | open, tick, close | several sessions of one game |
| Game launch | `runtime/*launch*`, `child.cpp` | locks, a child process | start, stop, wait | stop racing exit; locks over crashes |
| Log | `common/log.cpp` | last line, repeat count | write, flush | suppressed repeats |
| Others | Steam files, artwork, views, command line, reports, Proton files, bridges, platform shim | | | sequential, or state in external runtimes |

How they interact. The views call `Core`, on the UI thread; `Core` calls
`Manager`'s methods directly and hands slow work to `Worker`, whose completions
run on the UI thread at the next tick and are dropped if `epoch_` changed.
`Manager`'s threads call `Store` over HTTP, write the games folder and report a
finished game through a callback that writes its record. `riftlift-cli` and a
second window are other processes over the same data directory; they meet the
first through file locks and `downloads.json`. A launch is a child process; the
game in it loads the shim, whose calls go over TCP to the relay in the child's
runtime, and from there over a pipe to the broker in the launcher.

What makes each correct. *Queue*: no job twice, none lost that a start can read, a removed one gone,
no game installed by two workers, no token kept or missing, nothing of an
account that signed out starts, the file is current whenever the process may
die, no queued job waits for ever, shutdown ends. *Installation*: only whole,
verified files of an offered build where one worker writes at a time; a manifest only over a complete folder; a
recorded game stays installed; a discard takes no more than an unfinished
download. *Accounts*: no secret without an entry or entry without a secret for
longer than a repair, never more than four, the active account is usable, a
migration loses no credentials. *Broker*: every answer is for the account the
game started with and the app it declared. *Shim*: each call is answered once,
with its own answer. *Core*: no completion of a former account or of an
abandoned sign-in is applied; a running game stays installed while its launcher is there;
Steam lists what was asked for. *Play
time*: no second is counted twice or lost to a concurrent session. *Launch*: one
game per lock, no child outlives its stop. The hazards behind these, each at its
line, are in `PROJECT.json`.

## Modules

| Module | What it is |
|---|---|
| `DownloadQueue` | `download::Manager`: the list, the workers, the saved copy |
| `JobList` | what the queue promises whoever looks at its rows: the abstract list |
| `GameInstall` | `DownloadQueue` joined to what its workers do to the disk |
| `AccountVault` | `meta::AccountVault` over the POSIX `SecretStore`: the index of accounts and the secrets of their slots |
| `PlatformBroker` | `PlatformBroker`: the account a launch is pinned to, its app token, one request at a time |
| `Platform` | the shim in the game, the relay, and the `PlatformBroker` they reach |
| `Worker` | `launcher/worker.h`: the tasks of the launcher and what they returned |
| `GameSessions` | installed games in `Core`: scan, launches, uninstalls, the Steam sync |
| `LauncherCore` | `Core`: accounts, sign-in, refreshes, with `GameSessions` over one `Worker` |
| `MCDownloadQueue`, `MCGameInstall`, `MCAccountVault`, `MCPlatform`, `MCLauncherCore` | the values TLC gives the constants |
| `DownloadQueue_proofs` | ranks in sets of numbers, the list as a sequence, `TypeOK` |
| `DownloadQueueWork_proofs` | who works on what; tokens, and accounts that signed out |
| `DownloadQueueList_proofs` | `downloads.json` is current; the rows implement `JobList` |
| `GameInstall_proofs` | what the folders of games hold; the queue's theorems, of the composition |
| `AccountVault_proofs` | the vault's index, its limit, the session of the first version, sessions kept and accounts forgotten |
| `Platform_proofs` | every property of `Platform` and `PlatformBroker` |
| `LauncherGames_proofs` | the launcher's tasks; games and Steam |
| `LauncherAccounts_proofs` | the launcher's sessions, vault and sign-ins |

Operators named `<Definition>_<Change>`, each introduced by a comment "Mutant:",
are forms a plausible bug would give the definition that follows; nothing uses
them but the `mutants` of `PROJECT.json`, which say what property notices each.

### DownloadQueue

An entry of the list is an object behind a `shared_ptr`: a worker and `remove()`
hold it after the list has dropped it. Hence entries have an identity (a number
up to `MaxEntries`, reused once nothing refers to the object) and `jobs` is a
sequence of them. A job is its app, its account, the pinned version or
`Newest`, and whether its package (the folder's name) is known yet.

| Model | Code |
|---|---|
| `jobs`, `job`, `state`, `token`, `stop`, `removed`, `discard` | `jobs_` and the fields of `Entry` |
| `active`, `parallel` | `active_account_`, `parallel_` |
| `pc[w]`, `mine[w]` | a thread in `Manager::run` and its `Release` object |
| `ui` | the UI thread between the unlock of `remove()` and the end of `discard_files` |
| `saved`, `stale` | `downloads.json`, and whether its last write failed (logged only) |
| `process` | up, in the destructor, or not running |
| `signedOut`, `ops` | history for `SignedOutQuiet`; the bound on calls |

Everything a method does under the mutex is one step. What it does outside the
lock is a step of its own: `discard_files` (`RemoveDiscards`, `Discard`), the
`notify_all` that precedes the lock in `release()` (`Notify`), the installation.
`Wait` blocks a worker until a method notifies (`Woken`): a wake-up is modelled,
and so could be lost. `Take` is the wait's predicate with what follows it under
the same lock, and picks the *first* startable entry. `Finish` includes
`save_locked`. `Close` is the destructor's `cancel_all` and stop request, `Exit`
and `Closed` the joins. `Crash` may happen between any two steps and leaves only
`saved`; `Restart` is the constructor on it, which pauses the jobs it reads and writes
the list again. `resume()` is `EnqueueAgain` or, when
its entry is gone, `EnqueueNew`, with the job it was given.

Every action that ends in `save_locked` ends in `Save`, whose second disjunct is
a write that failed. What is written is `Unfinished`, the jobs neither complete
nor removed, in order. It, `Rows` and `Without` are written by index, not with
`SelectSeq`, so that facts about them can be proved.

The constructor swallows whatever reading throws: an account index or a file that
cannot be read costs every row, an unsound row itself, a row that throws the rest as
well, and `save_locked` then writes the shorter list over the file. `Read(file)` is
the file, or with `ReadsMayFail` anything left of it in its order (`Excerpts`), for
the first start (`Init`) as for every other.

Abstracted: paths (one library folder), names, progress, `generation`, error
texts. A pinned version's package is known from the request.

### JobList

The rows of the download page as its user may count on them: rows have a job and
a status (queued, running, paused, failed, complete); a request adds one or
queues one again, a removal takes one out, a running row is one of at most
`Slots`, two rows of a game never run together; the process may go down, which costs
no unfinished row, and come back with them paused: with all of them, or where
`MayForget` says so without some, but never with one more, one twice or two
exchanged. `DownloadQueue` implements it under the
mapping `Rows`: the entries not removed, in order, the two states of an
installation read as running; while nothing runs, the file. `MayForget` is
`ReadsMayFail`, so the instance where reading cannot fail promises every row.

### GameInstall

Each action is an action of `DownloadQueue` joined to its effect on the files
(`GetPlan` is `Plan`, `Open` is `OpenFolder`, `Scan` is `Fetch`, `End` is
`Finish`), or a step inside `install()` that the queue does not see. `step[w]`
is the place in `install()`; `build`, `todo`, `fetch` and `uses` are its local
variables, `file` and `stream` the file it is assembling and what the stream it writes is
open on. A folder has, per file, the segment of the build the file holds, or
nothing, or `Garbage`; `marker` and `manifest` are `.riftlift-download` and
`manifest.json`; `record` is the game record the `installed` callback writes;
`cache[s]` is a cached segment, absent, good or damaged. `discard_files` is a
look and then an erasure file by file (`remove_tree`), which may end early.

A file is assembled in `<name>.part` beside it, by the same name for every worker in
the folder, in four steps: `Create` opens it and cuts it to nothing, `Scribble` writes
some segments, `Write` the last one, after which the hash of the bytes *read* from the
cache is compared, and `Place` renames it over the file. A stream follows the file it
opened and not its name, so it is open on the `.part` file (`alone`, or `shared` with a
worker that opened it too), on the file itself once another worker has renamed it
(`file`), or on one whose name is gone (`lost`): `Joined`, `Renamed`, `PartGone` and
`FileGone` say what a step of one worker does to the streams of the others. What two
streams leave in one file is that segment or `Garbage`. Alone, a worker that has read
the right bytes has written the right file.

Abstracted: a file is one segment; the parallel transfers inside one job are the
elements of `fetch` in any order; free space, unreadable files, HTTP errors and
zlib errors are the outcome `failed`, possible wherever the code may throw.
`Publish` (Meta offers another build) and `Rot` (a cached segment is damaged) are
the environment. `crossed`, `shared` and `mixed` are history: folders in which threads
met, files that two workers assembled at one time, and updates that began to replace
files under their old manifest.

### AccountVault

Every operation takes `accounts/.lock`, so one runs at a time, in any process
(`op`, and `at` for its next step). An operation is the sequence of its writes:
the index, a keyring entry, a sealed file, a marker. Between any two, `Abort`
may end it (an exception, a failed write, the end of the process), and `Outage`
may change whether the keyring answers. Reads between two writes are part of the
later one. `slot`, `session` and `work` are the locals `key`, `session` and `idx`.

| Model | Code |
|---|---|
| `index` | `accounts/index.json`; rows by key, in no order: `accounts.front()`, the heir of a removed primary account, is any row left |
| `keyring[s]`, `sealed[s]`, `marker`, `folder` | the secret in the keyring, in the sealed file; `session.dpapi`; the slot's folder |
| `Load` | `SecretStore::load`: the keyring first, then the sealed file |
| `visit` … `Reconciled` | `reconcile_locked`: `Marked`, then one folder after another in any order, then the write |
| `assign`, `save`, `unseal`, `mark`, `check` | `upsert_locked` and `SecretStore::save` inside it |
| `verify`, `recheck` | `migrate_v1` with a slot that has a marker; the check before the old session goes |
| `clear`, `clear_sealed`, `unmark`, `write` | `SecretStore::clear` and the end of `sign_out` and `remove` |
| `granted`, `forgotten` | history: the tokens an account may be found with; accounts removed and not signed in since |

A token is the number of the operation that brought it. `migrate_v1` is modelled
from a legacy session whose identity is known; the request that finds it out may
fail, which is `Abort`. `UpdateProfile` always saves, names being left out. An
orphan's secret that cannot be decrypted is one `Load` does not find. `Outage`
(the desktop's keyring) and `RestoreLegacy` (the user puts an old file back) are
the environment. On Windows the secret is `session.dpapi` itself, without keyring
or outage.

### PlatformBroker, Platform

The broker answers one request of a game at a time, under its mutex.
`handle()` up to its first request to Meta is one step (`Serve`); each request to
Meta is a step that ends well, is refused, throttled or unreachable (`Outcomes`),
and is sent again when `send()` would (`Retries`). Between them the vault may
change: what `account()` reads is any sign-in or none, chosen at each request.

| Model | Code |
|---|---|
| `loaded`, `account`, `app`, `token`, `refusal` | `loaded_`, `account_`, `app_id_`, the app token with the id it was exchanged for, the remembered refusal |
| `serving`, `answer` | the request inside `handle()` and how far it is; the reply in the pipe |
| `declared`, `identity`, `retryDue`, `fetcher` | the shim's app id, `identity_*`, whether the 30 s after a failed fetch are over, the holder of `fetch_lock` |
| `calls[c].phase` | where the thread of a call is in `request` and `run_job` |
| `ring`, `head`, `tail` | the ring of messages, one slot of which stays empty |
| `backlog` | connections the relay has not read; it serves one after another |
| `popped`, `dropped`, `asks` | history: messages read, messages that gave way, fetches of the getter in 30 s |

A token or an identity is the pair of the app and the sign-in it is for, which is
all its value decides. `GiveUp` is the two minutes after which a call no longer
waits: the relay and the broker go on, and `Deliver` finds nobody. `Elapse` is the
30 s. Abstracted: message payloads, the pipe's secret, the getters of a popped
message and its release.

### Worker, GameSessions, LauncherCore

Only the UI thread touches `Core`: its acts, `drain()` and `tick()` are steps, a
task of the worker is a step of its own (`Run`), in order, and `Apply` is the
completion of the oldest result. Completions compare `epoch_` (or the generation
of the Steam sync) with the value their task was made in; kept of it is
`current`, TRUE until the counter moves, so no counter grows.

| Model | Code |
|---|---|
| `tasks`, `results` | `Worker::tasks_`, `results_` |
| `vault`, `active`, `view` | what `AccountVault`'s operations leave: whose token each slot holds; `accounts_` |
| `session`, `key`, `scope`, `dl` | `session_`, `account_key_`, `account_scope_`, the account the download manager works for |
| `signingIn`, `verifying`, `auth`, `manual`, `helper`, `events` | the sign-in, its window's process and what its reader reported |
| `refreshing`, `adding`, `libraryPending` | the flags and the set of the same names |
| `disk`, `installs`, `scanning`, `reliable`, `lock`, `runs` | records on disk, `installs_`, the scan, each game's lock and `running_` |
| `others`, `orphans`, `open` | the games of another process's launcher; those that run on after theirs; whether this launcher is there |
| `enabled`, `skip`, `shortcuts`, `steamUp`, `busy`, `steamPending`, `restart`, `probed` | settings, Steam's file, Steam itself, the sync |
| `wanted`, `out`, `sure`, `leftOut`, `failed` | history: the account of the sign-in being verified, accounts signed out here, whether the last scan was authoritative, games ever left out of Steam, whether the last sync failed |

`SyncSteam` is what every path that ends in `sync_steam` does; `Sync`, `Rescan`
and `SaveLibrary` are the calls other handlers make, and take the results left and
the tasks submitted, so that a handler's effect on the worker is one `Queue`.
`probed` separates the last look at Steam in a sync from its write: Steam may start
between them, but the write is refused while it runs. A sign-out, a switch, a
launch or an uninstall of another process (`Elsewhere`, `OtherLaunch`, …) may come
between any two steps. A game's lock belongs to the launcher that started it: `Quit`
(this launcher closes or dies, and does nothing more) and `OtherExit` let go of it with
the game alive, and `OrphanEnds` is the runtime that finds its `--parent-pid` gone.
`AccountDone` compares no epoch; its `update_profile` saves the credential of a slot
that is signed in again, with the session the slot holds by then (`ProfileSaved`).
Abstracted: what a request returns but the account it names
and whether it is complete; details, artwork and versions; the download queue,
which is `DownloadQueue`'s (`Download` is a game it finished).

## Runs

Bounds common to all: `MaxOps` counts calls of the user, crashes, published
builds and damages together, so a behaviour has that many disturbances in any
order, over an unbounded number of worker steps. `MaxEntries` is never the limit
of a behaviour: it is at least the number of jobs requested or restored, and an
object that is let go is reused.

| Run | Instance | Asks |
|---|---|---|
| `queue` | 2 workers, 2 games, 2 accounts, a pinned version, 2 restored jobs of which one has no account, failing writes, reads that may fail, 3 calls; 2,106,684 states | the seven invariants of the queue |
| `list` | the same without failing writes; 342,991 states | `DownloadQueue` implements `JobList`, where a start may forget rows it could not read |
| `live` | 2 workers, one job, 4 calls, fair threads; 45,786 states | no lost wake-up, removed rows leave, shutdown ends |
| `install` | 2 workers, 1 account, one game of 2 files and 2 builds, one paused job restored, 4 calls; 2,139,504 states | only whole, verified files but where two workers write one, discards spare installed games |
| `update` | 1 worker, 1 account, 5 calls; 1,002,372 states | a manifest means a complete folder; a recorded game stays installed |
| `vault` | 2 accounts, limit 1, 2 slots, 1 change of the keyring, 5 operations; 334,363 states | the index is readable, sign-ins survive, removed accounts stay away, migration loses nothing, the limit |
| `platform` | 3 calls of 6 kinds, 2 valid app ids and one that is none, 2 sign-ins, a read sent at most twice, a ring of 2 slots; 1,828,166 states | the broker's and the shim's six invariants |
| `launcher` | 2 accounts and a game, in three instances (`focus`): the accounts alone for 4 acts, the games with one account for 3, everything for 2; 1,081,005 states | the launcher's properties |
| `manual_sign_in` | the same | expected violation, see Findings |
| `removed_is_forgotten` | the same with 2 changes of the keyring, 4 operations | expected violation, see Findings |
| `one_after_another` | 2 workers, one job, 4 calls | expected violation, see Findings |
| `manifest_marks` | 2 workers, 2 accounts, one build, 3 calls | expected violation, see Findings |

Why these are enough. Every interaction in the queue is between two threads over
one or two entries: the UI thread and a worker, or two workers that want one
game or one entry. Two workers and two entries of one game reach them all; the
other game and the other account distinguish "of this game" and "of this
account" from "any". Three calls give ask–stop–ask and remove–ask–remove; the
deepest counterexample met so far takes four, about one job, which is the
instance of `live` and `one_after_another`. The same four calls (ask again, remove,
ask, with the restored job of `install`) put two workers in one folder. Two files and three segments make a
build half installed and let two builds share a file. The proofs lift the queue's
invariants to every instance.

In `vault` two accounts reach a limit of one as five reach a limit of four: what
matters is an account that has its place, one that waits for it and an orphan of
either. Five operations allow sign-in, sign-out, an interrupted sign-in, another
account's, and a migration, the longest sequence known to matter (it is how a
migration exceeds the limit). The same instance with six operations, and three
accounts and keys with a limit of two and four operations, were checked as well.

In `platform` three calls give a fetch, one that waits for it, and one that is
answered late; a ring of two slots is full with one message; of the kinds, those
left out (`login`, `token`, `org`, `entitled`) differ from one that is there only in
the op they send or in whether a message follows. `MaxStarts` 1 is one declaration
or one lapse of 30 s. The instance with two of them, and with `entitled` for
`is_entitled`, was checked as well (3,214,658 states). The theorems cover the rest. The accounts and the games of
`launcher` meet in two places only, the worker's queue and `save_library`: each
part alone is followed as far as the longest sequence known to matter (an act, the
act that overtakes it, and the one that sees it), both together for two acts over
any number of steps of the worker, the window, Steam and the clock. Steps outside
the user's acts are not counted, except those of other processes.

Workers are interchangeable in every property checked under `SYMMETRY`; the
liveness run has none. Deadlock is not checked: once the calls of a bound are made the
system may rest.

Fairness (`live`): weak fairness of each worker's steps, of the UI thread inside
`remove()`, and of the destructor's last join. The threads are `jthread`s that
nothing but the condition variable blocks for ever; a transfer ends because
`http/client.cpp:114` and `:210` abort a stalled one; erasing a folder ends. No
call of the user, no crash and no save outcome is fair. `Wait` is a step like
others: a worker that is never woken stays, fairly, in "wait", so a lost wake-up
is a counterexample.

## Theorems

Those of the queue are for any number of workers, accounts, games, requests, saved jobs and any
bounds; from `QueueAssumption` alone (the empty key is no account, the set of
workers is finite, requests name accounts, the saved list fits). Those of `GameInstall` are for any
files, builds and contents as well, from `InstallAssumption` too. Those of the
vault are for any accounts, keys, limit and bounds, from `VaultAssumption` (`None`
is no slot, row or secret, `Legacy` no key, the keys are finite). Those of the
platform are for any requests, apps, sign-ins, kinds of calls, number of attempts
and ring of at least two slots, from `BrokerAssumption` (`None` is none of these)
and `ShimAssumption` (requests are numbers, the kinds are the shim's). Those of the
launcher are for any number of accounts, any games and any bound on acts, from
`WorkerAssumption` (`None` and the words among a window's events are no accounts),
`GamesAssumption` (the bound is a number) and `AccountsAssumption` (the accounts
are finite).

| Theorem | States | Argument |
|---|---|---|
| `Typed` | `Spec => []TypeOK` | inductive. It includes that the list names no entry twice and that a worker holds an entry exactly from `Take` to the end of `release()`; the file's length is bounded because the list injects into the entries |
| `OneWorker` | `[]OneWorkerPerEntry` | through `Work` |
| `Exclusive` | `[]GameExclusive` | through `Work` |
| `LeavesTheList` | `[]RemovedIsLeaving` | through `Work` |
| `Saved` | `[]SavedIsCurrent` | through `UpToDate` |
| `Tokens` | `[]TokenOnlyWhileQueued` | inductive given `Work`: a job that finishes was not queued |
| `Quiet` | `[]SignedOutQuiet` | through `Owned` |
| `ListImplemented` | `SavesMayFail = FALSE => (Spec => ImplementsJobList)` | each step from `UpToDate` and `Startables` |
| `RowsApart` | `[]RunningApart` | from `Work` |
| `InstallTyped` | `InstallSpec => []InstallTypeOK` | inductive with `Plans`, given `TypeOK` |
| `InstallKeepsQueue` | `InstallSpec => []P` of `TypeOK` and the six invariants of the queue | each step of `GameInstall` is one of the queue or leaves the queue alone |
| `InstallShowsList` | `SavesMayFail = FALSE => (InstallSpec => ImplementsJobList)` | likewise |
| `OfferedFiles`, `SharingIsMeeting` | `InstallSpec => []P` of `OnlyOfferedFiles`, `SharedIsCrossed` | through `Parts` |
| `CompleteInstalls`, `RecordedInstalls` | `InstallSpec => []P` of `InstalledIsComplete`, `RecordedIsInstalled` | through `Disk`, `Parts` |
| `MeetingsFollowRemovals` | `InstallSpec => []MetAfterRemoval` | from `GameExclusive` |
| `SparingDiscards` | `InstallSpec => DiscardSpares` | each step from `Disk` |
| `VaultTyped` | `Spec => []VaultTypeOK` | through `VaultInv` |
| `IndexIsReadable` | `Spec => []IndexReadable` | through `VaultInv` |
| `LimitHolds` | `Spec => LimitKept` | each step from `VaultInv`, `Copies` and `Counted` |
| `OldSessionKept` | `Spec => LegacyKept` | each step from `OldSession` |
| `SessionsAreKept`, `RemovedStayForgotten` | `Spec => []P` of `KeptSessions`, `ForgottenWhenReachable` | through `Steady` |
| `PlatformTyped`, `TokenCurrent`, `AnswersPinned`, `OwnMessages`, `RepliedOnce`, `PacedGetters` | `Spec => []P` of the six properties of `platform` | through `Inv` |
| `LauncherTyped`, `SteamCurrent` | `[]LauncherTypeOK`, `[]SteamIsCurrent` | through `Inv` of the launcher |
| `StaysInstalled`, `SureRemovals` | `RunningStaysInstalled`, `RemovalsAreSure` | each step from `Inv` |
| `SessionOfKey`, `StaysOut`, `AnswerComes`, `OneFetchEach` | `[]P` of `SessionIsOfKey`, `SignedOutStaysOut`, `SignInHasAnswer`, `PendingHasTask` | through `AInv` |
| `WantedChanges` | `OnlyWantedChanges` | each completion from `AInv` |

*`Work`* joins the three invariants with two more, because none is inductive
alone. That no other job of a game runs is read off the list, so an entry being
installed must be in the list or have been removed by the user (`StillThere`);
and a removed entry must have been told to stop (`RemovedStops`), which `Quiet`
needs in turn. *`UpToDate`* says that a save now would change nothing. It is
preserved because each action either saves or leaves alone what a save reads; it
gives `SavedIsCurrent` by the map `Nth`, whose order, range and inverse are
lemmas. *`Owned`* adds that a job of nobody rests (`LegacyRests`), without which
`adopt_legacy` could give a running job to an account that signed out.

*`ListImplemented`* relates `Rows`, which `Nth` takes from the places of the list
that are not removed, before and after each action. `NthOnly` says that `Nth` is the
only map that takes places in order (`InOrder`), so that for each action it is
enough to give one for the state after it: the same map where the list keeps its
entries (`RowsInPlace`), one with a place more, one that closes the gap of an entry
removed or let go (`RowsWithout`), two exchanged by `move()`. Two things are needed
of the state. Where the process ends, `JobList` keeps in their order the rows not
complete: that the file says the same is `UpToDate`, hence the hypothesis that
writes do not fail, for a failed one leaves behind what a crash then loses. And a
worker that takes a job makes a row run, so that what it takes must have a row and
a slot: no removed entry is queued, and `parallel` is at most the number of workers
(`Startables`). A start
that could not read everything gives `Rows` the excerpt it read, which is one `JobList`
may come back with. `RowsApart` needs no hypothesis: a running row has a worker by
`OneWorkerPerEntry`, and the exception of `GameExclusive`, a removed job still at
work, has no row.

*`Parts`* is what `OnlyOfferedFiles` needs of the `.part` files. `SharedOrOwn` says of a
worker with a file that either the file is among those two workers assembled at one
time, or it is the only one to have it (`Own`): its stream is open on the `.part` file
alone unless a discard took that file, and once it is written the `.part` file holds the
build's segment or is gone. A step of another worker touches the streams and the
`.part` of its own file only, and enters a file somebody assembles only by `Create`,
which records it. `SharedIsCrossed` says that such a file lies in a folder where threads
met, so that elsewhere the file put in place is right, as `RestIsRight` needs.

*`Disk`* joins the disk's invariants with four more. What a folder holds is only
known as long as no two threads have met in it (`crossed`). Until then one worker at
most is inside, and nobody discards there (`Alone`): a step that would break this is
the one that sets `crossed`. What the worker has not left to assemble is right
(`RestIsRight`), so that the manifest goes over a complete folder; it is there before
the record is written (`ManifestFirst`); and a folder under discard has none
(`ErasedIsUnfinished`). A plan is of a build its folder is offered (`Plans`). Of the
queue, all this needs is that a job somebody holds keeps its folder and that nobody
moves a worker in a folder but itself (`Untouched`), which `QueueKeeps` states once
for every step.

*`VaultInv`* says of the copy an operation works on what `IndexReadable` says of
the file, and of each step which operations reach it and what their slot is
(`Doing`): a key chosen in `Assign` still `Fits` its account when the index is
written after the secret, and a slot being cleared is still listed. Four lemmas
state what the changes of an index preserve; the steps cite them.

*`Copies`* says when the copy of an operation is still the index, *`Counted`* that a
key about to be signed in has its place or finds one free: `LimitKept` compares two
states, and a step that would exceed the limit has come through `Assign`'s test.
*`OldSession`* says that while the old session's slot is being cleared, the account
has a row and a secret of its own. *`Steady`* holds while no keyring has come or gone
(`outages = 0`, the condition of both properties it carries). It says where each
secret is: in one store only (`OneStore`), under its own account's row, and one
account's never in two folders (`Separate`); what a sign-in under way has put where
(`Storing`); that a repair has restored what it visited, or had no room (`Visited`);
that a removed account has no row and no folder a secret of it (`Forgetting`); that an
account that finished a sign-in has a usable slot with a session it was granted
(`GrantKept`), and what each operation leaves of that slot (`Granting`). None of the
seven is inductive alone: a repair restores what it finds in a folder, so what it may
find must be known before it looks.

*`Inv`* of the platform is `BrokerInv` (what a request being served has been found
to be, and what an answer says), with the shim's own: each call asks for itself and
its reply names it (`CallsOwn`), the slots of the ring in use hold messages of
finished calls, each in one slot (`RingOwn`), what was popped or dropped is finished
and out of the ring (`Known`), and a getter asks only while no other fetch of the
30 s has (`Paced`). Pushing and popping move the set of slots in use by one at an
end (`PushWaits`, `PopWaits`), arithmetic that `SuccWraps` and `Around` settle once.
`PinnedStays` carries a message's sign-in over the broker's steps.

*`Inv`* of the launcher is about what is submitted and not yet applied, the tasks
and results of the worker together (`Submitted`). At most one scan and one sync are
among them, and the flags `scanning` and `busy` say exactly whether they are; a sync
that is still current carries the titles as they are; an unfinished one leaves out
only what may go and comes before any scan; a finished good one left its titles in
Steam. None of these is inductive without the others, since what a sync may leave
out depends on the scan whose completion asked for it. `Owner` proves them for every
step of the UI thread, whatever it submits, and `Finishes` for the worker's; the
rest shows each handler to be one of the two. `Careful` says which steps may touch
the disk and Steam's entries. That a game with a launcher is locked is part of
`GamesTypeOK`; one without is in `orphans`, the exception of `RunningStaysInstalled`.

*`AInv`* adds that neither the session nor the wanted account has signed out, and
that no slot holds anything before a session's account is known (`Signed`), and what
the tasks of accounts are (`TasksOwn`): a refresh that arrives while the account is
unknown is of the session, the one current verification is of the wanted account and
is there exactly while `verifying`, an awaited address has its task, an account has a
fetch exactly while it is pending.
`Passes` says what a step leaves of those tasks whatever scans and syncs it adds
beside them, so that `GamesInv` and `TasksOwn` are kept apart.

The library's induction theorems take an operator as a parameter, so the
induction `NthExists` needs is taken from well-foundedness of `<` on sets of
numbers (`SetInduction`).

Only model-checked: `QueuedLeaves`, `RemovedLeaves` and `CloseEnds`. They are liveness
under fairness, which is out of the prover's reach.

## Findings

* `one_after_another`. `manager.h:72` promises that "jobs of one game always run
  one after another". A worker releases an entry in three steps, and between them
  the user may ask for the job again, a second worker take it and the user remove
  it: the first worker's `release()` then drops an entry the second still
  installs, and a new job of that game starts beside it. What does hold, and is
  proved, is `GameExclusive`: it takes a removal.
* `manifest_marks`. `manager.cpp:604` says of the manifest that "it marks a
  complete install". `discard_files` looks and deletes outside the lock, and
  accounts share a game's folder: the discard of one account's job deletes files
  under the other's installation, whose manifest then goes over a folder with a
  file missing. `InstalledIsComplete` states what holds when no two threads meet
  in the folder.
* `removed_is_forgotten`. The dialog that removes an account says "RiftLift forgets
  this account's sign-in" (`launcher/ui/views.cpp:1866`). `SecretStore::clear`
  counts a keyring that does not answer as cleared: the secret stays there and the
  slot's folder on disk; the row is gone. Once the keyring answers, the next
  `reconcile_locked` takes folder and secret for an interrupted sign-in and lists
  the account again, as the active one if none is. `ForgottenWhenReachable` states
  what holds.
* `manual_sign_in`. When the sign-in window fails, `core.cpp:1320` says "The sign-in
  still works in any browser: keep waiting for its address." The window's reader
  always reports after an error that the window closed, and `tick()` takes that, in
  the same poll, for the user's cancellation.

Also met, and stated as conditions of the properties rather than as findings: an
update that is paused or dies leaves files of two builds under the old manifest
(`mixed`); jobs in parallel delete each other's cached segments, which costs a
retry and no correctness; a second window keeps a queue of its own over the same
file; a sign-in stored in a sealed file while the keyring was away is shadowed by
the older secret when it is back; a start that cannot read the account index, the
file or a row of it writes `downloads.json` without the rows it missed; two workers in
one folder (after the history of `one_after_another`) share its `.part` files and may
put a file in place that is of no build, its hash being that of the bytes read;
`migrate_v1` signs an account in again without
counting (`LimitKept` excepts it); `cancel()` ignores pinned versions although
their rows have a Pause button.

In the launcher, likewise modelled as the code does it and no finding: the completion
of another account's refresh saves that account's credential without comparing the
epoch, harmless since it is the one the slot holds, although `launcher/README.md:167`
says that account changes "invalidate pending results before any credential write"; a
game runs unlocked from the end of its launcher until its runtime notices, and may be
uninstalled meanwhile; cancelling a
sign-in moves the epoch without clearing `refreshing_` and `adding_`, which then
stay set until another refresh, or for good; `rescan()` while a scan runs asks for
nothing, so that scan may miss what the request was about; a failed scan ends
without the Steam sync that `save_library` left to it; a refresh's `upsert` selects
its account again although another process switched or signed it out; a snapshot
that names no account is merged under the one the window shows; Steam may be
started again while it still closes.

## Not modelled

Pure input and output, formatting and parsing: inflation of segments (its result
is checked against a hash, which is modelled), requests to the store and what they
return beyond its account and completeness, the detection of executables, Steam's
file formats, artwork, views, reports, Proton's file layout. The Oculus bridges,
whose state is in graphics runtimes and drivers, and the vendored loaders beside
them, are most of the repository's lines. Of the shim, the getters of a popped
message, `ovr_FreeMessage` (memory) and what is forwarded to Meta's own library. Of
`Core`, the details, artwork and versions of games, local games, debug reports,
`mark_primary` and the unused `sign_out()`. `PROJECT.json` lists every component
with its status, and per hazard why no property covers it where none does.

## Plan

What remains, in order of weight.

1. The second window over one `downloads.json`, and `LauncherCore` over
   `DownloadQueue` and `AccountVault` themselves.
2. `ResumeTransfer`, `PlayTime`, `LogRepeats`, `GameLaunch`: smaller machines.
