# libdnf in TLA+

A verification project for libdnf (the DNF 5 development tree): TLA+ modules
translated from the C++ source, TLC configurations that check them on small
instances, and TLAPS proofs for all instances.

All paths below are relative to the root of the repository. `PROJECT.json` maps each definition to the lines
it models; its `hazards` list is what the properties were written for.

## 1. The system

libdnf is a package management library. The tree builds `libdnf`, `libdnf-cli`
(terminal output), `microdnf` (a command line front end), `dnfdaemon` (empty
stubs so far) and SWIG bindings. `dnf-4/` holds the previous generation, the
library of DNF 4 and PackageKit, which the new code is ported from; the
top-level build does not use it. Both generations are modelled: the new code
because it is what is built, the old one because it is most of the tree, has most of the protocols
(locks, history, modules, file monitors) and is the reference for the port.

| Component | State | Operations | Correct when |
|---|---|---|---|
| `rpm::Repo` metadata (`libdnf/rpm/repo.cpp`) | `metadata_paths`, `expired`, `timestamp`, `sync_strategy`; on disk `<cachedir>/repodata`, `pubring`, `tmpdir.*` | `load`, `load_cache`, `expire`, `set_sync_strategy` | a refresh that fails does not cost the cache; `true` means current metadata; a torn cache is repaired; `expire()` is honoured |
| countme (`repo.cpp`) | cookie file: epoch, window, budget | one call per metalink request | a window is counted once and only once; the bucket never falls |
| librepo handle (`repo.cpp`) | cached handle, options, log handlers | `lr_handle_init_remote`, `get_cached_handle`, `download_url`, `LibrepoLog` | directory, `is_local` and handle mean the same source |
| `rpm::SolvSack` | libsolv pool, `provides_ready`; on disk `.solv`/`.solvx` | `load_repo`, `make_provides_ready` | a binary file holds what its checksum says; a pool holds one version of a repository |
| `SolvQuery`, `PackageSet`, `ReldepList`, `Package` | bit maps and queues of ids, cached lists | `ifilter_*`, set algebra, iterators | a filter is the set its definition says; a walk visits all |
| common sack, `RepoQuery` | owned items, sets of `WeakPtr`s | `new_*`, `ifilter_*` | a filter answers for the whole query or not at all |
| `Option*`, `Config*`, `Base`, `RepoSack` | value, priority, parent | `set`, `new_string`, loading of files | the highest priority set last wins |
| `ConfigParser` | ordered sections, keys, comments, raw texts | `read`, `set_value`, `write` | what is written is what was read plus the changes |
| `rpm::Transaction`, microdnf commands, progress bars | elements, items, `fd_in_cb`, bars | `run` and rpm's callbacks, `ArgumentParser::parse` | what was asked is done as a whole |
| microdnf loader (`microdnf/context.cpp`) | two threads, `prepared_repos`, `except` | `load_rpm_repos` | ends; leaves no thread; returns only with every repository loaded; blames the right one |
| `WeakPtr`, `WeakPtrGuard` | pointer, guard, registrations | construct, copy, move, assign, destroy | pointer and guard know of each other; nothing leaked, freed twice or used after its end |
| `MemoryBufferLogger` | ring buffer | `write`, `get_item`, `clear` | a log of the last `max_items` messages |
| dnf-4 lock, state (`dnf-lock.cpp`, `dnf-state.cpp`) | lock files, counted items; nested progress | `take`, `release`; `done`, `get_child`, `reset` | each count has one owner; progress stays in its step |
| dnf-4 transaction, rpm run, keyring | package cache, rpm database, keyring | `dnf_context_run`, `dnf_transaction_*` | the history names what happened and no more; what becomes an element was verified |
| dnf-4 history (`transaction/`) | SQLite database | `beginTransaction`, `setItemDone`, `endTransaction`, merge, transform | reasons and groups are remembered; merges end at what is installed |
| dnf-4 repository, context, loader | metadata directories; keyfile, options; list of repositories, monitors | `dnf_repo_check/update/clean/set_data`, `dnf_repo_loader_get_repos` | no rollback; a checked repository is as its file says; the list is what the files hold |
| dnf-4 sack, query, binary cache, advisories | pool, bit maps, considered map, `.solv` files | loads, excludes, filters | maps that call themselves current are; queries and files say the truth |
| dnf-4 goal | jobs, solver, result | `install`..., `run`, `list*` | nothing protected goes; the limit is kept; failures are explained |
| dnf-4 modules | settings files, fail-safe files, active modules | `enable`, `disable`, `reset`, `resolve`, `save` | what is saved is read back; active modules follow the settings |

How they interact. microdnf's main thread calls `Repo::load()` for one
repository after the other and hands each to the loader thread, which calls
`SolvSack::load_repo()`. That reads the files whose paths `Repo::load()` left
in memory, and both leave files in the cache directory that every other process
on the machine uses too; **no lock protects that directory**. Sacks give
`WeakPtr`s to items they own and invalidate them through a guard. In dnf-4 a
`DnfContext` owns the loader, the sack, the goal and one `DnfTransaction`; a
`DnfState` carries progress and locks through every call; the lock directory,
the metadata directories, the binary cache, the history and the module files
are shared by all processes.

What is hard to test: several processes in one directory; a crash or a full
disk between two file operations; state in memory that outlives the file behind
it; the hand-over between two threads when either fails; callbacks in an order
that rpm or librepo chooses; caches with a key that is too weak; long sequences of legal
calls on one object; the edges of bytes, percentages and windows of time.

## 2. Modules

| Module | Models | Proved in |
|---|---|---|
| `RepoMetadata` | `Repo::Impl::load()` and everything it calls, for a set of processes, the origin and the clock | `RepoMetadataProofs` |
| `SolvCache` | `SolvSack::load_repo()`, `make_provides_ready()`, the binary cache | `SolvCacheProofs` |
| `SackLoader` | `Context::load_rpm_repos()`, both threads | `SackLoaderProofs` |
| `WeakPtr` | the whole of `weak_ptr.hpp` | `UtilsProofs` |
| `MessageLog` | abstract: a log of the last `max_items` messages | - |
| `MemoryBufferLogger` | the ring buffer that implements it | `UtilsProofs` |
| `Countme` | `add_countme_flag()` and the request it is for | `LibdnfProofs` |
| `RepoHandle` | librepo handle, directories, targets, log handlers of `repo.cpp` | `LibdnfProofs` |
| `SolvQuery`, `SolvContainers` | package queries; bit maps, queues and their iterators | `UtilsProofs` |
| `CommonSack` | the generic sack and its queries, `RepoQuery` | `LibdnfProofs` |
| `Conf`, `ConfigParser` | options and their sources; INI files | `LibdnfProofs` (options) |
| `ProgressBars`, `RpmTransaction`, `Microdnf` | bars; rpm transaction and callbacks; argument parser and commands. Each extends the one before | `LibdnfProofs` (the last) |
| `DnfLock`, `DnfState` | the dnf-4 lock; progress states, which own its counts | `Dnf4Proofs` |
| `DnfTransaction`, `DnfRepo` | commits and metadata updates of several processes, each on top of `DnfLock` | `Dnf4Proofs` |
| `DnfContext` | context, plugins, enrolment, repository loader and monitors | `SackLoaderProofs` |
| `DnfRepoConf` | where a repository's settings come from | `Dnf4ObjectProofs` |
| `DnfRpmRun` | downloads, keys, rpm elements and callbacks | `Dnf4ObjectProofs` |
| `DnfSack`, `DnfQuery` | the considered packages; queries over them (extends it) | `Dnf4ObjectProofs` (the considered map; what queries answer) |
| `DnfSackCache` | the binary files of the sack | `Dnf4ObjectProofs` |
| `DnfGoal` | goal, selectors, result | `Dnf4ObjectProofs` |
| `DnfModules` | modularity: settings, resolution, package filter, fail-safe files | `DnfModulesProofs` |
| `DnfAdvisory` | advisories | `Dnf4ObjectProofs` |
| `DnfHistory` | history database | `DnfModulesProofs` (what the database tells) |
| `MC*` | instances for TLC | - |

Each module keeps the names of the source. An operator whose name ends in `Slip` (and, in the older modules, one
commented "slip") is not part of the model: it is a wrong version of the
definition that follows it, used to confirm that a property notices the
difference.

Libraries are external and represented by their outcomes: librepo (a download
gives any version a mirror may serve, or fails), libsolv (a solver run gives any
set the jobs allow, or problems), librpm (runs elements in any order that
installs before it erases what is replaced, and calls back), gpgme, SQLite, glib's file monitors.

The header of every module lists its abstractions. The points that matter most:

* `RepoMetadata`: a set of metadata is the number of the version the origin
  published; `repomd.xml` and one primary file per version stand for all files. An action is one access to what processes
  share: reading, asking the origin, comparing, downloading, removing one entry
  at a time, `mkdir`, `rename()`, and the copy `move_recursive()` falls back to.
  `mtime()` of a missing file is any value, as its `stat()` result is uninitialised.
* `SolvCache`, `DnfSackCache`: a binary file is a pair of the checksum it is
  labelled with and the version its content was made from. The times at which
  checksum, metadata and file are read or renamed are separate actions.
* `SackLoader`: what runs under the mutex is one action; a notification is lost
  unless the loader waits; a wait may end spuriously.
* `DnfTransaction`, `DnfRepo`: test and creation of the lock file are two
  actions; a process may die between any two steps, and its pid stays in the file.
* `DnfHistory`: rows of the database are the state; the object's items in
  progress are lost in a crash. Merging is a fold over the items of the chosen transactions.
* `DnfModules`: each module has two copies of its settings (parser and
  configuration) and a file; a write may break off and leave a torn file. Profiles
  keep their order, which the getters change by sorting in place; a state is kept as it is
  spelled, and the old `enabled=` is read. So `save()` may write a file although
  `isChanged()` says no, as the code does: `SaveIsFaithful` asks only that no reader
  sees a difference. A module's profiles are assumed distinct.
* `DnfRpmRun`: a file is what is on disk, with a signature of its own; it may be
  replaced by any other state, another readable rpm included, between any two steps, also
  between the check of the signature and rpm's reading of it. What librpm itself verifies when
  it runs the transaction is not modelled. Progress is counted per repository, as each
  call of `dnf_repo_download_packages` does; the code's sum in doubles is exact below 2^53 bytes.
* `ConfigParser`: a file is a list of lines, of which the last may lack its newline, and a value may
  have continuation lines.
* `DnfQuery`: a version is its place in the order and the Id of its spelling, as the code
  orders by one and counts by the other. A package set is a bit map with the size it had when
  it was made, so that one made before the sack grew leaves the packages beyond it in
  the result, as `map_and()` does. libsolv's maps end at a byte and the model's at a package; the model
  stops (`InBounds`) where the code would read or write behind a smaller map.
* `DnfContext`: files are read one by one; callbacks run between calls, never during one. A file
  that vanishes after the directory was listed makes the refresh fail, and so does
  an enrolment that cannot be saved. Removable media are left out.
* `SolvQuery`, `DnfQuery`: a filter is modelled as the code walks (sorted list,
  scan, staged application) and compared with a definition by sets.

## 3. Runs

Models that share no state are explored side by side in one run: in `MCLibdnf`,
`MCDnf4`, `MCDnf4Objects` and `MCLoaders` the variable `focus` picks, in the
first state, the part at work; the variables of the others keep their initial values. The
state space is the sum of the parts, not their product.

| Run | Shows | Bounds |
|---|---|---|
| `repo_cache_kept` | `ReplacementAtHand`: a usable cache is unlinked only while some process holds the complete download to replace it | 2 processes, 2 versions, 1 crash |
| `repo_sole` | `TrueMeansCurrent`: `load()` = true means metadata served during the call (or, after a copy that stopped half-way, metadata whose files are gone) | 1 process, 3 versions, 3 ticks, 2 crashes, gpg check, `.repo` file edits, all strategies |
| `repo_recovery` | under fairness `CacheRecovers`, `ExpireIsHonoured` | 1 process, 2 versions, 3 ticks, 2 crashes |
| `repo_only_cache` | finding, section 6 | 1 process, `ONLY_CACHE`, gpg check |
| `solv_cache` | `SolvFilesHonest`, `PoolIsOneVersion` | 2 processes, 2 versions, 3 extensions, 2 of them offered |
| `solv_hostile` | `ProvidesFresh` with parse errors and racing refreshers | 1 process, 2 versions, 2 extensions |
| `solv_parse` | finding, section 6 | 1 process |
| `loaders` | `LoaderContract` and, under fairness, `ThreadsCallEnds` for microdnf's two threads; `LoaderFresh` and, under fairness, `LoaderSettles` for the dnf-4 context; `CheckedIsFresh` for its repositories | 4 repositories, 2 of them skippable; 2 `.repo` files, 2 edits, 2 set-ups, 2 plugins; a repository of a file and one of a disc, 2 edits |
| `libdnf` | `PointersSafe`, `ImplementsMessageLog` (refinement), `CountedOnce`, `BucketNeverFalls`, `ReadsAreWhole`, `FilterAllOrNothing`, `SourcesAgree`, `QueriesExact`, `UntouchedIsKept`, `HighestPriorityWins`, `RequestedIsDone` | 3 owning pointers, 2 guards; capacity 2, 2 readers; 4 windows; maps of 2-bit bytes, 4 operations; 2 queries over 6 packages, one NEVRA in both repositories, an array that moves at 4; 2 edits between read and write, files and values of two lines, files without the last newline; 3 steps of configuration; 3 packages in a transaction |
| `dnf4_core` | `WriteAhead`, `HistoryIsTrue` (2 processes, 3 commits, test runs); `NoRollback` (1 updater, 1 cleaner, 2 timestamps); `HistoryRemembers`, `MergeEndsAtRpmdb` (3 transactions of 2 items); `SaveIsFaithful`, `ActiveRespectsSettings`, `FailSafeOutlivesStream` (2 modules, 3 steps) | as given |
| `dnf4_objects` | `RefcountBalanced`, `StepWindow` (2 levels of states); `ConsideredFresh`, `QueryIsExact` (3 repositories, 2 queries, 2 filters); `RunKeepsPromises` (2 jobs, 2 runs, limit 2); `BinaryIsHonest` (3 versions); `ElementsAreVerified`, `CallbacksBalance` (2 commits); `AdvisoriesAgree` | as given |
| `conf_write` | finding, section 6 | as `libdnf` |

Why the bounds are enough. Two versions are what a stale and a current set need,
three let the origin move between the question and the download as well. Two
crashes allow one during the repair of the damage of the first. Two processes
are what each of the races takes. Four repositories with two skippable give
every order of skipped, failing and loaded ones around the loader's position.
Four windows of three ticks reach all buckets of the shortened table. Bytes of
two bits put a set bit at every edge with few packages. Two runs of a goal, two
commits and two set-ups let what the first leaves behind meet the second. Three
history transactions give a merge with a middle. Three steps on a module
container allow a change, a save that fails and the next reader. What holds beyond the bounds is shown by
the theorems of section 5 for the modules that have them.

Symmetry is used where processes or queries are interchangeable, and never with liveness.
Deadlock is checked in the runs of `RepoMetadata` and `SolvCache`. The others
stop where a program ends, an object's life is over, or a bound on the number
of calls is reached.

## 4. Fairness

* `SackLoader`: weak fairness of each thread, which is what the operating
  system's scheduler gives. A spurious wakeup is never assumed.
* `DnfContext`: weak fairness of the call in progress; strong fairness of the
  monitor's callback and of `dnf_repo_loader_get_repos`, i.e. the main loop runs
  what is due and the program goes on asking for repositories, some of these calls
  being able to save redhat.repo. Nothing is
  assumed of other programs, which may edit files as long as the bound allows.
* `RepoMetadata`: weak fairness of the steps of a call in progress. Strong
  fairness of `Load`, `AskOrigin`, `Download`, `MakeRepodir` and `Rename` says that callers
  keep calling and that neither the mirrors nor the file system fail for ever:
  assumptions about the environment, without which nothing can recover. The code
  itself never retries.

Safety properties do not depend on fairness.

## 5. Proofs

Each theorem holds for every set of processes or threads, every bound and every
option, under the stated condition.

| Theorem | Condition | Argument |
|---|---|---|
| `TypeCorrect` | - | `IInv`: types, plus: from the end of the download to the end of `fetch()` the download is in `tmpdir` (`HoldsDownload`), and a wipe implies a gpg check (`WipeNeedsGpg`). The types alone are not inductive, since `Rename` installs `tmp`. |
| `ReplacementAtHandHolds` | no gpg check | only `Unlink` makes a complete cache incomplete, and by `IInv` the process that unlinks holds a download |
| `SoleTrueMeansCurrent` | one process; metadata whose files are there | `SoleInv`: memory agrees with disk except between `rename()` and the following read (`MemoryMatchesDisk`), so that comparing the *file* with the origin says something about the metadata in *memory*; answers and downloads are not older than the call (`AnswersAreRecent`); nobody else fills the directory (`RepodirIsOurs`) |
| `LoaderCorrect` | - | the end mark is last (`EndMark`); what was pushed is what the loop passed without the failed ones (`HandedOver`); the sack is a prefix of it (`Taken`); each reason for `except` (`Failures`, `Signals`) |
| `SolvTypeCorrect` | - | types, and a writer is at an existing part |
| `ProvidesStayFresh` | no repository loaded twice | while a part is added the flag is off, since `load_repo_main()` always comes first and resets it |
| `SolvCacheHonest`, `PoolStaysOneVersion` | one refresher, metadata that parse, no repository loaded twice | paths in memory are never newer than the checksum and only the newest version has files, so a file that can be opened is of the checksum's version (`FileIsOfChecksum`) |
| `WeakPtrSafe` | no assignment to a guard in use, no self-copy of an owner | registrations are exact, which makes each guard access valid; the owners are distinct, which makes each deletion the only one |
| `BufferIsMessageLog` | no `clear()` during a `get_item()` | step simulation under `Kept`; a checked index stays valid since the buffer never shrinks (`AskedExists`) |
| `ReadsStayWhole` | evrs as rpm allows them: no colon or dash in epoch and version; at most one marker in the requires (both in `SolvContainersAssumption`) | `MapInv`: an iterator stands at the id it returned last, and of the ids that were in the set all the time it has returned every one up to there (`Walking`). A step finds the next bit, in the byte at hand (`ScanFinds`) or in a later one (`IncrementFinds`); `size()` counts byte by byte what the set holds (`SizeCounts`). `DepInv` says the like of a list (`Following`); the first colon and the last dash of a joined evr are those that joined it (`SplitUndoesJoin`) |
| `QueriesStayExact` | `FailuresMove = FALSE`: a load that fails does not move the pool's array | `SqInv`: the cached list is of fewer solvables than there are now or the one that would be made now (`SortedOK`), and a query holds packages of the pool it was made from (`QueryMap`). The sort puts each package at the number of those below it, which are all numbers (`RanksAreAll`); in a list so sorted the packages of one key, whole or cut to its first fields, stand together, so that `lower_bound` and the walk from there meet all of them and no other (`WalkMeetsAll`). The pool tells strings apart by Ids, hence equal keys are equal names (`NameWalk`, `NevraWalk`). Key by key a turn of the loop over the patterns finds what the pattern means (`MatchedIsMeant`) |
| `TxTypeCorrect`, `HistoryStaysTrue` | - | `TxInv`: types; after the resolution a process has a goal, in a commit it has an open row whose items are those of its goal, and what librpm still has to do is of the goal (`AllPlaced`). Without the last two, marking an item could touch a row that has none |
| `HistoryIsWrittenAhead` | `NamesToldApart`: no goal removes one package and pushes out another of the same name | the items written at the begin name every element librpm will get (`ElementsAreRecorded`), and no step takes a row or an item away |
| `RepoTypeCorrect`, `UpdateNeverRollsBack` | `OneUpdater` | `RepoInv`: from the download to the installation the directories hold what the updater has compared, or nothing (`RpPlaced`, by place in the code), and `timestamp_generated` of the object is not below what it has seen. That `seen` is bounded by a *cached* time is what a stale mirror runs into |
| `BinaryStaysHonest` | `StatMoves`: a change of the rpm database shows in `stat()` | `ScInv`: each file is labelled not later than its content was read (`FilesHonest`), and so is what a process holds between taking the checksum and renaming the file; a repository's checksum lies between the version the paths name and the one on disk (`ScPlaced`) |
| `ConsideredStaysFresh` | - | `SackInv`: the maps are whole (`MapsWhole`), and every writer of what the considered map is computed from clears the flag (`FreshStays` says that nothing else matters) |
| `QueriesOfDnf4StayExact` | - | `DqInv`: the filters a query has gone through lead from where it started to what it holds (`Leads`: a table with an entry per filter), and those still to apply follow (`Staged`). A filter that looks only at the result names the same packages of it whatever is considered or loaded meanwhile (`NarrowedIsKept`), one by a package set older than the sack too as long as only filters follow that take packages away by name (`Settled`), so the stages join to one application, and a table is the only one (`LeadsToOne`). The sort puts each package at its rank (`SamenameIs`); hence a block stands together, newest first, and from package to package the number of newer versions in its block rises when the version changes (`CounterIs`), and the code's counter when the spelling does: it is never the smaller of the two, and the same where equal versions are spelled alike |
| `ElementsStayVerified`, `MarkedStaysHandled` | - | `RrInv`: an element was read by rpm with a good signature, or its file was replaced after the check, or it needs none (`AreVerified`), since elements appear only after all packages were checked with a keyring that stays until the end of the commit; librpm works only while the transaction runs and on packages of the goal (`RrPlaced`), and an item is set done in the callback in which its package is handled |
| `CallbacksStayBalanced` | - | `ProgInv`: the bytes reported are the sum of what each package of the repository's download has, none above its size (`Counted`). One summand that changes changes the sum by the difference, in whatever order the list has the packages, so that a transfer that starts again takes back what it had added |
| `CheckedIsFreshAlways` | - | `RcInv`: a repository that was set up is as its keyfile describes it (`FollowsKeyfile`). Reading a keyfile into a configuration that holds another one's values gives the same as reading it into a new one (`KeyfileConfAgain`), since every option the keyfile does not have is either reset or of lower priority |
| `ProtectedStay` | - | `GoalInv`: the goal's transaction is of the last run that had an answer, and a failed run has a rule or a problem to show, which the lists for the caller keep |
| `PromisesStayKept` | `SecondRunAddsNoSides`: libsolv's second run adds no package of the installonly set | `LimitInv`: the code goes through one installonly provide after the other; counting what stays and what comes shows that the erasures asked for bring each name within the limit of each provide |
| `AdvisoriesStayAgreed` | `VersionsDistinct`: evrs that compare equal are the same string | a sorted list exists (by the rank of each entry), and in a sorted list the entries of one name and architecture are neighbours, so the scan from where the search lands sees all of them |
| `LocksStayBalanced` | fewer places than a `guint` can count | `StInv`, first half: a lock's count is the number of places in the chain that remember its id (`Balanced`, over any set of places, so that it also describes a release that is half done); ids are below the counter, an item of a type and mode is unique and owned by the thread, and a process lock has its file. Hence no release fails on the way and each level is emptied (`LocksReleased`) |
| `PercentStaysInStep` | - | `StInv`, second half: shares rise to 100 (`Stepped`), and each percentage is in its step (`Windows`). While a percentage climbs, the level that is told next is the only one that may be out of step, and only until it takes the value over (`Pending`) |
| `CountsExactlyOnce`, `BucketStaysUp` | one process at a time | `CmInv`: a counted window is in the cookie or over, and while the cookie is rewritten all are over (`CmOnce`), so that the truncated cookie of a killed process cannot count again; a window not counted yet has spent of the budget what it has asked (`CmAsked`); the bucket sent last is not above the cookie's (`CmBucket`) |
| `SourcesStayAgreed` | - | `get_hash`, `is_local` and `lr_handle_init_remote` choose by the same order (`OneOrderOfSources`) |
| `FilterStaysWhole` | - | whether a filter of `RepoQuery` throws depends on the sack and on the operator, not on the item (`AllOrNone`), so that it throws at the first item or at none (`FilteredWhole`) |
| `RequestedStaysDone` | - | `UdInv`: of arguments that exclude each other at most one is counted, also between the letters of one token; each package that was added is covered by an element, and no later element takes that away |
| `HighestAlwaysWins` | - | `ConfInv`: each option is its default or the winner among the sets that counted, a list option holds what was added since (`Made`); a section is loaded item by item, and every prefix keeps that |
| `LoaderFreshAlways` | - | `CtxInv`: in the middle of a refresh the list is what the files read so far held (`MidRefresh`, `ReadSoFar`); an edit of a file that was read leaves a callback due; a refresh that fails, wherever it does, leaves a loader that is not loaded |
| `ModTypeCorrect`, `ActiveStaysRespectful` | - | `ModInv`: two copies of the settings of the same modules; while the resolution is fresh, the active modules are a conflict-free set of packages not disabled that holds every enabled stream unless all jobs had to be weak (`ActiveGood`). Every change of the settings clears `fresh`, except that of profiles, which no resolution reads (`ChangesSettings`) |
| `HistoryStaysRemembered` | `OldHistoryTells`: wherever the reading of yum's history breaks off, the last transaction that decides about an installed package it names does not remove it | `HsInv`: of each package the completed transactions tell what was wanted (`Tells`: the last one with a row that decides), unless it is away or only the unfinished transaction has put it there (`HsTold`); the comps items tell the groups' members. So that completing a transaction keeps this, its items hold one row per name besides the older half of a pair (`Lone`), and an item nobody asked for repeats the reason told when it was added (`Repeats`), of a package that is there (`Present`). A transaction that stays open or fails leaves its package out (`Touched`), hence a crash needs nothing more |
| `SaveStaysFaithful` | `FilesAsSaved`: the settings files found first name a stream exactly when they enable it | `ModInv` ties the copies together: the parser holds what the file says unless its write failed (`KnowsFiles`), and after a save it holds the configuration (`Settled`). `TidyInv` carries the condition through every call that does not throw; without it a stream could change and `isChanged()`, which compares two named streams only, would not see it |
| `FailSafeStaysUsable` | - | by `Settled` the files say what the settings say, so a yaml that is removed for a stream that is not enabled is not enabled on disk either (`NotEnabledOnDisk`); a broken write happens only to a file whose yaml differs (`FailSafeKept`) |

The conditions are needed: see the next section. Assumptions about constants are
the named `ASSUME`s of the modules: types of the parameters; distinct
extensions; the system repository is not one of the others; an item has one id;
a clock that runs for at least one window; a module package has a stream and a
settings file its three options; packages of a goal and of a download are finite
in number; a version of a `.repo` file is not the 0 of a missing one; the texts of
a keyfile are strings; letters of a token are strings other than `None`; evrs have a
place in the order; the counter of `DnfState` (`RefModulus`) is
wide enough for what a task counts; a string has one Id, and packages have a name, an
architecture and a NEVRA; for `DnfQuery` name, architecture and version are numbers, versions of one spelling are equal, and
a filter has one of the four types of argument; for `DnfHistory` no name is both a
group's and an environment's, groups are finite in number, and yum's rows are well formed. TLC evaluates them in the runs.

What a loop computes is a recursive function in these modules, and the prover has
no induction over data that takes a property as a parameter. The proofs go
another way: that the function exists is shown by extending a table by one
entry, and that every entry has a property by looking at the least one that has
not (`LeastOf`, `CountUpTo` in `Dnf4Proofs` and their like in the other modules).

The dnf-4 modules `DnfTransaction`, `DnfRepo`, `DnfModules`, `DnfSackCache`, `DnfRpmRun`,
`DnfState`, `DnfContext`, `DnfRepoConf`, `DnfGoal`, `DnfAdvisory` and `DnfHistory` and
the libdnf modules `Countme`, `RepoHandle`, `SolvContainers`, `SolvQuery`, `CommonSack`, `Conf` and
`Microdnf` carry their own
specification (`TxSpec`, `RepoSpec`, `ModSpec`, `ScSpec`, `RrSpec`, `StateSpec`, `CtxSpec`,
`RcSpec`, `GoalSpec`, `AdvSpec`, `HistSpec`, `CmSpec`, `RhSpec`, `ContSpec`, `SqSpec`, `CsSpec`, `ConfSpec`, `UdSpec`;
`SackQuerySpec` for sack and queries); the runs start the same initial
predicates and next-state relations through `focus`.

`LoaderContract` and `PointersSafe` are the conjunctions of the named parts the
table speaks of.

Only model-checked, and why:

* every liveness property (`CacheRecovers`, `ExpireIsHonoured`,
  `ThreadsCallEnds`, `LoaderSettles`): fairness and ENABLED are outside the prover;
* `MergeEndsAtRpmdb`: a fold over the items of the merged transactions, of
  arbitrary number, with a table of pairs that changes at each item;
* `UntouchedIsKept`: a text is compared before and after a parse and a write,
  line by line. It excepts what stands behind a line that lost its end (`LinesEnd`) and values of several
  lines that were set while their raw text is kept (`ValuesIndented`); both exceptions are needed, see the next section.

## 6. Findings and observations

Three runs are expected to find a violation of something the repository states:

1. `repo_only_cache`. `repo.hpp:108` says of `ONLY_CACHE` "never download".
   With `repo_gpgcheck` and a key that is not imported yet, `load()` retrieves the key
   and removes the cache before its retry (`repo.cpp:979`).
2. `solv_parse`. `write_ext()` asserts that there is a repodata; after an
   extension failed to parse, `load_repo_ext()` returns an uninitialised
   `RepodataInfo` and the assertion may be reached without one (`solv_sack.cpp:409`).
3. `conf_write`. `config_parser.hpp:97` says `write()` "Writes all data"; an option set under a key the
   file did not have is not written, because `set_value()` tests the
   map of all raw texts instead of its argument (`config_parser.hpp:211`).

Reproducible by changing one constant:

* `TrueMeansCurrent` with `Proc = {p1, p2}`: between the origin's answer and the
  comparison another process replaces the local `repomd.xml`; `load()` then
  "revives" what it has in memory, which is older.
* `CountedOnce` with two processes: both read the cookie before either writes
  it, and the window is counted twice (`repo.cpp:1146`).
* `SolvFilesHonest` with `OneRefresher = FALSE`: an old set may come back between
  checksum and open. With `LoadTwice = TRUE`: the second `load_repo()` replaces the
  checksum, throws, and the next rewrite labels old content with it.
* `ProvidesFresh` with `LoadTwice = TRUE`: the repository left behind by the
  exception is not in the index.
* `PointersSafe` with `AssignInUse = TRUE`: assignment to a guard forgets the
  pointers registered there; with `SelfCopy = TRUE`: an owner assigned to itself
  copies what it has deleted. Nothing in the tree does either.
* `ImplementsMessageLog` with `ClearRaces = TRUE`: the index checked before the
  mutex is out of range after it.
* `QueriesExact` with `FailuresMove = TRUE`: libsolv moves its array of solvables when a load
  does not fit; when that load then fails, the number of solvables is as before, and the cached
  list, which is good while the number is the same, points into the old array
  (`solv_sack_impl.hpp:169`).
* `BinaryIsHonest` with `StatMoves = FALSE`: the checksum of the rpm database is
  made of `stat()` data only, so a change that leaves them alone goes unnoticed (`dnf-sack.cpp:242`).

Behaviour the models contain as the code has it, and which the properties therefore leave out:

* `DnfLock`: two processes that both test for the lock file before either writes
  it both hold the lock. A failed deletion leaves an item with refcount 0 (`dnf-lock.cpp:525`).
* `DnfTransaction`: when the history items are collected, a replaced package is skipped if the remove
  list holds one of the same *name* ("package is already in remove set - skip resolution",
  `dnf-transaction.cpp:1303`). A goal that removes one architecture of a package and
  updates another therefore runs rpm on a package the history has no item for, and
  `Swdb::setItemDone()` finds none when rpm is done with it. The theorem
  `HistoryIsWrittenAhead` names the goals it excludes (`NamesToldApart`).
  A plugin's failing `PRE_TRANSACTION` or `TRANSACTION` hook makes
  the commit return success although nothing, or not all, was done (`dnf-transaction.cpp:1433`);
  a downgraded package is recorded as upgraded (`:1311`); after a failing deletion of the packages
  a completed transaction is reported as failed (`:1506`).
* `DnfRepo`: metadata that are older than those at hand are ignored and the update still
  reports success; if the state cannot be finished then, the lock stays taken (`dnf-repo.cpp:1872`).
* `DnfContext`: the array that `dnf_repo_loader_get_repos` returns is the
  loader's own and is emptied by the next refresh (`dnf-repo-loader.cpp:405`); a goal
  outlives the sack it was made for.
* `DnfSack`: a load that fails after packages were added leaves a considered map
  that is too small and calls itself current; the map of disabled repositories never grows (`dnf-sack.cpp:1667`).
* `DnfGoal`: `solve()` frees the transaction of the run before, but a run that the solver
  fails, or one with nothing protected (`Goal.cpp:1414`), leaves what an earlier run found about
  protected packages, which the problems and the lists of the failed run then show; after the run that enforces the installonly limit, the limit is not looked at
  again, so an answer that brings in one more such package exceeds it (`Goal.cpp:1294`;
  `PromisesStayKept` names the condition).
* `DnfAdvisory`: `filterAdvisory` with `HY_EQ` compares evr ids while the other comparisons
  compare versions; the two agree only where evrs that compare equal are the same string
  (`query.cpp:1035`).
* `DnfHistory`: a package that was installed and then removed stays in a merge (`MergedTransaction.cpp:374`).
* `DnfModules`: `reset()` and `disable()` change the state before `changeStream()`
  may throw (`ModulePackageContainer.cpp:517`); when all jobs had to be made weak, a module
  that another one requires may be activated in a stream other than the enabled one, and
  `ActiveRespectsSettings` leaves that case out; `save()` writes a file for another order of
  profiles or spelling of the state that `isChanged()` does not report (`:1294`); a settings file with a stream that is not
  enabled loses it in a `disable()` that `isChanged()` does not report; installed profiles of one stream are
  searched with a pattern that other streams match too (`:668`).
* `SolvCache`: `write_main()` empties the libsolv repository before it reads the file just written
  back; when that fails the repository stays attached and empty (`solv_sack.cpp:175`).
* `SolvQuery`: GT and LT on version and release alone act as EQ (`solv_query.cpp:610`).
* `RepoHandle`: the cached handle keeps the callbacks and options of the time it
  was made; `add_handler()` returns a number that another thread may have changed (`repo.cpp:2039`).
* `ConfigParser`: a value of several lines that is set for an option with a raw text is written with its
  further lines in the first column (`config_parser.cpp:104`); reading the file again throws `MissingEqual` there or takes the line for
  an option, and what follows is lost. The delimiter of the last line is added only when the file
  had one (`iniparser.cpp:85`), so that what is written behind a line without one is glued to it.
* `DnfRpmRun`: without `ONLY_TRUSTED` a file that is replaced by another readable rpm between
  `dnf_transaction_gpgcheck_package` (`dnf-transaction.cpp:1177`) and
  `dnf_rpmts_add_install_filename2` (`:1224`) becomes an element with whatever signature it has or has not;
  `ElementsAreVerified` excepts that window and no other.
* `DnfQuery`: a package set made before packages were loaded, used as a filter, lets the packages
  beyond its map through (`query.cpp:872`), and when another filter follows in the same application, newer
  packages pass that a set made now would keep out. A filter applied after such a set, one
  on obsoletes of an older target or on upgrades with a considered map of a load that broke off, reads or writes
  behind the smaller map. Packages on equal versions that are spelled differently count as two
  versions in LATEST (`:364`).
* `DnfRepoConf`: `metadata_expire` of 2^31 seconds and more is kept as a negative 32 bit number and
  read back as the same value; `sslverify` reaches the handle in
  `dnf_repo_setup` only (`dnf-repo.cpp:1218`), not in the `dnf_repo_set_keyfile_data` a check
  calls, so `CheckedIsFresh` leaves it out. A check that fails half-way leaves the
  configuration half new (`dnf-repo.cpp:1416`); `exclude` and `excludepkgs` together are both kept.
* `RpmTransaction`: `erase()` adds the element before it finds that the item is there already.
* `ProgressBars`: the total of a block is set to success before all bars are done.
* `RepoMetadata`: when `rename()` fails for whatever reason, the files are copied, and a copy that stops
  behind `repomd.xml` leaves a cache that the next `load()` of the same object takes for current,
  so that it revives metadata whose files are gone and the cache is not repaired while that process lives:
  `TrueMeansCurrent` and `CacheRecovers` except this state (`HalfCopied`). After `expire()` and a reviving `load()`, `timestamp` stays 0 although nothing
  is expired; `get_timestamp()` alone reads it.

## 7. Not modelled

* `LogRouter` and the stream loggers: a list that is changed only before threads start.
* Accessors of single attributes, `Nevra`, `Checksum`, `nevra.cpp`, `nsvcap.cpp`: string parsing without state.
* Mirror choice, transfer, checksums, signatures, dependency solving and rpm
  itself: librepo, gpgme, libsolv and librpm, represented by their outcomes.
* `dnfdaemon` (stubs), bindings of both generations (generated code and argument
  conversion), terminal drawing, help texts and translations.
* `ConfigParser::write` of one section and with `append`: the same lines, to another place.
* Delta packages, debug dumps, smartcols tables, the profile of `DnfState`.
* Copy assignment of options (`option_bool.cpp:35` keeps the priority): nothing in the tree assigns one.
* `get_item()`'s reference after the mutex is released, and `max_items = 0` with
  `get_item()`, which then rejects every index.

## 8. Plan

Done: every module of section 2 and the theorems of section 5. What is left, in this order:

1. Proofs: `MergeEndsAtRpmdb`, from what each item of `MergeItem`'s table says of the rows passed.
2. `RepoMetadata` and `SolvCache` composed: the refreshers of the second
   implemented by the first. `DnfRepo` and `DnfSackCache` likewise.
3. `LogRouter` with microdnf's swap of loggers, composed with `MemoryBufferLogger`.
4. `DnfTransaction` and `DnfHistory` composed over one database.
