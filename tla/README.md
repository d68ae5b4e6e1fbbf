# nuage-cli: models, model checks and proofs

`nuage` keeps local directories and spaces of a Nuage server in step. It is run
once (`nuage sync`), in the foreground (`nuage watch`) or as a daemon
(`nuage start`). This directory holds TLA+ models of it, the TLC instances that
check them, and theorems checked by TLAPS. Every definition is translated from
the Rust source under `src/src/`; `PROJECT.json` names for each definition the
lines it stands for, lists the runs, and gives for each property a plausible
mistake in the code ("mutant") under which the property fails.

    tlc -workers 2 -config MCChangeFeed.cfg ChangeFeed     # one run
    tlapm ChangeFeedProofs.tla                             # the proofs

## 1. The system and its parts

One *target* is a directory, a space and an SQLite state database
(`files`, `folders`, `sync_cursor`, `sync_quarantine`). The daemon runs one
engine per target, each a loop of its own (`commands/supervisor.rs`): an initial
verification pass, then poll timer and watcher batches in turn, in one task.
Inside a pass, downloads are spawned tasks; everything else is sequential, but
every `await` is a point at which the server and the user's disk move on.

A pass (`sync/pass.rs`) fetches the tree or, with a cursor, the changes since it;
places folders parents first; prepares each file (settle, conflict copy, follow
a move, spawn a download); collects the downloads; applies remote deletions;
scans the directory and pushes what changed; deletes from the server what is
missing; and moves the cursor if nothing was held back.

| part | state | operations | what is hard | what makes it correct |
|---|---|---|---|---|
| change feed, cursor, quarantine, repair (`sync/pass.rs`, `remote.rs`, `remote_apply.rs`, `state/cursor.rs`, `state/quarantine.rs`, `commands/repair.rs`) | cursor, attempts per item, rows | fetch, per-item fates, advance or hold, `--retry-failed`, `--repair-state`, verify | changes during a pass, failures of one item, restarts, a second process | nothing is ever behind the cursor unhandled; polling settles everything |
| applying remote files (`remote_apply.rs`, `relocate.rs`, `resolver.rs`, `remote_delete.rs`, `transfer.rs`) | rows, disk, downloads under way | three-way resolution, conflict copies, following moves, landing downloads, remote deletions | stale base hash, edit under a download, files the server has no hash of, names exchanged in one window, failure half-way | user content is not discarded, rows name versions both sides had, no writes for an idle user |
| reconciling the directory (`reconcile.rs`, `push.rs`, `deletions.rs`, `scan.rs`) | rows, scan result | push, adopt, delete what is missing, guard | absence read as deletion, lost answers | only what the user removed is deleted; both sides converge |
| state database (`state.rs`, `state/*`) | the tables and their UNIQUE columns | upsert, remove, reparent | identity across renames and adoptions | one row per object, one row per path |
| folders (`remote_folders.rs`, `folders.rs`, `relocate.rs`, `remote_delete.rs`) | folder rows, directories | place, move with the subtree, resolve parents, create, adopt, remove | order of a window, name swaps, death in a move | rows distinct, files stay in place, trees converge |
| watcher and local changes (`watcher.rs`, `apply_local.rs`, `commands/supervisor.rs`) | pending events, batches | debounce, apply a batch, rename by hash | split batches, poll before batch, dropped batches | rows mirror the server; everything gets uploaded |
| replacing a large file (`update.rs`) | which object bears which name | version, upload aside, swap names, restore, discard, sweep | any request of the swap refused, its answer lost, death in between | content survives, the file is never hidden, the edit comes home |
| uploads (`api/upload.rs`, `api/upload_session.rs`, `api/retry.rs`, `push.rs`) | sessions, attempts | parts, completion, retry, abort, adoption | lost answers, rewrites under the reader | what is recorded is what the server has; no open session, no second object |
| daemon (`daemon/*`, `commands/daemon_cmds.rs`, `daemon_run.rs`) | pid file and its lock | start, stop, restart | stale and reused pids, a pass that hangs | one daemon, it can be found, strangers are spared |
| API client (`api.rs`, `api/*`) | none that lasts | requests | a request may fail, or be served and its answer lost | modelled where its callers are |
| commands and targets (`commands/sync_cmds.rs`, `targets.rs`, `daemon_run.rs`) | the map a process loaded, its engines | flags, choice and overlap of targets | two processes on a directory; a map read before the server's names | a space is only synced into a directory given to it |
| login (`login/*`) | a loopback listener, a one-time code, a connection at a time | listen, refuse, time out, exchange, paste | strays, silent connections, another shell's redirect, lost answers | a login saves its own token, and ends |
| configuration (`config/*`) | `~/.nuage.yml` | load, load with `key_command`, save | no lock; truncated before it is written; a secret that must not be saved | an edit of one field keeps the others |
| spaces (`commands/spaces/*`, `commands/space.rs`) | names on the server, the map in the config | create, rename, rm | a name here, an id there; the request and the edit of the map are two steps | the map follows a rename |
| account, shares, tokens, keys, search, status, upgrade, ignore rules, hashing, reports, terminal | none that interacts | one request or pure function each | - | not modelled |

How they interact: the feed decides *that* an item is looked at and *whether the
cursor passes it*; file and folder application decide *what becomes of it*;
both write the same rows, which the reconciliation reads later in the same
pass. The watcher's batches write the same rows between passes. Uploads and the
swap are what a push does in detail. Two processes share a state database and a
directory only when a user runs `nuage sync` beside the daemon. All processes
share the config file: login, logout and the spaces commands rewrite it, a daemon
reads it once, at its start.

`PROJECT.json` lists the hazards, each at its line with the properties that
catch it.

## 2. The modules

Each module takes one cut through the system and abstracts the parts that the
others have in detail. All are plain state machines with one action per handler
or per step between two points at which something else may happen.

| module | cut | what it abstracts |
|---|---|---|
| `ChangeFeed` | clock, windows, cursor, quarantine, repair, several engines | an item is the stamp of its last change; no paths, no bytes |
| `FileSync` | disk, rows and server of one flat directory, a pass step by step | the clock becomes "changed since the cursor"; no folders |
| `FolderTree` | directories and folders, nested, with the files in them | file contents; there is always a cursor |
| `LocalChanges` | watcher batches between passes | other clients; hashing and sending are one step |
| `SwapUpdate` | the swap of a large file, one file | the rest of a pass |
| `Upload` | one file, part by part, request by request | the rest of a pass |
| `Daemon` | processes, pid file, signals | what a daemon does while it runs |
| `Login` | how `nuage login` gets a token: listener, browser, one-time codes, several shells | HTTP; the sign-in server |
| `Settings` (extends `Login`) | the config file, the commands that rewrite it, the spaces of the server, the targets of a daemon | the engines; letter case of names |
| `Delivery` | abstract: what the reader of a change feed promises | passes, failures, restarts, phases |
| `ChangeFeedProofs`, `FileSyncProofs`, `FolderTreeProofs`, `LocalChangesProofs`, `SwapUpdateProofs`, `UploadProofs`, `DaemonProofs`, `SettingsProofs` | theorems about the module of that name (section 4) | |
| `MCFileSync`, `MCFolderTree`, `MCLocalChanges`, `MCSettings` | scenarios and symmetry of the TLC instances | |

### State and actions against the code

* **ChangeFeed.** `cursor`, `attempts` and `tracked` are the three tables,
  `window`, `seen`, `flight`, `gone`, `horizon` and `held` the locals of
  `run_pass` and `apply_remote` (`horizon` is the `server_time` of the fetch,
  `held` is `errors > 0 or skipped > 0`). `StartFull` is the fetch with
  everything it decides; `DropStaleRow`, `SkipQuarantined`, `RefuseItem`,
  `SettleWithoutDownload` and `SpawnDownload` are the branches of preparing an
  item; `CollectDownload` and `CollectFailure` join a task; `EndPass` is
  `advance_cursor`. `RemoteWrite`, `RemoteRename`, `RemoteDelete` are other
  clients. `Engine` may have more than one member.
* **FileSync.** `Prepare` is `prepare_remote_file` with its resolver,
  `keep_conflict_copy`, `follow_remote_move` and adoption; `Download`,
  `Collect` and `CollectFailed` are the streaming, the landing and the joining
  of a download. `Scan` is `scan_local_files`; `BeginSend` hashes a file
  (`reconcile_known_file`, `push_local_file`) and the `Send...` actions are the
  upload with the server's possible answers, `...Lost` being a request that was
  served without the client hearing of it. `StartMissing` applies the deletion
  guard, the `DeleteMissing...` actions delete. A file may come without a hash
  (`hash: Option<String>` of `ApiFile`): then nothing is compared before the
  download or after it, and the row is recorded without one. Names on the server
  may be used again in any way: a name is free as soon as no live object has it.
* **FolderTree.** `PlaceFolder` and its variants are `apply_remote_folder` with
  the directory rename and the shift of both tables; `DieMoving` is a death
  between them; `ResolveParent` fetches an ancestor that is not in the window;
  `CreateFolder`, `AdoptFolder`, `CreateBeside` are `ensure_remote_folder`.
* **LocalChanges.** `Debounce` takes a set of paths out of `pending`, `Receive`
  starts the loop on a batch, the actions of `Batch` are `apply_local_changes`
  path by path, those of `Pass` the pushing half of a pass. `Poll` is the timer.
* **SwapUpdate.** One action per request of `update.rs` with an `outcome`:
  served, refused, served with the answer lost. `Crash` loses `step`, `old` and
  `new`; `Sweep` and `SweepNextDoor` are the sweep of leftovers by this client
  and by another.
* **Upload.** `call` is the call stack of a push: the step it is at, the attempt
  of `send_with_retry`, the session and what was read so far. `NeverArrives`
  and `Refused` are the transport, and an action with `Unanswered` in it is a
  request that is served and whose answer may be lost; the `...Unknown` actions are
  answers that the session or the object is not there.
* **Daemon.** `proc` says what runs under each pid; a command is `Look`,
  `Judge` (is_running and the command line `ps` shows), then `Fork` or `Term`,
  `Gone` or `Kill`, `Sweep`. `Lock` and `WritePid` are what `daemonize` does,
  an external crate modelled from its use.

* **Login.** `login[l].step` is where shell `l` stands in `sso` and
  `acquire_token`; `knock` is the backlog of its port, `login[l].conn` the one
  connection `wait_for_code` has accepted. A connection is known by what it will
  send: nothing yet, a page request, or the code of some shell's flow, which
  stands for the code together with its nonce. `Timeout` is the timer around the
  whole of `wait_for_code`, so it cuts off an accepted connection too.
  `GivesUp` is the fall-back of `acquire_token`.
* **Settings.** `file` is `~/.nuage.yml` (absent, truncated, or a config);
  `work[p]` is the command shell `p` runs, with the config it loaded. `Read` is
  `load_or_default`, `Loaded` is `load`, which puts the output of `key_command`
  in place of the token; every `Saves` is followed by `Truncate` and `Write`, the
  two halves of `write_private`. `Update` is the request of `spaces rename` or
  `spaces rm`, `Remap` the second load and the edit that follow. `DaemonLoads`
  and `DaemonResolves` are the two halves of `run_daemon` up to its engines.
* **Delivery.** Abstract, and mapped to no code of its own: `Publish`, `Handle`,
  `Excuse`, `Advance`, `Forget`. `ChangeFeed` instantiates it with
  `mark <- cursor`, `owed <- Owed` (live objects not handled at their stamp, and
  deleted ones a row still tracks) and `excused <- dropped \cup untold`.

A *history variable* (`dropped`, `untold`, `mine`, `stored`, `mixups`, `astray`,
`crossed`, `overlap`, `meant`; `bore`, except for what is assumed of names) records what happened for the properties; no guard reads one.
`mixups` of `FileSync` says which of four things have happened so far, each at the
step of the code where it does: `"displaced"`, a file had to move to a name where
other bytes stand (`clear_collision`); `"overtaken"`, a download was asked for over
a file that was still to be moved; `"borrowed"`, a local copy was kept because of
the hash in another object's row; `"unhashed"`, a row was recorded without a hash.
(`applied` in `ChangeFeed` is no history: it is the version the local file and
its row hold, which is what settling without a download compares.)

What is external to `src/src/` (the server's answers, `daemonize`, `ps`,
the user, other clients) is modelled from what the client relies on, and is
marked so in `PROJECT.json`. The server gives a second object of a
name `"name (1)"`, refuses a rename onto a taken name, and answers the feed from
the cursor onwards.

## 3. The runs

`Scenarios` in five modules is a set of bound records, one of which `Init`
picks: a behaviour has, say, two remote changes and one removal, *or* one of
each and a lost request. This keeps the combinations that matter within reach
where one bound for everything would not be.

| run | instance | shows |
|---|---|---|
| `MCChangeFeed` | 2 items, 1 engine, threshold 2, 3 changes, 1 fault | `NothingHidden`, `DeletionsTaken`, the refinement `Delivers`, and `Settles` under fairness |
| `MCFileSync` | 2 names, 2 objects, 3 contents, 7 scenarios | `OneRowPerObject`, `RowsAgreed`, `WorkIsKept`, `PassiveClientWritesNothing` |
| `MCFileSyncLive` | 2 names, 4 objects, 2 contents, 5 scenarios | `Converges` |
| `MCFileSyncMissing` | 1 name, 4 contents, no failures besides a download's | **violated**: `DeletesOnlyWhatTheUserRemoved` |
| `MCSwap` | 5 ids, 2 edits, 2 accidents | `ContentSurvives`, `ServerHoldsTheFile`, `NeverHidden`, `Recovers` |
| `MCSwapHidden` | the same | **violated**: `HiddenNeverForGood` |
| `MCFolderTree` | 3 folders, 2 names, 1 document, 5 scenarios | `RowsDistinct`, `PassiveClientWritesNothing`, `UserFilesStay`, and `Converges` under fairness |
| `MCLocalChanges` | 2 directories, 3 paths, 2 contents, 6 scenarios | `Mirrored`, `EverythingIsUploaded` |
| `MCUpload` | 2 parts, 2 attempts, 3 losses, 2 rewrites, 3 sizes | `AgreedIsShared`, `KnownSessionClosed`, `OneObject`, `Settles` |
| `MCDaemon` | 3 pids, 3 commands, 1 crash | `OneDaemon`, `DaemonIsFound`, `SparesStrangers`, `StopEnds` |
| `MCSettings` | 2 shells, 2 spaces, 3 names, 2 directories, 3 scenarios | `OwnToken`, `SecretStaysOut`, `EnginesKeepToTheirs`, `MappingFollowsRename`, and `LoginEnds` under fairness |
| `MCSettingsStale` | 1 login, 1 edit by hand | **violated**: `ExistingConfigKept` |

Each passing run also checks its module's one type invariant.

**Why these bounds.** In `ChangeFeed` two items are what it takes for one to
fail while the other advances the cursor; three changes give one before the
fetch, one during the pass and one after; the threshold of the source (several
attempts) is two so that both sides of it are met. In `FileSync` two names and
two objects are needed for a move onto a tracked path, three contents for
base, ours and theirs. `GuardFloor` is 1 in the safety run so that the deletion
guard blocks with two files, and the 10 of the source where convergence is
asked. Four changes by others alone exchange two names or use one again after a
deletion; files without a hash have a scenario of their own, with the user writing
between passes. `PassiveClientWritesNothing` was also checked with five such changes, and with
three names and three objects. `HasRoom` bounds the conflict copies of one file to two, where the code
counts on up to a thousand. Three folders are the least with a chain of parents or a swap of names;
two accidents are the least that make the swap's recovery itself fail. In
`Upload` two parts give a torn read, two attempts a retry that is the last one,
and three losses a lost request followed by both tries of the abort.
Two pids, a command and a daemon, are in use at once, and a third is free to be
taken by another program. In `Settings` two shells are what it takes for a
redirect to reach a port that has changed hands, and for one save to overwrite
another; two spaces, two names besides `personal` and two directories let a
rename take a name the map already has. The properties of `FolderTree` were also checked from
starts with any tree of three folders in step and up to three remote changes
(1.2 million states), which the run leaves out for its length.

`SYMMETRY` is used in safety runs only. Deadlock is checked except in
`MCSwap`, `MCSwapHidden`, `MCDaemon` and the two of `Settings`, where the bounded
behaviour ends: all edits made and brought home, all commands run. (In the others the poll timer
always fires again.)

**What the properties set apart**, because there the code does not have them:

* `NothingHidden` leaves out rows `--repair-state` dropped and no pass has read
  since: repair drops rows one by one and forgets the cursor last, so a repair
  that is interrupted leaves them behind the cursor. `DeletionsTaken` leaves out
  objects deleted while there was no cursor: a tree fetch lists no deletions.
* `RowsAgreed` speaks of behaviours in which the user does not edit *during* a
  pass: with such edits a hash taken before the edit is recorded for bytes sent
  after it. A row need not have a hash: that of a file without one has none.
* `WorkIsKept` speaks of all behaviours and names the steps that may discard
  what the user wrote: a remote deletion; a download that lands on a conflict
  copy made under its path after `prepare_remote_file` judged that path, which
  takes no action of the user at all; a download of a file the server has no hash
  of, over whatever is there; and, when he acts during a
  pass, a download that lands on what he wrote there.
* `PassiveClientWritesNothing` of `FileSync` leaves out a process that ends
  between a landed download and its row: the file then looks new, and if the object
  was renamed or deleted meanwhile the client uploads it. And it holds *until files
  get mixed up*, in one of three ways, each of which does make an idle client write
  to the server (found by TLC, one at a time):
  a file has to move to a name where other bytes stand (1 renamed from f to h and 2
  from g to f in one window, 2 prepared first; or f deleted and g renamed to f: the
  file of 2 is put aside as a conflict copy, which is uploaded, and f, the old bytes
  under the row of 2, is uploaded as a version of 2);
  a download is asked for over a file that is still to be moved (1 renamed from f to
  h and a new object put at f: the download lands, the new bytes are moved to h as
  if they were those of 1, f is empty, and the new object is deleted on the server);
  a row is recorded without a hash (the next scan takes the file for changed and
  uploads it as a version, over what another client may have put there since).
  All other use of names is covered: names exchanged over several passes, or given
  again after a deletion in the same window.
* `Converges` of `FileSync` leaves out the objects the server has no hash of (one
  that is renamed and edited at once is moved but not downloaded, until a restart
  verifies it, and the file of one that is unchanged is never compared), and
  behaviours in which an edit was kept for what another object's row says
  (`"borrowed"`): an object is deleted and another created under its name with the
  bytes last agreed on, while the user has edited the file. `UseLocal` keeps the edit,
  still in the row of the deleted object; then the deletion is applied and takes it,
  and the new object is never downloaded. It exempts what is quarantined, what the
  guard holds back, and copies of objects whose deletion no window told of.
* `KnownSessionClosed` leaves out a lost request followed by the loss of every try
  of the abort: the code discards what `upload_abort` returns.
* `UserFilesStay` speaks of behaviours in which no other client has moved, renamed
  or deleted anything yet: a deletion removes the directory with whatever lies in it
  (`remove_dir_all`), files never uploaded included, before the pass scans it. It
  also leaves out what follows once this client has sent a thing to the top because its
  directory had no row, which takes a directory made during a pass or a failed
  request: the next pass moves the file to where the server has it.
* `PassiveClientWritesNothing` of `FolderTree` leaves out a process that died, and
  folders that came in each other's way (`crossed`). A folder whose move was
  refused keeps its old directory, which goes with its old parent when that is
  deleted (`remote_delete.rs:149`); a folder moved onto the path of another takes
  that one's row (`identity.rs:76`). In both cases what is still on the disk looks
  new, and an idle client uploads it.
* `MappingFollowsRename` speaks of commands run one at a time; at once, or with a
  lost answer, an edit of the map is lost. `EnginesKeepToTheirs`
  assumes that a name never passes from one space to another (`MayBear`): the
  map knows a space by its name alone.
* `Mirrored` speaks of batches that hold all that happened, directories first, of
  no request having failed so far, and of a user who takes nothing away while
  batches wait or are pushed. A file whose directory has no row is uploaded
  to the top (`find_parent_folder_id`), and a directory is left without one by a
  batch with the file first, by a failed request, which ends its batch, by a path
  that was removed since, which ends it too, and by a directory removed and made
  again while older batches wait.
* `ContentSurvives`, `ServerHoldsTheFile` and `Recovers` of `SwapUpdate` set apart a
  neighbouring client that sweeps. `Recovers` allows for one more end: where the
  server knows targeted uploads, two accidents may leave the file hidden under its aside
  name (`Hidden`, the trace of `MCSwapHidden`) instead of bringing the edit home.
  Without targeted uploads, or with one accident, the edit comes home.
* `OneDaemon`, `DaemonIsFound` and `SparesStrangers` speak of commands that wait
  for each other.
* `Converges` of `FolderTree` speaks of any use and reuse of names. It leaves out
  directories the user removed (a folder is never missed, so its row stays without a
  directory), folders that came in each other's way, and a server that has run out
  of the ids of the instance: every pass then reports an error, `[]<>held`.
  A parent and a child that change places are in each other's way: the
  directory rename fails in every pass from then on.

### Fairness

* `ChangeFeed`: `WF(Advance(e))`: every request ends, well or badly, and the
  poll timer fires for ever. Nothing is assumed of restarts, flags, other
  clients or of which way a request ends; the faults are bounded.
* `FileSync`, `FolderTree`: `WF(StartFull)` (the timer) and `WF(Work)` (a pass
  goes on to its end, since every request ends).
* `LocalChanges`: `WF(Batch \/ Pass)`, and `SF(Poll)`: the supervisor's
  `select!` is `biased` with the poll tick before the watcher's
  100 ms tick, so a due timer is taken the next time the loop is idle, however
  many batches wait. Nothing is assumed of the watcher: it may report nothing.
* `SwapUpdate`: `WF(Swap \/ Passes)`. A sweep runs at process start, and
  nobody promises one.
* `Upload`: `WF(Client)` and `WF(Begin)`: the client goes on, and a pass
  follows every interval.
* `Daemon`: `WF` on each command's own steps. None on the daemon: a pass may
  hang, and `StopEnds` has to hold all the same, by `SIGKILL`.
* `Settings`: `WF(Proceeds(l))` on what a login does by itself: accepting,
  answering, its timer, its requests. None on the browser, the user or a peer
  that connects and stays silent; `LoginEnds` holds through the timer alone.

### Findings

1. `MCFileSyncMissing`. `keep_conflict_copy` says it moves a diverged local copy
   aside "so the remote version can take its place without either version being
   lost". If the download that should take the place then fails, the tracked path is
   empty, and the same pass reads that as the user's deletion: the remote
   object, with the other side's edit, is deleted.
2. `MCSwapHidden`. The restore step of `move_and_name` exists "so a failure never
   leaves the file hidden under the aside name". Two lost answers do: the new
   object got the name, the restore is refused, the new object is discarded;
   the row then keeps naming the hidden object, so the sweep spares it and
   later edits are versioned into it.
3. `MCSettingsStale`. "Existing configs keep whatever the user put there", says
   `login/entry.rs`. Whether there is a config is seen before the user signs in,
   and the config loaded after, up to minutes later: a file written meanwhile has
   its ignore list and its personal directory replaced.

Seen while modelling, in the models, and not kept as runs of their own (the
hazards list the lines): two engines on one directory hide changes from each
other; the quarantine counts failures that are not consecutive; a batch that ends
early leaves a directory without a row, and its files go to the top; a download
lands over a conflict copy made meanwhile under its path; names exchanged or used
again within one window make an idle client write, a file without a hash does so
too, and an edit kept for another object's row is lost with that object (all three
above, with what the properties set apart); a process that ends
between a landed download and its row uploads what another client deleted; two lost answers in
one call leave two objects; an init whose answer is lost leaves a session open; a
completion whose answer is lost costs the file its id; a neighbour's sweep can
remove the aside copy of a swap under way; between `daemonize`'s lock and its
pid an empty pid file is removed by `is_running`; a daemon started in the five
seconds of another's `stop` loses its pid file; a torn upload of a file that is
then written back to its hashed content passes for agreed; a remote folder
deletion discards files nobody uploaded (`docs/architecture.md`: "Nothing is ever
silently discarded"); a silent connection keeps the callback behind it from being
served until the login times out, and one that breaks ends the login
(`wait_for_code` "keeps listening through everything else"); a rename onto a name
that is mapped already, or onto `personal`, overwrites that mapping's directory; a
directory made, with a file in it, between the scan of the directories and that of
the files has no row, so the file goes to the top on the server and the next pass
moves it there on the disk; when a directory could not be made on the server,
a directory in it that bears the name of a folder at the top adopts that folder, and
the two directories become one row; with two refused moves and a deletion of
their old parent, a client nobody touches uploads files into a folder of another
client; a folder moved into one that lay under it, below a third folder that moved
out, may be placed before that third (`topo_sort_folders` only orders by parents in
the window), and then would have to be renamed into itself, in every pass.

The documentation and the code also part in four places no run is about.
`docs/architecture.md:125` says "Before overwriting an existing local file, the engine
hashes it", and line 137 "Nothing is ever silently discarded": a remote file without a
hash is downloaded over the local one before anything is hashed
(`remote_apply.rs:134-137`), so that a file of the user that was on his disk only is
gone (`Uncompared` in `WorkIsKept`). `docs/usage.md:293` says a rename does not touch a `spaces:` mapping, and
`rename_mapping` moves it; `docs/configuration.md:70-76` says `spaces rm` skips
validation, and `cmd_spaces_rm` begins with the validating `Config::load`;
`docs/usage.md:64` has a wrong nonce abort the login, and the listener answers
400 and goes on listening.

## 4. What is proved

TLAPS checks, for every value of the constants that the modules' assumptions
allow:

* `ChangeFeedProofs!TypeCorrect`: `Spec => []TypeOK`, for any number of engines.
  In particular no stamp and no cursor runs ahead of the server's clock.
* `ChangeFeedProofs!CursorHidesNothing` and `CursorHidesNoDeletion`:
  `Spec => []NothingHidden` and `Spec => []DeletionsTaken`, under `OneEngine`:
  at most one process works on the directory. The code does not enforce that
  across processes; with two the property is false.
* `ChangeFeedProofs!Implements`: `Spec => Delivers` under `OneEngine`: the change
  feed implements `Delivery`, step by step.
* `ChangeFeedProofs!EngineOwesNothingBehind`: with `Implements`, under `OneEngine`,
  what the engine has not dealt with was stamped after its cursor (but for what was
  dropped or never told of), so the next fetch tells of it.
* `FileSyncProofs`: `TypeCorrect`; `OneRowAlways` (`OneRowPerObject`),
  `RowsAlwaysAgreed` (`RowsAgreed`), and the action properties `WorkAlwaysKept`
  (`WorkIsKept`) and `PassiveWritesNothing` (`PassiveClientWritesNothing`), for any
  number of files, objects and contents, files without a hash and any use of names
  included; what each of the two sets apart is in its statement and in section 3.
* `FolderTreeProofs`: `TypeCorrect`; `RowsAlwaysDistinct` (`RowsDistinct`), deaths
  between the rename and the rows included; and the action properties
  `FilesAlwaysStay` (`UserFilesStay`) and `QuietClientWritesNothing`
  (`PassiveClientWritesNothing`), for any folders, names and files and any scenario.
* `SwapUpdateProofs`: `TypeCorrect`; `LatestContentSurvives` (`ContentSurvives`),
  `ServerNeverWithout` (`ServerHoldsTheFile`), `RefusalHidesNothing`
  (`NeverHidden`), for any number of edits and accidents.
* `LocalChangesProofs`: `TypeCorrect`; `RowsAreMirrored` (`Mirrored`), for any
  directories, names and contents and any scenario.
* `UploadProofs`: `TypeCorrect`; `TrackedIsShared` (`AgreedIsShared`),
  `SessionsClosed` (`KnownSessionClosed`), `OneObjectOnly` (`OneObject`), for any
  number of parts, tries, losses and rewrites.
* `DaemonProofs`: `TypeCorrect`; `OneAtATime` (`OneDaemon`), `Findable`
  (`DaemonIsFound`), `StrangersSpared` (`SparesStrangers`), for any set of pids and
  any number of commands and crashes.
* `SettingsProofs`: `TypeCorrect` (of `Login` too); `TokenIsOwn` (`OwnToken`),
  `SecretNeverSaved` (`SecretStaysOut`), `EnginesKeep` (`EnginesKeepToTheirs`),
  `MapFollows` (`MappingFollowsRename`), for any number of shells, spaces, names
  and directories.

What is assumed of the constants: that ids and stamps are numbers and bounds are
natural numbers; that the values standing for "none", "empty", "absent", "gone"
and the key command's secret differ from the data they stand beside (`None...`,
`Item...`, `Name...`, `Dir...`, `Entry...`, `Vault...`, `File...`, `OverAssumption`); and that a scenario
is a record of bounds; process ids are finitely many. `OneEngine` is the only
hypothesis a theorem has besides these.

**The argument for the cursor.** `NothingHidden` alone is not inductive: a pass
sets the cursor to a time it read long before, so one has to know during the
whole pass what that step will need. `IInv` adds: the engine's record of
the stamps is current for everything that has not moved past its horizon
(`SnapshotCurrent`); a phase starts with nothing left over from the one before
(`PhasesDrained`); and as long as nothing was held back, every live object
under the horizon is handled at its stamp, still in the window or in flight
(`WindowCovers`), and every deletion under it is taken or still in hand
(`DeletionsCovered`). One lemma per group of actions shows that a step keeps
`IInv` (`EnvironmentKeepsIInv`, `LaunchKeepsIInv`, `StartFullKeepsIInv`,
`FilesKeepIInv`, `LaterPhasesKeepIInv`), `Inductive` combines them, and `EndPass` is
where the coverage becomes `NothingHidden`.

**The argument for the refinement.** A change on the server is a `Publish`
(`PublishesOne`); settling, collecting, removing or dropping one item is a
`Handle` (`HandlesOne`), whose condition, that what stays owed was stamped after
the mark, is `SnapshotCurrent`: the item moved after the fetch, and the cursor is
not past the fetch. `EndPass` is an `Advance` because `NothingHidden` and
`DeletionsTaken` hold in the state it leads to (`EndPassAdvances`). A fetch
without a cursor is an `Excuse`, and every other step leaves what `Delivery` sees
alone (`OtherStepsUnseen`).

**The arguments for `FileSync`.** `OneRowPerObject` is inductive as it stands, given
what the three operators that write the table do: an upsert removes every other
row of the same id, a reparent moves a row, a removal removes one. `RowsAgreed`
needs, of what is on its way, that the bytes a download holds (`Fetched`, `Held`)
and those an upload sends (`SentAsHashed`) are what the row will name, and were
on both sides. `WorkIsKept` needs that a path with a download under way holds
nothing the server does not know, unless it is a conflict copy or the file has no
hash (`AwaitedIsSpare`): `Prepare` only asks for a download after moving a diverged
file aside, and since the names of a window differ (`NamesDiffer`), preparing
or landing one object does not write another's path. `PassiveClientWritesNothing`
rests on `Still`, as long as the user is idle and nothing is mixed up: the disk holds
what the rows say, but for downloads that have landed (`DiskFollowsRows`); a row
whose object was renamed moves before its download is asked for (`MovedFirst`); no
download is under way to where a file is that has yet to be moved (`Cleared`), so that a
landing overwrites only what the row of its own object says, or what a deletion
or an overwritten row gives up; and so the scan sees nothing to send and nothing missing
(`Scanned`, `NothingToDo`). The three mix-ups are what `Still` does not survive:
`DiskFollowsRows` fails in the step that displaces a file or records a row without a
hash, `Cleared` in the one that asks for a download too early.

**The argument for folders.** `RowsDistinct` has to survive three operators.
`Reparented` first drops every row at or under the destination, and what it
moves keeps what is behind it, so two moved rows meet only where they had met
(`UnderIsBehind`, `BehindIsUnder`, `SameStart`); a moved row and one that stays cannot
meet, since the one lies under the destination and the other does not
(`ReparentedApart`). `Recorded` then takes the path from whichever row has it
(`RecordedTyped`). This is a fact about the statements of
`reparent` and `upsert_folder`, and dropping either half breaks the
proof. For `TypeOK` the invariant knows that whatever is fetched was there when it
was (`SnapOK`), that a folder the server ever made has a name and a parent that
was made too (`Ever`), so that every ancestor asked for in `ensure_folder_known` has
a path (`AskedEver`), and that a path moved along, cut or extended is never the
sync directory itself (`ShiftedIsAPath`, `CreateDirsTyped`, `Joined`).

`UserFilesStay` needs to know that a pass, which compares rows with what it fetched,
finds nothing to move. As long as nothing is astray (`Straight`), what was fetched is
what the server has now, a row is the row of the parent and the name the server
has, so the row of a folder that is fetched again is its target already, and a
tracked file lies in the directory the server has it in. Since the row of each folder is given by the
row of its parent, one level is enough, and no induction over the tree is needed.

`PassiveClientWritesNothing` rests on `Quiet`: until the user acts, the process dies
or folders cross, disk and rows mirror each other. Every directory has a row and
every row a directory (`Mirror`), and every head of a row's path is
the path of a row too (`Standing`, over `Heads` and `RowsOf`); files lie where their rows say, and
only rows name them (`FilesRecorded`). So a scan finds nothing to
make, to upload or to delete (`NothingFound`). A move shifts directories and rows
with the same `Shifted`, and the heads of a shifted path are the heads of the
destination and the shifted heads of the path (`ShiftedHeads`, `ShiftedJoined`); it
keeps the mirror unless it takes a row from another folder, and that is `crossed`
(`RecordingMirrors`, `FewerStand`). A removal takes directory and rows of one
subtree: the folders under it are to be removed as well, or they crossed.

**The argument for local changes.** A row can only fail to mirror the server if
a file is uploaded before its directory has a row. `MirrorInv` says what the loop
has in front of it at every step (`Lists`) and, of the batches: every directory
on the disk has its row and keeps it, is in the batch in hand, or is on its way,
in a waiting batch or still in `pending` (`Heard`); a file in a batch comes no
earlier than its directory (`DirsFirst`); and a batch with a file of a directory
that is gone names the directory too, so it deletes the files before the folder
(`GoneTogether`). All of it holds while nothing has failed and nothing is taken
away under a waiting batch (`Tidy`); then an upload places the file under its own
path, and each request keeps rows and objects one to one (`UploadMirrors`,
`VersionMirrors`, `MoveMirrors`, `DropFileMirrors`, `DropFolderMirrors`).

Several of these properties were wrong before they were proved. `WorkIsKept` said that
an idle user loses nothing to a landing download, and `Prepare` of a second object
would not preserve `AwaitedIsSpare`: it may move *its* conflict copy to the path.
`PassiveClientWritesNothing` had no exception for a process that ends, and
`DiskFollowsRows` did not survive `Stop`. Both did not know of files without a hash,
and the second assumed that no name is used again on the server, which `mixups` now
replaces by what must not have happened. `Mirrored` allowed for failed requests and
for removals while batches wait, which `Heard` does not survive. `UserFilesStay` of
`FolderTree` did not know of files sent to the top, which `Straight` does not
survive; its `PassiveClientWritesNothing` had no exception for crossed folders, which
`Mirror` does not survive; and its `Converges`, stated only for names never used
again, could be stated for all names once `crossed` said what does not heal. In each case
TLC found the counterexample on a larger instance, and the property now says what
the code does.

**The argument for the swap.** `ContentSurvives` and `ServerHoldsTheFile` are
about every step of six requests, each of which may be refused or lose its
answer. `IInv` says what the client knows at each step: the bytes it carries are
the latest and the old object lives until its removal (`Carried`, `Replacing`,
`Uploading`, `Committing`); the object the row names is there and is never older
than the row, unless a neighbour swept it (`RowHeld`); an object that took the
name without the row knowing is newer (`TakerIsNewer`); and the disk has the
latest edit, or what the row says, or nothing (`DiskExplained`). `Borne` adds for
`NeverHidden` that with one refusal at most the file has its own name, except
between the two renames.

**The argument for uploads.** `ContentsInv` says that a rewrite is newer than
everything the client or the server has (`NothingNewer`), and that what was
read is the local file as long as that still is what was hashed (`ReadIsLocal`):
so if the file is unchanged when a row is recorded, no part was torn, and the
object has the file's bytes. `AbortPaid` counts: while a
call aborts its session, the session is gone already or at least as many requests
were lost as the number of the try it is at. For `OneObject`, `Alone` says that
the server has an object the row does not know only if the answer that named it was
the one loss; then that object holds the file's name, the next upload is
renamed beside it, and the check finds it with the same content and deletes the copy.

**The argument for the daemon.** As long as commands wait for each other
(`Alone`): at most one process is a command or a starting daemon (`OneMover`), the
file names the daemon that syncs (`SyncingNamed`) or is locked by the one that
starts (`StartingNamed`), a command that has looked saw that daemon
(`SeenIsSyncing`), and one that is about to fork has seen the last one go
(`NoneSyncing`). A command signals a process it has judged before, and a program
that takes that pid in between counts as an overlap, so a stranger is not
signalled (`Spared`).

**The arguments for the configuration.** A login exchanges the code of its own
flow (`CodeIsOwn`) and its shell does nothing else until it saves (`LoginAlone`,
`OwnToSave`). Every token on its way to the file came from a login
(`TokensIssued`), which is why the secret of `key_command` does not. For
`EnginesKeepToTheirs`: every entry of every map, in the file, in a shell's memory
or in the daemon's, goes back to a wish of the user for that name or for another
name of the same space (`MapsBacked`), and no name passes between spaces
(`NamesDistinct`). For `MappingFollowsRename`: when one command runs at a time,
what a command has loaded still is what the file holds, up to its own edit
(`Calm`).

**Only model-checked.**

* Liveness (`Settles`, `Converges`, `Recovers`, `EverythingIsUploaded`, `StopEnds`,
  `LoginEnds`), which with `ENABLED` is beyond the prover.
* What `Lineage`, `Trail` and `Rank` of `FolderTree` compute: that needs induction
  over the depth of the tree. The proofs use none of it: they hold for any
  set of folders `Ancestry` may name and any order `IsNext` may give.

## 5. What is not modelled

* Content-level detail: hashing (a hash is its content), paging, back-off
  delays, progress, printing, file name rules.
* `--dry-run` (it changes nothing) and `--allow-bulk-delete`.
* `drop_duplicates`, the repair of a legacy database at start.
* A request that times out and reaches the server after its retry.
* A server that gives no hash of what this client uploads itself: `FileSync` has it
  hash those. (Otherwise every pass would download such a file and upload it again.)
* `ps` failing to answer (the code then treats the pid as the daemon's).
* The one-request commands (shares, tokens, keys, search, status); the
  environment variables that override the config, `poll_interval`, file
  permissions; a space mapped under a number.

## 6. Plan

Order of work: the cursor first, since everything depends on an item being
offered at all; then files, folders and local changes, which share the rows;
then the two multi-request protocols, and the process around it all. All of
that is done and checked. What is next:

1. *More theorems.* `PassiveClientWritesNothing` of both modules for processes that
   die anywhere but between two halves of one change; what a batch of
   `LocalChanges` may delete.
2. *Abstract specifications.* An `AtomicReplace` (a file's object is replaced in
   one step or not at all) implemented by `SwapUpdate` as far as a single
   accident goes.
3. *Composition.* The supervisor with several targets and the shutdown signal,
   over `Daemon`; `LocalChanges` with remote changes in its passes.
4. *More parts.* `--allow-bulk-delete`, `drop_duplicates`, a request that times
   out and is served after its retry.
