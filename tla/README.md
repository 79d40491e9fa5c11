# A TLA+ model of BootControl

BootControl edits what a Linux machine boots from: `/etc/default/grub`, `grub.cfg`,
systemd-boot entries, UKI command lines, EFI variables. A root daemon, `bootcontrold`,
serves a D-Bus interface to a CLI, a TUI and a GUI. This directory models the daemon's
write paths, what surrounds them and the three clients, checks the models with TLC, and
proves their main invariants with TLAPS.

## 1. The system

### Components

| Component (crates/…) | State it keeps | Operations | Hard because | What makes it correct | Model |
|---|---|---|---|---|---|
| GRUB write pipeline: `daemon/src/grub_manager.rs`, `failsafe.rs`, `grub_rebuild.rs` | the configuration, its temporary sibling, `flock`s, the failsafe entry, `grub.cfg` | `SetGrubValue`, `SetGrubSettings`, `SetGrubDefault`, `RebuildGrubConfig`, reads with ETags | calls overlap; `flock` locks inodes, `rename` moves names; failure after the rename; crash | no lost update, no torn file, snapshot before write, success takes effect, failure can be undone | `GrubManager`, `ConfigStore` |
| Snapshots: `daemon/src/snapshot.rs` | one directory per snapshot: payload files, then a manifest | `create`, `list`, `restore`, `reap` | crash between the files; several targets locked in one call; reaper and restores interleave | what is listed can be restored; a refused restore changes nothing; retention is kept | `Snapshot` |
| Lifecycle: `daemon/src/lifecycle.rs`, end of `main.rs` | count of active operations, generation, idle timer | `begin_operation`, guard drop, `record_activity`, `wait_for_idle` | timer and change at the same time; activation races exit | leaves only when idle, and then does leave | `Lifecycle` |
| D-Bus interface: `daemon/src/interface.rs`, `dbus_error.rs` | none of its own beyond paths | 27 methods | authorization awaits between dispatch and write; audit rows around partial failures; the idle exit drops calls | no write without authorization; a method that writes audit rows leaves them complete (not every method writes them, and a restore names no snapshot of its own) | `Handlers`, `Interface` |
| Authorization, sanitizing, audit: `polkit.rs`, `policy_check.rs`, `sanitize.rs`, `audit.rs`, `core/src/security.rs` | the audit log | checks of each call, journal records | order of the steps | as above | `Handlers`, `Interface` |
| systemd-boot: `systemd_boot_manager.rs`, `core/…/systemd_boot.rs` | loader entries, `loader.conf` | set default, rename entry | reads before it locks; empty ETag; file that does not exist yet | an update is exactly what was asked | `LoaderText`, `LoaderFiles` |
| UKI command line: `uki_manager.rs`, `core/…/uki.rs` | `/etc/kernel/cmdline` | add, remove parameter | lock, read, persist by rename | the live file is whole; success is one's own edit | `LoaderText`, `LoaderFiles` |
| rpm-ostree: `rpm_ostree.rs`, `immutable_distro.rs` | kernel arguments of the deployment | append, delete | check and act without a lock | another call's argument is neither dropped nor brought back | `LoaderFiles`, `Handlers` |
| EFI variables: `uefi_vars_linux.rs`, `core/src/uefi_vars.rs` | `BootOrder`, `BootNext`, `Boot####` | list, set, clear | check then write, no lock; bytes of load options | no entry becomes unreachable; the listing is the firmware's | `EfiVars`, `Interface` |
| Secure Boot: `secureboot/*` | NVRAM backup files, UKI signature, MOK queue | backup, sign and enroll | files written one at a time, no overwrite; the second of two tools fails | a backup returned is kept; enrolled is signed | `Interface` |
| GRUB parsers, hash: `core/src/grub.rs`, `grub_cfg.rs`, `grub_settings.rs`, `hash.rs` | none | parse, edit, menu paths, ETag | repeated keys, nested blocks, quoting | last assignment wins, the rest is kept, paths are GRUB's | `GrubText`, `GrubMenu` |
| Client library: `client/src/lib.rs` | none (the mock: its files) | one call per method | a reply is lost after the write | – | `Backend` |
| GUI: `gui/src` | channel, view models, confirmation session | refresh, stage, preview, confirm, restore, … | late answers, what is armed changes under the sheet, a task that fills its own channel | the user confirms what is then written | `Gui` |
| TUI: `tui/src` | rows, selection, ETag, editor | browse, edit, add, delete, reload | two calls for one edit; list and ETag read apart | what is written is what was shown | `Tui` |
| CLI and rescue: `cli/src` | none, or mounted partitions | a command per method; rescue scan | read and write of the boot order without an ETag; umount fails | moved entries are kept; only roots stay mounted | `Cli` |
| initramfs drivers, LUKS keymap | none | run or inspect external tools | – | – | not modelled |
| Boot manager abstraction, prober, errors | none that changes | detection at start-up | – | – | not modelled |
| Packaging, scripts, `gui-spike`, end-to-end tests | – | – | – | – | not modelled |

### How they interact

A client reads a configuration and gets its ETag (SHA-256). It sends a write with that ETag.
zbus dispatches each method call on a task of its own, the methods take `&self`, and the tokio
runtime has several threads: calls overlap freely. A handler holds an `OperationGuard`, asks
Polkit (an await), checks the host and the payload, writes an audit row, then runs the pipeline
synchronously; in the middle of it a callback of the interface stores a snapshot of the bytes
read under the lock. The daemon leaves after 60 idle seconds and is started again by the bus.
Package managers edit the same files, under the same advisory `flock` when they cooperate.
No state is shared between calls in memory except the activity count: everything else is files.
The GUI's window talks to a single backend task through a bounded channel of 32 messages; the
TUI and the CLI call the daemon and wait.

The models are layered the same way. `Interface` runs every method from the guard to the reply
and treats the pipelines as one or a few steps; `GrubManager`, `Snapshot` and `LoaderFiles` open
those steps; `Backend` is the daemon as its clients see it, one call a step, and `Clients`
composes it with `Gui`, `Tui` and `Cli`.

## 2. Modules

| Module | Role |
|---|---|
| `ConfigStore` | abstract: a configuration file as a compare-and-swap register with snapshots |
| `GrubManager` | the pipeline of `grub_manager.rs`, step by step, over inodes and names |
| `Snapshot` | snapshot directories and the calls that create, restore, list and reap them |
| `Lifecycle` | activity count, idle timer, activation and exit |
| `Texts` | what `LoaderText`, `GrubText` and `Tui` share: the elements of a list that are kept |
| `LoaderText`, `LoaderFiles` | text functions of systemd-boot and UKI; the pipelines over them |
| `Handlers` | the table of D-Bus methods: action, host policy, refusals, audit, pipeline |
| `EfiVars` | EFI variables as bytes: files, numbers, load options, names |
| `Interface` | method calls: uid, Polkit, refusals, audit rows, idle exit, EFI variables, NVRAM backup, signing |
| `GrubText`, `GrubMenu` | the text of `/etc/default/grub` and the menu of `grub.cfg` |
| `Backend` | the daemon seen by its clients, and the mock of Demo Mode |
| `Gui`, `Tui`, `Cli` | the clients |
| `Clients` | one of the three clients with the backend and other programs |
| `GrubManagerProofs`, `LifecycleProofs`, `LoaderFilesProofs`, `InterfaceProofs`, `ClientsProofs` | TLAPS proofs about the module of that name |
| `SnapshotProofs`, `SnapshotStoreProofs` | TLAPS proofs about `Snapshot`: types and locks, then what the store keeps |
| `TextsProofs` | TLAPS proofs about `Select`, and induction with sets, for the two modules that prove about texts |
| `MC…` | TLC instances |

### GrubManager

`config` and `tmp` are two directory entries, `/etc/default/grub` and
`grub.bootcontrol.tmp`; `data` and `lock` belong to inodes. That is the whole point of the
model: `flock` attaches to the inode a call opened (`fd`), `rename` makes the name refer to
another one. `pc` is the step of each call; the names of the steps follow the numbered steps in
the source:

| Step in the code | Action |
|---|---|
| 1 open | `OpenConfig` |
| 2 `flock(LOCK_EX \| LOCK_NB)` | `AcquireLock`, `LockBusy` |
| 3, 4 read, compare the ETag | `VerifyEtag`, `StaleEtag` |
| 5 parse, menu check, prewrite callback | `ValidateMenu`, `RefuseSelection`, `CaptureSnapshot` |
| 6, 7 edit, temporary file, rename | `CreateTmp`, `WriteTmp`, `RenameTmp`, `TmpGone`, `WriteFails` |
| 8 failsafe entry, by a temporary file of its own | `CreateFailsafeTmp`, `WriteFailsafeTmp`, `RenameFailsafeTmp`, `FailsafeTmpGone`, `FailsafeWriteFails` |
| 9 `grub-mkconfig` | `StartMkconfig` (it sources the file by name), `FinishMkconfig` |
| any I/O error | `StepFails` |
| `RebuildGrubConfig` | `Rebuild`, then step 9 alone |
| a client's reads | `ReadConfig`, `ListMenu` |

The file is the map of its keys to values; `Edited` is step 6. Bytes that are no complete
configuration are `Torn`, those of a file just truncated `Empty`; the failsafe entry and its
temporary file are "none", "empty", "part" or "whole", and `ffd` says which of the two a call's
descriptor refers to. The environment is a package manager that locks, edits in place and
unlocks, a package hook that runs `update-grub` and takes no lock (`UpdateGrub`), and `Crash`.

`Overlap` chooses between the daemon as it is (calls interleave) and the daemon with calls one
at a time. Four properties hold in the first: types, `LockExclusion`, `LiveHasOrigin`,
`EveryCallReturns`. `LiveIsWhole`, `FailsafeIsWhole`, `FailureIsUndoable`, `NoLostUpdate`,
`SuccessTakesEffect` and the refinement of `ConfigStore` hold in the second only: that is what a
daemon with one write lock per file would guarantee, and the difference is the first two findings
below. `MenuIsCurrent` holds in neither, since `update-grub` takes no lock: it is the third.

### Snapshot

`file[t]` is the sequence of inodes the name `t` has had, so that a call can hold a lock of one
that is no longer the last. `dir[id]` is a snapshot directory: payload files, manifest, time,
and whether it has been written back to the disk. A call of `call` is a *write* (a daemon write
as far as locks and snapshots go), a *create* (the public `create`, which reads without a lock),
or a *restore*. The actions follow the source from top to bottom; `CreatePayload` and
`FillPayload`, `CreateManifest` and `FillManifest` split each `fs::write` where a crash can.
`Reap` lists and picks, `ReapEntry` removes one directory entry at a time. `PowerCut` may leave
any file torn that was not written back.

Abstractions: a hash is the bytes it is the hash of; targets are numbered in sorting order and
ids in the order the directory lists them (which is assumed not to change, so that two snapshots
of the same second keep their order); `is_managed_target` is membership of `Managed`; file modes
and schema versions are left out; `flatten_path` is an arbitrary *injective* function, an
assumption that the code does not enforce (`a__b` and `a/b` collide) and the managed paths meet.
`atomic_restore_file` is one step: its temporary file has a name of its own that no other call
that holds the same lock can use.

### Lifecycle

`active` and `generation` are `ActivityState`; the watch channel is sent in the same critical
section and carries the same value, so it is not a variable of its own. `waiter` is where
`wait_for_idle`, and `main` behind it, is. `quiet` is a history variable: the ticks since the
state last changed. `TimerEnds` may fire although a change is ready too, as `select!` may.
A handler that still runs when `main` returns is dropped at its next await (`Exit`): its client
gets no reply. What that leaves behind is the subject of `Interface`.

### LoaderText and LoaderFiles

A file is its lines, a line a key and a value; `LoaderText` has the parser and the serializer of
loader entries (unknown fields and comments are kept, a repeated known key is not),
`update_or_append_key` and the two edits of a command line. The filters and the serializer are
recursive functions over the number of lines (`Select`, `Restored`), which TLC evaluates like the
folds they replace and a proof can unfold. A behaviour of `LoaderFiles` is about
one target, on inodes and names as in `GrubManager`: the loader files are read, then opened and
locked and compared (`ReadLoaderText`, `OpenLoaderFile`, `AcquireLock`, `VerifyEtag`), which also
ends the lock (`AfterCompare`: the locked file is a local of the block that compares), then written
under a fixed temporary name and renamed, under no lock; a file that does not exist is neither
locked nor compared. The command line is locked before it is read, staged under a fresh name, and
its lock kept until the call returns.
rpm-ostree is asked (`KargsRead`) and then told (`KargsApply`): a transaction of another process,
one step. Packages replace or remove the target between any two steps, and calls die. `changes` and
the field `seen` of a request are history: how often the target has changed, and had when its client
read it.

### Handlers, EfiVars and Interface

`Handlers` is constant: for each method its Polkit action, its host policy (`require_writable_host`,
rpm-ostree, or none), what it refuses before it touches anything, whether it leaves audit rows and
which pipeline it runs. `Interface` runs a call through `Begin`, `ResolveUid`, `Authorize`,
`Admit` or `Refuse`, the rows and steps of its pipeline, and `Reply`. A handler awaits twice, for
the caller's uid and for Polkit; from there it runs to its end, so `main`, when it returns,
drops the handlers that await and the replies not sent (`DropCalls`) and waits for the others.
`Kill` ends all of them. `granted`, `kept` and `killed` are history.

`EfiVars` is what variables are as bytes: the attributes in front of a value, `BootOrder` and
`BootNext` low byte first, load options with attributes, UTF-16 description, null and path, the
names `list_boot_entries` takes. `Interface` writes and reads `BootOrder` and `BootNext` through
that codec, in steps of their own, and lists the entries one variable after another. A backup
reads each Secure Boot variable, then creates its files with `O_EXCL` and fills them. Signing is
`sbsign`, then `mokutil`.

Abstractions: the configuration behind the other pipelines is the job that changed it last; a
payload is fine or refused; the copy `sbsign` is given, file modes and escaping of control
characters are left out; every entry of the firmware is in `BootOrder`.

### GrubText, GrubMenu and the clients

A line of `/etc/default/grub` is a key, a text and whether it is quoted; a text is a member of a
small set of which the constants say what the parser refuses, what needs quotes and what a shell
takes for an operator. `Updated` is the edit of step 6 above, on lines: it replaces the last
assignment of a key and appends what is absent. A line of `grub.cfg` is its first word, whether a
title is quoted and its braces; `GrubMenu` walks them as `parse_grub_menu` does.

`Backend` serves one call a step; a call may be refused or fail, be answered, or be carried out
with the reply lost. An ETag is the content and the file it is of. The edits of GRUB's configuration
take a snapshot of it, the other writes and a restore none (`After`). In `Gui` the window's callbacks
append messages to `queue` (`Queued` drops one when it is full), and the backend task takes a
message, calls, applies the answer to the models and sends its follow-up fetches into the same
queue. `vm`, `boot` and `typed` settings are the view models, `session` the confirmation session.
`Tui` handles a key to the end, with as many calls as the handler makes; `Cli` is a process per
command, and the rescue scan, which mounts and unmounts partitions without the daemon. Other
programs change a file between any two calls.

## 3. What the runs check

| Run | Question | Instance | States |
|---|---|---|---|
| `grub_overlap` | What still holds when calls interleave, fail, die? | 2 clients, 3 inodes, 3 calls, package manager, fairness | 1 027 560 |
| `grub_serial` | Is the pipeline correct with calls one at a time, with crashes, package edits and `update-grub`? | 2 clients, one of which chooses from the menu, 3 inodes, 3 calls | 2 837 824 |
| `grub_menu` | Is a chosen menu path still that entry's when it is written? No. | 1 client, `update-grub` | violation |
| `grub_lost_update` | Are two overlapping writers kept from losing an update? No. | 2 clients | violation |
| `grub_torn` | Is the live file always whole when calls overlap? No. | 2 clients | violation |
| `snapshot` | Do writes and restores that overlap respect locks, ETags and snapshots, and what do crashes, power loss and the reaper leave? | 2 callers, 3 ids, 3 paths, 3 calls, clock 0..1 | 1 416 832 |
| `snapshot_power` | Can what is listed always be restored after a loss of power? No. | 1 caller | violation |
| `lifecycle` | Is the idle exit neither early nor missed? | 2 clients, period 2, 4 events, fairness | 131 512 |
| `loader` | What holds of loader files, command line and rpm-ostree arguments, with calls overlapping and one at a time? | 2 clients, 4 targets, 6 inodes, 3 calls, 2 package steps | 7 100 717 |
| `interface` | Is whatever a method writes authorized and evidenced, and what do the EFI variables, the backup and the UKI keep? | 2 clients, 17 requests, 3 hosts, 2 policy files, 2 calls, 1 step of other programs | 462 862 |
| `clients` | Do users get what they confirmed, saw or asked for? | 3 clients, 4 hosts, all menus of up to 5 lines, 1 change by another program, fairness | 727 239 |
| `submenu_default` | Is the entry chosen in the window the one a shell reads as the default? No. | the window | violation |

Properties, and the mistakes they are there for:

- `LockExclusion`: two calls past step 2 never share an inode, and no lock outlives its call.
- `LiveHasOrigin`: however calls overlap, and whichever call's bytes a rename publishes, the live
  configuration was installed, or is one request's edit of bytes that a snapshot holds, so the last
  edit can be rolled back; or it is torn. It is about the live file and not about what a call has
  read: that the file replaced may be another call's is `grub_lost_update`, that it may be torn is
  `grub_torn`.
- `EveryCallReturns`: nothing waits for a lock, whoever holds it for ever.
- `LiveIsWhole`, `NoLostUpdate`, `SuccessTakesEffect`, `ImplementsStore`: no torn file, no lost
  key, success means regenerated, and all of that as a refinement of `ConfigStore`.
- `FailsafeIsWhole`: what `grub-mkconfig` copies from `failsafe.cfg` is a whole entry, although its
  temporary name is fixed and a failed write leaves bytes behind it.
- `FailureIsUndoable`: an error after the ETag check means that nothing has changed, or, if it is
  the one of a failed rename, failsafe refresh or `grub-mkconfig`, that the whole edit is in place
  behind a snapshot of what it replaced; no other error hides an edit.
- `MenuIsCurrent`: a selection is written only while `grub.cfg` is the menu it was chosen from.
  `grub.cfg` is read without a lock, and `grub_menu` shows that it fails.
- `WriteIsSaved`: a write replaces its target only behind a complete snapshot of what it read.
- `NoMutualRefusal`: locking in sorting order, of two overlapping restores one gets its locks.
- `ListedIsRestorable`, `CompleteIsKept`: the manifest is last; an id is never reused; only what
  retention allows is taken away, however the reaper's listing ages.
- `RefusalTouchesNothing`: all checks of a restore precede its first replacement.
- `EtagWasLive`: a call about to replace its targets presents the ETag of bytes that were live at
  some time since it started, though calls overlap and lock inodes that have been replaced. The bytes
  replaced may still be those of a call that overlapped it, as in `grub_lost_update`; an update that
  was there before the call started is never overwritten unseen.
- `ActiveCountsGuards`, `ExitOnlyWhenIdle`, `EventuallyOff`: the guard count is exact, the daemon
  leaves after a whole idle period only, and does leave.
- `LiveIsWhole` of the loader files: the command line is whole however calls overlap; the loader
  files, which share one temporary name, when calls do not.
- `UpdateIsExact`: a successful call, one at a time but with packages at any step, has left its own
  edit of one text and nothing of an earlier call's. If its client presented an ETag, the file was
  there and it has changed at most once since, that text is the one the client saw. The other cases
  are left out because the code fails them: see the disagreements below.
- `SuccessIsOwn`: with overlapping calls, a success left one's own edit in the command line, and
  rpm-ostree's arguments lose nothing another call has put there.
- `OnlyAuthorizedWrites`: whoever writes was granted that method's action in this call, after its
  awaits too, and on a host that admits it.
- `EvidenceIsComplete`: audit rows are in order, success is not claimed for a write without a
  snapshot, and no row is left open by an error or by the idle exit.
- `BootVariablesAgree`: no entry of `BootOrder` is lost or doubled and `BootNext` names one, while
  overlapping calls compare with what they read before.
- `ListingIsFirmwares`: the entries listed are the firmware's, each with its own flags and
  description, whatever bytes follow the description; an option cut short is not shown.
- `BackupIsKept`, `EnrolledIsSigned`: files a backup returned stay as they were; an enrollment is
  requested for a signed UKI only.
- `AppliedIsConfirmed`, `ArmedIsCurrent`, `PreviewIsTheChange`: what is armed is one operation,
  built on the state the window holds; what the task applies is what the sheet showed, unless a
  preview was still to be handled when the user confirmed; and the
  values it showed are those in force before and after, although several messages and a write of
  another program may lie in between.
- `DrainsUnlessFull`: a channel that is never full is worked off.
- `TuiWritesWhatItShows`, `EditIsWhole`: the terminal client overwrites only what it shows; an
  edit of a parameter that was not done in both its calls is reported.
- `MoveKeepsEntries`: `efi move-entry` loses no entry and puts the one asked for in its place.
- `RescueLeavesOnlyRoots`: the scan leaves no other partition mounted, but for a failed `umount`.
- `EditKeepsTheRest`: whichever client edits `/etc/default/grub`, the asked keys have the asked
  values, every other key keeps its own, and every other line stays where it is.
- `MenuIsGrubs`: the entries listed have the paths GRUB gives them, against a definition of GRUB's
  numbering that is not the parser's.

Each property of a passing run has a mutant: the model with a plausible bug in one action, in
which TLC finds it violated. Mutants stand before the definition they replace.

### Bounds

`MaxCalls`, `MaxEvents`, `MaxTime`, `MaxInodes`, `MaxEdits`, `MaxOutside`, `MaxOther`, `MaxKeys`,
`MaxCommands` and the clicks of a start are guards in the actions and bound the behaviours, not
the theorems, which hold for every value.

- GRUB and loader files. Two calls are enough for every race named here (each is between two
  descriptors or two names); a third lets a later call meet what the first two left: only it can
  find that the temporary file it wrote has been renamed away by another call. Two keys let one
  update drop the other; `grub_overlap`, whose properties do not depend on which keys change,
  offers one change only. Three inodes are one live, one replaced but still open, one temporary;
  `EveryCallReturns` would fail if a call ran out of them. The loader files need six: two calls
  may each hold a replaced one, and two package steps each make one. Two package steps let the file
  change before and after it is compared.
- Snapshots. Two manifests in opposite orders are what lock order is about; a third id is a fresh
  snapshot beside them. `MCOverlapBound`, the CONSTRAINT of `MCSnapshot.cfg`, keeps two of the
  dimensions apart: behaviours in which calls overlap start with the snapshots of `MCFound` and see
  no clock, reaper or loss of power, those with one caller see all of them.
- Lifecycle. An idle period of two ticks has a middle.
- Interface. Races are between two calls; a third step is the firmware's or another tool's
  (`MaxOutside` 1: an entry is added, or the Secure Boot variables are updated). Entry 258 is
  0x0102, which differs from the entry with its bytes swapped; the descriptions have a zero byte
  that is no null, a pair of surrogates and half of one, a path has nulls, one option is cut.
- Clients. A window has three or four clicks, of one page or of the pages whose previews disarm
  one another: staging, preview, confirmation and one click in between. `QueueSize` is 5 where the
  code has 32, so that three follow-up fetches and the clicks can fill it. Five keys open, type,
  commit an edit and start another; three commands are a read, a write and a write on the ETag
  printed before. Menus have up to five lines of the shapes `grub-mkconfig` writes: a submenu with
  an entry, a function before it, headers closed on their own line.

Runs of `Snapshot`, `Lifecycle`, `LoaderFiles`, `Interface` and `Clients` switch deadlock checking
off because behaviours end when their calls, keys, clicks or events are used up and, in
`Lifecycle`, the daemon is off. In `Clients` it also stands for a real stop: a full channel.

### Fairness

`grub_overlap`: weak fairness of the steps of a dispatched call (the runtime polls it; its system
calls and `grub-mkconfig` return). No fairness for clients, the package manager or errors.
`lifecycle`: weak fairness of time, of bus activation, of each daemon task and of the end of each
handler; no client has to call. `clients`: weak fairness of the GUI's backend task, which tokio
polls and whose D-Bus calls end; none of the user. Nowhere is strong fairness needed: what is
enabled stays enabled until taken.

### Disagreements between the code and its documents

1. `grub_lost_update`: a file is opened, then locked; a rename in between makes the lock one of an
   inode nobody reads any more. The loser is not told (`docs/threat-model.md:100`).
2. `grub_torn`: by the same window two calls get past the lock and share the fixed temporary name
   (`docs/threat-model.md:101`).
3. `grub_menu`: the menu is checked before the snapshot and the write, without a lock; an
   `update-grub` in between gives the path another meaning (`interface.rs:1015-1016`).
4. `snapshot_power`: the snapshot is not synced before the write it protects, which is
   (`docs/threat-model.md:104`).
5. `submenu_default`: the path of a submenu entry is written without quotes, and the shell that
   sources the file takes `GRUB_DEFAULT=1>0` for an assignment of 1 and a redirection
   (`interface.rs:1027`, `core/src/grub.rs:404`).

Seen while modelling, and not given a run:

- With overlapping calls `FailsafeIsWhole` fails too: `failsafe.cfg` can be empty or
  partial when `grub-mkconfig` copies it, although `failsafe.rs:41` says a concurrent reader never
  sees a partial write; two `grub-mkconfig` runs may leave `grub.cfg` behind the configuration.
- `restore` takes no snapshot of what it replaces, while `docs/GUI_V2_SPEC_v2.md:416` says it does;
  after a restore `grub.cfg` is stale until a client calls `RebuildGrubConfig`, as the method's
  documentation says. `reap` has no caller, while `docs/threat-model.md:124` relies on it.
- `grub-mkconfig` and Polkit are waited for without a timeout, the first with the lock held.
- `audit.rs` says that each privileged write produces an event; the methods on loader files,
  command line, EFI variables, NVRAM backup, signing and rebuild emit none (`audited` in `Handlers`).
- A loader entry with several `initrd` lines keeps the last one when it is renamed, though
  `systemd_boot_manager.rs:222` promises the other fields byte for byte (`UpdateIsExact` does not
  claim it of repeated fields).
- The lock of a loader file is dropped before its temporary file is created, though
  `docs/threat-model.md:103` and `ARCHITECTURE.md:118` say that `flock` is held for the whole
  window: a change in between is overwritten unseen. The text edited was read before the lock, so a
  file that changes and changes back is edited as it was in between. An empty ETag is not compared,
  though `systemd_boot_manager.rs:205` says it must match, and an ETag presented for a file that is
  missing is not either, though `:262` says it must then be empty. `UpdateIsExact` claims none of
  these four; two loader writes that overlap are as `grub_torn` shows for GRUB.
- `set_grub_settings` writes all four keys, so absent ones come into being with their defaults
  (`PreviewIsTheChange` holds because the values in force do not change).
- A value with a pipe or a brace is accepted by `SetGrubValue`, and the file is then refused by
  every read until it is edited by hand. An unquoted value with a comment behind it is read with the comment;
  a quoted value without spaces is written back without its quotes. `}}` on one line ends only the
  ignored block of a menu.
- `list_boot_entries` says it takes four uppercase hexadecimal digits and takes what
  `from_str_radix` does: lower case, and a plus sign and three digits. One malformed `Boot####` fails
  the whole listing.
- The GUI restores with the ETag it holds when the message is handled, while the documentation of
  `restore_snapshot` in `view_model.rs` says the one shown before confirmation. Its Apply messages
  carry no request: if a second preview is due when the first is confirmed, the second is applied
  (`AppliedIsConfirmed` claims nothing there), although `grub_settings.rs:31` calls the request
  "Exact data carried from staging through confirmation to Apply". The rebuild sheet names an ETag that the call does not carry.
- When the window fills the channel while the backend task has fetches to send, the task waits for
  itself.
- In the TUI a second `d` typed during a deletion deletes the row that took the first one's place.

## 4. What is proved

Of the 40 properties the passing runs check, 34 are theorems, for every value of the constants that
meets the ASSUMEs. Most properties are not inductive; each proof has an invariant that is, named
below with what it adds and why it is needed. TLC checked each of them on the run's instance before
it was proved.

### GRUB write pipeline (`GrubManagerProofs`)

For any clients, inodes, keys, values, requests, editors and bounds:

- `TypeCorrect`, from `TypeInv == TypeOK /\ LocalsOK`. `LocalsOK` says which locals a call has at
  which step; without it the step that writes `Edited(base, …)` could not be typed.
- `Exclusion` (`LockExclusion`) and `LiveIsAccountedFor` (`LiveHasOrigin`), with calls that overlap.
  The second rests on `Safeguards`, which says of each call that its bytes were compared and are in
  a snapshot before it writes, and on what any inode a call may publish holds.
- With `Overlap = FALSE`: `SerialLiveIsWhole`, `SerialFailsafeIsWhole`, `SerialFailureIsUndoable`,
  `SerialNoLostUpdate`, `SerialImplementsStore`. The strengthening, `SerialInv`, says that at most
  one call is in flight, that its descriptor is the live inode until it renames, that the bytes it
  read are still the live ones, and that the temporary files it has written hold the edited
  configuration and a whole failsafe entry.
  `CommitStep` then says that only the rename of such a call moves the name.
- `SerialSuccessTakesEffect`. `EffectInv` adds that from the rename until `grub-mkconfig` sources
  the file, the live configuration is what the call wrote or a package manager's edit of that, and
  afterwards that what was sourced is.

### Snapshots (`SnapshotProofs`, `SnapshotStoreProofs`)

For any callers, targets, ids, contents and bounds, through crashes and losses of power:

- `TypeCorrect`; `LocksAreOrdered` (`NoMutualRefusal`: while a call takes locks, those it has precede
  those it has not, so of two calls each would have to be below the other); `RefusedTouchedNothing`
  (`RefusalTouchesNothing`). All rest on `SnapInv`: files are sequences of contents, directories and
  counters are typed, each call has the locals of its step, a call at a step that may refuse has
  replaced nothing, and an unfinished snapshot directory belongs to one call and not to the reaper.
- `ListedCanBeRestored` (`ListedIsRestorable`), `RetentionIsKept` (`CompleteIsKept`),
  `WritesAreSaved` (`WriteIsSaved`), `PresentedWasLive` (`EtagWasLive`), from
  `SnapInv /\ StoreInv`. `StoreInv` says what a directory holds before its manifest does, that the
  bytes read under a lock are those of the file as long as the lock is of its live inode, and, for the
  reaper, that a doomed snapshot *stays* expendable: the newest `KeepCount` are never doomed, time
  only grows, and a new snapshot only pushes the others further back. Counting the newest is what
  needs `FS_Subset` and the finiteness of the listing (`FiniteDirs`).
- One theorem has a hypothesis beside `Spec`. `WritesAreSaved` takes `[]PromptWrites`: no write is
  still running when its own snapshot has become `KeepAge` old (without it, one that sleeps for the
  whole retention period would find its snapshot reaped).
- `FoundAssumption`: each snapshot the daemon finds at its start with a readable manifest can be
  restored. The code does not check the payloads before a restore either.

### Daemon lifecycle (`LifecycleProofs`)

For any finite set of clients and any period: `TypeCorrect`, `GuardsAreCounted`,
`WholePeriodBeforeExit`. The strengthening, `SleepInv`: while the waiter sleeps and the generation
is the one it saw, nothing is active, and the quiet so far and the sleep left make up a whole
period. Counting guards uses `FS_AddElement` and `FS_RemoveElement`.

### Loader files, command line, rpm-ostree (`LoaderFilesProofs`)

For any callers, inodes and requests, and for texts of any length:

- `LiveStaysWhole` (`LiveIsWhole`), `SuccessWasOwn` (`SuccessIsOwn`), `UpdateWasExact`
  (`UpdateIsExact`), from `LoaderInv`: types; the locals of each step; which inodes the two names and
  the descriptors may be; that the live file is whole, and what the temporary one holds at which step
  of the call that writes it; and `Followed`, which counts: the text a call has read is the one its
  client saw, or the file has changed since the client read it, and a descriptor of an inode that is
  no longer live costs one more change.
- What the edits do to a text, of any length: `update_or_append_key` changes the last line of its key
  or appends one (`UpdateOrAppendIsExact`), removing a parameter keeps the others in their order,
  and serializing a parsed entry keeps the comments and the unknown fields. These are inductions over
  the number of lines.

### D-Bus interface and EFI variables (`InterfaceProofs`)

- `OrderIsReadBack`: any list of entry numbers survives the codec of `BootOrder`; with it lemmas for
  one number and for the attribute prefix (`PayloadOfFile`), which the steps that write `BootOrder`
  and `BootNext` use.
- For any clients, requests, hosts, policy files and bounds: `TypeCorrect` (`TypeInv`);
  `WritesAreAuthorized` (`GateInv`: a call at a step that writes holds the grant of its method's
  action and is on a host that admits it); `EnrolledWasSigned` (`EnrollInv`: which methods reach which
  step, and that a call between the two tools has signed); `BackupsStay` (`BackupInv`: a file that a
  call has created holds a part until the call has written it, no two calls have the same one open,
  and those kept are whole); `EntriesStayReachable` (`BootInv`: without outside edits, what a call has
  read of `BootOrder` has the same entries as it has now); `EvidenceWasComplete` (`EvidenceInv`: calls
  in flight have jobs of their own, and the audit log has, of each, exactly the rows of the step the
  call is at, in order; rows of jobs that no call has any more end with `completed` or were cut off by
  a kill).

### The clients (`ClientsProofs`)

For any starts, menus, clicks, keys, commands, contents and other programs:

- `EditWasWhole` (`EditInv`: the calls of an edit that are done, and that one done in part is about to
  be reported); `RescueLeftOnlyRoots` (`RescueInv`).
- `TuiWroteWhatItShowed` (`ShownInv`: the ETag held is of the list on the screen, and a write under
  way carries it).
- `WindowArmsOne` (`ArmedIsCurrent`), from `ArmedInv`: what is known of the configuration is of the
  state that is loaded, what is armed was staged on it, and a refresh, once taken, has disarmed it.
  In Demo Mode a rebuild needs no ETag, and the state is loaded because the mock answers every call:
  `DemoIsLoaded` follows the first fetch through the channel.
- `PreviewWasTheChange` (`PreviewIsTheChange`), with `PreviewInv`: the default and the typed settings
  the window holds are those of the configuration its ETag is of, what is armed lists exactly the
  keys that differ from it, and the call under way is the one of that request. An ETag that matches
  then makes the file the one the preview was computed from; that the file written parses again, to
  the settings asked for, is `SettingsWritten`.
- `EditKeptTheRest` (`EditKeepsTheRest`), from `TextInv`: configurations and those in snapshots are
  texts, one client calls at a time, and the key of an assignment is one that the client was shown.
  `EditKeeps` is the statement about the edit alone, for every text and every list of changes.
- `MoveKeptEntries` (`MoveKeepsEntries`), from `MoveInv` and lemmas on sequences: removing an element
  and inserting it elsewhere keeps the others in their order (`Removed`, `Inserted`, `MovedEntry`).

### How induction over data is done

The library's induction theorems take an operator as a parameter, which the installed provers
cannot instantiate. `TextsProofs` does without: a set of naturals that is not empty has a least
element (`LeastNatural`), so a set that contains 0 and with each number the next is all of them
(`CountingUp`), and the same for sequences and `Append` (`AppendingOn`). A statement about every text
is then the definition of such a set. It works for recursive functions; the folds of the community
modules hide theirs behind a parameter again, which is why `Select` and `Restored` are written out.

### Assumptions

They are the named ASSUMEs of the modules, all about constants, and every one is evaluated by a run:
distinct model values, finite sets and naturals, and what the contents are: texts are sequences of
lines, boot orders lists of numbers, the texts the parser refuses are not among the numerals and
words of the typed settings (`GrubTextAssumption`), a control of the window sets a field of its own
kind (`ClientsAssumption`), partitions and moves are of their types (`DevicesAssumption`,
`MovesAssumption`).

### Only model-checked

- `EveryCallReturns`, `EventuallyOff`, `DrainsUnlessFull`: liveness under fairness, out of the
  prover's reach.
- `AppliedIsConfirmed`: what the channel may hold between a preview, its confirmation and its
  application, on the window's instance.
- `ListingIsFirmwares` and `MenuIsGrubs`: conversions by folds, of UTF-16 units and of the lines of
  `grub.cfg`, against a definition of the result that is not a fold.

## 5. Not modelled

- initramfs drivers and the LUKS keymap check: library functions that no code of the daemon or its
  clients calls.
- The boot manager abstraction, the probers and the error types: nothing of them changes after
  start-up. Which backend was found is a constant of the models.
- GUI: the messages `SaveEntry` and the direct `rebuild_grub` callback, which no page invokes;
  clipboard, log export, onboarding. TUI: drawing. CLI: output.
- `move_boot_order_entry`, which the daemon does not call (the CLI moves entries itself, and that is
  in `Cli`); `GrubBackend::set_default` in `core/src/backends/grub.rs`, which no write path calls.
- `gui-spike`, packaging, scripts and end-to-end tests.

## 6. Plan

1. `ListingIsFirmwares`: write `FromUtf16Lossy` as a recursive function, state what it returns for
   every sequence of units, and that the sorted listing has each entry once.
2. `MenuIsGrubs`: the same for the scan of `GrubMenu`, with an invariant of its state after each line:
   the open submenus are the blocks around the line, and each has as many items as it has numbered.
3. A serial daemon that locks a name instead of an inode, to be shown to implement `ConfigStore` with
   calls that overlap: the repair that the first two disagreements ask for.
