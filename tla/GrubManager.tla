----------------------------- MODULE GrubManager -----------------------------
(***************************************************************************)
(* The write pipeline of crates/daemon/src/grub_manager.rs, as concurrent  *)
(* D-Bus calls run it: SetGrubValue, SetGrubSettings and SetGrubDefault on *)
(* /etc/default/grub, and RebuildGrubConfig on /boot/grub/grub.cfg.        *)
(*                                                                         *)
(* flock(2) locks an inode and rename(2) moves a name to another inode, so *)
(* files are modelled as two directory entries (the configuration and its  *)
(* fixed-name temporary sibling) over inodes that hold bytes and a lock.   *)
(*                                                                         *)
(* An ETag is the SHA-256 of the bytes; it is modelled by the bytes.       *)
(***************************************************************************)
EXTENDS Naturals

CONSTANTS
  Caller,     \* clients of the daemon; each has at most one call in flight
  Selector,   \* the clients that may choose a menu entry (SetGrubDefault)
  Inode,      \* inodes of the directory that holds the configuration
  Key,        \* assignment keys of the configuration that calls may change
  Value,      \* values of a key
  Change,     \* the sets of assignments one call may request
  Installed,  \* configurations the machine may start with
  Edit,       \* configurations a package manager may write in place
  Overlap,    \* TRUE: the daemon runs calls concurrently, as zbus dispatches them
  MaxCalls,   \* bound on the calls of a behaviour
  Torn,       \* bytes that are no complete configuration
  Empty,      \* the bytes of a file just truncated
  NoBytes, NoInode, NoHolder, NoRequest, NoMenu, Package

\* A whole configuration: the effective value of every key.
Content == [Key -> Value]

Bytes == Content \union {Torn, Empty}

ASSUME ConfigAssumption ==
  /\ Selector \subseteq Caller
  /\ MaxCalls \in Nat
  /\ Change \subseteq UNION {[S -> Value] : S \in SUBSET Key}
  /\ Installed \union Edit \subseteq Content
  /\ Overlap \in BOOLEAN
  /\ Torn \notin Content
  /\ Empty \notin Content
  /\ Torn # Empty
  /\ NoBytes \notin Bytes
  /\ NoInode \notin Inode
  /\ NoHolder \notin Caller
  /\ Package \notin Caller
  /\ NoHolder # Package
  /\ NoMenu \notin Bytes
  /\ NoRequest \notin [change : Change, etag : Bytes, menu : Bytes \union {NoMenu}]

VARIABLES
  config,     \* the inode /etc/default/grub names
  tmp,        \* the inode grub.bootcontrol.tmp names, or NoInode
  data,       \* the bytes of each inode
  lock,       \* who holds the flock of each inode
  calls,      \* calls started so far
  pc,         \* the step a caller's call has reached, or how it returned
  request,    \* what a caller asks for and the ETags it presents
  fd,         \* the inode a call opened in Step 1
  tfd,        \* the inode File::create gave a call in Step 7
  base,       \* the bytes a call read through its locked descriptor
  gen,        \* the bytes grub-mkconfig sourced for a call
  snapshots,  \* the bytes held by complete snapshots
  failsafe,   \* what failsafe.cfg holds, "none" if it does not exist
  failsafeTmp,  \* what failsafe.cfg.tmp holds
  ffd,        \* where the file that a call has opened for the entry is now
  grubCfg     \* the bytes grub.cfg was last generated from

files  == <<config, tmp, data>>
locals == <<calls, request, fd, tfd, base, gen>>
entry  == <<failsafe, failsafeTmp, ffd>>
boot   == <<snapshots, entry, grubCfg>>
vars   == <<config, tmp, data, lock, calls, pc, request, fd, tfd, base, gen,
            snapshots, failsafe, failsafeTmp, ffd, grubCfg>>

Request ==
  [change : Change, etag : Bytes, menu : Bytes \union {NoMenu}] \union {NoRequest}

Errors == {"ConcurrentModification", "StateMismatch", "MalformedValue", "EspScanFailed"}

\* The caller has no call in the daemon: it never called, or its last call
\* returned, with "ok" or an error.
Resting == {"idle", "ok"} \union Errors

\* The caller is a client between its reads and its write call.
Reading == {"read"}

\* Steps 2 to 7: the call holds a lock and has not yet renamed.
Writing == {"locked", "verified", "validated", "captured", "created", "written"}

\* Steps 8 and 9: the configuration is in place, the lock is still held.
Applying == {"renamed", "staging", "staged", "refreshed", "generating"}

InFlight == {"opened", "rebuilding"} \union Writing \union Applying

-----------------------------------------------------------------------------
(* Helpers                                                                 *)

\* Mutant: the file is rebuilt from the requested keys alone.
EditedDropsRest(bytes, change) == [k \in DOMAIN change |-> change[k]]

\* Steps 5 and 6: the requested keys get their values, all others keep
\* theirs; what was no complete configuration does not become one.
Edited(bytes, change) ==
  IF bytes \in Content
  THEN [k \in Key |-> IF k \in DOMAIN change THEN change[k] ELSE bytes[k]]
  ELSE Torn

\* No directory entry and no descriptor refers to the inode.
Unused(i) ==
  /\ i \notin {config, tmp}
  /\ lock[i] = NoHolder
  /\ \A c \in Caller : fd[c] # i /\ tfd[c] # i

\* A call may start: at once, or when no other is in flight if calls are serial.
StartCall ==
  /\ Overlap \/ \A d \in Caller : pc[d] \notin InFlight
  /\ calls < MaxCalls
  /\ calls' = calls + 1

\* A call of c returns: its descriptors are closed, which drops its lock.
Return(c, reply) ==
  /\ pc' = [pc EXCEPT ![c] = reply]
  /\ lock' = [i \in Inode |-> IF lock[i] = c THEN NoHolder ELSE lock[i]]
  /\ request' = [request EXCEPT ![c] = NoRequest]
  /\ fd' = [fd EXCEPT ![c] = NoInode]
  /\ tfd' = [tfd EXCEPT ![c] = NoInode]
  /\ base' = [base EXCEPT ![c] = NoBytes]
  /\ gen' = [gen EXCEPT ![c] = NoBytes]
  /\ calls' = calls

Step(c, from, to) ==
  /\ pc[c] = from
  /\ pc' = [pc EXCEPT ![c] = to]

-----------------------------------------------------------------------------
(* The client's reads                                                      *)

\* ReadGrubConfig or GetEtag: the client learns the ETag it will present.
\* No lock is taken.
ReadConfig(c) ==
  /\ pc[c] \in Resting \union Reading
  /\ pc' = [pc EXCEPT ![c] = "read"]
  /\ \E change \in Change :
       request' = [request EXCEPT ![c] =
                     [change |-> change, etag |-> data[config], menu |-> NoMenu]]
  /\ UNCHANGED <<files, lock, calls, fd, tfd, base, gen, boot>>

\* ListGrubEntries: the client picks a menu path and learns grub.cfg's ETag;
\* its call will be SetGrubDefault.
ListMenu(c) ==
  /\ c \in Selector
  /\ pc[c] = "read"
  /\ request[c].menu = NoMenu
  /\ request' = [request EXCEPT ![c].menu = grubCfg]
  /\ UNCHANGED <<files, lock, calls, pc, fd, tfd, base, gen, boot>>

-----------------------------------------------------------------------------
(* The pipeline of set_grub_values_with_prewrite                           *)

\* Step 1: open the configuration; nothing is read yet.
OpenConfig(c) ==
  /\ StartCall
  /\ Step(c, "read", "opened")
  /\ fd' = [fd EXCEPT ![c] = config]
  /\ UNCHANGED <<files, lock, request, tfd, base, gen, boot>>

\* Mutant: EWOULDBLOCK is ignored.
AcquireLockUnchecked(c) ==
  /\ Step(c, "opened", "locked")
  /\ lock' = [lock EXCEPT ![fd[c]] = c]
  /\ UNCHANGED <<files, locals, boot>>

\* Step 2: flock(LOCK_EX | LOCK_NB) on the inode that was opened.
AcquireLock(c) ==
  /\ Step(c, "opened", "locked")
  /\ lock[fd[c]] = NoHolder
  /\ lock' = [lock EXCEPT ![fd[c]] = c]
  /\ UNCHANGED <<files, locals, boot>>

\* Mutant: the flock is taken without LOCK_NB, the call waits.
LockBusyWaits(c) ==
  /\ pc[c] = "opened"
  /\ lock[fd[c]] # NoHolder
  /\ UNCHANGED vars

\* Step 2, EWOULDBLOCK.
LockBusy(c) ==
  /\ pc[c] = "opened"
  /\ lock[fd[c]] # NoHolder
  /\ Return(c, "ConcurrentModification")
  /\ UNCHANGED <<files, boot>>

\* Mutant: the ETag is not compared.
VerifyEtagSkipped(c) ==
  /\ Step(c, "locked", "verified")
  /\ base' = [base EXCEPT ![c] = data[fd[c]]]
  /\ UNCHANGED <<files, lock, calls, request, fd, tfd, gen, boot>>

\* Steps 3 and 4: read through the locked descriptor, the ETag matches.
VerifyEtag(c) ==
  /\ Step(c, "locked", "verified")
  /\ data[fd[c]] = request[c].etag
  /\ base' = [base EXCEPT ![c] = data[fd[c]]]
  /\ UNCHANGED <<files, lock, calls, request, fd, tfd, gen, boot>>

\* Steps 3 and 4: the bytes are not the ones the client saw.
StaleEtag(c) ==
  /\ pc[c] = "locked"
  /\ data[fd[c]] # request[c].etag
  /\ Return(c, "StateMismatch")
  /\ UNCHANGED <<files, boot>>

\* Step 5: parse_grub_config accepts the bytes, and validate_menu_selection
\* finds the menu the client saw (SetGrubDefault only). grub.cfg is read
\* without a lock.
ValidateMenu(c) ==
  /\ Step(c, "verified", "validated")
  /\ request[c].menu \in {NoMenu, grubCfg}
  /\ UNCHANGED <<files, lock, locals, boot>>

\* Step 5: the parse or the menu check refuses the call.
RefuseSelection(c) ==
  /\ pc[c] = "verified"
  /\ \/ /\ request[c].menu \notin {NoMenu, grubCfg}
        /\ Return(c, "StateMismatch")
     \/ /\ request[c].menu = grubCfg \/ base[c] = Torn
        /\ Return(c, "MalformedValue")
  /\ UNCHANGED <<files, boot>>

\* Mutant: a snapshot that cannot be written is only logged.
CaptureSnapshotBestEffort(c) ==
  /\ Step(c, "validated", "captured")
  /\ \/ snapshots' = snapshots \union {base[c]}
     \/ snapshots' = snapshots
  /\ UNCHANGED <<files, lock, locals, entry, grubCfg>>

\* Step 5: the prewrite callback stores the locked bytes as a snapshot.
CaptureSnapshot(c) ==
  /\ Step(c, "validated", "captured")
  /\ snapshots' = snapshots \union {base[c]}
  /\ UNCHANGED <<files, lock, locals, entry, grubCfg>>

\* Mutant: a temporary file already there is not truncated.
CreateTmpKeeps(c) ==
  /\ Step(c, "captured", "created")
  /\ \/ /\ tmp = NoInode
        /\ \E i \in Inode : Unused(i) /\ tmp' = i /\ data' = [data EXCEPT ![i] = Empty]
     \/ tmp # NoInode /\ tmp' = tmp /\ data' = data
  /\ tfd' = [tfd EXCEPT ![c] = tmp']
  /\ UNCHANGED <<config, lock, calls, request, fd, base, gen, boot>>

\* Step 7: File::create makes the temporary file or truncates the one there.
CreateTmp(c) ==
  /\ Step(c, "captured", "created")
  /\ \/ tmp = NoInode /\ \E i \in Inode : Unused(i) /\ tmp' = i
     \/ tmp # NoInode /\ tmp' = tmp
  /\ data' = [data EXCEPT ![tmp'] = Empty]
  /\ tfd' = [tfd EXCEPT ![c] = tmp']
  /\ UNCHANGED <<config, lock, calls, request, fd, base, gen, boot>>

\* Step 7: write_all at offset 0 of the call's own descriptor, and fsync.
\* Bytes of another writer that reach further remain behind the new ones.
WriteTmp(c) ==
  /\ Step(c, "created", "written")
  /\ \E left \in {Edited(base[c], request[c].change)}
                 \union (IF data[tfd[c]] = Empty THEN {} ELSE {Torn}) :
       data' = [data EXCEPT ![tfd[c]] = left]
  /\ UNCHANGED <<config, tmp, lock, locals, boot>>

\* Step 7: rename whatever the temporary name refers to over the configuration.
RenameTmp(c) ==
  /\ Step(c, "written", "renamed")
  /\ tmp # NoInode
  /\ config' = tmp
  /\ tmp' = NoInode
  /\ UNCHANGED <<data, lock, locals, boot>>

\* Step 7: rename finds no temporary file.
TmpGone(c) ==
  /\ pc[c] = "written"
  /\ tmp = NoInode
  /\ Return(c, "EspScanFailed")
  /\ UNCHANGED <<files, boot>>

\* Mutant: a temporary entry that is there is kept, and appended to.
CreateFailsafeTmpKeeps(c) ==
  /\ Step(c, "renamed", "staging")
  /\ failsafeTmp' = IF failsafeTmp = "none" THEN "empty" ELSE failsafeTmp
  /\ ffd' = [ffd EXCEPT ![c] = "tmp"]
  /\ UNCHANGED <<files, lock, locals, snapshots, failsafe, grubCfg>>

\* Step 8, with the new configuration in place: write_failsafe_content makes the
\* temporary file, or truncates the one there. What the entry says is found first,
\* and is the same for every call: a kernel that is not found has a placeholder.
CreateFailsafeTmp(c) ==
  /\ Step(c, "renamed", "staging")
  /\ failsafeTmp' = "empty"
  /\ ffd' = [ffd EXCEPT ![c] = "tmp"]
  /\ UNCHANGED <<files, lock, locals, snapshots, failsafe, grubCfg>>

\* The file that c has open, wherever it is now, gets these bytes and is closed.
PutEntry(c, bytes) ==
  /\ failsafeTmp' = IF ffd[c] = "tmp" THEN bytes ELSE failsafeTmp
  /\ failsafe' = IF ffd[c] = "live" THEN bytes ELSE failsafe
  /\ ffd' = [ffd EXCEPT ![c] = "none"]

\* Step 8: write_all and fsync. The entries of two calls differ in their time only:
\* a shorter one leaves the end of a longer one behind it.
WriteFailsafeTmp(c) ==
  /\ Step(c, "staging", "staged")
  /\ \/ PutEntry(c, "whole")
     \/ ffd[c] = "tmp" /\ failsafeTmp # "empty" /\ PutEntry(c, "part")
     \/ ffd[c] = "live" /\ failsafe # "empty" /\ PutEntry(c, "part")
  /\ UNCHANGED <<files, lock, locals, snapshots, grubCfg>>

\* Step 8: rename whatever the temporary name refers to; others may have it open.
RenameFailsafeTmp(c) ==
  /\ Step(c, "staged", "refreshed")
  /\ failsafeTmp # "none"
  /\ failsafe' = failsafeTmp
  /\ failsafeTmp' = "none"
  /\ ffd' = [d \in Caller |-> CASE ffd[d] = "tmp" -> "live"
                                [] ffd[d] = "live" -> "lost"
                                [] OTHER -> ffd[d]]
  /\ UNCHANGED <<files, lock, locals, snapshots, grubCfg>>

\* Step 8: rename finds no temporary file.
FailsafeTmpGone(c) ==
  /\ pc[c] = "staged"
  /\ failsafeTmp = "none"
  /\ Return(c, "EspScanFailed")
  /\ UNCHANGED <<files, boot>>

\* Step 8: write_all or fsync fails.
FailsafeWriteFails(c) ==
  /\ pc[c] = "staging"
  /\ PutEntry(c, "part")
  /\ Return(c, "EspScanFailed")
  /\ UNCHANGED <<files, snapshots, grubCfg>>

\* Mutant: grub.cfg is generated from the bytes read before the edit.
StartMkconfigEarly(c) ==
  /\ \/ /\ Step(c, "refreshed", "generating")
        /\ gen' = [gen EXCEPT ![c] = base[c]]
     \/ /\ Step(c, "rebuilding", "generating")
        /\ gen' = [gen EXCEPT ![c] = data[config]]
  /\ UNCHANGED <<files, lock, calls, request, fd, tfd, base, boot>>

\* Step 9: grub-mkconfig starts and sources the configuration by its name.
StartMkconfig(c) ==
  /\ \/ Step(c, "refreshed", "generating")
     \/ Step(c, "rebuilding", "generating")
  /\ gen' = [gen EXCEPT ![c] = data[config]]
  /\ UNCHANGED <<files, lock, calls, request, fd, tfd, base, boot>>

\* Step 9: grub-mkconfig exits with success and the call returns.
FinishMkconfig(c) ==
  /\ pc[c] = "generating"
  /\ grubCfg' = gen[c]
  /\ Return(c, "ok")
  /\ UNCHANGED <<files, snapshots, entry>>

\* An I/O error of the snapshot, the failsafe entry or grub-mkconfig ends the
\* call; no step taken is undone.
StepFails(c) ==
  /\ pc[c] \in {"opened", "locked", "verified", "validated", "captured", "written",
                "renamed", "staged", "refreshed", "rebuilding", "generating"}
  /\ Return(c, "EspScanFailed")
  /\ UNCHANGED <<files, boot>>

\* Mutant: the error of write_all or fsync is only logged, the call goes on.
WriteFailsIgnored(c) ==
  /\ Step(c, "created", "written")
  /\ data' = [data EXCEPT ![tfd[c]] = Torn]
  /\ UNCHANGED <<config, tmp, lock, locals, boot>>

\* write_all or fsync fails: the temporary file stays, part-written.
WriteFails(c) ==
  /\ pc[c] = "created"
  /\ data' = [data EXCEPT ![tfd[c]] = Torn]
  /\ Return(c, "EspScanFailed")
  /\ UNCHANGED <<config, tmp, boot>>

\* RebuildGrubConfig: grub-mkconfig alone; no lock, no ETag, no failsafe.
Rebuild(c) ==
  /\ StartCall
  /\ pc[c] \in Resting
  /\ pc' = [pc EXCEPT ![c] = "rebuilding"]
  /\ UNCHANGED <<files, lock, request, fd, tfd, base, gen, boot>>

\* The steps the daemon takes for a call when the operating system does not fail it.
Progress(c) ==
  \/ AcquireLock(c) \/ LockBusy(c)
  \/ VerifyEtag(c) \/ StaleEtag(c)
  \/ ValidateMenu(c) \/ RefuseSelection(c)
  \/ CaptureSnapshot(c)
  \/ CreateTmp(c) \/ WriteTmp(c) \/ RenameTmp(c) \/ TmpGone(c)
  \/ CreateFailsafeTmp(c) \/ WriteFailsafeTmp(c) \/ RenameFailsafeTmp(c) \/ FailsafeTmpGone(c)
  \/ StartMkconfig(c) \/ FinishMkconfig(c)

-----------------------------------------------------------------------------
(* The environment                                                         *)

\* A package manager takes the flock of the configuration.
PackageLock ==
  /\ Edit # {}
  /\ lock[config] = NoHolder
  /\ \A i \in Inode : lock[i] # Package
  /\ lock' = [lock EXCEPT ![config] = Package]
  /\ UNCHANGED <<files, pc, locals, boot>>

\* It rewrites the inode it locked, in place.
PackageEdit ==
  /\ \E i \in Inode, bytes \in Edit :
       /\ lock[i] = Package
       /\ data' = [data EXCEPT ![i] = bytes]
  /\ UNCHANGED <<config, tmp, lock, pc, locals, boot>>

PackageUnlock ==
  /\ \E i \in Inode :
       /\ lock[i] = Package
       /\ lock' = [lock EXCEPT ![i] = NoHolder]
  /\ UNCHANGED <<files, pc, locals, boot>>

\* A package's hook runs update-grub, which takes no flock, between any two steps
\* (followed where clients choose from the menu: Selector bounds it).
UpdateGrub ==
  /\ Selector # {}
  /\ grubCfg' = data[config]
  /\ UNCHANGED <<files, lock, pc, locals, snapshots, entry>>

\* The daemon dies: calls in flight vanish with their locks, files stay.
Crash ==
  /\ \E c \in Caller : pc[c] \in InFlight
  /\ pc' = [c \in Caller |-> IF pc[c] \in InFlight THEN "idle" ELSE pc[c]]
  /\ request' = [c \in Caller |-> IF pc[c] \in InFlight THEN NoRequest ELSE request[c]]
  /\ lock' = [i \in Inode |-> IF lock[i] \in Caller THEN NoHolder ELSE lock[i]]
  /\ fd' = [c \in Caller |-> NoInode]
  /\ tfd' = [c \in Caller |-> NoInode]
  /\ base' = [c \in Caller |-> NoBytes]
  /\ gen' = [c \in Caller |-> NoBytes]
  /\ ffd' = [c \in Caller |-> "none"]
  /\ UNCHANGED <<files, calls, snapshots, failsafe, failsafeTmp, grubCfg>>

-----------------------------------------------------------------------------
Init ==
  /\ config \in Inode
  /\ tmp = NoInode
  /\ \E content \in Installed :
       /\ data = [i \in Inode |-> IF i = config THEN content ELSE Empty]
       /\ grubCfg = content
  /\ lock = [i \in Inode |-> NoHolder]
  /\ calls = 0
  /\ pc = [c \in Caller |-> "idle"]
  /\ request = [c \in Caller |-> NoRequest]
  /\ fd = [c \in Caller |-> NoInode]
  /\ tfd = [c \in Caller |-> NoInode]
  /\ base = [c \in Caller |-> NoBytes]
  /\ gen = [c \in Caller |-> NoBytes]
  /\ snapshots = {}
  /\ failsafe = "none" /\ failsafeTmp = "none"
  /\ ffd = [c \in Caller |-> "none"]

Next ==
  \/ \E c \in Caller :
       \/ ReadConfig(c) \/ ListMenu(c) \/ OpenConfig(c) \/ Rebuild(c)
       \/ Progress(c)
       \/ StepFails(c) \/ WriteFails(c) \/ FailsafeWriteFails(c)
  \/ PackageLock \/ PackageEdit \/ PackageUnlock \/ UpdateGrub
  \/ Crash

Spec == Init /\ [][Next]_vars

\* A dispatched call runs on: its system calls return, and so does grub-mkconfig,
\* which is waited for without a timeout. Nothing obliges a client to call, the
\* package manager to unlock, or a step to fail.
FairSpec == Spec /\ \A c \in Caller : WF_vars(Progress(c))

-----------------------------------------------------------------------------
(* Properties                                                              *)

\* Every variable has its type.
TypeOK ==
  /\ config \in Inode
  /\ tmp \in Inode \union {NoInode}
  /\ data \in [Inode -> Bytes]
  /\ lock \in [Inode -> Caller \union {NoHolder, Package}]
  /\ calls \in 0..MaxCalls
  /\ pc \in [Caller -> Resting \union Reading \union InFlight]
  /\ request \in [Caller -> Request]
  /\ fd \in [Caller -> Inode \union {NoInode}]
  /\ tfd \in [Caller -> Inode \union {NoInode}]
  /\ base \in [Caller -> Bytes \union {NoBytes}]
  /\ gen \in [Caller -> Bytes \union {NoBytes}]
  /\ snapshots \subseteq Bytes
  /\ failsafe \in {"none", "empty", "part", "whole"}
  /\ failsafeTmp \in {"none", "empty", "part", "whole"}
  /\ ffd \in [Caller -> {"none", "tmp", "live", "lost"}]
  /\ grubCfg \in Bytes

\* Step 2 excludes: a write call past it owns the flock of the inode it opened,
\* so no two such calls share an inode; and a call that has returned, or was
\* killed, leaves no flock behind.
Owns(c) == fd[c] # NoInode /\ pc[c] \in Writing \union Applying

LockExclusion ==
  /\ \A c \in Caller : Owns(c) => lock[fd[c]] = c
  /\ \A i \in Inode, c \in Caller : lock[i] = c => Owns(c) /\ fd[c] = i

\* Whatever overlaps, fails or dies, and whichever call's bytes a rename publishes, the
\* live configuration is one the machine had or a package manager wrote, or differs from
\* bytes that a complete snapshot holds by the keys of one request: the last edit can be
\* rolled back. That overlapping calls may leave it torn instead, and drop each other's
\* update, are NoLostUpdate's and LiveIsWhole's matter.
LiveHasOrigin ==
  \/ data[config] \in Installed \union Edit \union {Torn, Empty}
  \/ \E bytes \in snapshots, change \in Change : data[config] = Edited(bytes, change)

\* The live configuration is always a complete one: a reader, or a machine that
\* boots after a crash, never meets half-written bytes.
LiveIsWhole == data[config] \in Content

\* No update is lost: when a call puts a new file in place, the file it replaces
\* still holds the bytes whose ETag the client presented, and the new file is
\* that configuration with the requested keys changed.
NoLostUpdate ==
  [][config' # config =>
       \E c \in Caller :
         /\ pc[c] = "written" /\ pc'[c] = "renamed"
         /\ data[config] = request[c].etag
         /\ data'[config'] = Edited(data[config], request[c].change)]_vars

\* With calls one at a time, what grub-mkconfig and a reader find in failsafe.cfg is a
\* whole entry, written before grub.cfg is generated, whatever writes failed before.
FailsafeIsWhole ==
  /\ failsafe \in {"none", "whole"}
  /\ \A c \in Caller : Owns(c) /\ pc[c] \in {"refreshed", "generating"} => failsafe = "whole"

\* A menu selection is written only while grub.cfg is still the one its client chose
\* from: the ETag of the menu protects what the selection means.
MenuIsCurrent ==
  [][\A c \in Caller :
       pc[c] = "written" /\ pc'[c] = "renamed" => request[c].menu \in {NoMenu, grubCfg}]_vars

\* With calls one at a time, what an error leaves behind: a call past its ETag check that
\* fails has changed nothing, or, for EspScanFailed alone, has put its whole edit in place
\* with a snapshot of what it replaced. (A package manager may have written since.)
FailureIsUndoable ==
  [][\A c \in Caller :
       Owns(c) /\ pc[c] # "locked" /\ pc'[c] \in Errors =>
         \/ data'[config'] = base[c]
         \/ /\ pc'[c] = "EspScanFailed" /\ pc[c] \in Applying
            /\ data'[config'] \in {Edited(base[c], request[c].change)} \union Edit
            /\ base[c] \in snapshots']_vars

\* With calls one at a time, the pipeline implements the store its clients are
\* promised: the live file is a compare-and-swap register whose every replaced
\* value a snapshot holds, and only the package manager bypasses it.
Store == INSTANCE ConfigStore WITH live <- data[config], saved <- snapshots

ImplementsStore == Store!Spec

\* A write that returns success has taken effect: grub.cfg is generated from the
\* configuration it wrote, or from one a package manager installed since.
SuccessTakesEffect ==
  [][\A c \in Caller :
       pc[c] = "generating" /\ pc'[c] = "ok" /\ request[c] # NoRequest =>
         grubCfg' \in {Edited(base[c], request[c].change)} \union Edit]_vars

\* Every call in flight returns, whoever holds the lock.
EveryCallReturns ==
  \A c \in Caller : pc[c] \in InFlight ~> pc[c] \in Resting
=============================================================================
