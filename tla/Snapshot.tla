------------------------------- MODULE Snapshot -------------------------------
(***************************************************************************)
(* Snapshot directories and the calls that use them                        *)
(* (crates/daemon/src/snapshot.rs): create, list, restore and reap, on     *)
(* targets that write calls and restores replace concurrently.             *)
(*                                                                         *)
(* A target is replaced by renaming a new inode over its name, and flock   *)
(* locks inodes: file[t] is the sequence of inodes the name t has had, the *)
(* live one last.  A SHA-256 is modelled by the bytes it is the hash of.   *)
(***************************************************************************)
EXTENDS Naturals, Sequences, FiniteSets

CONSTANTS
  Caller,     \* calls that may be in flight together
  Target,     \* paths, numbered in their sorting order
  Managed,    \* the paths managed_paths() allows
  Flat,       \* flatten_path: the file name of a target inside a snapshot
  Id,         \* snapshot ids, numbered in the order the directory lists them
  Content,    \* bytes of a target
  Torn,       \* bytes of a file being written, or half-written
  Capture,    \* the lists of files snapshot::create may be asked for
  Installed,  \* the bytes of the targets when the daemon starts
  Found,      \* the snapshot directories the daemon may find when it starts
  KeepCount, KeepAge,   \* the retention policy of reap
  PowerLoss,  \* TRUE: the machine may lose power, not only the daemon its process
  MaxCalls,   \* bound on the calls of a behaviour
  MaxTime,    \* bound on the clock
  MaxInodes,  \* bound on the inodes of one name
  NoDir, NoManifest, NoCall

Partial(S, T) == UNION {[R -> T] : R \in SUBSET S}

\* A manifest row: ManifestFile, without the mode.
Row == [path : Target, sha256 : Content]

\* A snapshot directory: its time, the payload files, the manifest, and whether
\* the kernel has written all of it back to the disk.
Dir ==
  [ts : 0..MaxTime,
   payload : Partial({Flat[t] : t \in Target}, Content \union {Torn}),
   manifest : Seq(Row) \union {NoManifest, Torn},
   durable : BOOLEAN]

Files == UNION {[1..n -> Target] : n \in 1..Cardinality(Target)}

\* A call in flight: the snapshot it makes or restores, its files with the bytes to
\* put there, the descriptor it has opened last, its locks and the files done. since is
\* kept for EtagWasLive only: the inode its first file had when the call started.
Call ==
  [kind : {"write", "create", "restore"}, id : Id, files : Seq(Target), etag : Content,
   bytes : Seq(Content), fd : 0..MaxInodes, locks : Partial(Target, 1..MaxInodes), done : Nat,
   since : 1..MaxInodes]

ASSUME SnapshotAssumption ==
  /\ IsFiniteSet(Target) /\ Target \subseteq Nat /\ Target # {}
  /\ Managed \subseteq Target
  /\ Id \subseteq Nat
  /\ \A t, u \in Target : Flat[t] = Flat[u] => t = u
  /\ Capture \subseteq Files
  /\ Installed \subseteq [Target -> Content]
  /\ Found \subseteq [Id -> Dir \union {NoDir}]
  /\ {KeepCount, KeepAge, MaxCalls, MaxTime, MaxInodes} \subseteq Nat
  /\ MaxInodes > 0
  /\ PowerLoss \in BOOLEAN
  /\ Torn \notin Content \union Seq(Row)
  /\ NoManifest \notin Seq(Row) \union {Torn}
  /\ NoDir \notin Dir
  /\ NoCall \notin Call

\* The daemon finds finitely many snapshot directories, and can restore each whose
\* manifest is complete, as ListedIsRestorable says of those it leaves. (The clock
\* starts at 0, when no deletion is due: half-deleted ones are not among them.)
ASSUME FoundAssumption ==
  \A found \in Found :
    /\ IsFiniteSet({id \in Id : found[id] # NoDir})
    /\ \A id \in Id :
         \/ found[id] = NoDir
         \/ found[id].manifest \in {NoManifest, Torn}
         \/ PowerLoss /\ ~found[id].durable
         \/ \A i \in DOMAIN found[id].manifest :
              LET row == found[id].manifest[i] IN
                /\ Flat[row.path] \in DOMAIN found[id].payload
                /\ found[id].payload[Flat[row.path]] = row.sha256

VARIABLES
  file,       \* the inodes each target's name has referred to, the live one last
  dir,        \* the snapshot directories
  call,       \* what each call in flight works on
  calls,      \* calls started so far
  pc,         \* the step a call has reached, or how the last one returned
  doomed,     \* the snapshots the reaper has yet to delete
  now

vars == <<file, dir, call, calls, pc, doomed, now>>

Refusals == {"ConcurrentModification", "StateMismatch", "SnapshotNotFound",
             "SnapshotCorrupt", "InvalidTarget"}

Resting == {"idle", "ok", "SnapshotFailed"} \union Refusals

Steps == {"opening", "locking", "verifying", "checking", "naming", "payload",
          "filling", "manifest", "sealing", "replacing"}

-----------------------------------------------------------------------------
(* Helpers                                                                 *)

Range1(s) == {s[i] : i \in DOMAIN s}

Live(t) == file[t][Len(file[t])]

\* The exclusive flock of an inode is taken.
Locked(t, n) ==
  \E d \in Caller :
    /\ call[d] # NoCall
    /\ t \in DOMAIN call[d].locks
    /\ call[d].locks[t] = n

Exists(id) == dir[id] # NoDir

HasManifest(id) == Exists(id) /\ dir[id].manifest # NoManifest

\* The manifest parses.
Sealed(id) == HasManifest(id) /\ dir[id].manifest # Torn

\* What list shows, when it does not fail.
Listed == {id \in Id : Sealed(id)}

\* One unreadable manifest fails the whole listing.
ListFails == \E id \in Id : HasManifest(id) /\ ~Sealed(id)

\* The payload of manifest row i is there, with the hash the manifest gives.
RowHolds(id, i) ==
  LET row == dir[id].manifest[i] IN
    /\ Flat[row.path] \in DOMAIN dir[id].payload
    /\ dir[id].payload[Flat[row.path]] = row.sha256

Whole(id) == Sealed(id) /\ \A i \in DOMAIN dir[id].manifest : RowHolds(id, i)

\* A listing is newest first, and in directory order among equal times, since
\* the sort is stable.
Precedes(o, id) ==
  \/ dir[o].ts > dir[id].ts
  \/ dir[o].ts = dir[id].ts /\ o < id

Before(id) == {o \in Listed : Precedes(o, id)}

\* A snapshot reap deletes: older than the cutoff and beyond the first KeepCount.
Expendable(id) ==
  /\ now > dir[id].ts + KeepAge
  /\ Cardinality(Before(id)) >= KeepCount

Goto(c, from, to) == pc[c] = from /\ pc' = [pc EXCEPT ![c] = to]

\* The call returns; closing its descriptors drops its locks.
Return(c, reply) ==
  /\ pc' = [pc EXCEPT ![c] = reply]
  /\ call' = [call EXCEPT ![c] = NoCall]

-----------------------------------------------------------------------------
(* The start of a call                                                     *)

Start(c, kind, id, files, etag, bytes, step) ==
  /\ pc[c] \in Resting
  /\ calls < MaxCalls
  /\ calls' = calls + 1
  /\ pc' = [pc EXCEPT ![c] = step]
  /\ call' = [call EXCEPT ![c] =
       [kind |-> kind, id |-> id, files |-> files, etag |-> etag, bytes |-> bytes,
        fd |-> 0, locks |-> [t \in {} |-> 0], done |-> 0, since |-> Len(file[files[1]])]]
  /\ UNCHANGED <<file, dir, doomed, now>>

\* A write call on one target, which its prewrite step snapshots. The audit
\* job of the call determines the id.
StartWrite(c) ==
  \E t \in Managed, id \in Id, etag \in Content, new \in Content :
    Start(c, "write", id, <<t>>, etag, <<new>>, "opening")

\* snapshot::create: the files are read as they are, without a lock.
StartCreate(c) ==
  \E files \in Capture, id \in Id :
    Start(c, "create", id, files, Live(files[1]),
          [i \in DOMAIN files |-> Live(files[i])], "naming")

\* restore, on a manifest that parses and names managed, distinct targets.
StartRestore(c) ==
  \E id \in Listed, etag \in Content :
    LET manifest == dir[id].manifest
        paths == [i \in DOMAIN manifest |-> manifest[i].path]
    IN /\ manifest # <<>>
       /\ Range1(paths) \subseteq Managed
       /\ Cardinality(Range1(paths)) = Len(paths)
       /\ Start(c, "restore", id, paths, etag,
                [i \in DOMAIN manifest |-> manifest[i].sha256], "opening")

\* restore refuses at once: no manifest, an unreadable one, or one that names
\* an unmanaged target or the same target twice.
RefuseRestore(c) ==
  /\ pc[c] \in Resting
  /\ \E id \in Id :
       \/ /\ ~HasManifest(id)
          /\ Return(c, "SnapshotNotFound")
       \/ /\ HasManifest(id) /\ ~Sealed(id)
          /\ Return(c, "SnapshotCorrupt")
       \/ /\ id \in Listed
          /\ \E i \in DOMAIN dir[id].manifest : dir[id].manifest[i].path \notin Managed
          /\ Return(c, "InvalidTarget")
       \/ /\ id \in Listed
          /\ \E i, j \in DOMAIN dir[id].manifest :
               i # j /\ dir[id].manifest[i].path = dir[id].manifest[j].path
          /\ Return(c, "SnapshotCorrupt")
  /\ UNCHANGED <<file, dir, calls, doomed, now>>

-----------------------------------------------------------------------------
(* Locks and the ETag                                                      *)

Unlocked(c) == Range1(call[c].files) \ DOMAIN call[c].locks

\* Mutant: targets are locked in manifest order.
NextTargetListed(c) ==
  LET i == CHOOSE i \in DOMAIN call[c].files :
             /\ call[c].files[i] \in Unlocked(c)
             /\ \A j \in 1..(i - 1) : call[c].files[j] \notin Unlocked(c)
  IN call[c].files[i]

\* Targets are locked in sorting order.
NextTarget(c) == CHOOSE t \in Unlocked(c) : \A u \in Unlocked(c) : t <= u

\* open(2) gives the inode the name refers to now.
OpenTarget(c) ==
  /\ Goto(c, "opening", "locking")
  /\ call' = [call EXCEPT ![c].fd = Len(file[NextTarget(c)])]
  /\ UNCHANGED <<file, dir, calls, doomed, now>>

\* flock(LOCK_EX | LOCK_NB) succeeds; the next target is opened, or all are locked.
LockTarget(c) ==
  LET t == NextTarget(c) IN
    /\ pc[c] = "locking"
    /\ ~Locked(t, call[c].fd)
    /\ call' = [call EXCEPT ![c].locks =
                  [u \in DOMAIN call[c].locks \union {t} |->
                     IF u = t THEN call[c].fd ELSE call[c].locks[u]]]
    /\ pc' = [pc EXCEPT ![c] = IF Unlocked(c) = {t} THEN "verifying" ELSE "opening"]
    /\ UNCHANGED <<file, dir, calls, doomed, now>>

\* EWOULDBLOCK.
LockBusy(c) ==
  /\ pc[c] = "locking"
  /\ Locked(NextTarget(c), call[c].fd)
  /\ Return(c, "ConcurrentModification")
  /\ UNCHANGED <<file, dir, calls, doomed, now>>

\* The bytes of the first file as the call's locked descriptor reads them.
Primary(c) == file[call[c].files[1]][call[c].locks[call[c].files[1]]]

\* Mutant: a restore takes whatever bytes it finds.
VerifyEtagOfWrites(c) ==
  /\ Goto(c, "verifying", IF call[c].kind = "write" THEN "naming" ELSE "checking")
  /\ call[c].kind = "write" => Primary(c) = call[c].etag
  /\ UNCHANGED <<file, dir, call, calls, doomed, now>>

\* The first file carries the ETag the caller presents.
VerifyEtag(c) ==
  /\ Goto(c, "verifying", IF call[c].kind = "write" THEN "naming" ELSE "checking")
  /\ Primary(c) = call[c].etag
  /\ UNCHANGED <<file, dir, call, calls, doomed, now>>

\* Mutant: the refused call keeps its descriptors, and so its locks.
StaleEtagLeaks(c) ==
  /\ Goto(c, "verifying", "StateMismatch")
  /\ Primary(c) # call[c].etag
  /\ UNCHANGED <<file, dir, call, calls, doomed, now>>

\* The first file does not carry the presented ETag.
StaleEtag(c) ==
  /\ pc[c] = "verifying"
  /\ Primary(c) # call[c].etag
  /\ Return(c, "StateMismatch")
  /\ UNCHANGED <<file, dir, calls, doomed, now>>

-----------------------------------------------------------------------------
(* create_captured_at                                                      *)

\* What the snapshot of the call is to hold: of a write, the locked bytes.
Captured(c, i) == IF call[c].kind = "write" THEN call[c].etag ELSE call[c].bytes[i]

\* Mutant: create_dir_all, a directory already there is used.
MakeDirShared(c) ==
  /\ Goto(c, "naming", "payload")
  /\ dir' = IF Exists(call[c].id) THEN dir
            ELSE [dir EXCEPT ![call[c].id] =
                    [ts |-> now, payload |-> [n \in {} |-> Torn], manifest |-> NoManifest,
                     durable |-> FALSE]]
  /\ UNCHANGED <<file, call, calls, doomed, now>>

\* create_dir is exclusive.
MakeDir(c) ==
  /\ Goto(c, "naming", "payload")
  /\ ~Exists(call[c].id)
  /\ dir' = [dir EXCEPT ![call[c].id] =
               [ts |-> now, payload |-> [n \in {} |-> Torn], manifest |-> NoManifest,
                durable |-> FALSE]]
  /\ UNCHANGED <<file, call, calls, doomed, now>>

\* Mutant: the error of create_dir is only logged, a write goes on.
DirExistsIgnored(c) ==
  /\ pc[c] = "naming"
  /\ Exists(call[c].id)
  /\ IF call[c].kind = "write"
     THEN Goto(c, "naming", "replacing") /\ UNCHANGED call
     ELSE Return(c, "SnapshotFailed")
  /\ UNCHANGED <<file, dir, calls, doomed, now>>

\* Another snapshot has the id already.
DirExists(c) ==
  /\ pc[c] = "naming"
  /\ Exists(call[c].id)
  /\ Return(c, "SnapshotFailed")
  /\ UNCHANGED <<file, dir, calls, doomed, now>>

PutPayload(id, name, bytes) ==
  dir' = [dir EXCEPT ![id].payload =
            [n \in DOMAIN dir[id].payload \union {name} |->
               IF n = name THEN bytes ELSE dir[id].payload[n]]]

\* fs::write of the next captured file creates and truncates it ...
CreatePayload(c) ==
  /\ Goto(c, "payload", "filling")
  /\ PutPayload(call[c].id, Flat[call[c].files[call[c].done + 1]], Torn)
  /\ UNCHANGED <<file, call, calls, doomed, now>>

\* ... and fills it. The manifest comes after the last file.
FillPayload(c) ==
  LET i == call[c].done + 1
      last == i = Len(call[c].files)
  IN /\ Goto(c, "filling", IF last THEN "manifest" ELSE "payload")
     /\ PutPayload(call[c].id, Flat[call[c].files[i]], Captured(c, i))
     /\ call' = [call EXCEPT ![c].done = IF last THEN 0 ELSE i]
     /\ UNCHANGED <<file, calls, doomed, now>>

CreateManifest(c) ==
  /\ Goto(c, "manifest", "sealing")
  /\ dir' = [dir EXCEPT ![call[c].id].manifest = Torn]
  /\ UNCHANGED <<file, call, calls, doomed, now>>

\* The manifest is whole: a create is done, a write goes on to its rename.
FillManifest(c) ==
  /\ pc[c] = "sealing"
  /\ dir' = [dir EXCEPT ![call[c].id].manifest =
               [i \in DOMAIN call[c].files |->
                  [path |-> call[c].files[i], sha256 |-> Captured(c, i)]]]
  /\ IF call[c].kind = "write"
     THEN Goto(c, "sealing", "replacing") /\ UNCHANGED call
     ELSE Return(c, "ok")
  /\ UNCHANGED <<file, calls, doomed, now>>

-----------------------------------------------------------------------------
(* The replacement of the targets                                          *)

\* The payload of file i is there with the hash the call took from the manifest.
PayloadHolds(c, i) ==
  /\ Exists(call[c].id)
  /\ Flat[call[c].files[i]] \in DOMAIN dir[call[c].id].payload
  /\ dir[call[c].id].payload[Flat[call[c].files[i]]] = call[c].bytes[i]

\* restore reads and verifies every payload before the first target changes.
CheckPayloads(c) ==
  /\ Goto(c, "checking", "replacing")
  /\ \A i \in DOMAIN call[c].files : PayloadHolds(c, i)
  /\ UNCHANGED <<file, dir, call, calls, doomed, now>>

\* Mutant: each payload is verified when its target is replaced.
BadPayloadLate(c) ==
  /\ pc[c] \in {"checking", "replacing"}
  /\ \E i \in DOMAIN call[c].files : ~PayloadHolds(c, i)
  /\ \/ Return(c, "SnapshotFailed")
     \/ Return(c, "SnapshotCorrupt")
  /\ UNCHANGED <<file, dir, calls, doomed, now>>

\* A payload is gone, or does not have its hash.
BadPayload(c) ==
  /\ pc[c] = "checking"
  /\ \E i \in DOMAIN call[c].files : ~PayloadHolds(c, i)
  /\ \/ Return(c, "SnapshotFailed")
     \/ Return(c, "SnapshotCorrupt")
  /\ UNCHANGED <<file, dir, calls, doomed, now>>

\* The next target in manifest order is replaced: temporary file, fsync, rename.
\* What follows the last rename may still fail the call.
ReplaceTarget(c) ==
  LET i == call[c].done + 1
      t == call[c].files[i]
  IN /\ pc[c] = "replacing"
     /\ Len(file[t]) < MaxInodes
     /\ file' = [file EXCEPT ![t] = Append(@, call[c].bytes[i])]
     /\ IF i = Len(call[c].files)
        THEN \E reply \in {"ok", "SnapshotFailed"} : Return(c, reply)
        ELSE UNCHANGED pc /\ call' = [call EXCEPT ![c].done = i]
     /\ UNCHANGED <<dir, calls, doomed, now>>

\* An I/O error ends the call where it is; what it has done stays.
StepFails(c) ==
  /\ pc[c] \in Steps
  /\ Return(c, "SnapshotFailed")
  /\ UNCHANGED <<file, dir, calls, doomed, now>>

-----------------------------------------------------------------------------
(* reap                                                                    *)

\* Mutant: what is beyond KeepCount goes whatever its age.
ReapByCount ==
  /\ doomed = {}
  /\ ~ListFails
  /\ doomed' = {id \in Listed : Cardinality(Before(id)) >= KeepCount}
  /\ doomed' # {}
  /\ UNCHANGED <<file, dir, call, calls, pc, now>>

\* A pass of the reaper lists the snapshots and picks the expendable ones.
Reap ==
  /\ doomed = {}
  /\ ~ListFails
  /\ doomed' = {id \in Listed : Expendable(id)}
  /\ doomed' # {}
  /\ UNCHANGED <<file, dir, call, calls, pc, now>>

\* remove_dir_all of the first doomed snapshot takes one entry away, in any
\* order, and at last the directory.
ReapEntry ==
  \E id \in doomed :
    /\ \A o \in doomed \ {id} : Precedes(id, o)
    /\ \/ /\ \E n \in DOMAIN dir[id].payload :
              dir' = [dir EXCEPT ![id].payload =
                        [m \in DOMAIN dir[id].payload \ {n} |-> dir[id].payload[m]]]
          /\ UNCHANGED doomed
       \/ /\ dir[id].manifest # NoManifest
          /\ dir' = [dir EXCEPT ![id].manifest = NoManifest]
          /\ UNCHANGED doomed
       \/ /\ DOMAIN dir[id].payload = {} /\ dir[id].manifest = NoManifest
          /\ dir' = [dir EXCEPT ![id] = NoDir]
          /\ doomed' = doomed \ {id}
    /\ UNCHANGED <<file, call, calls, pc, now>>

\* A removal fails, which ends the pass.
ReapFails ==
  /\ doomed # {}
  /\ doomed' = {}
  /\ UNCHANGED <<file, dir, call, calls, pc, now>>

-----------------------------------------------------------------------------
(* The environment                                                         *)

Tick ==
  /\ now < MaxTime
  /\ now' = now + 1
  /\ UNCHANGED <<file, dir, call, calls, pc, doomed>>

\* The kernel writes a finished snapshot back to the disk; nothing in create waits for it.
Writeback ==
  /\ PowerLoss
  /\ \E id \in Id :
       /\ Whole(id)
       /\ ~dir[id].durable
       /\ dir' = [dir EXCEPT ![id].durable = TRUE]
  /\ UNCHANGED <<file, call, calls, pc, doomed, now>>

Vanish ==
  /\ pc' = [c \in Caller |-> IF pc[c] \in Steps THEN "idle" ELSE pc[c]]
  /\ call' = [c \in Caller |-> NoCall]
  /\ doomed' = {}
  /\ UNCHANGED <<file, now, calls>>

\* The daemon dies: calls and locks vanish, files stay as they are.
Crash ==
  /\ \E c \in Caller : pc[c] \in Steps
  /\ Vanish
  /\ UNCHANGED dir

\* Power is lost: files never written back may be found empty.
PowerCut ==
  /\ PowerLoss
  /\ Vanish
  /\ \E lost \in SUBSET {id \in Id : Exists(id) /\ ~dir[id].durable} :
       dir' = [id \in Id |->
                 IF id \in lost
                 THEN [dir[id] EXCEPT !.payload = [n \in DOMAIN dir[id].payload |-> Torn]]
                 ELSE dir[id]]

-----------------------------------------------------------------------------
Init ==
  /\ \E bytes \in Installed : file = [t \in Target |-> <<bytes[t]>>]
  /\ dir \in Found
  /\ calls = 0
  /\ call = [c \in Caller |-> NoCall]
  /\ pc = [c \in Caller |-> "idle"]
  /\ doomed = {}
  /\ now = 0

Next ==
  \/ \E c \in Caller :
       \/ StartWrite(c) \/ StartCreate(c) \/ StartRestore(c) \/ RefuseRestore(c)
       \/ OpenTarget(c) \/ LockTarget(c) \/ LockBusy(c) \/ VerifyEtag(c) \/ StaleEtag(c)
       \/ MakeDir(c) \/ DirExists(c) \/ CreatePayload(c) \/ FillPayload(c)
       \/ CreateManifest(c) \/ FillManifest(c)
       \/ CheckPayloads(c) \/ BadPayload(c) \/ ReplaceTarget(c) \/ StepFails(c)
  \/ Reap \/ ReapEntry \/ ReapFails
  \/ Tick \/ Writeback \/ Crash \/ PowerCut

Spec == Init /\ [][Next]_vars

-----------------------------------------------------------------------------
(* Properties                                                              *)

\* Every variable has its type.
TypeOK ==
  /\ file \in [Target -> Seq(Content)]
  /\ \A t \in Target : Len(file[t]) \in 1..MaxInodes
  /\ dir \in [Id -> Dir \union {NoDir}]
  /\ call \in [Caller -> Call \union {NoCall}]
  /\ calls \in 0..MaxCalls
  /\ pc \in [Caller -> Resting \union Steps]
  /\ \A c \in Caller : pc[c] \in Steps <=> call[c] # NoCall
  /\ doomed \subseteq {id \in Id : Exists(id)}
  /\ now \in 0..MaxTime

\* Whatever stops a create part-way, what ListSnapshots shows can be restored:
\* the manifest is complete only after every payload is. Only a snapshot whose
\* deletion the retention policy allows may be found half-deleted, and only one
\* not yet on the disk may lose its payload with the power.
ListedIsRestorable ==
  \A id \in Listed :
    Whole(id) \/ Expendable(id) \/ (PowerLoss /\ ~dir[id].durable)

\* Any failed boot can be rolled back: what is listed can be restored, unless its
\* deletion is due.
RollbackIsPossible == \A id \in Listed : Whole(id) \/ Expendable(id)

\* Once complete, a snapshot is never altered: create_dir refuses an id already
\* taken, and reap takes only what is beyond the newest KeepCount and older than
\* KeepAge, however its listing interleaves with new snapshots.
CompleteIsKept ==
  [][\A id \in Listed :
       \/ Exists(id)' /\ [dir'[id] EXCEPT !.durable = dir[id].durable] = dir[id]
       \/ Expendable(id)
       \/ PowerLoss /\ ~dir[id].durable]_vars

\* A restore that is refused has replaced no target, however many files its
\* manifest names and whatever reap deletes meanwhile.
RefusalTouchesNothing ==
  [][\A c \in Caller :
       pc[c] \in Steps /\ pc'[c] \in Refusals => call[c].done = 0]_vars

\* A call about to replace its targets presents the ETag of bytes that were live at some
\* time since it started, though not always of those it replaces: it opens the file before
\* it locks it, and a call that has replaced the file in between holds no lock of the new
\* inode. What is lost unseen is thus at most the writing of a call that overlapped this one.
EtagWasLive ==
  \A c \in Caller :
    pc[c] = "replacing" =>
      LET t == call[c].files[1] IN
        \E n \in call[c].since..Len(file[t]) : file[t][n] = call[c].etag

\* A write replaces its target before its snapshot is KeepAge old, so that reap does not
\* delete the snapshot first: an assumption of WriteIsSaved.
PromptWrites ==
  \A c \in Caller :
    pc[c] = "replacing" /\ call[c].kind = "write" => now <= dir[call[c].id].ts + KeepAge

\* A write call replaces its target only when the snapshot its audit row names is
\* complete and holds the bytes the call read under its lock.
WriteIsSaved ==
  [][\A c \in Caller :
       /\ pc[c] = "replacing"
       /\ call[c].kind = "write"
       /\ file'[call[c].files[1]] # file[call[c].files[1]]
       => /\ Whole(call[c].id)
          /\ dir[call[c].id].manifest =
               <<[path |-> call[c].files[1], sha256 |-> Primary(c)]>>]_vars

\* Call c is about to be refused a flock that call d holds.
Blocks(d, c) ==
  /\ pc[c] = "locking"
  /\ call[d] # NoCall
  /\ NextTarget(c) \in DOMAIN call[d].locks
  /\ call[d].locks[NextTarget(c)] = call[c].fd

\* Locking in sorting order: two restores of the same files never refuse each
\* other, so one of any two overlapping restores gets its locks.
NoMutualRefusal ==
  \A c, d \in Caller : ~(Blocks(c, d) /\ Blocks(d, c))
=============================================================================
