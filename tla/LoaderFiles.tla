----------------------------- MODULE LoaderFiles -----------------------------
(***************************************************************************)
(* The write pipelines behind SetLoaderDefault, RenameLoaderEntry,         *)
(* AddKernelParam and RemoveKernelParam, as concurrent D-Bus calls run     *)
(* them (crates/daemon/src/systemd_boot_manager.rs, uki_manager.rs and     *)
(* rpm_ostree.rs). A behaviour is about one target:                        *)
(*   "loader.conf", "entry"  read, then open, lock, compare and unlock,    *)
(*                           then a temporary file of a fixed name;        *)
(*   "cmdline"               open and lock, then read, then a temporary    *)
(*                           file of a fresh name, all under the lock;     *)
(*   "kargs"                 no file: rpm-ostree is asked, then told.      *)
(*                                                                         *)
(* As in GrubManager, names refer to inodes, inodes hold bytes and locks,  *)
(* and an ETag is the bytes it is the hash of.                             *)
(***************************************************************************)
EXTENDS LoaderText, FiniteSets

CONSTANTS
  Caller,     \* clients of the daemon; each has at most one call in flight
  Inode,      \* inodes of the directory that holds the target
  Targets,    \* the targets a behaviour may be about
  Id,         \* entries that calls make the default
  Title,      \* titles that calls give
  Param,      \* kernel parameters that calls add or remove
  Blacklist,  \* those validate_kernel_param refuses
  Installed,  \* the files a target may be when the daemon starts
  Edit,       \* the files a package may install over a target
  MaxCalls,   \* bound on the calls of a behaviour
  MaxEdits,   \* bound on the steps of packages
  Torn,       \* bytes of a file part-written
  Empty,      \* the bytes of a file just truncated
  NoEtag,     \* the empty string a client presents for a file it found missing
  NoInode, NoHolder, NoRequest

\* Files that are whole.
Text == Seq(Lines)

Bytes == Text \union {Torn, Empty}

ASSUME LoaderAssumption ==
  /\ Targets \subseteq {"loader.conf", "entry", "cmdline", "kargs"}
  /\ {MaxCalls, MaxEdits} \subseteq Nat
  /\ NoInode \notin Inode
  /\ NoHolder \notin Caller
  /\ Id \union Title \union Param \subseteq STRING /\ NoText \notin Title
  /\ \A t \in Targets : Installed[t] \union Edit[t] \subseteq Text
  /\ {Torn, Empty, NoEtag} \intersect Text = {}
  /\ Torn # Empty /\ NoEtag \notin {Torn, Empty}

VARIABLES
  target,     \* what this behaviour is about; never changes
  overlap,    \* TRUE: calls run concurrently; FALSE: one at a time; never changes
  name,       \* the inode the target's path names, or NoInode
  tmp,        \* the inode the fixed temporary name refers to, or NoInode
  data,       \* the bytes of each inode
  lock,       \* who holds the flock of each inode
  changes,    \* how often another file, or none, has taken the path: for UpdateIsExact only
  calls, edits,
  pc,         \* the step a caller's call has reached, or how it returned
  request,    \* what a caller asks for, the ETag it presents, and changes when it read that
  fd, tfd,    \* the inodes a call has open: the target, the temporary file
  base        \* the bytes a call edits

fixed  == <<target, overlap>>
files  == <<name, tmp, data, changes>>
locals == <<request, fd, tfd, base>>
vars   ==
  <<target, overlap, name, tmp, data, lock, changes, calls, edits, pc, request, fd, tfd, base>>

Errors == {"ConcurrentModification", "StateMismatch", "MalformedValue", "KeyNotFound",
           "SecurityPolicyViolation", "EspScanFailed"}

\* The client has no call in the daemon.
Resting == {"idle", "ok"} \union Errors

\* Steps before the lock, from the lock to the comparison, and of the temporary file.
Working == {"parsed", "opened", "locked", "verified", "created", "written", "checked"}

Loader == {"loader.conf", "entry"}

\* What a call asks for.
Operation ==
  CASE target = "loader.conf" -> {[op |-> "default", arg |-> i] : i \in Id}
    [] target = "entry"       -> {[op |-> "title", arg |-> t] : t \in Title}
    [] OTHER                  -> {[op |-> o, arg |-> p] : o \in {"add", "remove"}, p \in Param}

-----------------------------------------------------------------------------
(* Helpers                                                                 *)

IsText(bytes) == bytes \notin {Torn, Empty}

\* The bytes the call writes for the bytes it read.
Transformed(r, bytes) ==
  IF ~IsText(bytes) THEN Torn
  ELSE CASE r.op = "default" -> UpdateOrAppend(bytes, "default", r.arg)
         [] r.op = "title"   -> WithTitle(bytes, r.arg)
         [] r.op = "add"     -> AddParam(bytes, r.arg)
         [] r.op = "remove"  -> RemoveParam(bytes, r.arg)

Exists == name # NoInode

Unused(i) ==
  /\ i \notin {name, tmp}
  /\ lock[i] = NoHolder
  /\ \A c \in Caller : i \notin {fd[c], tfd[c]}

\* The inode a new file gets.
HasFresh == \E i \in Inode : Unused(i)
Fresh == CHOOSE i \in Inode : Unused(i)

Step(c, from, to) == pc[c] = from /\ pc' = [pc EXCEPT ![c] = to]

\* The call returns; its descriptors are closed, which drops its lock.
Return(c, reply) ==
  /\ pc' = [pc EXCEPT ![c] = reply]
  /\ lock' = [i \in Inode |-> IF lock[i] = c THEN NoHolder ELSE lock[i]]
  /\ request' = [request EXCEPT ![c] = NoRequest]
  /\ fd' = [fd EXCEPT ![c] = NoInode]
  /\ tfd' = [tfd EXCEPT ![c] = NoInode]
  /\ base' = [base EXCEPT ![c] = Empty]

Refuse(c, reply) == Return(c, reply) /\ UNCHANGED <<fixed, files, calls, edits>>

\* A call gets past its first step: at once, or alone if calls are serial.
Dispatched ==
  /\ overlap \/ \A d \in Caller : pc[d] \notin Working
  /\ calls < MaxCalls
  /\ calls' = calls + 1

-----------------------------------------------------------------------------
(* The client                                                              *)

\* GetLoaderConfEtag, ReadLoaderEntry or ReadKernelCmdline: the client learns the
\* ETag it will present, or that the file is missing.
ReadTarget(c) ==
  /\ pc[c] \in Resting
  /\ pc' = [pc EXCEPT ![c] = "read"]
  /\ \E o \in Operation :
       request' = [request EXCEPT ![c] =
         [op |-> o.op, arg |-> o.arg, etag |-> IF Exists THEN data[name] ELSE NoEtag,
          seen |-> changes]]
  /\ UNCHANGED <<fixed, files, lock, calls, edits, fd, tfd, base>>

-----------------------------------------------------------------------------
(* systemd_boot_manager: the text is read and edited before the lock       *)

\* set_loader_default: the text is read if the file exists, or starts empty;
\* rename_loader_entry: the entry is read and parsed.
ReadLoaderText(c) ==
  /\ target \in Loader
  /\ Dispatched
  /\ Step(c, "read", "parsed")
  /\ \/ /\ Exists
        /\ target = "entry" /\ IsText(data[name]) => EntryParses(data[name])
        /\ base' = [base EXCEPT ![c] = data[name]]
     \/ /\ ~Exists
        /\ target = "loader.conf"
        /\ base' = [base EXCEPT ![c] = <<>>]
  /\ UNCHANGED <<fixed, files, lock, edits, request, fd, tfd>>

\* rename_loader_entry finds no entry, or none that parses.
RefuseEntry(c) ==
  /\ target = "entry"
  /\ Dispatched
  /\ pc[c] = "read"
  /\ \/ ~Exists /\ Return(c, "EspScanFailed")
     \/ /\ Exists
        /\ IsText(data[name]) => ~EntryParses(data[name])
        /\ Return(c, "MalformedValue")
  /\ UNCHANGED <<fixed, files, edits>>

\* atomic_write_with_etag opens the file; one that does not exist is neither
\* locked nor compared.
OpenLoaderFile(c) ==
  /\ target \in Loader
  /\ \/ /\ Exists
        /\ Step(c, "parsed", "opened")
        /\ fd' = [fd EXCEPT ![c] = name]
     \/ /\ ~Exists
        /\ Step(c, "parsed", "verified")
        /\ UNCHANGED fd
  /\ UNCHANGED <<fixed, files, lock, calls, edits, request, tfd, base>>

-----------------------------------------------------------------------------
(* uki_manager: open, lock, read, edit                                     *)

\* validate_kernel_param, before anything is opened; RemoveKernelParam does not ask.
RefuseParam(c) ==
  /\ target \in {"cmdline", "kargs"}
  /\ Dispatched
  /\ pc[c] = "read"
  /\ request[c].op = "add" /\ request[c].arg \in Blacklist
  /\ Return(c, "SecurityPolicyViolation")
  /\ UNCHANGED <<fixed, files, edits>>

AllowedParam(c) == request[c].op = "add" => request[c].arg \notin Blacklist

\* Step 1 of atomic_cmdline_update.
OpenCmdline(c) ==
  /\ target = "cmdline"
  /\ Dispatched
  /\ Step(c, "read", "opened")
  /\ AllowedParam(c)
  /\ Exists
  /\ fd' = [fd EXCEPT ![c] = name]
  /\ UNCHANGED <<fixed, files, lock, edits, request, tfd, base>>

\* Step 1 finds no file.
NoCmdline(c) ==
  /\ target = "cmdline"
  /\ Dispatched
  /\ pc[c] = "read"
  /\ AllowedParam(c)
  /\ ~Exists
  /\ Return(c, "EspScanFailed")
  /\ UNCHANGED <<fixed, files, edits>>

\* Step 5: remove_param does not find the parameter.
ParamMissing(c) ==
  /\ target = "cmdline"
  /\ pc[c] = "verified"
  /\ request[c].op = "remove"
  /\ IsText(base[c]) => ~HasParam(base[c], request[c].arg)
  /\ Refuse(c, "KeyNotFound")

-----------------------------------------------------------------------------
(* Both: the lock, the ETag and the replacement                            *)

\* flock(LOCK_EX | LOCK_NB) on the inode that was opened.
AcquireLock(c) ==
  /\ Step(c, "opened", "locked")
  /\ lock[fd[c]] = NoHolder
  /\ lock' = [lock EXCEPT ![fd[c]] = c]
  /\ UNCHANGED <<fixed, files, calls, edits, locals>>

LockBusy(c) ==
  /\ pc[c] = "opened"
  /\ lock[fd[c]] # NoHolder
  /\ Refuse(c, "ConcurrentModification")

\* The locked bytes carry the presented ETag. A loader file is not compared with
\* an empty one; a command line is read here for the first time.
EtagHolds(c) ==
  \/ data[fd[c]] = request[c].etag
  \/ target \in Loader /\ request[c].etag = NoEtag

\* A command line is edited as it was read under the lock, which is kept; the file of a
\* loader file, and with it its lock, is dropped once it is compared.
AfterCompare(c) ==
  \/ /\ target = "cmdline"
     /\ base' = [base EXCEPT ![c] = data[fd[c]]]
     /\ UNCHANGED <<lock, fd>>
  \/ /\ target \in Loader
     /\ lock' = [lock EXCEPT ![fd[c]] = NoHolder]
     /\ fd' = [fd EXCEPT ![c] = NoInode]
     /\ UNCHANGED base

\* Mutant: an ETag is never compared.
VerifyEtagSkipped(c) ==
  /\ Step(c, "locked", "verified")
  /\ AfterCompare(c)
  /\ UNCHANGED <<fixed, files, calls, edits, request, tfd>>

VerifyEtag(c) ==
  /\ Step(c, "locked", "verified")
  /\ EtagHolds(c)
  /\ AfterCompare(c)
  /\ UNCHANGED <<fixed, files, calls, edits, request, tfd>>

StaleEtag(c) ==
  /\ pc[c] = "locked"
  /\ ~EtagHolds(c)
  /\ Refuse(c, "StateMismatch")

\* remove_param found the parameter, or the call does not remove one.
Editable(c) ==
  request[c].op = "remove" => IsText(base[c]) /\ HasParam(base[c], request[c].arg)

\* Mutant: the command line, too, is staged under a fixed name.
CreateTmpFixed(c) ==
  /\ Step(c, "verified", "created")
  /\ Editable(c)
  /\ \/ /\ tmp = NoInode /\ HasFresh
        /\ tmp' = Fresh
     \/ /\ tmp # NoInode
        /\ tmp' = tmp
  /\ tfd' = [tfd EXCEPT ![c] = tmp']
  /\ data' = [data EXCEPT ![tmp'] = Empty]
  /\ UNCHANGED <<fixed, name, changes, lock, calls, edits, request, fd, base>>

\* File::create of the fixed name makes the file or truncates the one there;
\* NamedTempFile makes one of a new name.
CreateTmp(c) ==
  /\ Step(c, "verified", "created")
  /\ Editable(c)
  /\ \/ /\ tmp = NoInode \/ target = "cmdline"
        /\ HasFresh
        /\ tfd' = [tfd EXCEPT ![c] = Fresh]
        /\ tmp' = IF target = "cmdline" THEN tmp ELSE Fresh
     \/ /\ tmp # NoInode /\ target # "cmdline"
        /\ tfd' = [tfd EXCEPT ![c] = tmp]
        /\ tmp' = tmp
  /\ data' = [data EXCEPT ![tfd'[c]] = Empty]
  /\ UNCHANGED <<fixed, name, changes, lock, calls, edits, request, fd, base>>

\* write_all and fsync. Bytes another writer of the same file wrote may remain.
WriteTmp(c) ==
  /\ Step(c, "created", "written")
  /\ \E left \in {Transformed(request[c], base[c])}
                 \union (IF data[tfd[c]] = Empty THEN {} ELSE {Torn}) :
       data' = [data EXCEPT ![tfd[c]] = left]
  /\ UNCHANGED <<fixed, name, tmp, changes, lock, calls, edits, locals>>

\* rename moves what the temporary name refers to now; the call is done.
RenameTmp(c) ==
  /\ pc[c] = "written"
  /\ IF target = "cmdline"
     THEN name' = tfd[c] /\ UNCHANGED tmp
     ELSE tmp # NoInode /\ name' = tmp /\ tmp' = NoInode
  /\ changes' = changes + 1
  /\ Return(c, "ok")
  /\ UNCHANGED <<fixed, data, calls, edits>>

\* Another call has renamed the file of the fixed name away.
TmpGone(c) ==
  /\ pc[c] = "written"
  /\ target \in Loader
  /\ tmp = NoInode
  /\ Refuse(c, "EspScanFailed")

\* write_all or fsync fails: what was written of a file of the fixed name stays.
WriteFails(c) ==
  /\ pc[c] = "created"
  /\ data' = [data EXCEPT ![tfd[c]] = Torn]
  /\ Return(c, "EspScanFailed")
  /\ UNCHANGED <<fixed, name, tmp, changes, calls, edits>>

\* Any other I/O error ends the call where it is.
StepFails(c) ==
  /\ pc[c] \in Working \ {"created"}
  /\ Refuse(c, "EspScanFailed")

-----------------------------------------------------------------------------
(* rpm_ostree: `rpm-ostree kargs' is compared, then told                   *)

KargsRead(c) ==
  /\ target = "kargs"
  /\ Dispatched
  /\ Step(c, "read", "checked")
  /\ AllowedParam(c)
  /\ data[name] = request[c].etag
  /\ UNCHANGED <<fixed, files, lock, edits, locals>>

KargsStale(c) ==
  /\ target = "kargs"
  /\ Dispatched
  /\ pc[c] = "read"
  /\ AllowedParam(c)
  /\ data[name] # request[c].etag
  /\ Return(c, "StateMismatch")
  /\ UNCHANGED <<fixed, files, edits>>

\* Mutant: the arguments are replaced by the edited ones the client saw.
KargsReplace(c) ==
  /\ pc[c] = "checked"
  /\ data' = [data EXCEPT ![name] = Transformed(request[c], request[c].etag)]
  /\ Return(c, "ok")
  /\ UNCHANGED <<fixed, name, tmp, changes, calls, edits>>

\* --append and --delete act on the arguments there are now. An argument that is
\* there already may be appended again; one that is not cannot be deleted.
KargsApply(c) ==
  /\ pc[c] = "checked"
  /\ LET now == data[name]
         p == request[c].arg
     IN \/ /\ request[c].op = "add"
           /\ \E then \in {Append(now, Line("param", p)), AddParam(now, p)} :
                data' = [data EXCEPT ![name] = then]
        \/ /\ request[c].op = "remove" /\ HasParam(now, p)
           /\ data' = [data EXCEPT ![name] = RemoveParam(now, p)]
  /\ Return(c, "ok")
  /\ UNCHANGED <<fixed, name, tmp, changes, calls, edits>>

\* rpm-ostree fails to delete an argument that is not there.
KargsMissing(c) ==
  /\ pc[c] = "checked"
  /\ request[c].op = "remove" /\ ~HasParam(data[name], request[c].arg)
  /\ Refuse(c, "EspScanFailed")

-----------------------------------------------------------------------------
(* The environment                                                         *)

\* kernel-install or an administrator puts another file, or other arguments, in place,
\* at any time: they take no flock.
PackageReplace ==
  /\ edits < MaxEdits /\ HasFresh
  /\ \E text \in Edit[target] : data' = [data EXCEPT ![Fresh] = text]
  /\ name' = Fresh
  /\ changes' = changes + 1
  /\ edits' = edits + 1
  /\ UNCHANGED <<fixed, tmp, lock, calls, pc, locals>>

\* The file is removed: an entry goes with its kernel.
PackageRemove ==
  /\ target # "kargs"
  /\ edits < MaxEdits /\ Exists
  /\ name' = NoInode
  /\ changes' = changes + 1
  /\ edits' = edits + 1
  /\ UNCHANGED <<fixed, tmp, data, lock, calls, pc, locals>>

\* The daemon dies: calls and locks vanish, files stay as they are.
Crash ==
  /\ \E c \in Caller : pc[c] \in Working
  /\ pc' = [c \in Caller |-> IF pc[c] \in Working THEN "idle" ELSE pc[c]]
  /\ request' = [c \in Caller |-> IF pc[c] \in Working THEN NoRequest ELSE request[c]]
  /\ lock' = [i \in Inode |-> NoHolder]
  /\ fd' = [c \in Caller |-> NoInode]
  /\ tfd' = [c \in Caller |-> NoInode]
  /\ base' = [c \in Caller |-> Empty]
  /\ UNCHANGED <<fixed, files, calls, edits>>

-----------------------------------------------------------------------------
Init ==
  /\ target \in Targets
  /\ overlap \in BOOLEAN
  /\ \/ /\ name \in Inode
        /\ name = CHOOSE i \in Inode : TRUE
        /\ \E text \in Installed[target] : data = [i \in Inode |-> IF i = name THEN text ELSE Empty]
     \/ /\ target = "loader.conf"
        /\ name = NoInode
        /\ data = [i \in Inode |-> Empty]
  /\ tmp = NoInode
  /\ lock = [i \in Inode |-> NoHolder]
  /\ changes = 0 /\ calls = 0 /\ edits = 0
  /\ pc = [c \in Caller |-> "idle"]
  /\ request = [c \in Caller |-> NoRequest]
  /\ fd = [c \in Caller |-> NoInode]
  /\ tfd = [c \in Caller |-> NoInode]
  /\ base = [c \in Caller |-> Empty]

\* One step of the daemon on a dispatched call, failures of the disk aside.
Progress(c) ==
  \/ OpenLoaderFile(c) \/ AcquireLock(c) \/ LockBusy(c) \/ VerifyEtag(c) \/ StaleEtag(c)
  \/ ParamMissing(c) \/ CreateTmp(c) \/ WriteTmp(c) \/ RenameTmp(c) \/ TmpGone(c)
  \/ KargsApply(c) \/ KargsMissing(c)

Next ==
  \/ \E c \in Caller :
       \/ ReadTarget(c)
       \/ ReadLoaderText(c) \/ RefuseEntry(c)
       \/ RefuseParam(c) \/ OpenCmdline(c) \/ NoCmdline(c)
       \/ KargsRead(c) \/ KargsStale(c)
       \/ Progress(c) \/ WriteFails(c) \/ StepFails(c)
  \/ PackageReplace \/ PackageRemove \/ Crash

Spec == Init /\ [][Next]_vars

-----------------------------------------------------------------------------
(* Properties                                                              *)

\* However calls overlap, fail or die, the live command line is whole: its
\* temporary file has a name of its own. Loader files share one name and are
\* whole only when calls do not overlap.
LiveIsWhole ==
  target \in {"cmdline", "kargs"} \/ ~overlap => (Exists => IsText(data[name]))

\* The lines with a key, in order.
KeyLines(lines, k) == Select(lines, {l \in Lines : l.key = k})

Others(lines, p) == Select(lines, {l \in Lines : l.value # p})

Keys(lines) == {lines[i].key : i \in DOMAIN lines}

\* What a caller means by an operation: what it names, and nothing else. (Of a field that
\* an entry repeats, such as initrd, RenameLoaderEntry keeps the last line only.)
Intended(r, old, new) ==
  CASE r.op = "default" ->
         /\ LoaderConfDefault(new) = r.arg
         /\ \A k \in Keys(old) \union Keys(new) :
              k # "default" => KeyLines(new, k) = KeyLines(old, k)
    [] r.op = "title" ->
         /\ FieldOf(new, "title") = r.arg
         /\ \A k \in (Keys(old) \union Keys(new)) \ {"title"} :
              k \notin Known \/ Len(KeyLines(old, k)) <= 1 => KeyLines(new, k) = KeyLines(old, k)
    [] r.op = "add" -> HasParam(new, r.arg) /\ Others(new, r.arg) = Others(old, r.arg)
    [] r.op = "remove" -> ~HasParam(new, r.arg) /\ Others(new, r.arg) = Others(old, r.arg)

Finishes(c) == pc[c] \in Working /\ pc'[c] = "ok"

\* Calls one at a time, packages at any time: the file a successful call leaves is its own
\* edit of one text, whatever a call before it left in the temporary file. When the client
\* read a file, there still is one, and it has changed at most once since, that text is the
\* one the client read: the file read before the lock is then the one compared, or the
\* change comes too late to be seen. It may not be if the file is brought back in between,
\* if it is missing when it is opened, or if the client presents the empty ETag.
UpdateIsExact ==
  [][\A c \in Caller :
       /\ Finishes(c)
       /\ ~overlap
       /\ target # "kargs"
       => /\ Intended(request[c], base[c], data'[name'])
          /\ Exists /\ request[c].etag # NoEtag /\ changes <= request[c].seen + 1
             => base[c] = request[c].etag]_vars

\* Calls that overlap: what a successful call leaves in the command line is
\* its own edit of bytes that carried the ETag it presented, never bytes
\* another call has staged. Where the arguments are rpm-ostree's, it never drops or
\* brings back one that another call has changed meanwhile.
SuccessIsOwn ==
  [][\A c \in Caller :
       Finishes(c) =>
         /\ target = "cmdline" => Intended(request[c], request[c].etag, data'[name'])
         /\ target = "kargs" =>
              Others(data'[name'], request[c].arg) = Others(data[name], request[c].arg)]_vars
=============================================================================
