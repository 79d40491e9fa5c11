----------------------------- MODULE Interface ------------------------------
(***************************************************************************)
(* D-Bus calls from the guard they hold to their reply: who asks Polkit,   *)
(* what is refused, what is evidenced in the audit log, and what happens   *)
(* to the EFI boot variables, the NVRAM backup and the UKI they change     *)
(* (crates/daemon/src/interface.rs, polkit.rs, audit.rs,                   *)
(* uefi_vars_linux.rs, secureboot/, crates/core/src/uefi_vars.rs).         *)
(*                                                                         *)
(* A handler awaits twice, for the caller's uid and for Polkit. From       *)
(* there to its end it runs without awaiting, so main, when it returns,    *)
(* drops handlers at those two places and replies not yet sent, and waits  *)
(* for the others.                                                         *)
(*                                                                         *)
(* GrubManager, Snapshot and LoaderFiles model the pipelines that write    *)
(* configuration files; here such a file is the call that changed it last. *)
(***************************************************************************)
EXTENDS Handlers, EfiVars, Integers

CONSTANTS
  Client,      \* connections of the bus; each has at most one call
  Request,     \* what clients may call: a function from names to [method, arg]
  Hosts,       \* the systems a host may be: [markers, id]
  Policies,    \* sets of actions an installed policy file may declare
  Tokens,      \* what the entry token files hold, in order
  BootOrders,  \* orders the firmware may start with
  NewEntries,  \* boot entries other programs may add
  Option,      \* the load option of each entry: [active, hidden, description, rest, stored]
  OtherNames,  \* names of variables that are no boot entries
  SecureBoot,  \* the Secure Boot variables: db, KEK, PK
  MaxCalls,    \* bound on the calls of a behaviour
  MaxOutside,  \* bound on the steps of other programs
  NoRequest

ASSUME InterfaceAssumption ==
  /\ {MaxCalls, MaxOutside} \subseteq Nat
  /\ \A r \in DOMAIN Request : Request[r].method \in DOMAIN MethodOf
  /\ NoRequest \notin DOMAIN Request
  /\ \A r \in DOMAIN Request :
       /\ Request[r].method = "SetBootOrder" => Request[r].arg \in Seq(U16)
       /\ Request[r].method = "SetBootNext" => Request[r].arg \in U16
  /\ \A o \in BootOrders : o \in Seq(U16)
  /\ NewEntries \subseteq U16
  /\ \A o \in BootOrders : {o[i] : i \in DOMAIN o} \subseteq DOMAIN Option
  /\ NewEntries \subseteq DOMAIN Option
  /\ \A n \in OtherNames : ~IsEntryName(n)

VARIABLES
  daemon,    \* "off", "running", "exiting": wait_for_idle has returned
  host, policy,     \* never change
  pc, request, job, \* where each client's call is, what it asks, its audit job id
  granted,   \* history: the actions Polkit granted to the call
  reply,     \* what the handler returned
  seen,      \* what a call has read: the boot order, the names of entries, the entries
  copies,    \* the Secure Boot variables a call has read, with their values
  log,       \* the audit rows, in order
  config,    \* the job that changed the configuration last, 0 for none
  order, next,      \* BootOrder; BootNext, or NoNext
  firmware,  \* the value of each Secure Boot variable
  backup,    \* the files of backup directories
  signed, pending,  \* the UKI carries a MOK signature; an enrollment is requested
  calls, outside,
  killed,    \* history: the jobs that were at work when the daemon died
  kept       \* history: the files BackupNvram has returned, with their bytes

callVars == <<pc, request, job, granted, reply, seen, copies>>
bootVars == <<config, order, next, firmware, backup, signed, pending>>
fixed    == <<host, policy>>
history  == <<calls, outside, killed, kept>>
vars == <<daemon, host, policy, pc, request, job, granted, reply, seen, copies, log, config,
          order, next, firmware, backup, signed, pending, calls, outside, killed, kept>>

NoNext == -1

\* Backup directories: the one clients name, and a fresh one of each job.
Dir == 0..MaxCalls

MethodFor(c) == MethodOf[Request[request[c]].method]
Arg(c) == Request[request[c]].arg
Works(c, work) == pc[c] = "admitted" /\ MethodFor(c).work = work

Entries(o) == {o[i] : i \in DOMAIN o}

\* The handler runs and will not yield before it has ended.
InPoll(c) == pc[c] \notin {"idle", "sent", "called", "resolved", "finished"}

Go(c, to) == pc' = [pc EXCEPT ![c] = to]

\* The handler returns; the reply is sent by a step of its own.
Finish(c, r) ==
  /\ Go(c, "finished")
  /\ reply' = [reply EXCEPT ![c] = r]

\* What is left of calls that are over.
Forget(over) ==
  /\ pc' = [c \in Client |-> IF c \in over THEN "idle" ELSE pc[c]]
  /\ request' = [c \in Client |-> IF c \in over THEN NoRequest ELSE request[c]]
  /\ job' = [c \in Client |-> IF c \in over THEN 0 ELSE job[c]]
  /\ granted' = [c \in Client |-> IF c \in over THEN {} ELSE granted[c]]
  /\ reply' = [c \in Client |-> IF c \in over THEN "" ELSE reply[c]]
  /\ seen' = [c \in Client |-> IF c \in over THEN <<>> ELSE seen[c]]
  /\ copies' = [c \in Client |-> IF c \in over THEN {} ELSE copies[c]]

-----------------------------------------------------------------------------
(* The daemon's life                                                       *)

Call(c) ==
  /\ pc[c] = "idle" /\ calls < MaxCalls
  /\ \E r \in DOMAIN Request : request' = [request EXCEPT ![c] = r]
  /\ calls' = calls + 1
  /\ job' = [job EXCEPT ![c] = calls']
  /\ Go(c, "sent")
  /\ UNCHANGED <<daemon, fixed, granted, reply, seen, copies, log, bootVars, outside, killed, kept>>

\* The bus starts the daemon, which checks the policy file first and ends if it
\* is stale. The bus answers for the calls of a daemon that is not there.
Start ==
  /\ daemon = "off"
  /\ \E c \in Client : pc[c] = "sent"
  /\ \/ /\ PolicyAccepted(policy)
        /\ daemon' = "running"
        /\ UNCHANGED callVars
     \/ /\ ~PolicyAccepted(policy)
        /\ Forget(Client)
        /\ UNCHANGED daemon
  /\ UNCHANGED <<fixed, log, bootVars, history>>

\* A handler starts with its OperationGuard; a reader goes straight to its work.
Begin(c) ==
  /\ pc[c] = "sent" /\ daemon # "off"
  /\ Go(c, IF MethodFor(c).action = NoAction THEN "admitted" ELSE "called")
  /\ UNCHANGED <<daemon, fixed, request, job, granted, reply, seen, copies, log, bootVars, history>>

\* wait_for_idle returns: no handler holds a guard.
BecomeIdle ==
  /\ daemon = "running"
  /\ \A c \in Client : pc[c] \in {"idle", "sent"}
  /\ daemon' = "exiting"
  /\ UNCHANGED <<fixed, callVars, log, bootVars, history>>

\* Mutant: handlers run on detached threads, which a dropped runtime leaves.
DropCallsDetached ==
  /\ daemon' = "off"
  /\ Forget({c \in Client : ~InPoll(c)})
  /\ UNCHANGED <<fixed, log, bootVars, calls, outside, kept>>

\* The process ends, with every call it has.
DropCalls ==
  /\ daemon' = "off"
  /\ Forget(Client)
  /\ UNCHANGED <<fixed, log, bootVars, calls, outside, kept>>

\* Mutant: handlers run where main's return drops them wherever they are.
ExitAnywhere ==
  /\ daemon = "exiting"
  /\ DropCalls
  /\ UNCHANGED killed

\* main returns: the runtime waits for handlers that are being polled, and drops
\* those that await, and replies not sent.
Exit ==
  /\ daemon = "exiting"
  /\ \A c \in Client : ~InPoll(c)
  /\ DropCalls
  /\ UNCHANGED killed

\* The daemon is killed, or the power fails.
Kill ==
  /\ daemon # "off"
  /\ DropCalls
  /\ killed' = killed \union {job[c] : c \in {d \in Client : InPoll(d)}}

Reply(c) ==
  /\ pc[c] = "finished" /\ daemon # "off"
  /\ Forget({c})
  /\ UNCHANGED <<daemon, fixed, log, bootVars, history>>

-----------------------------------------------------------------------------
(* The gate                                                                *)

\* resolve_uid asks the bus; a sender that has left has no uid.
ResolveUid(c) ==
  /\ pc[c] = "called"
  /\ \/ Go(c, "resolved") /\ UNCHANGED reply
     \/ Finish(c, "PolkitDenied")
  /\ UNCHANGED <<daemon, fixed, request, job, granted, seen, copies, log, bootVars, history>>

\* Mutant: the caller's session is enough.
AuthorizeUid(c) ==
  /\ pc[c] = "resolved"
  /\ Go(c, "granted")
  /\ UNCHANGED <<daemon, fixed, request, job, granted, reply, seen, copies, log, bootVars, history>>

\* authorize_with_polkit: Polkit may ask the user, knows the actions of the policy
\* file only, and denies what it cannot decide.
Authorize(c) ==
  /\ pc[c] = "resolved"
  /\ \/ /\ MethodFor(c).action \in KnownActions \intersect policy
        /\ granted' = [granted EXCEPT ![c] = @ \union {MethodFor(c).action}]
        /\ Go(c, "granted")
        /\ UNCHANGED reply
     \/ Finish(c, "PolkitDenied") /\ UNCHANGED granted
  /\ UNCHANGED <<daemon, fixed, request, job, seen, copies, log, bootVars, history>>

\* The host, then the arguments.
Admit(c) ==
  /\ pc[c] = "granted"
  /\ HostAdmits(MethodFor(c), host)
  /\ Refusal(MethodFor(c), Arg(c), Tokens) = ""
  /\ Go(c, "admitted")
  /\ UNCHANGED <<daemon, fixed, request, job, granted, reply, seen, copies, log, bootVars, history>>

Refuse(c) ==
  /\ pc[c] = "granted"
  /\ \/ /\ ~HostAdmits(MethodFor(c), host)
        /\ Finish(c, "ImmutableDistroDetected")
     \/ /\ HostAdmits(MethodFor(c), host)
        /\ Refusal(MethodFor(c), Arg(c), Tokens) # ""
        /\ Finish(c, Refusal(MethodFor(c), Arg(c), Tokens))
     \/ /\ HostAdmits(MethodFor(c), host)
        /\ MethodFor(c).work = "sign"          \* the keys, before the token
        /\ Finish(c, "MokKeyNotFound")
  /\ UNCHANGED <<daemon, fixed, request, job, granted, seen, copies, log, bootVars, history>>

-----------------------------------------------------------------------------
(* Audited methods                                                         *)

Row(c, phase, exit) ==
  [job |-> job[c], operation |-> Request[request[c]].method, phase |-> phase, exit_code |-> exit]

EmitStarted(c) ==
  /\ Works(c, "grub") \/ Works(c, "restore")
  /\ log' = Append(log, Row(c, "started", 0))
  /\ Go(c, "started")
  /\ UNCHANGED <<daemon, fixed, request, job, granted, reply, seen, copies, bootVars, history>>

\* The prewrite closure: the snapshot is on disk, and then its row. A lock, ETag or
\* snapshot that fails is PipelineFails.
TakeSnapshot(c) ==
  /\ pc[c] = "started" /\ MethodFor(c).work = "grub"
  /\ log' = Append(log, Row(c, "snapshot_taken", 0))
  /\ Go(c, "snapped")
  /\ UNCHANGED <<daemon, fixed, request, job, granted, reply, seen, copies, bootVars, history>>

\* Mutant: a snapshot that fails is only logged.
WriteConfigAnyway(c) ==
  /\ pc[c] \in {"started", "snapped"}
  /\ Go(c, "written")
  /\ config' = job[c]
  /\ UNCHANGED <<daemon, fixed, request, job, granted, reply, seen, copies, log,
                 order, next, firmware, backup, signed, pending, history>>

\* The configuration is replaced: after the snapshot, or by a restore.
WriteConfig(c) ==
  /\ pc[c] = "snapped" \/ (pc[c] = "started" /\ MethodFor(c).work = "restore")
  /\ Go(c, "written")
  /\ config' = job[c]
  /\ UNCHANGED <<daemon, fixed, request, job, granted, reply, seen, copies, log,
                 order, next, firmware, backup, signed, pending, history>>

\* The rest of the pipeline: failsafe and grub-mkconfig, or the other files.
PipelineEnds(c) ==
  /\ pc[c] = "written"
  /\ Go(c, "done")
  /\ reply' = [reply EXCEPT ![c] = "ok"]
  /\ UNCHANGED <<daemon, fixed, request, job, granted, seen, copies, log, bootVars, history>>

\* Mutant: the handler returns the error at once.
PipelineFailsEarly(c) ==
  /\ pc[c] \in {"started", "snapped", "written"}
  /\ Finish(c, "Failed")
  /\ UNCHANGED <<daemon, fixed, request, job, granted, seen, copies, log, bootVars, history>>

\* Any step of the pipeline fails; what it has written stays.
PipelineFails(c) ==
  /\ pc[c] \in {"started", "snapped", "written"}
  /\ Go(c, "done")
  /\ reply' = [reply EXCEPT ![c] = "Failed"]
  /\ UNCHANGED <<daemon, fixed, request, job, granted, seen, copies, log, bootVars, history>>

EmitCompleted(c) ==
  /\ pc[c] = "done"
  /\ log' = Append(log, Row(c, "completed", IF reply[c] = "ok" THEN 0 ELSE 1))
  /\ Go(c, "finished")
  /\ UNCHANGED <<daemon, fixed, request, job, granted, reply, seen, copies, bootVars, history>>

\* The pipelines of the boot loader files and grub-mkconfig leave no row.
Write(c) ==
  /\ Works(c, "write")
  /\ \/ Finish(c, "ok") /\ config' = job[c]
     \/ Finish(c, "Failed") /\ config' \in {config, job[c]}
  /\ UNCHANGED <<daemon, fixed, request, job, granted, seen, copies, log,
                 order, next, firmware, backup, signed, pending, history>>

-----------------------------------------------------------------------------
(* EFI boot variables                                                      *)

\* set_boot_order and set_boot_next read the order they compare with.
ReadBootOrder(c) ==
  /\ Works(c, "order") \/ Works(c, "next")
  /\ \/ Go(c, "compared") /\ seen' = [seen EXCEPT ![c] = order] /\ UNCHANGED reply
     \/ Finish(c, "EspScanFailed") /\ UNCHANGED seen
  /\ UNCHANGED <<daemon, fixed, request, job, granted, copies, log, bootVars, history>>

\* Mutant: what is kept is checked, what is dropped is not.
IsPermutationSubset(new, current) ==
  /\ Cardinality(Entries(new)) = Len(new)
  /\ Entries(new) \subseteq Entries(current)

\* Neither duplicates nor another set of entries.
IsPermutation(new, current) ==
  /\ Cardinality(Entries(new)) = Len(new)
  /\ Len(new) = Len(current)
  /\ Entries(new) = Entries(current)

\* What a reader finds of a value that write_global has written: 7 is for a variable
\* that is kept, and seen by boot services and by the running system.
Stored(payload) == Payload(VariableFile(Attributes(7), payload))

WriteBootOrder(c) ==
  /\ pc[c] = "compared" /\ MethodFor(c).work = "order"
  /\ \/ /\ ~IsPermutation(Arg(c), seen[c])
        /\ Finish(c, "MalformedValue") /\ UNCHANGED order
     \/ /\ IsPermutation(Arg(c), seen[c])
        /\ \/ Finish(c, "ok") /\ order' = ParseBootOrder(Stored(EncodeBootOrder(Arg(c))))
           \/ Finish(c, "EspScanFailed") /\ UNCHANGED order
  /\ UNCHANGED <<daemon, fixed, request, job, granted, seen, copies, log,
                 config, next, firmware, backup, signed, pending, history>>

WriteBootNext(c) ==
  /\ pc[c] = "compared" /\ MethodFor(c).work = "next"
  /\ \/ /\ Arg(c) \notin Entries(seen[c])
        /\ Finish(c, "KeyNotFound") /\ UNCHANGED next
     \/ /\ Arg(c) \in Entries(seen[c])
        /\ \/ Finish(c, "ok") /\ next' = ParseSingle(Stored(EncodeSingle(Arg(c))))
           \/ Finish(c, "EspScanFailed") /\ UNCHANGED next
  /\ UNCHANGED <<daemon, fixed, request, job, granted, seen, copies, log,
                 config, order, firmware, backup, signed, pending, history>>

\* delete_global looks for the file, and removes it by a step of its own.
FindBootNext(c) ==
  /\ Works(c, "clear")
  /\ \/ next = NoNext /\ Finish(c, "ok")
     \/ next # NoNext /\ Go(c, "found") /\ UNCHANGED reply
  /\ UNCHANGED <<daemon, fixed, request, job, granted, seen, copies, log, bootVars, history>>

RemoveBootNext(c) ==
  /\ pc[c] = "found"
  /\ \/ next # NoNext /\ next' = NoNext /\ Finish(c, "ok")
     \/ UNCHANGED next /\ Finish(c, "EspScanFailed")
  /\ UNCHANGED <<daemon, fixed, request, job, granted, seen, copies, log,
                 config, order, firmware, backup, signed, pending, history>>

\* The other readers look once, and find what they read or fail; the name of the
\* backend is the one found at startup.
ReadOnce(c) ==
  /\ \/ Works(c, "read") \/ Works(c, "name")
  /\ \/ Finish(c, "ok")
     \/ MethodFor(c).work = "read" /\ Finish(c, "EspScanFailed")
  /\ UNCHANGED <<daemon, fixed, request, job, granted, seen, copies, log, bootVars, history>>

\* A character of a description in UTF-16, low bytes first.
Utf16(char) ==
  LET Pair(u) == <<u % 256, u \div 256>>
  IN IF char < 65536 THEN Pair(char)
     ELSE Pair(55296 + ((char - 65536) \div 1024)) \o Pair(56320 + ((char - 65536) % 1024))

\* The bytes of the load option of entry e, as the firmware keeps them: attributes,
\* the length of the path, the description and its null, the path and what follows.
OptionBytes(e) ==
  LET o == Option[e]
      text == FlattenSeq([i \in DOMAIN o.description |-> Utf16(o.description[i])]) \o <<0, 0>>
      whole == <<(IF o.active THEN 1 ELSE 0) + (IF o.hidden THEN 8 ELSE 0), 0, 0, 0,
                 Len(o.rest) % 256, Len(o.rest) \div 256>> \o text \o o.rest
  IN SubSeq(whole, 1, Min({o.stored, Len(whole)}))

EntryName(e) ==
  [boot |-> TRUE, rest |-> <<e \div 4096, (e \div 256) % 16, (e \div 16) % 16, e % 16>>]

\* list_boot_entries: the names in the directory, the ones of entries among them,
\* and then what each says.
ListNames(c) ==
  /\ Works(c, "entries")
  /\ Go(c, "listed")
  /\ seen' = [seen EXCEPT ![c] =
                {n \in {EntryName(e) : e \in Entries(order)} \union OtherNames : IsEntryName(n)}]
  /\ UNCHANGED <<daemon, fixed, request, job, granted, reply, copies, log, bootVars, history>>

\* The first entry that is gone, or no load option, ends the call.
ReadEntries(c) ==
  /\ pc[c] = "listed"
  /\ LET file == [n \in seen[c] |-> VariableFile(Attributes(7), OptionBytes(IndexOf(n)))]
         gone == {n \in seen[c] : IndexOf(n) \notin Entries(order)}
         malformed == {n \in seen[c] : ~IsLoadOption(Payload(file[n]))}
     IN \/ gone # {} /\ Finish(c, "EspScanFailed") /\ UNCHANGED seen
        \/ malformed # {} /\ Finish(c, "MalformedValue") /\ UNCHANGED seen
        \/ /\ gone \union malformed = {}
           /\ Finish(c, "ok")
           /\ seen' = [seen EXCEPT ![c] = BootEntries(seen[c], file)]
  /\ UNCHANGED <<daemon, fixed, request, job, granted, copies, log, bootVars, history>>

-----------------------------------------------------------------------------
(* NVRAM backup                                                            *)

TargetDir(c) == IF Arg(c) = "given" THEN 0 ELSE job[c]

\* Variables are read one by one before anything is written.
CopyVariable(c) ==
  /\ Works(c, "backup")
  /\ \E v \in SecureBoot :
       /\ \A copy \in copies[c] : copy.var # v
       /\ copies' = [copies EXCEPT ![c] =
            @ \union {[var |-> v, bytes |-> firmware[v], file |-> "none"]}]
  /\ UNCHANGED <<daemon, fixed, pc, request, job, granted, reply, seen, log, bootVars, history>>

\* The directory is made, component by component, and opened.
OpenBackupDirectory(c) ==
  /\ Works(c, "backup")
  /\ Cardinality(copies[c]) = Cardinality(SecureBoot)
  /\ Go(c, "opened")
  /\ UNCHANGED <<daemon, fixed, request, job, granted, reply, seen, copies, log, bootVars, history>>

At(c, copy, file) ==
  copies' = [copies EXCEPT ![c] = (@ \ {copy}) \union {[copy EXCEPT !.file = file]}]

\* Mutant: a file that exists is truncated.
CreateBackupFileTruncates(c) ==
  /\ pc[c] = "opened"
  /\ \E copy \in copies[c] :
       /\ copy.file = "none"
       /\ backup' = [backup EXCEPT ![<<TargetDir(c), copy.var>>] = "part"]
       /\ At(c, copy, "created")
  /\ Go(c, "creating")
  /\ UNCHANGED <<daemon, fixed, request, job, granted, reply, seen, log,
                 config, order, next, firmware, signed, pending, history>>

\* O_CREAT | O_EXCL: a file of an earlier backup is never opened.
CreateBackupFile(c) ==
  /\ pc[c] = "opened"
  /\ \E copy \in copies[c] :
       /\ copy.file = "none"
       /\ backup[<<TargetDir(c), copy.var>>] = "none"
       /\ backup' = [backup EXCEPT ![<<TargetDir(c), copy.var>>] = "part"]
       /\ At(c, copy, "created")
  /\ Go(c, "creating")
  /\ UNCHANGED <<daemon, fixed, request, job, granted, reply, seen, log,
                 config, order, next, firmware, signed, pending, history>>

BackupFileExists(c) ==
  /\ pc[c] = "opened"
  /\ \E copy \in copies[c] : copy.file = "none" /\ backup[<<TargetDir(c), copy.var>>] # "none"
  /\ Finish(c, "NvramBackupFailed")
  /\ UNCHANGED <<daemon, fixed, request, job, granted, seen, copies, log, bootVars, history>>

\* write_all and fsync; a file that fails stays as far as it was written.
WriteBackupFile(c) ==
  /\ pc[c] = "creating"
  /\ \E copy \in copies[c] :
       /\ copy.file = "created"
       /\ \/ /\ backup' = [backup EXCEPT ![<<TargetDir(c), copy.var>>] = copy.bytes]
             /\ At(c, copy, "written")
             /\ Go(c, "opened") /\ UNCHANGED reply
          \/ /\ UNCHANGED <<backup, copies>>
             /\ Finish(c, "NvramBackupFailed")
  /\ UNCHANGED <<daemon, fixed, request, job, granted, seen, log,
                 config, order, next, firmware, signed, pending, history>>

\* The files are returned to the client.
EndBackup(c) ==
  /\ pc[c] = "opened"
  /\ \A copy \in copies[c] : copy.file = "written"
  /\ Finish(c, "ok")
  /\ kept' = kept \union
       {[dir |-> TargetDir(c), var |-> copy.var, bytes |-> copy.bytes] : copy \in copies[c]}
  /\ UNCHANGED <<daemon, fixed, request, job, granted, seen, copies, log, bootVars,
                 calls, outside, killed>>

-----------------------------------------------------------------------------
(* Signing and enrollment                                                  *)

\* Mutant: the certificate is imported whether or not sbsign succeeds.
SignUkiAnyway(c) ==
  /\ Works(c, "sign")
  /\ \/ signed' = TRUE
     \/ UNCHANGED signed
  /\ Go(c, "signed")
  /\ UNCHANGED <<daemon, fixed, request, job, granted, reply, seen, copies, log,
                 config, order, next, firmware, backup, pending, history>>

\* sbsign writes the UKI it read.
SignUki(c) ==
  /\ Works(c, "sign")
  /\ \/ signed' = TRUE /\ Go(c, "signed") /\ UNCHANGED reply
     \/ \E r \in {"ToolNotFound", "SigningFailed"} : Finish(c, r) /\ UNCHANGED signed
  /\ UNCHANGED <<daemon, fixed, request, job, granted, seen, copies, log,
                 config, order, next, firmware, backup, pending, history>>

\* mokutil --import; if it fails the UKI stays signed.
GenerateEnrollmentRequest(c) ==
  /\ pc[c] = "signed"
  /\ \/ pending' = TRUE /\ Finish(c, "ok")
     \/ \E r \in {"ToolNotFound", "SigningFailed"} : Finish(c, r) /\ UNCHANGED pending
  /\ UNCHANGED <<daemon, fixed, request, job, granted, seen, copies, log,
                 config, order, next, firmware, backup, signed, history>>

-----------------------------------------------------------------------------
(* Other programs; only steps that a call in flight may notice             *)

Asked(works) == \E c \in Client : pc[c] # "idle" /\ MethodFor(c).work \in works

\* efibootmgr or the firmware removes the first entry, or adds one.
EditBootOrder ==
  /\ outside < MaxOutside /\ Asked({"order", "next", "entries"})
  /\ outside' = outside + 1
  /\ \/ order # <<>> /\ order' = Tail(order)
     \/ \E e \in NewEntries \ Entries(order) : order' = Append(order, e)
  /\ UNCHANGED <<daemon, fixed, callVars, log, config, next, firmware, backup, signed, pending,
                 calls, killed, kept>>

\* A firmware or dbx update changes a Secure Boot variable.
UpdateFirmware ==
  /\ outside < MaxOutside /\ Asked({"backup"})
  /\ outside' = outside + 1
  /\ \E v \in SecureBoot : firmware' = [firmware EXCEPT ![v] = "new"]
  /\ UNCHANGED <<daemon, fixed, callVars, log, config, order, next, backup, signed, pending,
                 calls, killed, kept>>

-----------------------------------------------------------------------------
Init ==
  /\ daemon = "off"
  /\ host \in Hosts /\ policy \in Policies
  /\ pc = [c \in Client |-> "idle"]
  /\ request = [c \in Client |-> NoRequest]
  /\ job = [c \in Client |-> 0]
  /\ granted = [c \in Client |-> {}]
  /\ reply = [c \in Client |-> ""]
  /\ seen = [c \in Client |-> <<>>]
  /\ copies = [c \in Client |-> {}]
  /\ log = <<>>
  /\ config = 0
  /\ order \in BootOrders
  /\ next = NoNext
  /\ firmware = [v \in SecureBoot |-> "old"]
  /\ backup = [f \in Dir \X SecureBoot |-> "none"]
  /\ signed = FALSE /\ pending = FALSE
  /\ calls = 0 /\ outside = 0
  /\ killed = {} /\ kept = {}

\* The handler's own steps, once it no longer awaits.
Work(c) ==
  \/ Admit(c) \/ Refuse(c)
  \/ EmitStarted(c) \/ TakeSnapshot(c) \/ WriteConfig(c)
  \/ PipelineEnds(c) \/ PipelineFails(c) \/ EmitCompleted(c) \/ Write(c)
  \/ ReadBootOrder(c) \/ WriteBootOrder(c) \/ WriteBootNext(c)
  \/ FindBootNext(c) \/ RemoveBootNext(c)
  \/ ReadOnce(c) \/ ListNames(c) \/ ReadEntries(c)
  \/ CopyVariable(c) \/ OpenBackupDirectory(c)
  \/ CreateBackupFile(c) \/ BackupFileExists(c) \/ WriteBackupFile(c) \/ EndBackup(c)
  \/ SignUki(c) \/ GenerateEnrollmentRequest(c)

Next ==
  \/ Start \/ BecomeIdle \/ Exit \/ Kill
  \/ \E c \in Client :
       \/ Call(c) \/ Begin(c) \/ Reply(c)
       \/ ResolveUid(c) \/ Authorize(c) \/ Work(c)
  \/ EditBootOrder \/ UpdateFirmware

Spec == Init /\ [][Next]_vars

-----------------------------------------------------------------------------
(* Properties                                                              *)

Steps == {"idle", "sent", "called", "resolved", "granted", "admitted", "started", "snapped",
          "written", "done", "compared", "found", "listed", "opened", "creating", "signed",
          "finished"}

\* Every variable has its type.
TypeOK ==
  /\ daemon \in {"off", "running", "exiting"}
  /\ pc \in [Client -> Steps]
  /\ daemon = "off" => \A c \in Client : pc[c] \in {"idle", "sent"}
  /\ request \in [Client -> DOMAIN Request \union {NoRequest}]
  /\ \A c \in Client : pc[c] # "idle" => request[c] # NoRequest
  /\ job \in [Client -> 0..MaxCalls] /\ config \in 0..MaxCalls
  /\ \A c \in Client : granted[c] \subseteq KnownActions
  /\ order \in Seq(U16) /\ (next = NoNext \/ next \in U16)
  /\ firmware \in [SecureBoot -> {"old", "new"}]
  /\ backup \in [Dir \X SecureBoot -> {"none", "part", "old", "new"}]
  /\ {signed, pending} \subseteq BOOLEAN
  /\ calls \in 0..MaxCalls /\ outside \in 0..MaxOutside /\ killed \subseteq 1..MaxCalls

\* The handler of call c is the one that takes this step.
Acts(c) == InPoll(c) /\ pc'[c] # pc[c]

\* Whatever is written below root's hands, the boot configuration, the NVRAM, the
\* backup, the UKI or its evidence, is written for a caller Polkit has granted the
\* action of that very method in this call, on a host that takes such writes.
OnlyAuthorizedWrites ==
  [][<<bootVars, log>>' # <<bootVars, log>> /\ outside' = outside =>
       \E c \in Client :
         /\ Acts(c)
         /\ MethodFor(c).action \in granted[c]
         /\ HostAdmits(MethodFor(c), host)]_vars

\* The phases of a job in their order.
PhaseRank == [started |-> 1, snapshot_taken |-> 2, completed |-> 3]

Jobs == {log[i].job : i \in DOMAIN log}

\* The phases a job has a row of.
Logged(j) == {log[i].phase : i \in {k \in DOMAIN log : log[k].job = j}}

\* A job's rows begin with its start and are in order, none of them twice, and
\* success is never written for a job without a snapshot.
EvidenceIsOrdered ==
  \A i \in DOMAIN log :
    /\ \E k \in 1..i : log[k].job = log[i].job /\ log[k].phase = "started"
    /\ \A k \in 1..(i - 1) :
         log[k].job = log[i].job => PhaseRank[log[k].phase] < PhaseRank[log[i].phase]
    /\ /\ log[i].phase = "completed" /\ log[i].exit_code = 0
       /\ log[i].operation # "RestoreSnapshot"
       => \E k \in 1..(i - 1) : log[k].job = log[i].job /\ log[k].phase = "snapshot_taken"

\* Rows are left open only by a job at work now, or one killed at work.
EvidenceIsClosed ==
  \A j \in Jobs :
    \/ "completed" \in Logged(j)
    \/ j \in killed
    \/ \E c \in Client : job[c] = j /\ InPoll(c)

\* However calls overlap, fail and end, the evidence of a write is in order and says
\* what was done: neither an error nor the idle exit, which drops calls, leaves a
\* write without its last row.
EvidenceIsComplete == EvidenceIsOrdered /\ EvidenceIsClosed

\* While no other program edits them, overlapping calls leave BootOrder with the
\* entries it had and BootNext on one of them: no boot entry becomes unreachable.
BootVariablesAgree ==
  outside = 0 =>
    /\ \E o \in BootOrders : Entries(order) = Entries(o) /\ Len(order) = Len(o)
    /\ next \in Entries(order) \union {NoNext}

\* The entries a client is shown are the firmware's, by number, each with its own
\* flags and description, whatever bytes follow it; an option cut short is never
\* shown. Half of a pair of surrogates is shown as a replacement character.
ListingIsFirmwares ==
  [][\A c \in Client : pc[c] = "listed" /\ pc'[c] = "finished" /\ reply'[c] = "ok" =>
       LET shown == seen'[c]
           Char(u) == IF u \in 55296..57343 THEN Replacement ELSE u
       IN /\ \A i, j \in DOMAIN shown : i < j => shown[i].index < shown[j].index
          /\ {EntryName(shown[i].index) : i \in DOMAIN shown} = seen[c]
          /\ \A i \in DOMAIN shown :
               LET o == Option[shown[i].index]
               IN /\ shown[i].active = o.active /\ shown[i].hidden = o.hidden
                  /\ shown[i].description = [k \in DOMAIN o.description |-> Char(o.description[k])]]_vars

\* The files a backup has returned stay, with the bytes the firmware held then,
\* through later backups of the same directory, firmware updates and crashes.
BackupIsKept == \A f \in kept : backup[<<f.dir, f.var>>] = f.bytes

\* An enrollment is requested only for a UKI that has been signed, and a call that
\* succeeds has done both, whichever of the two tools fails in whichever call.
EnrolledIsSigned ==
  /\ pending => signed
  /\ \A c \in Client :
       pc[c] = "finished" /\ reply[c] = "ok" /\ MethodFor(c).work = "sign" => signed /\ pending
=============================================================================
