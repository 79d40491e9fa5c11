--------------------------------- MODULE Cli ---------------------------------
(***************************************************************************)
(* The command line client (crates/cli/src): a command is a process that   *)
(* makes its calls and exits. An ETag a write needs is one that an earlier *)
(* command printed. The rescue command calls nobody: it mounts partitions  *)
(* until one holds a root file system (cli/src/rescue.rs).                 *)
(***************************************************************************)
EXTENDS Backend

CONSTANTS
  MaxCommands,   \* bound: commands run
  Moves,         \* the arguments of move-entry: pairs of positions, from 0
  Orders,        \* the arguments of set-order
  CliKeys,       \* the parameter, entry or key a write is about
  Devices        \* the lines of /proc/partitions, in order: [name, fs, root]

ASSUME DevicesAssumption ==
  Devices \in Seq([name : [numbered : BOOLEAN, separated : BOOLEAN, digit : BOOLEAN],
                   fs : BOOLEAN, root : BOOLEAN])

\* Positions and numbers of boot entries.
ASSUME MovesAssumption == Moves \subseteq Nat \X Nat /\ Orders \subseteq Seq(Nat)

VARIABLES
  cli,           \* the process: [pc, cmd, call, got, code]
  printed,       \* the ETag printed last
  commands,      \* how many commands were run
  mounted,       \* the devices mounted by rescue
  rescue         \* the rescue process: [pc, left, tried, code, stuck]; stuck is auxiliary

cliVars == <<cli, printed, commands, mounted, rescue>>

NoProcess == [pc |-> "none", cmd |-> [cmd |-> "none"], call |-> [m |-> "none"], got |-> NoAnswer, code |-> 0]
NoRescue == [pc |-> "none", left |-> {}, tried |-> NoAnswer, code |-> 0, stuck |-> {}]

CliInit ==
  /\ cli = NoProcess /\ printed = NoEtag /\ commands = 0
  /\ mounted = {} /\ rescue = NoRescue

-----------------------------------------------------------------------------
(* The commands, each with the call it begins with                         *)
(* (named as its variant of Commands and of the action in that).           *)

\* get-config, get-etag and get-backend first ask which backend is active.
ShowCommands == {[cmd |-> c, call |-> [m |-> "GetActiveBackend"]] : c \in {"GetConfig", "GetEtag", "GetBackend"}}

SetCommand(etag) ==
  {[cmd |-> "Set", call |-> [m |-> "SetValue", key |-> "GRUB_TIMEOUT", value |-> "9", etag |-> etag]]}

RebuildCommand == {[cmd |-> "Rebuild", call |-> [m |-> "RebuildGrubConfig"]]}

BootCommands(etag) ==
  {[cmd |-> "Boot", call |-> [m |-> m]] :
     m \in {"ListLoaderEntries", "ReadLoaderEntry", "RenameLoaderEntry"}} \union
  {[cmd |-> "BootSetDefault", call |-> [m |-> "SetLoaderDefault", key |-> k, etag |-> etag]] : k \in CliKeys}

CmdlineCommands(etag) ==
  {[cmd |-> "CmdlineGet", call |-> [m |-> "ReadKernelCmdline"]]} \union
  {[cmd |-> "Cmdline", call |-> [m |-> m, key |-> k, etag |-> etag]] :
     m \in {"AddKernelParam", "RemoveKernelParam"}, k \in CliKeys}

SnapshotCommands(s, etag) ==
  {[cmd |-> "SnapshotList", call |-> [m |-> "ListSnapshots"]]} \union
  {[cmd |-> "SnapshotRestore", call |-> [m |-> "RestoreSnapshot", id |-> id, etag |-> etag]] : id \in s.snaps}

NvramCommand == {[cmd |-> "NvramBackup", call |-> [m |-> "BackupNvram"]]}
MokCommand == {[cmd |-> "MokSign", call |-> [m |-> "SignAndEnrollUki"]]}

EfiReads == {[cmd |-> "EfiGetOrder", call |-> [m |-> "GetBootOrder"]],
             [cmd |-> "EfiGetNext", call |-> [m |-> "GetBootNext"]],
             [cmd |-> "EfiListEntries", call |-> [m |-> "ListEfiBootEntries"]]}
EfiSetOrder == {[cmd |-> "EfiSetOrder", call |-> [m |-> "SetBootOrder", order |-> o]] : o \in Orders}
EfiMove == {[cmd |-> "EfiMoveEntry", call |-> [m |-> "GetBootOrder"], from |-> p[1], to |-> p[2]] : p \in Moves}
EfiNext == {[cmd |-> "EfiNext", call |-> [m |-> m]] : m \in {"SetBootNext", "ClearBootNext"}}

Commands(s, etag) ==
  ShowCommands \union SetCommand(etag) \union RebuildCommand \union BootCommands(etag)
    \union CmdlineCommands(etag) \union SnapshotCommands(s, etag) \union NvramCommand \union MokCommand
    \union EfiReads \union EfiSetOrder \union EfiMove \union EfiNext

\* Every command resolves the backend first, and fails when it does not answer.
CliStart ==
  /\ cli.pc \in {"none", "exit"} /\ commands < MaxCommands
  /\ commands' = commands + 1
  /\ \E c \in Commands(svc, printed), o \in Outcomes([m |-> "GetActiveBackend"], svc) :
       cli' = IF o.ok THEN [NoProcess EXCEPT !.pc = "call", !.cmd = c, !.call = c.call]
                      ELSE [NoProcess EXCEPT !.pc = "exit", !.code = 1]
  /\ UNCHANGED <<svc, others, printed, mounted, rescue>>

-----------------------------------------------------------------------------
(* The answers                                                             *)

CliAnswers(cmds, o) == /\ cli.pc = "call" /\ cli.cmd.cmd \in cmds
                       /\ o \in Outcomes(cli.call, svc)
                       /\ svc' = o.svc
                       /\ UNCHANGED <<others, commands, mounted, rescue>>

Exits(code) == cli' = [NoProcess EXCEPT !.pc = "exit", !.code = code]

Continues(call, got) == cli' = [cli EXCEPT !.call = call, !.got = got]

\* The read that follows the name of the backend.
ShowCall(cmd, host) ==
  CASE host = "systemd-boot" -> [m |-> IF cmd = "GetEtag" THEN "GetLoaderConfEtag" ELSE "ListLoaderEntries"]
    [] host = "uki" -> [m |-> "ReadKernelCmdline"]
    [] OTHER -> [m |-> "ReadConfig"]

\* get-etag goes on as for GRUB when it cannot learn the backend.
AnswerShow(o) ==
  /\ CliAnswers({"GetConfig", "GetEtag", "GetBackend"}, o)
  /\ LET cmd == cli.cmd.cmd IN
       IF cli.call.m = "GetActiveBackend"
       THEN /\ IF o.ok /\ cmd = "GetBackend" THEN Exits(0)
               ELSE IF o.ok \/ cmd = "GetEtag"
               THEN Continues(ShowCall(cmd, IF o.ok THEN o.value ELSE "unknown"), NoAnswer)
               ELSE Exits(1)
            /\ UNCHANGED printed
       ELSE /\ Exits(IF o.ok THEN 0 ELSE 1)
            /\ printed' = IF o.ok /\ cli.call.m # "ListLoaderEntries" THEN o.value.etag ELSE printed

AnswerCmdlineGet(o) ==
  /\ CliAnswers({"CmdlineGet"}, o)
  /\ Exits(IF o.ok THEN 0 ELSE 1)
  /\ printed' = IF o.ok THEN o.value.etag ELSE printed

\* The commands of one call.
AnswerOne(o) ==
  /\ CliAnswers({"Set", "Rebuild", "Boot", "BootSetDefault", "Cmdline", "SnapshotList",
                 "SnapshotRestore", "NvramBackup", "MokSign", "EfiGetOrder", "EfiGetNext", "EfiListEntries",
                 "EfiSetOrder", "EfiNext"}, o)
  /\ Exits(IF o.ok THEN 0 ELSE 1)
  /\ UNCHANGED printed

\* A mutated form: the target is taken as a position of the list before the removal.
MovedBefore(order, from, to) ==
  LET last == Len(order) - 1
      at == IF to < last THEN to ELSE last
  IN InsertAt(RemoveAt(order, from + 1), IF at > from THEN at ELSE at + 1, order[from + 1])

\* Vec::remove and Vec::insert, the target clamped to the last position.
Moved(order, from, to) ==
  LET last == Len(order) - 1
      at == IF to < last THEN to ELSE last
  IN InsertAt(RemoveAt(order, from + 1), at + 1, order[from + 1])

\* move-entry: read, move locally, write back.
AnswerMove(o) ==
  /\ CliAnswers({"EfiMoveEntry"}, o)
  /\ IF ~o.ok THEN Exits(1)
     ELSE IF cli.call.m = "SetBootOrder" THEN Exits(0)
     ELSE IF cli.cmd.from >= Len(o.value.content) THEN Exits(1)
     ELSE Continues([m |-> "SetBootOrder", order |-> Moved(o.value.content, cli.cmd.from, cli.cmd.to)],
                    o.value.content)
  /\ UNCHANGED printed

CliAnswer ==
  /\ cli.pc = "call"
  /\ \E o \in Outcomes(cli.call, svc) :
       AnswerShow(o) \/ AnswerCmdlineGet(o) \/ AnswerOne(o) \/ AnswerMove(o)

-----------------------------------------------------------------------------
(* rescue                                                                  *)

\* is_partition: a disk whose own name ends in a digit needs a separating p.
IsPartition(name) == name.digit /\ (name.separated \/ ~name.numbered)

\* scan_partitions: the lines that name a partition.
Candidates == {i \in DOMAIN Devices : IsPartition(Devices[i].name)}

RescueStart ==
  /\ rescue.pc \in {"none", "done"} /\ commands < MaxCommands
  /\ commands' = commands + 1
  /\ \/ rescue' = [NoRescue EXCEPT !.pc = "scan", !.left = Candidates, !.stuck = rescue.stuck]
     \/ \* /proc/partitions cannot be read.
        rescue' = [NoRescue EXCEPT !.pc = "done", !.code = 1, !.stuck = rescue.stuck]
  /\ UNCHANGED <<svc, others, cli, printed, mounted>>

\* mount of the next one, at a mount point named after the partition; one mounted
\* there already, or without a file system, is not mounted again.
RescueMount ==
  /\ rescue.pc = "scan" /\ rescue.left # {}
  /\ LET next == Min(rescue.left)
         d == Devices[next]
     IN \/ /\ d.fs /\ d \notin mounted
           /\ mounted' = mounted \union {d}
           /\ rescue' = [rescue EXCEPT !.pc = "check", !.left = @ \ {next}, !.tried = d]
        \/ /\ rescue' = [rescue EXCEPT !.left = @ \ {next}]
           /\ UNCHANGED mounted
  /\ UNCHANGED <<svc, others, cli, printed, commands>>

\* A mutated form: whatever mounts is taken for a root.
HasRootWhenMounted(d) == d.fs

\* /etc/fstab is the evidence of a root.
HasRoot(d) == d.root

\* check_for_root: a root stays mounted; another is unmounted, if that works.
RescueCheck ==
  /\ rescue.pc = "check"
  /\ \/ /\ HasRoot(rescue.tried)
        /\ rescue' = [rescue EXCEPT !.pc = "done"]
        /\ UNCHANGED mounted
     \/ /\ ~HasRoot(rescue.tried)
        /\ mounted' = mounted \ {rescue.tried}
        /\ rescue' = [rescue EXCEPT !.pc = "scan", !.tried = NoAnswer]
     \/ /\ ~HasRoot(rescue.tried)
        /\ rescue' = [rescue EXCEPT !.pc = "scan", !.tried = NoAnswer, !.stuck = @ \union {rescue.tried}]
        /\ UNCHANGED mounted
  /\ UNCHANGED <<svc, others, cli, printed, commands>>

RescueGivesUp ==
  /\ rescue.pc = "scan" /\ rescue.left = {}
  /\ rescue' = [rescue EXCEPT !.pc = "done", !.code = 1]
  /\ UNCHANGED <<svc, others, cli, printed, commands, mounted>>

CliNext == CliStart \/ CliAnswer \/ RescueStart \/ RescueMount \/ RescueCheck \/ RescueGivesUp
=============================================================================
