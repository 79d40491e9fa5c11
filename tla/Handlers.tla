------------------------------ MODULE Handlers -------------------------------
(***************************************************************************)
(* What each D-Bus method of org.bootcontrol.Manager asks for before it    *)
(* works, and the checks it shares with the others                         *)
(* (crates/daemon/src/interface.rs, polkit.rs, policy_check.rs, audit.rs,  *)
(* secureboot/mok.rs, crates/core/src/security.rs, immutable_distro.rs).   *)
(* Everything here is constant; Interface runs the methods.                *)
(*                                                                         *)
(* A method is a record:                                                   *)
(*   action   the Polkit action its caller must be granted, or NoAction;   *)
(*   host     "any", "writable" (refused on an immutable host), or         *)
(*            "delegates" (handed to rpm-ostree, refused on the others);   *)
(*   refuses  what it refuses after that, before it touches anything;      *)
(*   audited  whether it leaves audit rows;                                *)
(*   work     the pipeline it runs.                                        *)
(***************************************************************************)
EXTENDS Sequences, FiniteSets

CONSTANT NoAction

RewriteGrub     == "org.bootcontrol.rewrite-grub"
WriteBootloader == "org.bootcontrol.write-bootloader"
EnrollMok       == "org.bootcontrol.enroll-mok"
RestoreAction   == "org.bootcontrol.restore-snapshot"

\* The per-intent actions, which the policy file must declare.
KnownActions == {RewriteGrub, WriteBootloader, EnrollMok, RestoreAction}

ASSUME ActionAssumption == NoAction \notin KnownActions

\* validate_policy_file at startup: every action is declared. A file that
\* declares only the former org.bootcontrol.manage is refused like any other.
PolicyAccepted(declared) == KnownActions \subseteq declared

-----------------------------------------------------------------------------
(* The host                                                                *)

\* detect_immutable_distro: the first of these the indicators show.
ImmutableDistro(ind) ==
  LET ostree == {"ostree-booted", "ostree-sysroot"} \intersect ind # {} IN
    CASE {"ostree-booted", "rpm-ostree"} \subseteq ind -> "rpm-ostree"
      [] ostree /\ ~({"ostree-booted", "rpm-ostree"} \subseteq ind) -> "ostree"
      [] ~ostree /\ "steamos" \in ind -> "steamos"
      [] ~ostree /\ "steamos" \notin ind /\ "nixos" \in ind -> "nixos"
      [] ~ostree /\ {"steamos", "nixos"} \intersect ind = {} /\ "vanilla-os" \in ind -> "vanilla-os"
      [] OTHER -> "mutable"

\* probe_immutable_distro: marker files, and the ID of os-release.
Indicators(system) ==
  system.markers
  \union {tag \in {"steamos"} : system.id \in {"steamos", "holo"}}
  \union {tag \in {"nixos"} : system.id = "nixos"}
  \union {tag \in {"vanilla-os"} : system.id \in {"vanilla", "vanilla-os"}}

\* Whether a method may go on, on this host.
HostAdmits(method, system) ==
  LET distro == ImmutableDistro(Indicators(system)) IN
    \/ method.host = "any"
    \/ method.host = "writable" /\ distro = "mutable"
    \/ method.host = "delegates" /\ distro \in {"mutable", "rpm-ostree"}

-----------------------------------------------------------------------------
(* The methods                                                             *)

Method(action, host, refuses, audited, work) ==
  [action |-> action, host |-> host, refuses |-> refuses, audited |-> audited, work |-> work]

SetGrubSettings   == Method(RewriteGrub, "writable", "settings", TRUE, "grub")
SetGrubValue      == Method(RewriteGrub, "writable", "payload", TRUE, "grub")
SetGrubDefault    == Method(RewriteGrub, "writable", "payload", TRUE, "grub")
RebuildGrubConfig == Method(RewriteGrub, "writable", "nothing", FALSE, "write")
BackupNvram       == Method(EnrollMok, "writable", "target", FALSE, "backup")
SignAndEnrollUki  == Method(EnrollMok, "writable", "uki", FALSE, "sign")
SetLoaderDefault  == Method(WriteBootloader, "writable", "nothing", FALSE, "write")
RenameLoaderEntry == Method(WriteBootloader, "writable", "nothing", FALSE, "write")
AddKernelParam    == Method(RewriteGrub, "delegates", "payload", FALSE, "write")
RemoveKernelParam == Method(RewriteGrub, "delegates", "nothing", FALSE, "write")
RestoreSnapshot   == Method(RestoreAction, "writable", "nothing", TRUE, "restore")
SetBootOrder      == Method(WriteBootloader, "writable", "nothing", FALSE, "order")
SetBootNext       == Method(WriteBootloader, "writable", "nothing", FALSE, "next")
ClearBootNext     == Method(WriteBootloader, "writable", "nothing", FALSE, "clear")

\* The readers ask nobody. ListEfiBootEntries reads one variable after another, the
\* others look once.
Reader(work)       == Method(NoAction, "any", "nothing", FALSE, work)

ListEfiBootEntries == Reader("entries")
ReadGrubConfig     == Reader("read")
ReadGrubSettings   == Reader("read")
GetEtag            == Reader("read")
GetActiveBackend   == Reader("name")
ListGrubEntries    == Reader("read")
ListLoaderEntries  == Reader("read")
ReadLoaderEntry    == Reader("read")
GetLoaderConfEtag  == Reader("read")
ReadKernelCmdline  == Reader("read")
ListSnapshots      == Reader("read")
GetBootOrder       == Reader("read")
GetBootNext        == Reader("read")

MethodOf ==
  [SetGrubSettings |-> SetGrubSettings, SetGrubValue |-> SetGrubValue,
   SetGrubDefault |-> SetGrubDefault, RebuildGrubConfig |-> RebuildGrubConfig,
   BackupNvram |-> BackupNvram, SignAndEnrollUki |-> SignAndEnrollUki,
   SetLoaderDefault |-> SetLoaderDefault, RenameLoaderEntry |-> RenameLoaderEntry,
   AddKernelParam |-> AddKernelParam, RemoveKernelParam |-> RemoveKernelParam,
   RestoreSnapshot |-> RestoreSnapshot, SetBootOrder |-> SetBootOrder,
   SetBootNext |-> SetBootNext, ClearBootNext |-> ClearBootNext,
   ReadGrubConfig |-> ReadGrubConfig, ReadGrubSettings |-> ReadGrubSettings,
   GetEtag |-> GetEtag, GetActiveBackend |-> GetActiveBackend,
   ListGrubEntries |-> ListGrubEntries, ListLoaderEntries |-> ListLoaderEntries,
   ReadLoaderEntry |-> ReadLoaderEntry, GetLoaderConfEtag |-> GetLoaderConfEtag,
   ReadKernelCmdline |-> ReadKernelCmdline, ListSnapshots |-> ListSnapshots,
   ListEfiBootEntries |-> ListEfiBootEntries, GetBootOrder |-> GetBootOrder,
   GetBootNext |-> GetBootNext]

-----------------------------------------------------------------------------
(* What methods refuse                                                     *)

\* The entry token of the installation: the first file that exists decides.
EntryToken(files) ==
  LET there == SelectSeq(files, LAMBDA f : f # "missing")
  IN IF there = <<>> \/ there[1] = "unsafe" THEN "none" ELSE there[1]

\* validate_managed_uki: an absolute path of a regular file, of the trusted owner
\* and written by nobody else, in a managed directory, named after the token.
ValidManagedUki(uki, token) ==
  /\ {"absolute", "regular", "trusted owner", "managed directory"} \subseteq uki.is
  /\ {"symlink", "group or other write"} \intersect uki.is = {}
  /\ token # "none" /\ uki.installation = token

\* Checks on the arguments, in the order of the handlers; "" is no refusal.
Refusal(method, arg, tokens) ==
  CASE method.refuses = "settings" /\ arg = "bad style"   -> "MalformedValue"
    [] method.refuses \in {"settings", "payload"} /\ arg = "blacklisted" -> "SecurityPolicyViolation"
    [] method.refuses = "target" /\ arg = "outside"       -> "NvramBackupFailed"
    [] method.refuses = "uki" /\ ~ValidManagedUki(arg, EntryToken(tokens)) -> "SecurityPolicyViolation"
    [] OTHER -> ""
=============================================================================
