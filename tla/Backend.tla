------------------------------- MODULE Backend -------------------------------
(***************************************************************************)
(* The daemon as its clients see it (crates/client/src/lib.rs): the        *)
(* BootBackend trait, its D-Bus implementation and the mock of Demo Mode.  *)
(*                                                                         *)
(* A call is a record whose field m is the method. The daemon serves one   *)
(* call at a time, on the files as they are at that moment; the inside of  *)
(* a call is the subject of GrubManager, LoaderFiles and Interface. The    *)
(* files of GRUB are texts (GrubText, GrubMenu). The ETag of a file stands *)
(* for its content, and says which file it is of.                          *)
(***************************************************************************)
EXTENDS GrubText, GrubMenu, FiniteSets

CONSTANTS
  MenuTexts,     \* the texts grub.cfg may have
  NoAnswer,      \* the error of a call that failed, for whatever reason
  MaxOther       \* bound: changes made by other programs

VARIABLES
  svc,           \* [host, files, snaps]: the backend, the files by kind, the snapshots
  others         \* how many changes other programs have made

Kinds == {"config", "menu", "ids", "conf", "params", "order"}

NoEtag == <<>>
EtagOf(kind, s) == <<kind, s.files[kind]>>

\* MockBackend, which resolve_backend returns in Demo Mode.
IsDemo(s) == s.host = "grub (mock)"

\* The methods that change nothing, and the file each one reads.
FileRead == [ReadConfig |-> "config", ReadGrubSettings |-> "config",
             ListGrubEntries |-> "menu", ListLoaderEntries |-> "ids",
             GetLoaderConfEtag |-> "conf", ReadKernelCmdline |-> "params",
             GetBootOrder |-> "order"]

Reads == DOMAIN FileRead \union {"GetActiveBackend", "ListSnapshots", "GetBootNext",
                                 "ReadLoaderEntry", "ListEfiBootEntries"}

\* The methods that change none of these files (titles of loader entries, keys,
\* BootNext and grub.cfg's own text are not among them), and may fail.
Plain == {"RebuildGrubConfig", "RenameLoaderEntry", "BackupNvram", "SignAndEnrollUki",
          "SetBootNext", "ClearBootNext"}

\* What each text of grub.cfg says.
Menus == [text \in MenuTexts |-> [parses |-> MenuParses(text), entries |-> MenuEntries(text)]]
MenuNow(s) == Menus[s.files["menu"]]

\* A text that does not parse is not read.
Readable(c, s) ==
  CASE c.m = "ReadConfig" -> Parses(s.files["config"])
    [] c.m = "ReadGrubSettings" -> SettingsParse(s.files["config"])
    [] c.m = "ListGrubEntries" -> MenuNow(s).parses
    [] OTHER -> TRUE

\* What a read makes of a file.
ReadOf(c, s) ==
  CASE c.m = "ReadConfig" -> GrubConfig(s.files["config"])
    [] c.m = "ReadGrubSettings" -> GrubSettings(s.files["config"])
    [] c.m = "ListGrubEntries" -> MenuNow(s).entries
    [] OTHER -> s.files[FileRead[c.m]]

\* What a read returns: a content and its ETag, or a value.
ValueOf(c, s) ==
  IF c.m = "GetActiveBackend" THEN s.host
  ELSE IF c.m = "ListSnapshots" THEN s.snaps
  ELSE IF c.m \in {"GetBootNext", "ReadLoaderEntry", "ListEfiBootEntries"} THEN "printed"
  ELSE [content |-> ReadOf(c, s), etag |-> EtagOf(FileRead[c.m], s)]

-----------------------------------------------------------------------------
(* The writes                                                              *)

\* The paths of a menu that may be the default: submenus may not.
BootablePaths(menu) == {menu[i].path : i \in {j \in DOMAIN menu : ~menu[j].submenu}}

\* The file a write replaces.
FileWritten(c) ==
  CASE c.m \in {"SetValue", "SetGrubSettings", "SetGrubDefault"} -> "config"
    [] c.m = "SetLoaderDefault" -> "conf"
    [] c.m \in {"AddKernelParam", "RemoveKernelParam"} -> "params"
    [] c.m = "SetBootOrder" -> "order"
    [] c.m = "RestoreSnapshot" -> c.id[1]

\* Whether the daemon carries the write out: the ETags are those of the files
\* now, and the argument is one the files admit. BootOrder has no ETag.
Admits(c, s) ==
  CASE c.m = "SetGrubDefault" ->
         /\ c.menuEtag = EtagOf("menu", s)
         /\ c.etag = EtagOf("config", s) /\ Parses(s.files["config"])
         /\ MenuNow(s).parses /\ c.path \in BootablePaths(MenuNow(s).entries)
    [] c.m \in {"SetValue", "SetGrubSettings"} ->
         c.etag = EtagOf("config", s) /\ Parses(s.files["config"])
    [] c.m = "SetLoaderDefault" -> c.etag = EtagOf("conf", s) /\ c.key \in s.files["ids"]
    [] c.m = "SetBootOrder" ->
         /\ Len(c.order) = Len(s.files["order"])
         /\ Range(c.order) = Range(s.files["order"])
    [] c.m = "RestoreSnapshot" -> c.id \in s.snaps /\ c.etag = EtagOf(c.id[1], s)
    [] OTHER -> c.etag = EtagOf(FileWritten(c), s)

\* The keys an edit of GRUB's configuration asks for, with their values.
GrubEdits == {"SetValue", "SetGrubSettings", "SetGrubDefault"}
Asked(c) ==
  CASE c.m = "SetValue" -> <<<<c.key, c.value>>>>
    [] c.m = "SetGrubSettings" -> SettingsChanges(c.settings)
    [] c.m = "SetGrubDefault" -> <<<<"GRUB_DEFAULT", c.path>>>>

\* What the file is then.
Written(c, s) ==
  CASE c.m \in GrubEdits -> Updated(s.files["config"], Asked(c))
    [] c.m = "SetLoaderDefault" -> c.key
    [] c.m = "AddKernelParam" -> s.files["params"] \union {c.key}
    [] c.m = "RemoveKernelParam" -> s.files["params"] \ {c.key}
    [] c.m = "SetBootOrder" -> c.order
    [] c.m = "RestoreSnapshot" -> c.id[2]

\* The state after the write. The edits of GRUB's configuration take a snapshot of
\* it first; a restore, and the writes of the other files, take none.
After(c, s) ==
  [s EXCEPT !.files[FileWritten(c)] = Written(c, s),
            !.snaps = IF c.m \in GrubEdits THEN @ \union {EtagOf("config", s)} ELSE @]

-----------------------------------------------------------------------------
(* A call and its answer                                                   *)

Answered(s, v) == [svc |-> s, ok |-> TRUE, value |-> v]
Failed(s) == [svc |-> s, ok |-> FALSE, value |-> NoAnswer]

\* MockBackend: fixed answers, and writes that succeed without writing.
MockAnswer(c, s) == IF c.m \in Reads THEN ValueOf(c, s) ELSE NoAnswer

MockOutcomes(c, s) == {Answered(s, MockAnswer(c, s))}

\* A write that was carried out may still come back as an error: its rebuild
\* failed, or the connection was lost.
DbusWrites(c, s) ==
  IF Admits(c, s) THEN {Answered(After(c, s), NoAnswer), Failed(After(c, s))} ELSE {}

DbusReads(c, s) == IF Readable(c, s) THEN {Answered(s, ValueOf(c, s))} ELSE {}

\* DbusBackend: a call may be refused or fail before it does anything.
DbusOutcomes(c, s) ==
  {Failed(s)} \union (IF c.m \in Reads THEN DbusReads(c, s)
                      ELSE IF c.m \in Plain THEN {Answered(s, NoAnswer)}
                      ELSE DbusWrites(c, s))

Outcomes(c, s) == IF IsDemo(s) THEN MockOutcomes(c, s) ELSE DbusOutcomes(c, s)

-----------------------------------------------------------------------------
(* Other programs: editors, grub-mkconfig, package managers, firmware tools *)

OtherChange(kind, content) ==
  /\ ~IsDemo(svc)
  /\ others < MaxOther
  /\ svc.files[kind] # content
  /\ svc' = [svc EXCEPT !.files[kind] = content]
  /\ others' = others + 1
=============================================================================
