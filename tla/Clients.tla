------------------------------- MODULE Clients -------------------------------
(***************************************************************************)
(* The clients of BootControl, each against the daemon and other programs: *)
(* the desktop client (Gui), the terminal client (Tui), or the commands of *)
(* the command line client with rescue (Cli). One of them runs; a second   *)
(* client is one more program that changes the files.                      *)
(***************************************************************************)
EXTENDS Gui, Tui, Cli

CONSTANTS
  Starts,        \* the systems: records [client, svc, menu, clicks, others]
  OtherContents  \* what other programs may write: kind -> set of contents

ASSUME ClientsAssumption ==
  \A s \in Starts :
    /\ DOMAIN s.svc = {"host", "files", "snaps"}
    /\ \A m \in s.menu : m.m \in Controls /\ SetsField(m)
    /\ DOMAIN s.svc.files = Kinds
    /\ \A id \in s.svc.snaps : id[1] # "order" /\ (id[1] = "config" => id[2] \in Seq(Range(id[2])))
    /\ s.svc.files["order"] \in Seq(Nat)
    /\ s.svc.files["config"] \in Seq(Range(s.svc.files["config"]))
    /\ s.others \in Nat

\* A boot order is a list of numbers, a configuration a text.
ASSUME OthersAssumption ==
  /\ OtherContents["order"] \subseteq Seq(Nat)
  /\ \A text \in OtherContents["config"] : text \in Seq(Range(text))

VARIABLE client  \* which client runs: "gui", "tui" or "cli"

vars == <<svc, others, client, guiVars, tuiVars, cliVars>>

Init ==
  /\ \E s \in Starts : client = s.client /\ svc = s.svc /\ menuOf = s.menu /\ clicks = s.clicks /\ others = s.others
  /\ GuiInit /\ TuiInit /\ CliInit

\* The files the backend of a host keeps.
KindsOf(host) ==
  CASE host = "grub" -> {"config", "menu"}
    [] host = "systemd-boot" -> {"ids", "conf"}
    [] host = "uki" -> {"params"}
    [] OTHER -> {}

Other ==
  /\ \E kind \in KindsOf(svc.host) \union (IF client = "cli" THEN {"order"} ELSE {}) :
       \E content \in OtherContents[kind] : OtherChange(kind, content)
  /\ UNCHANGED <<client, guiVars, tuiVars, cliVars>>

Gui == client = "gui" /\ GuiNext /\ UNCHANGED <<client, tuiVars, cliVars>>
Tui == client = "tui" /\ TuiNext /\ UNCHANGED <<client, guiVars, cliVars>>
Cli == client = "cli" /\ CliNext /\ UNCHANGED <<client, guiVars, tuiVars>>

Next == Gui \/ Tui \/ Cli \/ Other

\* The runtime polls the backend task of the window; the daemon, or the bus in
\* its place, answers each call.
Fairness == WF_vars(client = "gui" /\ GuiTask /\ UNCHANGED <<client, tuiVars, cliVars>>)

Spec == Init /\ [][Next]_vars /\ Fairness

-----------------------------------------------------------------------------
(* Properties                                                              *)

\* A change of GRUB's default or of the typed settings that the window makes is
\* the one its preview showed: the values it shows as removed are those in force
\* before, the values it shows as added are in force then, no other setting
\* changes, and a new default is a bootable path of the menu.
PreviewIsTheChange ==
  [][task # task' /\ svc' # svc /\ task.pc = "call" =>
       LET old == svc.files["config"]
           new == svc'.files["config"]
           req == task.req
       IN /\ task.msg.m = "ApplyGrubDefault" =>
               /\ GrubConfig(old)["GRUB_DEFAULT"] = req.previous
               /\ GrubConfig(new)["GRUB_DEFAULT"] = req.selected
               /\ req.selected \in BootablePaths(MenuNow(svc).entries)
          /\ task.msg.m = "ApplyGrubSettings" =>
               /\ SettingsParse(old) /\ SettingsParse(new)
               /\ \A k \in Range(SettingKeys) :
                    LET was == SettingText(GrubSettings(old), k)
                        is == SettingText(GrubSettings(new), k)
                    IN was # is <=> \E c \in req.changes : c = [key |-> k, previous |-> was, desired |-> is]]_vars

\* Whichever client edits GRUB's configuration, the keys it asked for have the
\* values it asked for then, every other key keeps its value, and every line
\* but the last assignments of the asked keys is kept where it stands, the
\* comments and the assignments without effect among them.
EditKeepsTheRest ==
  [][\A c \in {task.call, handler.call, cli.call} :
       c.m \in GrubEdits /\ svc'.files["config"] # svc.files["config"] /\ others' = others =>
         LET old == svc.files["config"]
             new == svc'.files["config"]
             asked == {Asked(c)[i][1] : i \in DOMAIN Asked(c)}
         IN /\ \A i \in DOMAIN Asked(c) : GrubConfig(new)[Asked(c)[i][1]] = Asked(c)[i][2]
            /\ \A k \in Keys(old) \ asked : GrubConfig(new)[k] = GrubConfig(old)[k]
            /\ Len(new) = Len(old) + Cardinality(asked \ Keys(old))
            /\ \A i \in DOMAIN old :
                 new[i] = old[i] \/ (old[i].key \in asked /\ \A j \in (i + 1)..Len(old) : old[j].key # old[i].key)]_vars

\* GRUB's own numbering of a menu whose blocks are all closed: an item counts
\* when every block around it is a submenu's; it has the number of the items
\* that stand in the same block before it, after the path of that submenu.
GrubsMenu(text) ==
  LET \* How many blocks are open before each line.
      level == FoldLeft(LAMBDA d, l : Append(d, IF l.word = "#" THEN Last(d) ELSE Depth(l.braces, Last(d))),
                        <<0>>, text)
      Outer(i) == {j \in 1..(i - 1) : level[j] < level[i] /\ \A k \in (j + 1)..i : level[k] > level[j]}
      Shown(i) == text[i].word \in Items /\ \A j \in Outer(i) : text[j].word = "submenu"
      Number(i) == Cardinality({j \in 1..(i - 1) : level[j] = level[i] /\ Shown(j) /\ Outer(j) = Outer(i)})
      Path(i) == FoldLeft(LAMBDA p, j : p \o ToString(Number(j)) \o ">", "", SetToSortSeq(Outer(i), <))
                   \o ToString(Number(i))
  IN [n \in 1..Cardinality({i \in DOMAIN text : Shown(i)}) |->
        LET i == CHOOSE k \in DOMAIN text : Shown(k) /\ Cardinality({j \in 1..k : Shown(j)}) = n
        IN [path |-> Path(i), depth |-> Cardinality(Outer(i)), submenu |-> text[i].word = "submenu"]]

\* The entries the window lists are GRUB's own menu, each under the path GRUB
\* gives it, of the grub.cfg whose ETag goes along with them.
MenuIsGrubs ==
  [][boot.status = "loading" /\ boot'.status \in {"ready", "empty"} =>
       boot'.entries = GrubsMenu(boot'.etag[2])]_vars

\* SetGrubDefault makes the chosen path the default, for grub-mkconfig too, which
\* reads the file as a shell does: daemon/src/interface.rs:1027 calls the
\* path "GRUB_DEFAULT-compatible", core/src/grub.rs:404 the parsed value "what a
\* shell would observe".
DefaultIsTheChosenPath ==
  [][task # task' /\ svc' # svc /\ task.call.m = "SetGrubDefault" =>
       ShellReads(svc'.files["config"], "GRUB_DEFAULT") = task.call.path]_vars

\* What the task applies is what the user confirmed in the sheet, whatever is queued,
\* staged, cancelled or reloaded around it, if no preview was still to be handled
\* when the sheet was confirmed. (The message carries no request, so a preview
\* handled between the confirmation and the message is what is applied instead.)
AppliedIsConfirmed ==
  task.pc = "call" /\ task.msg.m \in {"ApplyGrubDefault", "ApplyGrubSettings"} /\ ~task.msg.due
    => task.req = task.msg.shown

\* The window arms at most one operation. An armed change of the default was staged
\* on the configuration the window holds, and an armed rebuild on a state that is
\* loaded: a refresh disarms.
ArmedIsCurrent ==
  /\ Cardinality({r \in {session.default, session.settings} : r # NoRequest})
       + (IF session.rebuild THEN 1 ELSE 0) <= 1
  /\ session.default # NoRequest =>
       /\ vm.ready
       /\ session.default.etag = vm.etag /\ session.default.etag = boot.config
       /\ session.default.previous = boot.default
  /\ session.rebuild => vm.ready /\ RebuildReady(vm, svc)

\* The backend task works off its channel, unless the channel was full once:
\* the task sends into the channel it alone empties.
DrainsUnlessFull ==
  (client = "gui" /\ [](Len(queue) < QueueSize)) => <>[](task.pc \in {"recv", "off"} /\ queue = <<>>)

\* A write of the terminal client changes the content it shows: nobody else's
\* change of the configuration or of the command line is overwritten unseen.
\* (The removal that ends an edit is made on an ETag read in between.)
TuiWritesWhatItShows ==
  [][handler # handler' /\ svc' # svc /\ handler.op \in {"commit_grub", "delete", "add"} =>
       app.shown = ReadOf(ReloadCall(app), svc)]_vars

\* An edit of a kernel parameter removes the old one only after it added the
\* new one, and an edit that did not do both is reported before the user goes on.
EditIsWhole ==
  /\ edit.removed => edit.added
  /\ handler.pc = "idle" /\ app.mode = "browse" /\ edit.replaces => edit.added /\ edit.removed

\* Moving an entry of the boot order loses none and adds none, whatever other
\* programs did since it was read, and puts the entry where it was asked to be.
MoveKeepsEntries ==
  [][cli # cli' /\ svc' # svc /\ cli.cmd.cmd = "EfiMoveEntry" =>
       LET old == svc.files["order"]
           new == svc'.files["order"]
           last == Len(new) - 1
       IN /\ Range(new) = Range(old) /\ Len(new) = Len(old)
          /\ new[1 + (IF cli.cmd.to < last THEN cli.cmd.to ELSE last)] = cli.got[cli.cmd.from + 1]]_vars

\* When rescue ends, what it left mounted are partitions with a root, or ones
\* whose umount failed; when it reports success the root it names is mounted.
RescueLeavesOnlyRoots ==
  rescue.pc = "done" =>
    /\ \A d \in mounted : IsPartition(d.name) /\ (d.root \/ d \in rescue.stuck)
    /\ rescue.code = 0 => rescue.tried \in mounted /\ rescue.tried.root
=============================================================================
