------------------------------ MODULE MCClients ------------------------------
(* Clients on four hosts; the clicks of the window are those of one page, or *)
(* of the pages whose previews disarm each other.                            *)
EXTENDS Clients

Line(key, text) == [key |-> key, quoted |-> FALSE, text |-> text]
Vendor == "vendor expression"
Brace == "{}"
Config(default, timeout) == <<Line("GRUB_DEFAULT", default), Line("GRUB_TIMEOUT", timeout)>>

\* A file with a comment, a key assigned twice, and two of the typed settings absent.
UsualConfig ==
  <<Line("GRUB_TIMEOUT", "9"), Line("GRUB_DEFAULT", "0"), Line("#", "GRUB_DEFAULT=saved"),
    Line("GRUB_DISTRIBUTOR", Vendor), Line("GRUB_TIMEOUT", "5"), Line("GRUB_DISABLE_RECOVERY", "true")>>
ScriptedConfig == Append(Config("0", "5"), Line("if", "then"))

Item(word, braces) == [word |-> word, titled |-> TRUE, braces |-> braces]
Rest(word, braces) == [word |-> word, titled |-> FALSE, braces |-> braces]
Open == <<"{">>
Close == Rest("}", <<"}">>)
Block(line, body) == <<line>> \o body \o <<Close>>
Entry == Block(Item("menuentry", Open), <<Rest("linux", <<>>)>>)
LongMenu == Block(Rest("function", Open), <<>>) \o Entry \o Block(Item("submenu", Open), Entry)
ShortMenu == Entry
TornMenu == <<Item("menuentry", Open), Rest("linux", <<>>)>>

\* Menus of up to MenuLength lines, of the shapes grub-mkconfig writes.
MenuLength == 5
MenuLines == {Item("menuentry", Open), Item("menuentry", <<"{", "}">>), Item("submenu", Open),
              Rest("function", Open), Rest("#", Open), Close}
Texts[n \in 0..MenuLength] ==
  IF n = 0 THEN {<<>>} ELSE {Append(t, l) : t \in {u \in Texts[n - 1] : Len(u) = n - 1}, l \in MenuLines}
SmallMenus == {t \in UNION {Texts[n] : n \in 0..MenuLength} :
                 /\ MenuParses(t)
                 /\ Cardinality({i \in DOMAIN t : t[i].word = "}"}) = Cardinality({i \in DOMAIN t : t[i].braces = Open /\ t[i].word # "#"})}

MCMenuTexts == SmallMenus \union {LongMenu, ShortMenu, TornMenu}

Files == [config |-> UsualConfig, menu |-> LongMenu, ids |-> {"arch", "fallback"}, conf |-> "arch",
          params |-> {"quiet", "rw"}, order |-> <<1, 2, 3>>]

\* Only GRUB's configuration is ever in a snapshot.
Service(host) ==
  [host |-> host, files |-> Files,
   snaps |-> IF host \in {"grub", "grub (mock)"} THEN {<<"config", Config("1>0", "5")>>} ELSE {}]

SelectEntry(i) == [m |-> "SelectGrubMenuEntry", index |-> i]
Move(d) == [m |-> "MoveGrubMenuSelection", delta |-> d]
Stage(f, v) == [m |-> "StageGrubSetting", field |-> f, value |-> v]
Toggle(f, b) == [m |-> "StageGrubToggle", field |-> f, enabled |-> b]
Plainly(names) == {[m |-> name] : name \in names}

EntriesPage == {SelectEntry(2), SelectEntry(3), Move(1), Move(-1)}
               \union Plainly({"StageGrubDefault", "PrepareGrubDefault", "DiscardGrubDefault"})
EntriesAgain == Plainly({"StageGrubDefault", "PrepareGrubDefault", "FetchEntries"})
SettingsPage == {Stage("timeout_seconds", "9"), Stage("timeout_style", "hidden"), Stage("timeout_seconds", "bad"),
                 Toggle("generate_recovery_entries", TRUE)}
                \union Plainly({"PrepareGrubSettings", "DiscardGrubSettings", "FetchGrubSettings"})
Overview == {SelectEntry(3)} \union Plainly({"StageGrubDefault", "PrepareGrubDefault", "PrepareRebuild", "FetchEntries"})
SecurePage == Plainly({"BackupNvram", "SignAndEnrollUki", "FetchGrubMenu"})

Start(c, host, menu, n) == [client |-> c, svc |-> Service(host), menu |-> menu, clicks |-> n, others |-> 0]

MCStarts ==
  {Start("gui", "grub", menu, 4) : menu \in {EntriesPage, SettingsPage, Overview, SecurePage}}
  \union {[Start("gui", "grub", EntriesAgain, 4) EXCEPT !.svc.files["config"] = Config("1>0", "5")],
          Start("gui", "grub (mock)", Overview, 4),
          Start("gui", "uki", Plainly({"PrepareRebuild"}), 3),
          Start("gui", "systemd-boot", Plainly({"FetchEntries"}), 3)}
  \union {[Start("gui", "grub", {}, 0) EXCEPT !.svc.files["menu"] = t, !.others = 1] : t \in SmallMenus \union {TornMenu}}
  \union {[Start(c, "grub", {}, 0) EXCEPT !.svc.files["config"] = ScriptedConfig, !.others = 1] : c \in {"gui", "tui"}}
  \union {Start(c, host, {}, 0) : c \in {"tui", "cli"}, host \in {"grub", "uki", "systemd-boot"}}

\* The window alone, on its list of entries.
MCSubmenuStarts == {Start("gui", "grub", EntriesPage, 4)}

MCOtherContents ==
  [config |-> {Config("0", "9")}, menu |-> {ShortMenu}, ids |-> {{"arch"}}, conf |-> {"fallback"},
   params |-> {{"rw"}, {"quiet"}}, order |-> {<<3, 2, 1>>, <<1, 2, 4>>}]

MCRefused == {Vendor, Brace}
MCShellWords == "1>0" :> "1"
MCKeyOrder == <<"GRUB_DEFAULT", "GRUB_DISABLE_RECOVERY", "GRUB_DISTRIBUTOR", "GRUB_TIMEOUT", "arch", "debug", "fallback", "quiet", "rw">>
MCTypedTexts == [h \in {"grub", "uki", "systemd-boot"} |-> IF h = "uki" THEN {"debug", ""} ELSE {"a b", Brace}]

Name(numbered, separated, digit) == [numbered |-> numbered, separated |-> separated, digit |-> digit]
Device(name, fs, root) == [name |-> name, fs |-> fs, root |-> root]
MCDevices == <<Device(Name(TRUE, FALSE, TRUE), FALSE, FALSE),    \* nvme0n1
               Device(Name(TRUE, TRUE, TRUE), TRUE, FALSE),      \* nvme0n1p1
               Device(Name(FALSE, FALSE, FALSE), FALSE, FALSE),  \* sda
               Device(Name(FALSE, FALSE, TRUE), TRUE, TRUE)>>    \* sda1
MCMoves == {<<0, 2>>, <<2, 0>>, <<1, 7>>, <<5, 0>>}
MCOrders == {<<2, 1, 3>>, <<2, 2, 3>>}
=============================================================================
