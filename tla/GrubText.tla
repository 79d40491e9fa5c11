------------------------------- MODULE GrubText -------------------------------
(***************************************************************************)
(* The text of /etc/default/grub: what BootControl reads from it, what it  *)
(* writes into it (crates/core/src/grub.rs, grub_settings.rs, the edit of  *)
(* crates/daemon/src/grub_manager.rs), and what a shell reads from it, for *)
(* grub-mkconfig sources the file.                                         *)
(*                                                                         *)
(* A line is [key, quoted, text]; a comment or a blank line has Remark; a *)
(* statement that is no assignment has the key Statement.                 *)
(***************************************************************************)
EXTENDS Texts, SequencesExt, Functions, FiniteSetsExt

CONSTANTS
  Refused,       \* texts with a substitution, a pipe, a brace or a here-document
  Distributor,   \* the vendor's expression for GRUB_DISTRIBUTOR, one of Refused
  Spaced,        \* texts with a space or a tab, and the empty text
  Timeouts,      \* numerals between 0 and 1000000
  ShellWords     \* unquoted texts a shell does not take literally -> what it takes

Remark == "#"
Statement == "if"

\* What the typed settings may be as texts.
Styles == {"menu", "countdown", "hidden"}
Flags == {"true", "false"}
Numerals == Timeouts \union {"5"}

ASSUME GrubTextAssumption ==
  /\ Distributor \in Refused
  /\ Spaced \cap DOMAIN ShellWords = {}
  /\ Refused \cap (Numerals \union Styles \union Flags) = {}

-----------------------------------------------------------------------------
(* parse_grub_config                                                       *)

IsAssignment(l) == l.key \notin {Remark, Statement}

\* parse_line: what makes the whole file refused.
IsBashConstruct(l) ==
  \/ l.key = Statement
  \/ /\ IsAssignment(l) /\ l.text \in Refused
     /\ ~(l.key = "GRUB_DISTRIBUTOR" /\ l.text = Distributor /\ ~l.quoted)

Parses(text) == \A i \in DOMAIN text : ~IsBashConstruct(text[i])

Keys(text) == {text[i].key : i \in {j \in DOMAIN text : IsAssignment(text[j])}}

\* The line whose assignment to a key counts: the last.
LastLine(text, key) == Max({i \in DOMAIN text : text[i].key = key})

\* GrubConfig's map.
GrubConfig(text) == [key \in Keys(text) |-> text[LastLine(text, key)].text]

-----------------------------------------------------------------------------
(* set_grub_values: the edit                                               *)

\* build_assignment_line
Assignment(key, value) == [key |-> key, quoted |-> value \in Spaced, text |-> value]

\* A mutated form: the first one.
EditedFirst(text, key) ==
  CHOOSE i \in DOMAIN text : text[i].key = key /\ \A j \in 1..(i - 1) : text[j].key # key

\* The line an edit of a key replaces: its last assignment.
EditedLine(text, key) == Max({i \in DOMAIN text : text[i].key = key})

\* The changes are pairs of a key and its value, one for a key.
Requested(changes) == {c[1] : c \in Range(changes)}
Wanted(changes, key) == CHOOSE v \in {c[2] : c \in Range(changes)} : <<key, v>> \in Range(changes)

\* Those of keys without an assignment, in the order they were asked for.
Absent(text, changes) == Select(changes, {c \in Range(changes) : c[1] \notin Keys(text)})

\* Lines are replaced, or appended.
Updated(text, changes) ==
  LET Line(i) == IF text[i].key \in Requested(changes) /\ i = EditedLine(text, text[i].key)
                 THEN Assignment(text[i].key, Wanted(changes, text[i].key)) ELSE text[i]
      absent == Absent(text, changes)
  IN [i \in DOMAIN text |-> Line(i)] \o [i \in DOMAIN absent |-> Assignment(absent[i][1], absent[i][2])]

-----------------------------------------------------------------------------
(* The typed settings                                                      *)

SettingKeys == <<"GRUB_TIMEOUT", "GRUB_TIMEOUT_STYLE", "GRUB_DISABLE_OS_PROBER", "GRUB_DISABLE_RECOVERY">>

\* The value of a key, or what stands for its absence.
ValueOr(text, key, default) == IF key \in Keys(text) THEN GrubConfig(text)[key] ELSE default

\* parse_grub_settings has a value for each key, or is an error.
SettingsParse(text) ==
  /\ Parses(text)
  /\ ValueOr(text, "GRUB_TIMEOUT", "5") \in Numerals
  /\ ValueOr(text, "GRUB_TIMEOUT_STYLE", "menu") \in Styles
  /\ ValueOr(text, "GRUB_DISABLE_OS_PROBER", "false") \in Flags
  /\ ValueOr(text, "GRUB_DISABLE_RECOVERY", "false") \in Flags

\* The settings are positive where the keys are negative.
GrubSettings(text) ==
  [timeout_seconds           |-> ValueOr(text, "GRUB_TIMEOUT", "5"),
   timeout_style             |-> ValueOr(text, "GRUB_TIMEOUT_STYLE", "menu"),
   detect_other_os           |-> ValueOr(text, "GRUB_DISABLE_OS_PROBER", "false") # "true",
   generate_recovery_entries |-> ValueOr(text, "GRUB_DISABLE_RECOVERY", "false") # "true"]

Flag(b) == IF b THEN "true" ELSE "false"

\* What a setting is as the text of its key.
SettingText(settings, key) ==
  CASE key = "GRUB_TIMEOUT" -> settings.timeout_seconds
    [] key = "GRUB_TIMEOUT_STYLE" -> settings.timeout_style
    [] key = "GRUB_DISABLE_OS_PROBER" -> Flag(~settings.detect_other_os)
    [] key = "GRUB_DISABLE_RECOVERY" -> Flag(~settings.generate_recovery_entries)

\* set_grub_settings writes all four keys, the absent ones too.
SettingsChanges(settings) ==
  [i \in DOMAIN SettingKeys |-> <<SettingKeys[i], SettingText(settings, SettingKeys[i])>>]

-----------------------------------------------------------------------------
(* The shell                                                               *)

\* What the shell assigns in a line: an unquoted text ends at an operator.
ShellText(l) == IF ~l.quoted /\ l.text \in DOMAIN ShellWords THEN ShellWords[l.text] ELSE l.text

ShellReads(text, key) == ShellText(text[LastLine(text, key)])
=============================================================================
