------------------------------ MODULE LoaderText ------------------------------
(***************************************************************************)
(* What the text functions behind systemd-boot and UKI do with a file:     *)
(* parse_loader_entry and serialize_loader_entry of                        *)
(* crates/core/src/backends/systemd_boot.rs, update_or_append_key of       *)
(* crates/daemon/src/systemd_boot_manager.rs, add_param and remove_param   *)
(* of crates/core/src/backends/uki.rs.                                     *)
(*                                                                         *)
(* A file is the sequence of its lines, a line a key and a value. A        *)
(* comment or blank line has the key "#". A kernel command line is the     *)
(* sequence of its parameters, each a line with the key "param".           *)
(***************************************************************************)
EXTENDS Texts, SequencesExt, FiniteSetsExt

Lines == [key : STRING, value : STRING]

\* The value of a field that is absent, or of a line without a separator.
NoText == "none"

\* The fields LoaderEntry knows, in the order serialize_loader_entry emits them.
KnownOrder == <<"title", "linux", "initrd", "options", "machine-id">>

Known == ToSet(KnownOrder)

\* The keys the daemon writes are strings, which the provers do not know of a literal.
ASSUME KeyAssumption == Known \union {"default", "param"} \subseteq STRING

Line(k, v) == [key |-> k, value |-> v]

IsComment(line) == line.key = "#"

-----------------------------------------------------------------------------
(* Loader entries                                                          *)

\* parse_loader_entry accepts a file that is not blank and whose every line
\* has a separator.
EntryParses(lines) ==
  /\ lines # <<>>
  /\ \A i \in DOMAIN lines : IsComment(lines[i]) \/ lines[i].value # NoText

\* Of a known key that is repeated the last line wins.
FieldOf(lines, k) ==
  LET at == {i \in DOMAIN lines : lines[i].key = k} IN
    IF at = {} THEN NoText ELSE lines[Max(at)].value

LoaderEntry(lines) ==
  [fields |-> [k \in Known |-> FieldOf(lines, k)],
   extra |-> Select(lines, {l \in Lines : l.key \notin Known \union {"#"}}),
   preserved |-> Select([i \in DOMAIN lines |-> [at |-> i, line |-> lines[i]]],
                        [at : Nat, line : {l \in Lines : IsComment(l)}])]

\* A comment returns to the position it had, or to the end.
PutBack(lines, p) ==
  InsertAt(lines, IF p.at <= Len(lines) THEN p.at ELSE Len(lines) + 1, p.line)

Restored(plain, preserved) ==
  LET back[n \in 0..Len(preserved)] ==
        IF n = 0 THEN plain ELSE PutBack(back[n - 1], preserved[n])
  IN back[Len(preserved)]

\* Known fields in canonical order, then the others, the comments put back.
SerializeEntry(entry) ==
  LET given == Select(KnownOrder, {k \in Known : entry.fields[k] # NoText})
      known == [i \in DOMAIN given |-> Line(given[i], entry.fields[given[i]])]
  IN Restored(known \o entry.extra, entry.preserved)

\* rename_loader_entry.
WithTitle(lines, title) ==
  SerializeEntry([LoaderEntry(lines) EXCEPT !.fields["title"] = title])

-----------------------------------------------------------------------------
(* loader.conf                                                             *)

\* The positions of the lines that set a key.
Setting(lines, k) == {i \in DOMAIN lines : lines[i].key = k}

\* The default entry read_loader_conf_default finds: the first line counts.
LoaderConfDefault(lines) ==
  IF Setting(lines, "default") = {} THEN NoText
  ELSE lines[Min(Setting(lines, "default"))].value

\* Mutant: the last line is updated, as SystemdBootBackend::set_default does.
UpdateOrAppendLast(lines, k, v) ==
  IF Setting(lines, k) = {} THEN Append(lines, Line(k, v))
  ELSE ReplaceAt(lines, Max(Setting(lines, k)), Line(k, v))

\* The first line that sets the key is replaced; without one, a line is added.
UpdateOrAppend(lines, k, v) ==
  IF Setting(lines, k) = {} THEN Append(lines, Line(k, v))
  ELSE ReplaceAt(lines, Min(Setting(lines, k)), Line(k, v))

-----------------------------------------------------------------------------
(* Kernel command lines                                                    *)

HasParam(lines, p) == \E i \in DOMAIN lines : lines[i].value = p

AddParam(lines, p) ==
  IF HasParam(lines, p) THEN lines ELSE Append(lines, Line("param", p))

\* remove_param removes every occurrence; it refuses when there is none.
RemoveParam(lines, p) == Select(lines, {l \in Lines : l.value # p})
=============================================================================
