------------------------------- MODULE GrubMenu -------------------------------
(***************************************************************************)
(* The menu of a generated grub.cfg (crates/core/src/grub_cfg.rs), whose   *)
(* entries are numbered the way GRUB_DEFAULT names them: an entry of a     *)
(* submenu by the numbers of its submenus and its own.                     *)
(*                                                                         *)
(* A line is [word, titled, braces]: its first word, whether a quoted      *)
(* title stands before its first brace, and its unquoted braces in order.  *)
(***************************************************************************)
EXTENDS Naturals, Sequences, SequencesExt, FiniteSetsExt, TLC

Items == {"menuentry", "submenu"}

Depth(braces, from) ==
  FoldLeft(LAMBDA d, b : IF b = "{" THEN d + 1 ELSE IF d = 0 THEN 0 ELSE d - 1, from, braces)

\* parse_menu_line: a header has its title, and opens its block.
IsHeader(l) == l.titled /\ "{" \in Range(l.braces)

\* The braces up to the one that ends the block ignored; what follows it on
\* that line is not looked at.
OpaqueDepth(braces, from) ==
  FoldLeft(LAMBDA d, b : IF d = 0 THEN 0 ELSE IF b = "{" THEN d + 1 ELSE d - 1, from, braces)

\* The state of the scan: the entries so far, the open submenus [index, next],
\* the next index of the top level, the depth of the block ignored, an error.
Scan0 == [entries |-> <<>>, frames |-> <<>>, top |-> 0, opaque |-> 0, failed |-> FALSE]

\* A mutated form: a submenu takes no index of its own.
NextIndexEntriesOnly(s, l) ==
  LET n == Len(s.frames) IN
    IF l.word = "submenu" THEN s
    ELSE IF n = 0 THEN [s EXCEPT !.top = @ + 1]
    ELSE [s EXCEPT !.frames[n].next = @ + 1]

\* Each item takes the next index of the block it stands in.
NextIndex(s, l) ==
  LET n == Len(s.frames) IN
    IF n = 0 THEN [s EXCEPT !.top = @ + 1] ELSE [s EXCEPT !.frames[n].next = @ + 1]

PathOf(frames, index) ==
  FoldLeft(LAMBDA path, f : path \o ToString(f.index) \o ">", "", frames) \o ToString(index)

\* A menuentry or submenu line.
ScanItem(s, l) ==
  LET n == Len(s.frames)
      index == IF n = 0 THEN s.top ELSE s.frames[n].next
      entry == [path |-> PathOf(s.frames, index), depth |-> n, submenu |-> l.word = "submenu"]
      t == [NextIndex(s, l) EXCEPT !.entries = Append(@, entry)]
      body == Depth(l.braces, 0)
  IN IF ~IsHeader(l) THEN [s EXCEPT !.failed = TRUE]
     ELSE IF body = 0 THEN t
     ELSE IF l.word = "submenu" THEN [t EXCEPT !.frames = Append(@, [index |-> index, next |-> 0])]
     ELSE [t EXCEPT !.opaque = body]

\* A brace of another line: it opens or closes a block to ignore, or closes the
\* innermost submenu; a closing brace too many is tolerated.
ScanBrace(s, b) ==
  IF b = "{" THEN [s EXCEPT !.opaque = @ + 1]
  ELSE IF s.opaque > 0 THEN [s EXCEPT !.opaque = @ - 1]
  ELSE IF s.frames = <<>> THEN s
  ELSE [s EXCEPT !.frames = Front(@)]

\* A line of the file; comments are passed over.
ScanLine(s, l) ==
  IF s.failed \/ l.word = "#" THEN s
  ELSE IF s.opaque > 0 THEN [s EXCEPT !.opaque = OpaqueDepth(l.braces, @)]
  ELSE IF l.word \in Items THEN ScanItem(s, l)
  ELSE FoldLeft(ScanBrace, s, l.braces)

Scanned(text) == FoldLeft(ScanLine, Scan0, text)

\* parse_menu_entries: a file that ends inside a block is an error.
MenuParses(text) ==
  LET s == Scanned(text) IN ~s.failed /\ s.opaque = 0 /\ s.frames = <<>>

MenuEntries(text) == Scanned(text).entries
=============================================================================
