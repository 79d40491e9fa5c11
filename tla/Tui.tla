--------------------------------- MODULE Tui ---------------------------------
(***************************************************************************)
(* The terminal client (crates/tui/src): one loop that draws, takes a key, *)
(* and handles it to the end before the next; a handler may make several   *)
(* calls to the daemon, between which other programs go on. Keys typed     *)
(* meanwhile wait in the terminal.                                         *)
(***************************************************************************)
EXTENDS Backend

CONSTANTS
  NoKey,         \* no row under edit
  KeyOrder,      \* the keys a row may have, in alphabetical order
  TypedTexts,    \* what the user may type into the editor, by backend
  MaxKeys        \* bound: keys typed

ASSUME KeysAssumption == KeyOrder \in Seq(Range(KeyOrder))

VARIABLES
  app,           \* App: [backend, shown, etag, selected, mode, buf, original, quit]
  handler,       \* the handler at work: [pc, op, call, got, then]
  keys,          \* how many keys were typed
  edit           \* auxiliary: what the last edit of a parameter has done

tuiVars == <<app, handler, keys, edit>>

NoApp == [backend |-> "", shown |-> NoAnswer, etag |-> NoEtag, selected |-> 0,
          mode |-> "browse", buf |-> "", original |-> NoKey, quit |-> FALSE]

Idle == [pc |-> "idle", op |-> "none", call |-> [m |-> "none"], got |-> NoAnswer, then |-> "browse"]

NoEdit == [replaces |-> FALSE, added |-> FALSE, removed |-> FALSE]

TuiInit ==
  /\ app = NoApp
  /\ handler = [Idle EXCEPT !.pc = "start"]
  /\ keys = 0 /\ edit = NoEdit

-----------------------------------------------------------------------------
(* App                                                                     *)

IsUki(a) == a.backend = "uki"
IsLoader(a) == a.backend = "systemd-boot"
IsGrub(a) == ~IsUki(a) /\ ~IsLoader(a)

\* App::new_with_backend sorts the rows by key.
Rows(a) == Select(KeyOrder, IF IsGrub(a) THEN DOMAIN a.shown ELSE a.shown)

\* Indices count from 0, as in the code; the rows from 1.
HasRow(a) == a.selected < Len(Rows(a))
CurrentKey(a) == Rows(a)[a.selected + 1]

\* A mutated form: a list of the same backend is taken for the one shown.
ApplyEntriesEtag(a, shown, etag) ==
  [a EXCEPT !.shown = IF @ = NoAnswer THEN shown ELSE @, !.etag = etag]

\* apply_grub_entries: the selection stays within the new rows.
ApplyEntries(a, shown, etag) ==
  LET b == [a EXCEPT !.shown = shown, !.etag = etag]
      last == Len(Rows(b)) - 1
  IN [b EXCEPT !.selected = IF last < 0 THEN 0 ELSE IF @ > last THEN last ELSE @]

MoveUp(a) ==
  IF Rows(a) = <<>> THEN a
  ELSE [a EXCEPT !.selected = IF @ = 0 THEN Len(Rows(a)) - 1 ELSE @ - 1]

MoveDown(a) ==
  IF Rows(a) = <<>> THEN a ELSE [a EXCEPT !.selected = (@ + 1) % Len(Rows(a))]

OpenEdit(a) ==
  IF ~HasRow(a) THEN a
  ELSE [a EXCEPT !.original = CurrentKey(a), !.mode = "editing",
                 !.buf = IF IsUki(a) THEN CurrentKey(a) ELSE a.shown[CurrentKey(a)]]

OpenAdd(a) == [a EXCEPT !.buf = "", !.original = NoKey, !.mode = "editing"]

CancelEdit(a) == [a EXCEPT !.buf = "", !.original = NoKey, !.mode = "browse"]

ShowError(a) == [a EXCEPT !.mode = "error"]
DismissError(a) == [a EXCEPT !.mode = "browse"]

-----------------------------------------------------------------------------
(* Keys                                                                    *)

\* The next key of the terminal, in the mode the application is in.
Key(mode) == /\ handler.pc = "idle" /\ ~app.quit /\ app.mode = mode
             /\ keys < MaxKeys /\ keys' = keys + 1
             /\ UNCHANGED <<svc, others>>

Call(op, call) == handler' = [Idle EXCEPT !.pc = "call", !.op = op, !.call = call]

ReloadCall(a) ==
  IF IsLoader(a) THEN [m |-> "ListLoaderEntries"]
  ELSE IF IsUki(a) THEN [m |-> "ReadKernelCmdline"] ELSE [m |-> "ReadConfig"]

\* Keys that change what is shown, and call nothing.
KeyBrowse ==
  /\ Key("browse")
  /\ \/ app' = MoveUp(app)
     \/ app' = MoveDown(app)
     \/ ~IsLoader(app) /\ app' = OpenEdit(app)
     \/ IsUki(app) /\ app' = OpenAdd(app)
     \/ app' = [app EXCEPT !.quit = TRUE]
  /\ UNCHANGED <<handler, edit>>

KeyReload == Key("browse") /\ Call("reload", ReloadCall(app)) /\ UNCHANGED <<app, edit>>

\* Enter on a loader entry.
KeySetDefault ==
  /\ Key("browse") /\ IsLoader(app) /\ HasRow(app)
  /\ Call("set_default", [m |-> "SetLoaderDefault", key |-> CurrentKey(app), etag |-> app.etag])
  /\ UNCHANGED <<app, edit>>

KeyDelete ==
  /\ Key("browse") /\ IsUki(app) /\ HasRow(app)
  /\ Call("delete", [m |-> "RemoveKernelParam", key |-> CurrentKey(app), etag |-> app.etag])
  /\ UNCHANGED <<app, edit>>

\* push_char and pop_char, until the buffer holds one of these texts.
KeyType ==
  /\ Key("editing")
  /\ \E text \in TypedTexts[app.backend] : app' = [app EXCEPT !.buf = text]
  /\ UNCHANGED <<handler, edit>>

KeyEscape ==
  \/ Key("editing") /\ app' = CancelEdit(app) /\ UNCHANGED <<handler, edit>>
  \/ Key("error") /\ app' = DismissError(app) /\ edit' = NoEdit /\ UNCHANGED handler

\* commit_grub_edit; the editor is opened on a row, and the rows do not change
\* while it is open.
KeyCommitGrub ==
  /\ Key("editing") /\ ~IsUki(app) /\ HasRow(app)
  /\ Call("commit_grub", [m |-> "SetValue", key |-> CurrentKey(app), value |-> app.buf, etag |-> app.etag])
  /\ UNCHANGED <<app, edit>>

\* commit_uki_edit: an edit adds the new parameter first.
KeyCommitUki ==
  /\ Key("editing") /\ IsUki(app)
  /\ IF app.buf = ""
     THEN app' = CancelEdit(app) /\ edit' = NoEdit /\ UNCHANGED handler
     ELSE /\ Call("add", [m |-> "AddKernelParam", key |-> app.buf, etag |-> app.etag])
          /\ edit' = [NoEdit EXCEPT !.replaces = app.original \notin {NoKey, app.buf}]
          /\ UNCHANGED app

-----------------------------------------------------------------------------
(* Answers                                                                 *)

Answer(op, o) == /\ handler.pc = "call" /\ handler.op = op
                 /\ o \in Outcomes(handler.call, svc)
                 /\ svc' = o.svc
                 /\ UNCHANGED <<others, keys>>

\* A reload, and then the popup if one is due.
Reload(a, then) ==
  handler' = [Idle EXCEPT !.pc = "call", !.op = "reload", !.call = ReloadCall(a), !.then = then]

Reported(then, a) == IF then = "error" THEN ShowError(a) ELSE a

\* resolve_backend, and load_app: a backend that cannot be asked is taken for GRUB.
TuiStart ==
  /\ handler.pc = "start"
  /\ \E o \in Outcomes([m |-> "GetActiveBackend"], svc) :
       /\ svc' = o.svc
       /\ IF handler.op = "none"
          THEN /\ handler' = [handler EXCEPT !.pc = IF o.ok THEN "start" ELSE "exit", !.op = "load"]
               /\ UNCHANGED app
          ELSE LET a == [app EXCEPT !.backend = IF o.ok THEN o.value ELSE "grub"] IN
               app' = a /\ Call("load", ReloadCall(a))
  /\ UNCHANGED <<others, keys, edit>>

\* load_grub, load_systemd_boot, load_uki and reload_config. A failed read of
\* the ETag of loader.conf leaves an empty ETag.
AnswerLoad(o) ==
  /\ Answer("load", o) \/ Answer("reload", o)
  /\ LET asked == handler.call.m
         etag == IF o.ok THEN o.value.etag ELSE NoEtag
     IN IF asked = "GetLoaderConfEtag"
        THEN app' = Reported(handler.then, ApplyEntries(app, handler.got, etag)) /\ handler' = Idle
        ELSE IF ~o.ok
        THEN IF handler.op = "load"
             THEN handler' = [Idle EXCEPT !.pc = "exit"] /\ UNCHANGED app
             ELSE handler' = Idle /\ app' = ShowError(app)
        ELSE IF asked = "ListLoaderEntries"
        THEN /\ handler' = [handler EXCEPT !.call = [m |-> "GetLoaderConfEtag"], !.got = o.value.content]
             /\ UNCHANGED app
        ELSE app' = Reported(handler.then, ApplyEntries(app, o.value.content, etag)) /\ handler' = Idle
  /\ UNCHANGED edit

\* set_default_entry, delete_kernel_param and commit_grub_edit.
AnswerWrite(o) ==
  /\ \/ Answer("set_default", o) \/ Answer("delete", o) \/ Answer("commit_grub", o)
  /\ LET a == IF handler.op = "commit_grub" THEN CancelEdit(app) ELSE app IN
       IF o.ok THEN app' = a /\ Reload(a, "browse")
               ELSE app' = ShowError(a) /\ handler' = Idle
  /\ UNCHANGED edit

\* commit_uki_edit, the parameter added: an edit reads the new ETag, then
\* removes the old parameter.
AnswerAdd(o) ==
  /\ Answer("add", o)
  /\ edit' = [edit EXCEPT !.added = o.ok]
  /\ IF ~o.ok THEN app' = ShowError(CancelEdit(app)) /\ handler' = Idle
     ELSE IF edit.replaces
     THEN /\ handler' = [handler EXCEPT !.op = "reread", !.call = [m |-> "ReadKernelCmdline"]]
          /\ UNCHANGED app
     ELSE app' = CancelEdit(app) /\ Reload(app, "browse")

\* A mutated form: a removal that failed is not reported.
AfterRemovalSilent(ok) == "browse"

\* The reload after an edit ends in the popup when the old parameter remains.
AfterRemoval(ok) == IF ok THEN "browse" ELSE "error"

AnswerReread(o) ==
  /\ Answer("reread", o)
  /\ IF o.ok
     THEN /\ Call("remove_old", [m |-> "RemoveKernelParam", key |-> app.original, etag |-> o.value.etag])
          /\ UNCHANGED app
     ELSE app' = CancelEdit(app) /\ Reload(app, AfterRemoval(FALSE))
  /\ UNCHANGED edit

AnswerRemoveOld(o) ==
  /\ Answer("remove_old", o)
  /\ edit' = [edit EXCEPT !.removed = o.ok]
  /\ app' = CancelEdit(app) /\ Reload(app, AfterRemoval(o.ok))

TuiKey == KeyBrowse \/ KeyReload \/ KeySetDefault \/ KeyDelete \/ KeyType \/ KeyEscape
          \/ KeyCommitGrub \/ KeyCommitUki

TuiAnswer ==
  /\ handler.pc = "call"
  /\ \E o \in Outcomes(handler.call, svc) :
       AnswerLoad(o) \/ AnswerWrite(o) \/ AnswerAdd(o) \/ AnswerReread(o) \/ AnswerRemoveOld(o)

TuiNext == TuiKey \/ TuiStart \/ TuiAnswer
=============================================================================
