--------------------------------- MODULE Gui ---------------------------------
(***************************************************************************)
(* The desktop client (crates/gui/src): the window, whose callbacks put    *)
(* messages into a bounded channel, and the backend task, which takes them *)
(* one at a time, calls the daemon, and puts its own follow-up fetches     *)
(* into the same channel. The destructive operations pass a confirmation   *)
(* sheet, armed by ConfirmationSession.                                    *)
(*                                                                         *)
(* The window repaints at once; what it shows otherwise lags behind the    *)
(* task as the messages do.                                                *)
(***************************************************************************)
EXTENDS Backend

CONSTANTS
  NoRequest,     \* a confirmation that is not armed
  QueueSize      \* the capacity of the channel (32 in the code)

VARIABLES
  menuOf,        \* the clicks this user makes: a set of messages
  clicks,        \* bound: how many clicks the user may still make
  queue,         \* the channel of UiMessages
  task,          \* the backend task: [pc, msg, call, got, req, todo]
  vm,            \* ViewModel
  boot,          \* BootEntriesModel
  typed,         \* GrubSettingsModel
  session,       \* ConfirmationSession
  sheet,         \* the confirmation sheet: [open, verb, shown, pass]
  rows           \* the snapshots listed

guiVars == <<menuOf, clicks, queue, task, vm, boot, typed, session, sheet, rows>>
models  == <<vm, boot, typed, session, rows>>

Msg(m) == [m |-> m]
Fetches == <<Msg("FetchEntries"), Msg("FetchGrubMenu"), Msg("FetchGrubSettings"), Msg("FetchSnapshots")>>

NoTask == [pc |-> "recv", msg |-> Msg("none"), call |-> Msg("none"), got |-> NoAnswer,
           req |-> NoRequest, todo |-> <<>>]

Unloaded == [ready |-> FALSE, backend |-> "", shown |-> NoAnswer, etag |-> NoEtag]

-----------------------------------------------------------------------------
(* BootEntriesModel                                                        *)

NoEntries == [entries |-> <<>>, etag |-> NoEtag, selected |-> 0, status |-> "idle",
              default |-> "", config |-> NoEtag, staged |-> ""]

BeginLoad(b) == [b EXCEPT !.entries = <<>>, !.etag = NoEtag, !.selected = 0,
                          !.staged = "", !.status = "loading"]

FinishLoad(b, entries, etag) ==
  [b EXCEPT !.entries = entries, !.etag = etag, !.staged = "",
            !.selected = IF entries = <<>> THEN 0 ELSE 1,
            !.status = IF entries = <<>> THEN "empty" ELSE "ready"]

FailLoad(b) == [BeginLoad(b) EXCEPT !.status = "error"]

\* A mutated form: the default is kept once it is known.
SetConfigStateOnce(b, path, etag) ==
  [b EXCEPT !.default = IF @ = "" THEN path ELSE @, !.config = etag, !.staged = ""]

SetConfigState(b, path, etag) == [b EXCEPT !.default = path, !.config = etag, !.staged = ""]

MoveSelection(b, delta) ==
  IF b.selected = 0 THEN b
  ELSE [b EXCEPT !.selected = IF delta < 0 THEN IF @ > 1 THEN @ - 1 ELSE 1
                              ELSE IF @ < Len(b.entries) THEN @ + 1 ELSE @]

CanStage(b) ==
  /\ b.selected \in DOMAIN b.entries
  /\ ~b.entries[b.selected].submenu
  /\ b.entries[b.selected].path # b.default
  /\ b.etag # NoEtag /\ b.config # NoEtag

PendingDefault(b) ==
  [kind |-> "default", previous |-> b.default, selected |-> b.staged,
   menuEtag |-> b.etag, etag |-> b.config]

-----------------------------------------------------------------------------
(* GrubSettingsModel                                                       *)

NoSettings == [baseline |-> NoAnswer, current |-> NoAnswer, etag |-> NoEtag, status |-> "idle"]

Changes(t) ==
  IF t.current = NoAnswer THEN {}
  ELSE {c \in {[key |-> k, previous |-> SettingText(t.baseline, k), desired |-> SettingText(t.current, k)] :
                  k \in Range(SettingKeys)} : c.previous # c.desired}

\* A value the parser or the validation refuses is not staged.
StageValue(t, field, value) ==
  IF t.current = NoAnswer \/ value \notin (IF field = "timeout_seconds" THEN Timeouts ELSE Styles) THEN t
  ELSE [t EXCEPT !.current[field] = value]

StageToggle(t, field, enabled) ==
  IF t.current = NoAnswer THEN t ELSE [t EXCEPT !.current[field] = enabled]

PendingSettings(t) ==
  [kind |-> "settings", settings |-> t.current, etag |-> t.etag, changes |-> Changes(t)]

-----------------------------------------------------------------------------
(* ConfirmationSession: preparing one operation disarms the others         *)

Disarmed == [rebuild |-> FALSE, default |-> NoRequest, settings |-> NoRequest]

\* live_rebuild_preview and demo_rebuild_preview.
RebuildReady(v, s) == IsDemo(s) \/ (v.backend = "grub" /\ v.etag # NoEtag)

DefaultReady(r) ==
  /\ r.menuEtag # NoEtag /\ r.etag # NoEtag
  /\ r.previous # "" /\ r.selected # "" /\ r.previous # r.selected

SettingsReady(r) == r.etag # NoEtag /\ r.changes # {}

PrepareRebuild(v, s) == [Disarmed EXCEPT !.rebuild = RebuildReady(v, s)]
PrepareGrubDefault(r) == [Disarmed EXCEPT !.default = IF DefaultReady(r) THEN r ELSE NoRequest]
PrepareGrubSettings(r) == [Disarmed EXCEPT !.settings = IF SettingsReady(r) THEN r ELSE NoRequest]

\* cancel: nothing is armed.
\* A mutated form: only the rebuild is disarmed.
CancelRebuild(sess) == [sess EXCEPT !.rebuild = FALSE]

Cancel(sess) == Disarmed

\* confirm_grub_default: the request, which is then no longer armed.
ConfirmGrubDefault(sess) == [req |-> sess.default, rest |-> [sess EXCEPT !.default = NoRequest]]

\* A mutated form: what is staged when the confirmation arrives.
ConfirmWhatIsStaged(sess, t) ==
  [req |-> IF SettingsReady(PendingSettings(t)) THEN PendingSettings(t) ELSE NoRequest, rest |-> Disarmed]

ConfirmGrubSettings(sess, t) == [req |-> sess.settings, rest |-> [sess EXCEPT !.settings = NoRequest]]

ClosedSheet == [open |-> FALSE, verb |-> "", shown |-> NoRequest, pass |-> FALSE]
Sheet(verb, shown, pass) == [open |-> TRUE, verb |-> verb, shown |-> shown, pass |-> pass]

-----------------------------------------------------------------------------
(* The window's thread                                                     *)

GuiInit ==
  /\ queue = <<>>
  /\ task = [NoTask EXCEPT !.pc = "start"]
  /\ vm = Unloaded /\ boot = NoEntries /\ typed = NoSettings
  /\ session = Disarmed /\ sheet = ClosedSheet
  /\ rows = {}

\* resolve_backend: the daemon must answer once, or the window only shows the error.
GuiStart ==
  /\ task.pc = "start"
  /\ \E o \in Outcomes(Msg("GetActiveBackend"), svc) :
       IF o.ok THEN queue' = Fetches /\ task' = NoTask
               ELSE queue' = queue /\ task' = [task EXCEPT !.pc = "off"]
  /\ UNCHANGED <<svc, others, menuOf, clicks, models, sheet>>

\* queue_ui_message: try_send, a message that does not fit is dropped.
Queued(q, m) == IF Len(q) < QueueSize THEN Append(q, m) ELSE q

Previews == {"PrepareGrubDefault", "PrepareGrubSettings", "PrepareRebuild"}

Due(q) == \E i \in DOMAIN q : q[i].m \in Previews

\* The calls during which the window shows that it is busy.
Busy == task.pc = "call" /\ task.msg.m \in {"ApplyGrubDefault", "ApplyGrubSettings", "RebuildGrub",
                                            "BackupNvram", "SignAndEnrollUki", "RestoreSnapshot"}

\* What the controls of the pages send.
Controls == Previews \union
  {"SelectGrubMenuEntry", "MoveGrubMenuSelection", "StageGrubDefault", "DiscardGrubDefault",
   "StageGrubSetting", "StageGrubToggle", "DiscardGrubSettings", "FetchEntries", "FetchGrubMenu",
   "FetchGrubSettings", "FetchSnapshots", "BackupNvram", "SignAndEnrollUki"}

\* A control of the typed settings sets a field of its kind.
SetsField(m) ==
  /\ m.m = "StageGrubSetting" => m.field \in {"timeout_seconds", "timeout_style"}
  /\ m.m = "StageGrubToggle" => m.field \in {"detect_other_os", "generate_recovery_entries"} /\ m.enabled \in BOOLEAN

\* Which controls the pages enable.
Enabled(m) ==
  CASE m.m = "StageGrubDefault" -> /\ boot.selected \in DOMAIN boot.entries
                                   /\ boot.entries[boot.selected].path # boot.default
    [] m.m \in {"PrepareGrubDefault", "DiscardGrubDefault"} -> boot.staged # ""
    [] m.m \in {"PrepareGrubSettings", "DiscardGrubSettings"} -> Changes(typed) # {}
    [] m.m \in {"BackupNvram", "SignAndEnrollUki"} -> ~Busy
    [] OTHER -> TRUE

CanClick == task.pc \notin {"start", "off"} /\ clicks > 0

\* A control of a page, behind the sheet when that is open.
GuiClick(m) ==
  /\ CanClick /\ ~sheet.open /\ Enabled(m)
  /\ clicks' = clicks - 1
  /\ queue' = IF m.m = "FetchEntries" THEN Queued(Queued(queue, m), Msg("FetchGrubMenu"))
                                      ELSE Queued(queue, m)
  /\ UNCHANGED <<svc, others, menuOf, task, models, sheet>>

\* restore_snapshot opens the sheet on the window's own thread.
GuiOpenRestore(id) ==
  /\ CanClick /\ ~sheet.open
  /\ clicks' = clicks - 1
  /\ sheet' = Sheet("Restore Snapshot", id, TRUE)
  /\ UNCHANGED <<svc, others, menuOf, queue, task, models>>

\* What is sent for a confirmed sheet. The message carries nothing of what the sheet
\* shows; "shown" and "due", whether a preview was then still to be handled, are
\* there for the properties.
Applying(m) == [m |-> m, shown |-> sheet.shown, due |-> Due(queue)]

\* confirmation_confirmed: the verb of the sheet says what to send.
GuiConfirm ==
  /\ CanClick /\ sheet.open /\ sheet.pass
  /\ clicks' = clicks - 1
  /\ sheet' = ClosedSheet
  /\ queue' = Queued(queue,
                CASE sheet.verb = "Rewrite GRUB" -> Msg("RebuildGrub")
                  [] sheet.verb = "Restore Snapshot" -> [m |-> "RestoreSnapshot", id |-> sheet.shown]
                  [] sheet.verb = "Set default entry" -> Applying("ApplyGrubDefault")
                  [] sheet.verb = "Apply GRUB settings" -> Applying("ApplyGrubSettings"))
  /\ UNCHANGED <<svc, others, menuOf, task, models>>

GuiCancel ==
  /\ CanClick /\ sheet.open
  /\ clicks' = clicks - 1
  /\ sheet' = ClosedSheet
  /\ queue' = Queued(queue, Msg("CancelConfirmation"))
  /\ UNCHANGED <<svc, others, menuOf, task, models>>

-----------------------------------------------------------------------------
(* The backend task: a message taken                                       *)

Takes(m) == /\ task.pc = "recv" /\ queue # <<>> /\ Head(queue).m = m
            /\ queue' = Tail(queue)
            /\ UNCHANGED <<svc, others, menuOf, clicks>>

Calls(c, req) == task' = [task EXCEPT !.pc = "call", !.msg = Head(queue), !.call = c, !.req = req]

\* The message is done with, without a call.
Handled == task' = task

TakeFetchEntries ==
  /\ Takes("FetchEntries")
  /\ session' = Cancel(session)
  /\ boot' = SetConfigState(boot, "", NoEtag)
  /\ sheet' = ClosedSheet
  /\ vm' = Unloaded
  /\ Calls(Msg("GetActiveBackend"), NoRequest)
  /\ UNCHANGED <<typed, rows>>

TakeFetchGrubMenu ==
  /\ Takes("FetchGrubMenu")
  /\ boot' = BeginLoad(boot)
  /\ Calls(Msg("ListGrubEntries"), NoRequest)
  /\ UNCHANGED <<vm, typed, session, sheet, rows>>

HasGrub(v) == v.backend \in {"grub", "grub (mock)"}

TakeFetchGrubSettings ==
  /\ Takes("FetchGrubSettings")
  /\ typed' = [NoSettings EXCEPT !.status = IF HasGrub(vm) THEN "loading" ELSE "error"]
  /\ IF HasGrub(vm) THEN Calls(Msg("ReadGrubSettings"), NoRequest) ELSE Handled
  /\ UNCHANGED <<vm, boot, session, sheet, rows>>

TakeBootEntriesEdit ==
  /\ \/ /\ Takes("SelectGrubMenuEntry")
        /\ boot' = IF Head(queue).index \in DOMAIN boot.entries
                   THEN [boot EXCEPT !.selected = Head(queue).index] ELSE boot
     \/ Takes("MoveGrubMenuSelection") /\ boot' = MoveSelection(boot, Head(queue).delta)
     \/ /\ Takes("StageGrubDefault")
        /\ boot' = IF CanStage(boot)
                   THEN [boot EXCEPT !.staged = boot.entries[boot.selected].path] ELSE boot
     \/ Takes("DiscardGrubDefault") /\ boot' = [boot EXCEPT !.staged = ""]
  /\ Handled
  /\ UNCHANGED <<vm, typed, session, sheet, rows>>

TakePrepareGrubDefault ==
  /\ Takes("PrepareGrubDefault")
  /\ LET req == PendingDefault(boot) IN
       IF boot.staged = "" THEN UNCHANGED <<session, sheet>>
       ELSE /\ session' = PrepareGrubDefault(req)
            /\ sheet' = Sheet("Set default entry", req, DefaultReady(req))
  /\ Handled
  /\ UNCHANGED <<vm, boot, typed, rows>>

TakeApplyGrubDefault ==
  /\ Takes("ApplyGrubDefault")
  /\ LET taken == ConfirmGrubDefault(session)
         req == taken.req
     IN /\ session' = taken.rest
        /\ IF req = NoRequest THEN Handled
           ELSE Calls([m |-> "SetGrubDefault", path |-> req.selected,
                       menuEtag |-> req.menuEtag, etag |-> req.etag], req)
  /\ UNCHANGED <<vm, boot, typed, sheet, rows>>

TakeSettingsEdit ==
  /\ \/ Takes("StageGrubSetting") /\ typed' = StageValue(typed, Head(queue).field, Head(queue).value)
     \/ Takes("StageGrubToggle") /\ typed' = StageToggle(typed, Head(queue).field, Head(queue).enabled)
     \/ Takes("DiscardGrubSettings") /\ typed' = [typed EXCEPT !.current = typed.baseline]
  /\ Handled
  /\ UNCHANGED <<vm, boot, session, sheet, rows>>

TakePrepareGrubSettings ==
  /\ Takes("PrepareGrubSettings")
  /\ LET req == PendingSettings(typed) IN
       IF ~SettingsReady(req) THEN UNCHANGED <<session, sheet>>
       ELSE /\ session' = PrepareGrubSettings(req)
            /\ sheet' = Sheet("Apply GRUB settings", req, TRUE)
  /\ Handled
  /\ UNCHANGED <<vm, boot, typed, rows>>

TakeApplyGrubSettings ==
  /\ Takes("ApplyGrubSettings")
  /\ LET taken == ConfirmGrubSettings(session, typed)
         req == taken.req
     IN /\ session' = taken.rest
        /\ IF req = NoRequest THEN Handled
           ELSE Calls([m |-> "SetGrubSettings", settings |-> req.settings, etag |-> req.etag], req)
  /\ UNCHANGED <<vm, boot, typed, sheet, rows>>

TakePrepareRebuild ==
  /\ Takes("PrepareRebuild")
  /\ session' = PrepareRebuild(vm, svc)
  /\ sheet' = Sheet("Rewrite GRUB", NoRequest, RebuildReady(vm, svc))
  /\ Handled
  /\ UNCHANGED <<vm, boot, typed, rows>>

TakeRebuild ==
  /\ Takes("RebuildGrub")
  /\ session' = [session EXCEPT !.rebuild = FALSE]
  /\ IF session.rebuild THEN Calls(Msg("RebuildGrubConfig"), NoRequest) ELSE Handled
  /\ UNCHANGED <<vm, boot, typed, sheet, rows>>

TakeCancel ==
  /\ Takes("CancelConfirmation")
  /\ session' = Cancel(session)
  /\ Handled
  /\ UNCHANGED <<vm, boot, typed, sheet, rows>>

TakePlain ==
  /\ \/ Takes("BackupNvram") /\ Calls(Msg("BackupNvram"), NoRequest)
     \/ Takes("SignAndEnrollUki") /\ Calls(Msg("SignAndEnrollUki"), NoRequest)
     \/ Takes("FetchSnapshots") /\ Calls(Msg("ListSnapshots"), NoRequest)
  /\ UNCHANGED <<models, sheet>>

\* ViewModel::restore_snapshot: the state must be loaded; its ETag goes along,
\* whichever it is when the message is handled.
TakeRestore ==
  /\ Takes("RestoreSnapshot")
  /\ IF vm.ready /\ vm.etag # NoEtag
     THEN Calls([m |-> "RestoreSnapshot", id |-> Head(queue).id, etag |-> vm.etag], NoRequest)
     ELSE Handled
  /\ UNCHANGED <<models, sheet>>

-----------------------------------------------------------------------------
(* The backend task: an answer                                             *)

Answers(m, o) == /\ task.pc = "call" /\ task.msg.m = m
                 /\ o \in Outcomes(task.call, svc)
                 /\ svc' = o.svc
                 /\ UNCHANGED <<others, menuOf, clicks, queue, sheet, session>>

\* The message is done with, but for these messages to send.
Then(todo) == task' = [NoTask EXCEPT !.pc = IF todo = <<>> THEN "recv" ELSE "send", !.todo = todo]

\* The call that reads the state of a backend.
LoadCall(host) ==
  CASE host = "systemd-boot" -> Msg("ListLoaderEntries")
    [] host = "uki" -> Msg("ReadKernelCmdline")
    [] OTHER -> Msg("ReadConfig")

Loaded(host, shown, etag) == [ready |-> TRUE, backend |-> host, shown |-> shown, etag |-> etag]

DefaultOf(shown) == IF "GRUB_DEFAULT" \in DOMAIN shown THEN shown["GRUB_DEFAULT"] ELSE ""

\* ViewModel::load: the backend, then its state; the loader entries and the
\* ETag of loader.conf are two reads.
AnswerFetchEntries(o) ==
  /\ Answers("FetchEntries", o)
  /\ LET asked == task.call.m
         host == IF asked = "GetActiveBackend" THEN o.value ELSE task.got.host
     IN IF ~o.ok THEN Then(<<>>) /\ UNCHANGED <<vm, boot>>
        ELSE IF asked = "GetActiveBackend"
        THEN /\ task' = [task EXCEPT !.call = LoadCall(host), !.got = [host |-> host]]
             /\ UNCHANGED <<vm, boot>>
        ELSE IF asked = "ListLoaderEntries"
        THEN /\ task' = [task EXCEPT !.call = Msg("GetLoaderConfEtag"),
                                     !.got = [host |-> host, shown |-> o.value.content]]
             /\ UNCHANGED <<vm, boot>>
        ELSE LET shown == IF asked = "GetLoaderConfEtag" THEN task.got.shown ELSE o.value.content IN
             /\ vm' = Loaded(host, shown, o.value.etag)
             /\ boot' = SetConfigState(boot, IF asked = "ReadConfig" THEN DefaultOf(shown) ELSE "",
                                       o.value.etag)
             /\ Then(<<>>)
  /\ UNCHANGED <<typed, rows>>

AnswerFetchGrubMenu(o) ==
  /\ Answers("FetchGrubMenu", o)
  /\ boot' = IF o.ok THEN FinishLoad(boot, o.value.content, o.value.etag) ELSE FailLoad(boot)
  /\ Then(<<>>)
  /\ UNCHANGED <<vm, typed, rows>>

AnswerFetchGrubSettings(o) ==
  /\ Answers("FetchGrubSettings", o)
  /\ typed' = IF o.ok
              THEN [baseline |-> o.value.content, current |-> o.value.content,
                    etag |-> o.value.etag, status |-> "ready"]
              ELSE [NoSettings EXCEPT !.status = "error"]
  /\ Then(<<>>)
  /\ UNCHANGED <<vm, boot, rows>>

\* An applied change is followed by fetches, whether it succeeded or not.
AnswerApply(o) ==
  /\ \/ Answers("ApplyGrubDefault", o) /\ Then(<<Msg("FetchEntries"), Msg("FetchGrubMenu")>>)
     \/ /\ Answers("ApplyGrubSettings", o)
        /\ Then(<<Msg("FetchEntries"), Msg("FetchGrubMenu"), Msg("FetchGrubSettings")>>)
  /\ UNCHANGED <<vm, boot, typed, rows>>

\* A mutated form: a failed restore is tried again.
AfterRestoreRetries(o) == IF o.ok THEN <<Msg("FetchEntries"), Msg("FetchSnapshots")>> ELSE <<task.msg>>

\* A restore is followed by fetches when it succeeded.
AfterRestore(o) == IF o.ok THEN <<Msg("FetchEntries"), Msg("FetchSnapshots")>> ELSE <<>>

AnswerRestore(o) ==
  /\ Answers("RestoreSnapshot", o)
  /\ Then(AfterRestore(o))
  /\ UNCHANGED <<vm, boot, typed, rows>>

AnswerPlain(o) ==
  /\ \/ Answers("RebuildGrub", o) /\ UNCHANGED rows
     \/ Answers("BackupNvram", o) /\ UNCHANGED rows
     \/ Answers("SignAndEnrollUki", o) /\ UNCHANGED rows
     \/ Answers("FetchSnapshots", o) /\ rows' = IF o.ok THEN o.value ELSE rows
  /\ Then(<<>>)
  /\ UNCHANGED <<vm, boot, typed>>

\* tx_clone.send().await: the task waits for room in the channel only it empties.
GuiFollow ==
  /\ task.pc = "send" /\ Len(queue) < QueueSize
  /\ queue' = Append(queue, Head(task.todo))
  /\ Then(Tail(task.todo))
  /\ UNCHANGED <<svc, others, menuOf, clicks, models, sheet>>

GuiTake ==
  \/ TakeFetchEntries \/ TakeFetchGrubMenu \/ TakeFetchGrubSettings
  \/ TakeBootEntriesEdit \/ TakePrepareGrubDefault \/ TakeApplyGrubDefault
  \/ TakeSettingsEdit \/ TakePrepareGrubSettings \/ TakeApplyGrubSettings
  \/ TakePrepareRebuild \/ TakeRebuild \/ TakeCancel \/ TakePlain \/ TakeRestore

GuiAnswer ==
  /\ task.pc = "call"
  /\ \E o \in Outcomes(task.call, svc) :
       \/ AnswerFetchEntries(o) \/ AnswerFetchGrubMenu(o) \/ AnswerFetchGrubSettings(o)
       \/ AnswerApply(o) \/ AnswerRestore(o) \/ AnswerPlain(o)

GuiWindow == (\E m \in menuOf : GuiClick(m)) \/ (\E id \in rows : GuiOpenRestore(id))
             \/ GuiConfirm \/ GuiCancel

GuiTask == GuiStart \/ GuiTake \/ GuiAnswer \/ GuiFollow

GuiNext == GuiWindow \/ GuiTask
=============================================================================
