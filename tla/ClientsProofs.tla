---------------------------- MODULE ClientsProofs ----------------------------
(***************************************************************************)
(* Proofs about the clients: an edit of the terminal client is whole or    *)
(* reported, rescue leaves only roots mounted, and what the desktop client *)
(* arms and applies is what the user saw and confirmed.                    *)
(***************************************************************************)
EXTENDS Clients, TextsProofs

-----------------------------------------------------------------------------
(* The terminal client: EditIsWhole                                        *)

\* The records have their fields; an edit under way is at the call its parts done
\* say, and one that ended in part is about to be reported, or is.
EditInv ==
  /\ DOMAIN app = DOMAIN NoApp /\ DOMAIN handler = DOMAIN Idle /\ DOMAIN edit = DOMAIN NoEdit
  /\ edit.removed => edit.added
  /\ handler.pc = "call" =>
       /\ handler.op = "add" => ~edit.added /\ ~edit.removed
       /\ handler.op \in {"reread", "remove_old"} => edit.replaces /\ edit.added /\ ~edit.removed
  /\ edit.replaces /\ ~(edit.added /\ edit.removed) =>
       \/ handler.pc = "idle" /\ app.mode = "error"
       \/ handler.pc = "call" /\ handler.op \in {"add", "reread", "remove_old"}
       \/ handler.pc = "call" /\ handler.op = "reload" /\ handler.then = "error"

\* The handler that Call leaves.
LEMMA CallHandler ==
  ASSUME NEW op, NEW call, Call(op, call)
  PROVE  /\ DOMAIN handler' = DOMAIN Idle /\ handler'.pc = "call" /\ handler'.op = op
         /\ handler'.call = call /\ handler'.then = "browse"
  BY DEF Call, Idle

\* The handler that Reload leaves.
LEMMA ReloadHandler ==
  ASSUME NEW a, NEW then, Reload(a, then)
  PROVE  /\ DOMAIN handler' = DOMAIN Idle /\ handler'.pc = "call" /\ handler'.op = "reload"
         /\ handler'.call = ReloadCall(a) /\ handler'.then = then
  BY DEF Reload, Idle

\* What the changes of the application do to the fields the proofs are about.
LEMMA AppEdits ==
  ASSUME NEW a, DOMAIN a = DOMAIN NoApp
  PROVE  /\ DOMAIN MoveUp(a) = DOMAIN NoApp /\ DOMAIN MoveDown(a) = DOMAIN NoApp
         /\ DOMAIN OpenEdit(a) = DOMAIN NoApp /\ DOMAIN OpenAdd(a) = DOMAIN NoApp
         /\ DOMAIN CancelEdit(a) = DOMAIN NoApp
         /\ DOMAIN ShowError(a) = DOMAIN NoApp /\ ShowError(a).mode = "error"
         /\ DOMAIN DismissError(a) = DOMAIN NoApp
         /\ \A shown, etag, then :
              /\ DOMAIN Reported(then, ApplyEntries(a, shown, etag)) = DOMAIN NoApp
              /\ then = "error" => Reported(then, ApplyEntries(a, shown, etag)).mode = "error"
<1> USE DEF NoApp
<1>1. DOMAIN MoveUp(a) = DOMAIN NoApp /\ DOMAIN MoveDown(a) = DOMAIN NoApp
  BY DEF MoveUp, MoveDown
<1>2. DOMAIN OpenEdit(a) = DOMAIN NoApp /\ DOMAIN OpenAdd(a) = DOMAIN NoApp
  BY DEF OpenEdit, OpenAdd
<1>3. /\ DOMAIN CancelEdit(a) = DOMAIN NoApp /\ DOMAIN DismissError(a) = DOMAIN NoApp
      /\ DOMAIN ShowError(a) = DOMAIN NoApp /\ ShowError(a).mode = "error"
  BY DEF CancelEdit, ShowError, DismissError
<1>4. ASSUME NEW shown, NEW etag
      PROVE  DOMAIN ApplyEntries(a, shown, etag) = DOMAIN NoApp
  BY DEF ApplyEntries
<1>5. QED
  BY <1>1, <1>2, <1>3, <1>4 DEF Reported, ShowError

\* A key keeps the strengthening.
LEMMA KeyEdit == ASSUME EditInv, TuiKey PROVE EditInv'
<1> USE AppEdits
<1>1. CASE KeyBrowse
  BY <1>1 DEF KeyBrowse, Key, EditInv, NoApp
<1>2. CASE KeyReload \/ KeySetDefault \/ KeyDelete \/ KeyCommitGrub
  BY <1>2, CallHandler DEF KeyReload, KeySetDefault, KeyDelete, KeyCommitGrub, Key, EditInv
<1>3. CASE KeyType
  BY <1>3 DEF KeyType, Key, EditInv, NoApp
<1>4. CASE KeyEscape
  BY <1>4 DEF KeyEscape, Key, EditInv, NoEdit
<1>5. CASE KeyCommitUki
  <2>1. handler.pc = "idle" /\ app.mode = "editing"
    BY <1>5 DEF KeyCommitUki, Key
  <2>2. CASE app.buf = ""
    <3>1. app' = CancelEdit(app) /\ edit' = NoEdit /\ handler' = handler
      BY <1>5, <2>2 DEF KeyCommitUki
    <3>2. DOMAIN app' = DOMAIN NoApp
      BY <3>1 DEF EditInv
    <3>3. DOMAIN edit' = DOMAIN NoEdit /\ ~edit'.removed /\ ~edit'.replaces
      BY <3>1 DEF NoEdit
    <3>4. QED
      BY <2>1, <3>1, <3>2, <3>3 DEF EditInv
  <2>3. CASE app.buf # ""
    <3>1. /\ handler'.pc = "call" /\ handler'.op = "add" /\ DOMAIN handler' = DOMAIN Idle
          /\ app' = app
      BY <1>5, <2>3, CallHandler DEF KeyCommitUki
    <3>2. edit' = [NoEdit EXCEPT !.replaces = app.original \notin {NoKey, app.buf}]
      BY <1>5, <2>3 DEF KeyCommitUki
    <3>3. DOMAIN edit' = DOMAIN NoEdit /\ ~edit'.added /\ ~edit'.removed
      BY <3>2 DEF NoEdit
    <3>4. QED
      BY <3>1, <3>3 DEF EditInv
  <2>4. QED
    BY <2>2, <2>3
<1>6. QED
  BY <1>1, <1>2, <1>3, <1>4, <1>5 DEF TuiKey

\* An answer keeps the strengthening.
LEMMA AnswerEdit == ASSUME EditInv, TuiAnswer PROVE EditInv'
<1> USE AppEdits
<1>1. ASSUME NEW o, AnswerLoad(o)
      PROVE  EditInv'
  <2>1. handler.pc = "call" /\ handler.op \in {"load", "reload"} /\ edit' = edit
    BY <1>1 DEF AnswerLoad, Answer
  <2>2. edit.replaces /\ ~(edit.added /\ edit.removed) =>
          handler.op = "reload" /\ handler.then = "error"
    BY <2>1 DEF EditInv
  <2>3. CASE /\ handler' = Idle
             /\ \/ app' = ShowError(app)
                \/ \E shown, etag : app' = Reported(handler.then, ApplyEntries(app, shown, etag))
    <3>1. /\ DOMAIN app' = DOMAIN NoApp
          /\ handler.then = "error" => app'.mode = "error"
      BY <2>3 DEF EditInv
    <3>2. handler'.pc = "idle" /\ DOMAIN handler' = DOMAIN Idle
      BY <2>3 DEF Idle
    <3>3. QED
      BY <2>1, <2>2, <3>1, <3>2 DEF EditInv
  <2>4. CASE handler.op = "load" /\ handler' = [Idle EXCEPT !.pc = "exit"] /\ app' = app
    <3>1. handler'.pc = "exit" /\ DOMAIN handler' = DOMAIN Idle
      BY <2>4 DEF Idle
    <3>2. QED
      BY <2>1, <2>2, <2>4, <3>1 DEF EditInv
  <2>5. CASE /\ handler' = [handler EXCEPT !.call = [m |-> "GetLoaderConfEtag"], !.got = o.value.content]
             /\ app' = app
    <3>1. /\ handler'.pc = handler.pc /\ handler'.op = handler.op /\ handler'.then = handler.then
          /\ DOMAIN handler' = DOMAIN Idle
      BY <2>5 DEF EditInv, Idle
    <3>2. QED
      BY <2>1, <2>2, <2>5, <3>1 DEF EditInv
  <2>6. QED
    BY <1>1, <2>3, <2>4, <2>5 DEF AnswerLoad
<1>2. ASSUME NEW o, AnswerWrite(o)
      PROVE  EditInv'
  BY <1>2, ReloadHandler DEF AnswerWrite, Answer, EditInv, Idle
<1>3. ASSUME NEW o, AnswerAdd(o)
      PROVE  EditInv'
  <2>1. /\ handler.pc = "call" /\ handler.op = "add" /\ ~edit.added /\ ~edit.removed
        /\ edit' = [edit EXCEPT !.added = o.ok]
    BY <1>3 DEF AnswerAdd, Answer, EditInv
  <2>2. /\ DOMAIN edit' = DOMAIN NoEdit /\ edit'.added = o.ok /\ edit'.removed = edit.removed
        /\ edit'.replaces = edit.replaces
    BY <2>1 DEF EditInv, NoEdit
  <2>3. CASE ~o.ok
    <3>1. /\ handler'.pc = "idle" /\ DOMAIN handler' = DOMAIN Idle
          /\ DOMAIN app' = DOMAIN NoApp /\ app'.mode = "error"
      BY <1>3, <2>3 DEF AnswerAdd, Idle, EditInv
    <3>2. QED
      BY <2>1, <2>2, <2>3, <3>1 DEF EditInv
  <2>4. CASE o.ok /\ edit.replaces
    <3>1. /\ handler'.pc = "call" /\ handler'.op = "reread" /\ DOMAIN handler' = DOMAIN Idle
          /\ app' = app
      BY <1>3, <2>1, <2>4 DEF AnswerAdd, Idle, EditInv
    <3>2. QED
      BY <2>1, <2>2, <2>4, <3>1 DEF EditInv
  <2>5. CASE o.ok /\ ~edit.replaces
    <3>1. /\ handler'.pc = "call" /\ handler'.op = "reload" /\ DOMAIN handler' = DOMAIN Idle
          /\ DOMAIN app' = DOMAIN NoApp
      BY <1>3, <2>5, ReloadHandler DEF AnswerAdd, EditInv
    <3>2. QED
      BY <2>1, <2>2, <2>5, <3>1 DEF EditInv
  <2>6. QED
    BY <2>3, <2>4, <2>5
<1>4. ASSUME NEW o, AnswerReread(o)
      PROVE  EditInv'
  BY <1>4, ReloadHandler, CallHandler DEF AnswerReread, Answer, EditInv, AfterRemoval
<1>5. ASSUME NEW o, AnswerRemoveOld(o)
      PROVE  EditInv'
  BY <1>5, ReloadHandler DEF AnswerRemoveOld, Answer, EditInv, AfterRemoval, NoEdit
<1>6. QED
  BY <1>1, <1>2, <1>3, <1>4, <1>5 DEF TuiAnswer

\* So does the start of the terminal client.
LEMMA StartEdit == ASSUME EditInv, TuiStart PROVE EditInv'
<1>1. handler.pc = "start" /\ edit' = edit /\ DOMAIN app' = DOMAIN NoApp
  BY DEF TuiStart, EditInv, NoApp
<1>2. ~(edit.replaces /\ ~(edit.added /\ edit.removed))
  BY <1>1 DEF EditInv
<1>3. /\ DOMAIN handler' = DOMAIN Idle
      /\ handler'.pc = "call" => handler'.op = "load"
  <2>1. CASE handler.op = "none"
    BY <1>1, <2>1 DEF TuiStart, EditInv, Idle
  <2>2. CASE handler.op # "none"
    BY <2>2, CallHandler DEF TuiStart
  <2>3. QED
    BY <2>1, <2>2
<1>4. QED
  BY <1>1, <1>2, <1>3 DEF EditInv

\* An edit removes the old parameter only after it added the new one, and one that
\* did not do both is reported before the user goes on, whatever the daemon answers
\* and other programs do.
THEOREM EditWasWhole == Spec => []EditIsWhole
<1>1. Init => EditInv
  <2> SUFFICES ASSUME Init
               PROVE  EditInv
    OBVIOUS
  <2>1. app = NoApp /\ edit = NoEdit /\ handler = [Idle EXCEPT !.pc = "start"]
    BY DEF Init, TuiInit
  <2>2. DOMAIN handler = DOMAIN Idle /\ handler.pc = "start"
    BY <2>1 DEF Idle
  <2>3. ~edit.removed /\ ~edit.replaces
    BY <2>1 DEF NoEdit
  <2>4. QED
    BY <2>1, <2>2, <2>3 DEF EditInv
<1>2. EditInv /\ [Next]_vars => EditInv'
  <2> SUFFICES ASSUME EditInv, [Next]_vars
               PROVE  EditInv'
    OBVIOUS
  <2>1. CASE TuiNext
    BY <2>1, KeyEdit, AnswerEdit, StartEdit DEF TuiNext
  <2>2. CASE UNCHANGED tuiVars
    BY <2>2 DEF tuiVars, EditInv
  <2>3. QED
    BY <2>1, <2>2 DEF Next, Gui, Tui, Cli, Other, vars
<1>3. EditInv => EditIsWhole
  BY DEF EditInv, EditIsWhole
<1>4. QED
  BY <1>1, <1>2, <1>3, PTL DEF Spec

-----------------------------------------------------------------------------
(* rescue: RescueLeavesOnlyRoots                                           *)

\* Between its steps rescue keeps mounted, of the partitions without a root, only
\* the one it looks at and those it could not unmount.
RescueInv ==
  /\ DOMAIN rescue = DOMAIN NoRescue
  /\ rescue.left \subseteq Candidates
  /\ \A d \in mounted :
       /\ IsPartition(d.name)
       /\ d.root \/ d \in rescue.stuck \/ (rescue.pc = "check" /\ d = rescue.tried)
  /\ rescue.pc = "check" => rescue.tried \in mounted
  /\ rescue.pc = "done" /\ rescue.code = 0 => rescue.tried \in mounted /\ rescue.tried.root

LEMMA RescueKept ==
  ASSUME RescueInv, RescueStart \/ RescueMount \/ RescueCheck \/ RescueGivesUp
  PROVE  RescueInv'
<1>1. CASE RescueStart
  <2>1. /\ DOMAIN rescue' = DOMAIN NoRescue /\ rescue'.stuck = rescue.stuck /\ mounted' = mounted
        /\ rescue'.left \subseteq Candidates
        /\ rescue'.pc = "scan" \/ (rescue'.pc = "done" /\ rescue'.code = 1)
        /\ rescue.pc # "check"
    BY <1>1 DEF RescueStart, NoRescue
  <2>2. QED
    BY <2>1 DEF RescueInv
<1>2. CASE RescueMount
  <2> DEFINE next == Min(rescue.left)
             d == Devices[next]
  <2>1. next \in rescue.left
    <3>1. rescue.left \subseteq Nat /\ rescue.left # {}
      BY <1>2, DevicesAssumption, LenProperties DEF RescueMount, RescueInv, Candidates
    <3>2. \E x \in rescue.left : \A y \in rescue.left : x <= y
      BY <3>1, LeastNatural
    <3>3. QED
      BY <3>2 DEF Min
  <2>2. IsPartition(d.name)
    BY <2>1 DEF RescueInv, Candidates
  <2> HIDE DEF next
  <2>3. CASE /\ mounted' = mounted \union {d}
             /\ rescue' = [rescue EXCEPT !.pc = "check", !.left = @ \ {next}, !.tried = d]
    <3>1. /\ rescue'.pc = "check" /\ rescue'.tried = d /\ rescue'.stuck = rescue.stuck
          /\ rescue'.left = rescue.left \ {next} /\ DOMAIN rescue' = DOMAIN NoRescue
      BY <2>3 DEF RescueInv, NoRescue
    <3>2. rescue.pc = "scan"
      BY <1>2 DEF RescueMount
    <3>3. QED
      BY <2>2, <2>3, <3>1, <3>2 DEF RescueInv
  <2>4. CASE rescue' = [rescue EXCEPT !.left = @ \ {next}] /\ mounted' = mounted
    <3>1. /\ rescue'.pc = rescue.pc /\ rescue'.tried = rescue.tried /\ rescue'.stuck = rescue.stuck
          /\ rescue'.left = rescue.left \ {next} /\ DOMAIN rescue' = DOMAIN NoRescue
          /\ rescue'.code = rescue.code
      BY <2>4 DEF RescueInv, NoRescue
    <3>2. QED
      BY <2>4, <3>1 DEF RescueInv
  <2>5. QED
    BY <1>2, <2>3, <2>4 DEF RescueMount, next
<1>3. CASE RescueCheck
  <2>1. CASE HasRoot(rescue.tried) /\ rescue' = [rescue EXCEPT !.pc = "done"] /\ mounted' = mounted
    <3>1. /\ rescue'.pc = "done" /\ rescue'.tried = rescue.tried /\ rescue'.stuck = rescue.stuck
          /\ rescue'.left = rescue.left /\ DOMAIN rescue' = DOMAIN NoRescue
      BY <2>1 DEF RescueInv, NoRescue
    <3>2. QED
      BY <1>3, <2>1, <3>1 DEF RescueInv, RescueCheck, HasRoot
  <2>2. CASE /\ mounted' = mounted \ {rescue.tried}
             /\ rescue' = [rescue EXCEPT !.pc = "scan", !.tried = NoAnswer]
    <3>1. /\ rescue'.pc = "scan" /\ rescue'.stuck = rescue.stuck
          /\ rescue'.left = rescue.left /\ DOMAIN rescue' = DOMAIN NoRescue
      BY <2>2 DEF RescueInv, NoRescue
    <3>2. QED
      BY <2>2, <3>1 DEF RescueInv
  <2>3. CASE /\ mounted' = mounted
             /\ rescue' = [rescue EXCEPT !.pc = "scan", !.tried = NoAnswer, !.stuck = @ \union {rescue.tried}]
    <3>1. /\ rescue'.pc = "scan" /\ rescue'.stuck = rescue.stuck \union {rescue.tried}
          /\ rescue'.left = rescue.left /\ DOMAIN rescue' = DOMAIN NoRescue
      BY <2>3 DEF RescueInv, NoRescue
    <3>2. QED
      BY <2>3, <3>1 DEF RescueInv
  <2>4. QED
    BY <1>3, <2>1, <2>2, <2>3 DEF RescueCheck
<1>4. CASE RescueGivesUp
  <2>1. /\ rescue'.pc = "done" /\ rescue'.code = 1 /\ rescue'.stuck = rescue.stuck /\ mounted' = mounted
        /\ rescue'.left = rescue.left /\ DOMAIN rescue' = DOMAIN NoRescue /\ rescue.pc = "scan"
    BY <1>4 DEF RescueGivesUp, RescueInv, NoRescue
  <2>2. QED
    BY <2>1 DEF RescueInv
<1>5. QED
  BY <1>1, <1>2, <1>3, <1>4

\* When rescue ends it leaves mounted only partitions with a root, or ones whose
\* umount failed, whatever an earlier rescue left; and a success names a root.
THEOREM RescueLeftOnlyRoots == Spec => []RescueLeavesOnlyRoots
<1>1. Init => RescueInv
  BY DEF Init, CliInit, RescueInv, NoRescue
<1>2. RescueInv /\ [Next]_vars => RescueInv'
  <2> SUFFICES ASSUME RescueInv, [Next]_vars
               PROVE  RescueInv'
    OBVIOUS
  <2>1. CASE RescueStart \/ RescueMount \/ RescueCheck \/ RescueGivesUp
    BY <2>1, RescueKept
  <2>2. CASE UNCHANGED <<mounted, rescue>>
    BY <2>2 DEF RescueInv
  <2>3. CASE CliStart \/ CliAnswer
    BY <2>2, <2>3 DEF CliStart, CliAnswer, AnswerShow, AnswerCmdlineGet, AnswerOne, AnswerMove, CliAnswers
  <2>4. QED
    BY <2>1, <2>2, <2>3 DEF Next, Gui, Tui, Cli, Other, CliNext, cliVars, vars
<1>3. RescueInv => RescueLeavesOnlyRoots
  BY DEF RescueInv, RescueLeavesOnlyRoots
<1>4. QED
  BY <1>1, <1>2, <1>3, PTL DEF Spec

-----------------------------------------------------------------------------
(* The daemon's answers                                                    *)

\* What an answer is of a call c made in state s.
LEMMA OutcomeFacts ==
  ASSUME NEW c, NEW s, NEW o \in Outcomes(c, s)
  PROVE  /\ o.svc = s \/ (o.svc = After(c, s) /\ Admits(c, s) /\ c.m \notin Reads \union Plain)
         /\ o.ok /\ c.m \in Reads => o.value = ValueOf(c, s)
         /\ IsDemo(s) => o.ok /\ o.svc = s
<1>0. /\ \A t, v : Answered(t, v).svc = t /\ Answered(t, v).ok /\ Answered(t, v).value = v
      /\ \A t : Failed(t).svc = t /\ ~Failed(t).ok /\ Failed(t).value = NoAnswer
  BY DEF Answered, Failed
<1>1. CASE IsDemo(s)
  <2>1. o = Answered(s, MockAnswer(c, s))
    BY <1>1 DEF Outcomes, MockOutcomes
  <2>2. c.m \in Reads => MockAnswer(c, s) = ValueOf(c, s)
    BY DEF MockAnswer
  <2>3. o.svc = s /\ o.ok /\ o.value = MockAnswer(c, s)
    BY <1>0, <2>1
  <2>4. o.ok /\ c.m \in Reads => o.value = ValueOf(c, s)
    BY <2>2, <2>3
  <2>5. QED
    BY <2>3, <2>4
<1>2. CASE ~IsDemo(s)
  <2>1. \/ o = Failed(s)
        \/ c.m \in Reads /\ o = Answered(s, ValueOf(c, s))
        \/ c.m \in Plain /\ o = Answered(s, NoAnswer)
        \/ /\ c.m \notin Reads \union Plain /\ Admits(c, s)
           /\ o \in {Answered(After(c, s), NoAnswer), Failed(After(c, s))}
    BY <1>2 DEF Outcomes, DbusOutcomes, DbusReads, DbusWrites
  <2>2. CASE o = Failed(s)
    <3>1. o.svc = s /\ ~o.ok
      BY <1>0, <2>2
    <3>2. QED
      BY <1>2, <3>1
  <2>3. CASE c.m \in Reads /\ o = Answered(s, ValueOf(c, s))
    <3>1. o.svc = s /\ o.value = ValueOf(c, s)
      BY <1>0, <2>3
    <3>2. QED
      BY <1>2, <3>1
  <2>4. CASE c.m \in Plain /\ o = Answered(s, NoAnswer)
    <3>1. o.svc = s /\ Reads \intersect Plain = {}
      BY <1>0, <2>4 DEF Reads, Plain, FileRead
    <3>2. QED
      BY <1>2, <2>4, <3>1
  <2>5. CASE /\ c.m \notin Reads \union Plain /\ Admits(c, s)
             /\ o \in {Answered(After(c, s), NoAnswer), Failed(After(c, s))}
    <3>1. o.svc = After(c, s)
      BY <1>0, <2>5
    <3>2. QED
      BY <1>2, <2>5, <3>1
  <2>6. QED
    BY <2>1, <2>2, <2>3, <2>4, <2>5
<1>3. QED
  BY <1>1, <1>2

\* The fields of the daemon's state; no step changes the host.
HasFields(s) == DOMAIN s = {"host", "files", "snaps"}

LEMMA AfterKeeps ==
  ASSUME NEW c, NEW s, HasFields(s), NEW o \in Outcomes(c, s)
  PROVE  HasFields(o.svc) /\ o.svc.host = s.host
<1>1. HasFields(After(c, s)) /\ After(c, s).host = s.host
  BY DEF HasFields, After
<1>2. QED
  BY <1>1, OutcomeFacts

\* Whoever steps, the daemon's state has its fields and its host.
LEMMA ServiceKept ==
  ASSUME HasFields(svc), [Next]_vars
  PROVE  HasFields(svc)' /\ svc'.host = svc.host
<1>1. CASE UNCHANGED svc
  BY <1>1 DEF HasFields
<1>2. ASSUME NEW c, NEW o \in Outcomes(c, svc), svc' = o.svc
      PROVE  HasFields(svc)' /\ svc'.host = svc.host
  BY <1>2, AfterKeeps DEF HasFields
<1>3. CASE Gui
  <2>1. CASE GuiAnswer
    BY <1>2, <2>1 DEF GuiAnswer, AnswerFetchEntries, AnswerFetchGrubMenu, AnswerFetchGrubSettings,
       AnswerApply, AnswerRestore, AnswerPlain, Answers
  <2>2. CASE GuiTake
    BY <1>1, <2>2 DEF GuiTake, Takes, TakeFetchEntries, TakeFetchGrubMenu, TakeFetchGrubSettings,
       TakeBootEntriesEdit, TakePrepareGrubDefault, TakeApplyGrubDefault, TakeSettingsEdit,
       TakePrepareGrubSettings, TakeApplyGrubSettings, TakePrepareRebuild, TakeRebuild, TakeCancel,
       TakePlain, TakeRestore
  <2>3. CASE GuiStart \/ GuiFollow \/ GuiWindow
    BY <1>1, <2>3 DEF GuiStart, GuiFollow, GuiWindow, GuiClick, GuiOpenRestore, GuiConfirm, GuiCancel
  <2>4. QED
    BY <1>3, <2>1, <2>2, <2>3 DEF Gui, GuiNext, GuiTask
<1>4. CASE Tui
  <2>1. CASE TuiAnswer
    BY <1>2, <2>1 DEF TuiAnswer, AnswerLoad, AnswerWrite, AnswerAdd, AnswerReread, AnswerRemoveOld, Answer
  <2>2. CASE TuiKey
    BY <1>1, <2>2 DEF TuiKey, KeyBrowse, KeyReload, KeySetDefault, KeyDelete, KeyType, KeyEscape,
       KeyCommitGrub, KeyCommitUki, Key
  <2>3. CASE TuiStart
    BY <1>2, <2>3 DEF TuiStart
  <2>4. QED
    BY <1>4, <2>1, <2>2, <2>3 DEF Tui, TuiNext
<1>5. CASE Cli
  <2>1. CASE CliAnswer
    BY <1>2, <2>1 DEF CliAnswer, AnswerShow, AnswerCmdlineGet, AnswerOne, AnswerMove, CliAnswers
  <2>2. CASE ~CliAnswer
    BY <1>1, <1>5, <2>2 DEF Cli, CliNext, CliStart, RescueStart, RescueMount, RescueCheck, RescueGivesUp
  <2>3. QED
    BY <2>1, <2>2
<1>6. CASE Other
  <2>1. PICK kind, content : OtherChange(kind, content)
    BY <1>6 DEF Other
  <2>2. QED
    BY <2>1 DEF OtherChange, HasFields
<1>7. CASE UNCHANGED vars
  BY <1>1, <1>7 DEF vars
<1>8. QED
  BY <1>3, <1>4, <1>5, <1>6, <1>7 DEF Next

THEOREM ServiceInvariant == Spec => []HasFields(svc)
<1>1. Init => HasFields(svc)
  BY ClientsAssumption DEF Init, HasFields
<1>2. HasFields(svc) /\ [Next]_vars => HasFields(svc)'
  BY ServiceKept
<1>3. QED
  BY <1>1, <1>2, PTL DEF Spec

-----------------------------------------------------------------------------
(* The terminal client: TuiWritesWhatItShows                               *)

\* What the application shows is what the file says that its ETag is of.
ShownOfEtag ==
  app.etag # NoEtag =>
    /\ IsUki(app) => app.etag[1] = "params" /\ app.shown = app.etag[2]
    /\ IsGrub(app) => app.etag[1] = "config" /\ app.shown = GrubConfig(app.etag[2])

\* Each call is one its backend admits, and a write presents the ETag shown.
HandlerOK ==
  /\ handler.pc = "start" => app.etag = NoEtag /\ app.mode = "browse"
  /\ handler.pc = "call" =>
       /\ handler.op \in {"load", "reload"} =>
            \/ handler.call = ReloadCall(app)
            \/ IsLoader(app) /\ handler.call = [m |-> "GetLoaderConfEtag"]
       /\ handler.op = "commit_grub" =>
            IsGrub(app) /\ handler.call.m = "SetValue" /\ handler.call.etag = app.etag
       /\ handler.op \in {"delete", "add"} =>
            /\ IsUki(app) /\ handler.call.m \in {"AddKernelParam", "RemoveKernelParam"}
            /\ handler.call.etag = app.etag

ShownInv ==
  /\ DOMAIN app = DOMAIN NoApp /\ DOMAIN handler = DOMAIN Idle
  /\ ShownOfEtag /\ HandlerOK
  /\ app.mode = "editing" => ~IsLoader(app)

\* What the changes of the application leave of what it shows.
LEMMA AppKeeps ==
  ASSUME NEW a, DOMAIN a = DOMAIN NoApp
  PROVE  /\ \A b \in {MoveUp(a), MoveDown(a), OpenEdit(a), OpenAdd(a), CancelEdit(a), ShowError(a),
                      DismissError(a)} :
              b.backend = a.backend /\ b.shown = a.shown /\ b.etag = a.etag
         /\ MoveUp(a).mode = a.mode /\ MoveDown(a).mode = a.mode
         /\ CancelEdit(a).mode = "browse" /\ ShowError(a).mode = "error" /\ DismissError(a).mode = "browse"
         /\ \A shown, etag, then :
              LET b == Reported(then, ApplyEntries(a, shown, etag)) IN
                b.backend = a.backend /\ b.shown = shown /\ b.etag = etag /\ b.mode \in {a.mode, "error"}
<1> USE DEF NoApp
<1>1. /\ \A b \in {MoveUp(a), MoveDown(a)} :
              b.backend = a.backend /\ b.shown = a.shown /\ b.etag = a.etag /\ b.mode = a.mode
  BY DEF MoveUp, MoveDown
<1>2. /\ \A b \in {OpenEdit(a), OpenAdd(a)} :
              b.backend = a.backend /\ b.shown = a.shown /\ b.etag = a.etag
  BY DEF OpenEdit, OpenAdd
<1>3. /\ \A b \in {CancelEdit(a), ShowError(a), DismissError(a)} :
              b.backend = a.backend /\ b.shown = a.shown /\ b.etag = a.etag
      /\ CancelEdit(a).mode = "browse" /\ ShowError(a).mode = "error" /\ DismissError(a).mode = "browse"
  BY DEF CancelEdit, ShowError, DismissError
<1>4. ASSUME NEW shown, NEW etag
      PROVE  LET b == ApplyEntries(a, shown, etag) IN
               /\ b.backend = a.backend /\ b.shown = shown /\ b.etag = etag /\ b.mode = a.mode
               /\ DOMAIN b = DOMAIN NoApp
  BY DEF ApplyEntries
<1>5. ASSUME NEW shown, NEW etag, NEW then
      PROVE  LET b == Reported(then, ApplyEntries(a, shown, etag)) IN
               b.backend = a.backend /\ b.shown = shown /\ b.etag = etag /\ b.mode \in {a.mode, "error"}
  BY <1>4 DEF Reported, ShowError
<1>6. QED
  BY <1>1, <1>2, <1>3, <1>5

\* What a read of the configuration or of the command line shows is what its ETag is of.
LEMMA ReadShown ==
  ASSUME NEW s, NEW c, c.m \in {"ReadConfig", "ReadKernelCmdline"}
  PROVE  /\ c.m \in Reads
         /\ c.m = "ReadConfig" =>
              ValueOf(c, s) = [content |-> GrubConfig(s.files["config"]), etag |-> <<"config", s.files["config"]>>]
         /\ c.m = "ReadKernelCmdline" =>
              ValueOf(c, s) = [content |-> s.files["params"], etag |-> <<"params", s.files["params"]>>]
<1>1. c.m \in Reads /\ FileRead["ReadConfig"] = "config" /\ FileRead["ReadKernelCmdline"] = "params"
  BY DEF Reads, FileRead
<1>2. QED
  BY <1>1 DEF ValueOf, ReadOf, EtagOf

\* A step that leaves what is shown as it is, and the handler at rest or at a call that
\* is no write.
LEMMA ShownKept ==
  ASSUME ShownInv, DOMAIN app' = DOMAIN NoApp, DOMAIN handler' = DOMAIN Idle,
         app'.backend = app.backend, app'.shown = app.shown, app'.etag = app.etag,
         app'.mode = "editing" => ~IsLoader(app), HandlerOK'
  PROVE  ShownInv'
<1>1. IsUki(app)' = IsUki(app) /\ IsLoader(app)' = IsLoader(app) /\ IsGrub(app)' = IsGrub(app)
  BY DEF IsUki, IsLoader, IsGrub
<1>2. QED
  BY <1>1 DEF ShownInv, ShownOfEtag

LEMMA KeyShown == ASSUME ShownInv, TuiKey PROVE ShownInv'
<1>1. handler.pc = "idle" /\ DOMAIN app = DOMAIN NoApp /\ DOMAIN handler = DOMAIN Idle
  BY DEF TuiKey, KeyBrowse, KeyReload, KeySetDefault, KeyDelete, KeyType, KeyEscape,
     KeyCommitGrub, KeyCommitUki, Key, ShownInv
<1>2. ASSUME handler' = handler
      PROVE  HandlerOK'
  BY <1>1, <1>2 DEF HandlerOK
<1>3. CASE KeyBrowse
  <2>1. handler' = handler /\ app.mode = "browse"
    BY <1>3 DEF KeyBrowse, Key
  <2>2. /\ DOMAIN app' = DOMAIN NoApp
        /\ app'.backend = app.backend /\ app'.shown = app.shown /\ app'.etag = app.etag
        /\ app'.mode = "editing" => ~IsLoader(app)
    <3>1. CASE app' = MoveUp(app) \/ app' = MoveDown(app)
      BY <1>1, <2>1, <3>1, AppKeeps, AppEdits
    <3>2. CASE ~IsLoader(app) /\ (app' = OpenEdit(app) \/ app' = OpenAdd(app))
      BY <1>1, <3>2, AppKeeps, AppEdits
    <3>3. CASE app' = [app EXCEPT !.quit = TRUE]
      BY <1>1, <2>1, <3>3 DEF NoApp
    <3>4. IsUki(app) => ~IsLoader(app)
      BY DEF IsUki, IsLoader
    <3>5. QED
      BY <1>3, <3>1, <3>2, <3>3, <3>4 DEF KeyBrowse
  <2>3. QED
    BY <1>1, <1>2, <2>1, <2>2, ShownKept
<1>4. CASE KeyReload \/ KeySetDefault \/ KeyDelete \/ KeyCommitGrub
  <2>1. app' = app /\ DOMAIN handler' = DOMAIN Idle
    BY <1>4, CallHandler DEF KeyReload, KeySetDefault, KeyDelete, KeyCommitGrub
  <2>2. HandlerOK'
    <3>1. CASE KeyReload
      BY <3>1, <2>1, CallHandler DEF KeyReload, HandlerOK
    <3>2. CASE KeySetDefault
      BY <3>2, <2>1, CallHandler DEF KeySetDefault, HandlerOK
    <3>3. CASE KeyDelete
      BY <3>3, <2>1, CallHandler DEF KeyDelete, HandlerOK
    <3>4. CASE KeyCommitGrub
      <4>1. IsGrub(app) /\ app.mode = "editing"
        BY <3>4 DEF KeyCommitGrub, Key, ShownInv, IsGrub
      <4>2. QED
        BY <3>4, <2>1, <4>1, CallHandler DEF KeyCommitGrub, HandlerOK
    <3>5. QED
      BY <1>4, <3>1, <3>2, <3>3, <3>4
  <2>3. QED
    BY <1>1, <2>1, <2>2, ShownKept DEF ShownInv
<1>5. CASE KeyType
  <2>1. PICK text : app' = [app EXCEPT !.buf = text]
    BY <1>5 DEF KeyType
  <2>2. /\ DOMAIN app' = DOMAIN NoApp /\ handler' = handler
        /\ app'.backend = app.backend /\ app'.shown = app.shown /\ app'.etag = app.etag
        /\ app'.mode = app.mode
    BY <1>1, <1>5, <2>1 DEF KeyType, NoApp
  <2>3. QED
    BY <1>1, <1>2, <2>2, ShownKept DEF ShownInv
<1>6. CASE KeyEscape
  <2>1. handler' = handler /\ app' \in {CancelEdit(app), DismissError(app)}
    BY <1>6 DEF KeyEscape
  <2>2. /\ DOMAIN app' = DOMAIN NoApp /\ app'.mode = "browse"
        /\ app'.backend = app.backend /\ app'.shown = app.shown /\ app'.etag = app.etag
    BY <1>1, <2>1, AppKeeps, AppEdits
  <2>3. QED
    BY <1>1, <1>2, <2>1, <2>2, ShownKept
<1>7. CASE KeyCommitUki
  <2>1. CASE app.buf = ""
    <3>1. handler' = handler /\ app' = CancelEdit(app)
      BY <1>7, <2>1 DEF KeyCommitUki
    <3>2. /\ DOMAIN app' = DOMAIN NoApp /\ app'.mode = "browse"
          /\ app'.backend = app.backend /\ app'.shown = app.shown /\ app'.etag = app.etag
      BY <1>1, <3>1, AppKeeps, AppEdits
    <3>3. QED
      BY <1>1, <1>2, <3>1, <3>2, ShownKept
  <2>2. CASE app.buf # ""
    <3>1. PICK call : /\ call = [m |-> "AddKernelParam", key |-> app.buf, etag |-> app.etag]
                      /\ Call("add", call) /\ app' = app /\ IsUki(app)
      BY <1>7, <2>2 DEF KeyCommitUki
    <3>2. call.m = "AddKernelParam" /\ call.etag = app.etag
      BY <3>1
    <3>3. /\ DOMAIN handler' = DOMAIN Idle /\ handler'.pc = "call" /\ handler'.op = "add"
          /\ handler'.call = call
      BY <3>1, CallHandler
    <3>4. HandlerOK'
      BY <3>1, <3>2, <3>3 DEF HandlerOK
    <3>5. QED
      BY <1>1, <3>1, <3>3, <3>4, ShownKept DEF ShownInv
  <2>3. QED
    BY <2>1, <2>2
<1>8. QED
  BY <1>3, <1>4, <1>5, <1>6, <1>7 DEF TuiKey

\* A read that fills what is shown.
LEMMA LoadShown ==
  ASSUME ShownInv, NEW o, AnswerLoad(o)
  PROVE  ShownInv'
<1>1. /\ handler.pc = "call" /\ handler.op \in {"load", "reload"} /\ o \in Outcomes(handler.call, svc)
      /\ DOMAIN app = DOMAIN NoApp /\ DOMAIN handler = DOMAIN Idle
  BY DEF AnswerLoad, Answer, ShownInv
<1>2. \/ handler.call = ReloadCall(app)
      \/ IsLoader(app) /\ handler.call = [m |-> "GetLoaderConfEtag"]
  BY <1>1 DEF ShownInv, HandlerOK
<1>3. \/ IsLoader(app) /\ handler.call.m \in {"ListLoaderEntries", "GetLoaderConfEtag"}
      \/ IsUki(app) /\ handler.call.m = "ReadKernelCmdline"
      \/ IsGrub(app) /\ handler.call.m = "ReadConfig"
  BY <1>2 DEF ReloadCall, IsGrub
<1>4. DOMAIN Idle' = DOMAIN Idle /\ Idle.pc = "idle"
  BY DEF Idle
<1>5. ASSUME NEW shown, NEW etag, app' = Reported(handler.then, ApplyEntries(app, shown, etag)),
             handler' = Idle,
             \/ IsLoader(app)
             \/ IsUki(app) /\ etag[1] = "params" /\ shown = etag[2]
             \/ IsGrub(app) /\ etag[1] = "config" /\ shown = GrubConfig(etag[2])
      PROVE  ShownInv'
  <2>1. /\ DOMAIN app' = DOMAIN NoApp
        /\ app'.backend = app.backend /\ app'.shown = shown /\ app'.etag = etag
        /\ app'.mode \in {app.mode, "error"}
    BY <1>1, <1>5, AppKeeps, AppEdits
  <2>2. IsUki(app)' = IsUki(app) /\ IsLoader(app)' = IsLoader(app) /\ IsGrub(app)' = IsGrub(app)
    BY <2>1 DEF IsUki, IsLoader, IsGrub
  <2>3. handler'.pc = "idle" /\ DOMAIN handler' = DOMAIN Idle
    BY <1>4, <1>5
  <2>4. ShownOfEtag'
    BY <1>5, <2>1, <2>2 DEF ShownOfEtag, IsUki, IsLoader, IsGrub
  <2>5. QED
    BY <2>1, <2>2, <2>3, <2>4 DEF ShownInv, HandlerOK
<1>6. CASE handler.call.m = "GetLoaderConfEtag"
  <2>1. IsLoader(app)
    BY <1>3, <1>6
  <2>2. QED
    BY <1>5, <1>6, <2>1 DEF AnswerLoad
<1>7. CASE ~o.ok /\ handler.call.m # "GetLoaderConfEtag"
  <2>1. /\ DOMAIN app' = DOMAIN NoApp /\ DOMAIN handler' = DOMAIN Idle
        /\ app'.backend = app.backend /\ app'.shown = app.shown /\ app'.etag = app.etag
        /\ app'.mode \in {app.mode, "error"}
        /\ handler'.pc \in {"exit", "idle"}
    <3>1. CASE handler' = [Idle EXCEPT !.pc = "exit"] /\ app' = app
      BY <1>1, <3>1 DEF Idle
    <3>2. CASE handler' = Idle /\ app' = ShowError(app)
      BY <1>1, <1>4, <3>2, AppKeeps, AppEdits
    <3>3. QED
      BY <1>7, <3>1, <3>2 DEF AnswerLoad
  <2>2. QED
    BY <2>1, ShownKept DEF HandlerOK, ShownInv
<1>8. CASE o.ok /\ handler.call.m = "ListLoaderEntries"
  <2>1. /\ handler' = [handler EXCEPT !.call = [m |-> "GetLoaderConfEtag"], !.got = o.value.content]
        /\ app' = app
    BY <1>8 DEF AnswerLoad
  <2>2. /\ DOMAIN handler' = DOMAIN Idle /\ handler'.pc = "call" /\ handler'.op = handler.op
        /\ handler'.call = [m |-> "GetLoaderConfEtag"]
    BY <1>1, <2>1 DEF Idle
  <2>3. IsLoader(app)
    BY <1>3, <1>8
  <2>4. QED
    BY <1>1, <2>1, <2>2, <2>3, ShownKept DEF HandlerOK, ShownInv
<1>9. CASE o.ok /\ handler.call.m \in {"ReadConfig", "ReadKernelCmdline"}
  <2>1. o.value = ValueOf(handler.call, svc)
    BY <1>1, <1>9, OutcomeFacts, ReadShown
  <2>2. /\ handler.call.m = "ReadConfig" =>
             o.value.etag[1] = "config" /\ o.value.content = GrubConfig(o.value.etag[2])
        /\ handler.call.m = "ReadKernelCmdline" =>
             o.value.etag[1] = "params" /\ o.value.content = o.value.etag[2]
    BY <1>9, <2>1, ReadShown
  <2>3. handler' = Idle /\ app' = Reported(handler.then, ApplyEntries(app, o.value.content, o.value.etag))
    BY <1>9 DEF AnswerLoad
  <2>4. QED
    BY <1>3, <1>5, <1>9, <2>2, <2>3
<1>10. QED
  BY <1>3, <1>6, <1>7, <1>8, <1>9

LEMMA AnswerShown == ASSUME ShownInv, TuiAnswer PROVE ShownInv'
<1>1. DOMAIN app = DOMAIN NoApp /\ DOMAIN handler = DOMAIN Idle /\ handler.pc = "call"
  BY DEF ShownInv, TuiAnswer
<1>2. ASSUME NEW a, a.backend = app.backend
      PROVE  ReloadCall(a) = ReloadCall(app)
  BY <1>2 DEF ReloadCall, IsUki, IsLoader
<1>3. ASSUME NEW a \in {app, CancelEdit(app), ShowError(CancelEdit(app)), ShowError(app)}
      PROVE  /\ DOMAIN a = DOMAIN NoApp
             /\ a.backend = app.backend /\ a.shown = app.shown /\ a.etag = app.etag
             /\ a = app \/ a.mode \in {"browse", "error"}
  BY <1>1, AppKeeps, AppEdits
<1>4. ASSUME NEW a \in {app, CancelEdit(app), ShowError(CancelEdit(app)), ShowError(app)}, app' = a,
             \/ handler' = Idle
             \/ \E b, then : b.backend = app.backend /\ Reload(b, then)
             \/ handler'.pc = "call" /\ handler'.op \in {"reread", "remove_old"} /\ DOMAIN handler' = DOMAIN Idle
      PROVE  ShownInv'
  <2>1. /\ DOMAIN app' = DOMAIN NoApp
        /\ app'.backend = app.backend /\ app'.shown = app.shown /\ app'.etag = app.etag
        /\ app'.mode = "editing" => ~IsLoader(app)
    BY <1>3, <1>4 DEF ShownInv
  <2>2. CASE handler' = Idle
    <3>1. handler'.pc = "idle" /\ DOMAIN handler' = DOMAIN Idle
      BY <2>2 DEF Idle
    <3>2. QED
      BY <2>1, <3>1, ShownKept DEF HandlerOK
  <2>3. CASE \E b, then : b.backend = app.backend /\ Reload(b, then)
    <3>1. PICK b, then : b.backend = app.backend /\ Reload(b, then)
      BY <2>3
    <3>2. /\ DOMAIN handler' = DOMAIN Idle /\ handler'.pc = "call" /\ handler'.op = "reload"
          /\ handler'.call = ReloadCall(app)
      BY <1>2, <3>1, ReloadHandler
    <3>3. ReloadCall(app)' = ReloadCall(app)
      BY <2>1 DEF ReloadCall, IsUki, IsLoader
    <3>4. QED
      BY <2>1, <3>2, <3>3, ShownKept DEF HandlerOK
  <2>4. CASE handler'.pc = "call" /\ handler'.op \in {"reread", "remove_old"} /\ DOMAIN handler' = DOMAIN Idle
    BY <2>1, <2>4, ShownKept DEF HandlerOK
  <2>5. QED
    BY <1>4, <2>2, <2>3, <2>4
<1>5. ASSUME NEW o, AnswerWrite(o)
      PROVE  ShownInv'
  BY <1>3, <1>4, <1>5 DEF AnswerWrite
<1>6. ASSUME NEW o, AnswerAdd(o)
      PROVE  ShownInv'
  <2>1. CASE ~o.ok
    BY <1>4, <1>6, <2>1 DEF AnswerAdd
  <2>2. CASE o.ok /\ edit.replaces
    <3>1. handler' = [handler EXCEPT !.op = "reread", !.call = [m |-> "ReadKernelCmdline"]] /\ app' = app
      BY <1>6, <2>2 DEF AnswerAdd
    <3>2. handler'.pc = "call" /\ handler'.op = "reread" /\ DOMAIN handler' = DOMAIN Idle
      BY <1>1, <3>1 DEF Idle
    <3>3. QED
      BY <1>4, <3>1, <3>2
  <2>3. CASE o.ok /\ ~edit.replaces
    BY <1>4, <1>6, <2>3 DEF AnswerAdd
  <2>4. QED
    BY <2>1, <2>2, <2>3
<1>7. ASSUME NEW o, AnswerReread(o)
      PROVE  ShownInv'
  <2>1. CASE o.ok
    <3>1. app' = app /\ handler'.pc = "call" /\ handler'.op = "remove_old" /\ DOMAIN handler' = DOMAIN Idle
      BY <1>7, <2>1, CallHandler DEF AnswerReread
    <3>2. QED
      BY <1>4, <3>1
  <2>2. CASE ~o.ok
    BY <1>4, <1>7, <2>2 DEF AnswerReread
  <2>3. QED
    BY <2>1, <2>2
<1>8. ASSUME NEW o, AnswerRemoveOld(o)
      PROVE  ShownInv'
  BY <1>4, <1>8 DEF AnswerRemoveOld
<1>9. QED
  BY <1>5, <1>6, <1>7, <1>8, LoadShown DEF TuiAnswer

LEMMA StartShown == ASSUME ShownInv, TuiStart PROVE ShownInv'
<1>1. handler.pc = "start" /\ app.etag = NoEtag /\ DOMAIN app = DOMAIN NoApp /\ DOMAIN handler = DOMAIN Idle
  BY DEF TuiStart, ShownInv, HandlerOK
<1>2. PICK o \in Outcomes([m |-> "GetActiveBackend"], svc) :
        IF handler.op = "none"
        THEN /\ handler' = [handler EXCEPT !.pc = IF o.ok THEN "start" ELSE "exit", !.op = "load"]
             /\ app' = app
        ELSE LET a == [app EXCEPT !.backend = IF o.ok THEN o.value ELSE "grub"] IN
               app' = a /\ Call("load", ReloadCall(a))
  BY DEF TuiStart
<1>3. CASE handler.op = "none"
  <2>1. /\ handler' = [handler EXCEPT !.pc = IF o.ok THEN "start" ELSE "exit", !.op = "load"]
        /\ app' = app
    BY <1>2, <1>3
  <2>2. DOMAIN handler' = DOMAIN Idle /\ handler'.pc \in {"start", "exit"}
    BY <1>1, <2>1 DEF Idle
  <2>3. QED
    BY <1>1, <2>1, <2>2 DEF ShownInv, HandlerOK, ShownOfEtag
<1>4. CASE handler.op # "none"
  <2> DEFINE a == [app EXCEPT !.backend = IF o.ok THEN o.value ELSE "grub"]
  <2>1. app' = a /\ Call("load", ReloadCall(a))
    BY <1>2, <1>4
  <2>2. DOMAIN app' = DOMAIN NoApp /\ app'.etag = NoEtag /\ app'.mode = app.mode
    BY <1>1, <2>1 DEF NoApp
  <2>3. /\ DOMAIN handler' = DOMAIN Idle /\ handler'.pc = "call" /\ handler'.op = "load"
        /\ handler'.call = ReloadCall(app)'
    BY <2>1, CallHandler
  <2>4. app.mode # "editing"
    BY <1>1 DEF ShownInv, HandlerOK
  <2>5. QED
    BY <2>2, <2>3, <2>4 DEF ShownInv, HandlerOK, ShownOfEtag
<1>5. QED
  BY <1>3, <1>4

\* A write that is carried out presented the ETag of what is shown.
LEMMA WriteOfShown ==
  ASSUME ShownInv, handler.pc = "call", handler.op \in {"commit_grub", "delete", "add"},
         NEW o \in Outcomes(handler.call, svc), o.svc # svc
  PROVE  app.shown = ReadOf(ReloadCall(app), svc)
<1>1. Admits(handler.call, svc)
  BY OutcomeFacts
<1>2. CASE handler.op = "commit_grub"
  <2>1. IsGrub(app) /\ handler.call.m = "SetValue" /\ handler.call.etag = app.etag
    BY <1>2 DEF ShownInv, HandlerOK
  <2>2. app.etag = <<"config", svc.files["config"]>>
    BY <1>1, <2>1 DEF Admits, EtagOf
  <2>3. app.shown = GrubConfig(svc.files["config"])
    BY <2>1, <2>2 DEF ShownInv, ShownOfEtag, NoEtag
  <2>4. ReloadCall(app) = [m |-> "ReadConfig"]
    BY <2>1 DEF ReloadCall, IsGrub
  <2>5. QED
    BY <2>3, <2>4 DEF ReadOf
<1>3. CASE handler.op \in {"delete", "add"}
  <2>1. /\ IsUki(app) /\ handler.call.m \in {"AddKernelParam", "RemoveKernelParam"}
        /\ handler.call.etag = app.etag
    BY <1>3 DEF ShownInv, HandlerOK
  <2>2. FileWritten(handler.call) = "params"
    BY <2>1 DEF FileWritten
  <2>3. app.etag = <<"params", svc.files["params"]>>
    BY <1>1, <2>1, <2>2 DEF Admits, EtagOf
  <2>4. app.shown = svc.files["params"]
    BY <2>1, <2>3 DEF ShownInv, ShownOfEtag, NoEtag
  <2>5. ReloadCall(app) = [m |-> "ReadKernelCmdline"] /\ FileRead["ReadKernelCmdline"] = "params"
    BY <2>1 DEF ReloadCall, IsUki, IsLoader, FileRead
  <2>6. QED
    BY <2>4, <2>5 DEF ReadOf
<1>4. QED
  BY <1>2, <1>3

\* Whoever steps.
LEMMA ShownStep == ShownInv /\ [Next]_vars => ShownInv'
<1> SUFFICES ASSUME ShownInv, [Next]_vars
             PROVE  ShownInv'
  OBVIOUS
<1>1. CASE UNCHANGED <<app, handler>>
  BY <1>1 DEF ShownInv, ShownOfEtag, HandlerOK
<1>2. CASE Tui
  BY <1>2, KeyShown, AnswerShown, StartShown DEF Tui, TuiNext
<1>3. QED
  BY <1>1, <1>2 DEF Next, Gui, Cli, Other, tuiVars, vars

LEMMA ShownInit == Init => ShownInv
<1> SUFFICES ASSUME Init
             PROVE  ShownInv
  OBVIOUS
<1>1. app = NoApp /\ app.etag = NoEtag /\ app.mode = "browse"
  BY DEF Init, TuiInit, NoApp
<1>2. handler.pc = "start" /\ DOMAIN handler = DOMAIN Idle
  BY DEF Init, TuiInit, Idle
<1>3. QED
  BY <1>1, <1>2 DEF ShownInv, ShownOfEtag, HandlerOK

\* A write of the terminal client changes the content it shows: nobody else's change
\* of the configuration or of the command line is overwritten unseen.
THEOREM TuiWroteWhatItShowed == Spec => TuiWritesWhatItShows
<1> DEFINE Step == handler # handler' /\ svc' # svc /\ handler.op \in {"commit_grub", "delete", "add"} =>
                     app.shown = ReadOf(ReloadCall(app), svc)
<1>1. Init => ShownInv
  BY ShownInit
<1>2. ShownInv /\ [Next]_vars => ShownInv'
  BY ShownStep
<1>3. ShownInv /\ [Next]_vars => Step
  <2> SUFFICES ASSUME ShownInv, [Next]_vars,
                      handler # handler', svc' # svc, handler.op \in {"commit_grub", "delete", "add"}
               PROVE  app.shown = ReadOf(ReloadCall(app), svc)
    OBVIOUS
  <2>1. TuiNext
    BY DEF Next, Gui, Tui, Cli, Other, tuiVars, vars
  <2>2. CASE TuiKey
    BY <2>2 DEF TuiKey, KeyBrowse, KeyReload, KeySetDefault, KeyDelete, KeyType, KeyEscape,
       KeyCommitGrub, KeyCommitUki, Key
  <2>3. CASE TuiStart
    <3>1. [m |-> "GetActiveBackend"].m \in Reads
      BY DEF Reads
    <3>2. PICK o \in Outcomes([m |-> "GetActiveBackend"], svc) : svc' = o.svc
      BY <2>3 DEF TuiStart
    <3>3. QED
      BY <3>1, <3>2, OutcomeFacts
  <2>4. CASE TuiAnswer
    <3>1. PICK o \in Outcomes(handler.call, svc) : svc' = o.svc
      BY <2>4 DEF TuiAnswer, AnswerLoad, AnswerWrite, AnswerAdd, AnswerReread, AnswerRemoveOld, Answer
    <3>2. handler.pc = "call"
      BY <2>4 DEF TuiAnswer
    <3>3. QED
      BY <3>1, <3>2, WriteOfShown
  <2>5. QED
    BY <2>1, <2>2, <2>3, <2>4 DEF TuiNext
<1>4. QED
  BY <1>1, <1>2, <1>3, PTL DEF Spec, TuiWritesWhatItShows

-----------------------------------------------------------------------------
(* Sequences of messages                                                   *)

Messages(q) == {q[i] : i \in DOMAIN q}
IsChannel(q) == q \in Seq(Messages(q))

LEMMA ChannelOf == ASSUME NEW S, NEW q \in Seq(S) PROVE IsChannel(q)
<1>1. /\ Len(q) \in Nat /\ DOMAIN q = 1..Len(q) /\ q = [i \in 1..Len(q) |-> q[i]]
  BY ElementOfSeq, LenProperties
<1>2. q \in [1..Len(q) -> Messages(q)]
  BY <1>1 DEF Messages
<1>3. QED
  BY <1>1, <1>2, SeqDef DEF IsChannel

LEMMA ChannelAppend ==
  ASSUME NEW q, NEW m, IsChannel(q)
  PROVE  /\ IsChannel(Append(q, m)) /\ Len(Append(q, m)) = Len(q) + 1
         /\ Append(q, m)[Len(q) + 1] = m /\ DOMAIN Append(q, m) = 1..(Len(q) + 1)
         /\ \A i \in 1..Len(q) : Append(q, m)[i] = q[i]
         /\ Len(q) \in Nat /\ DOMAIN q = 1..Len(q)
<1> DEFINE S == Messages(q) \union {m}
<1>1. q \in Seq(S) /\ Len(q) \in Nat /\ DOMAIN q = 1..Len(q)
  BY LenProperties, ElementOfSeq, SeqDef DEF IsChannel, Messages
<1>2. /\ Append(q, m) \in Seq(S) /\ Len(Append(q, m)) = Len(q) + 1
      /\ Append(q, m)[Len(q) + 1] = m /\ \A i \in 1..Len(q) : Append(q, m)[i] = q[i]
  BY <1>1, AppendProperties
<1>3. QED
  BY <1>1, <1>2, ChannelOf, LenProperties

LEMMA ChannelTail ==
  ASSUME NEW q, IsChannel(q), q # <<>>
  PROVE  /\ IsChannel(Tail(q)) /\ Len(q) \in Nat \ {0} /\ Head(q) = q[1]
         /\ Len(Tail(q)) = Len(q) - 1 /\ DOMAIN Tail(q) = 1..(Len(q) - 1)
         /\ \A i \in 1..(Len(q) - 1) : Tail(q)[i] = q[i + 1]
<1>1. /\ Tail(q) \in Seq(Messages(q)) /\ Len(Tail(q)) = Len(q) - 1
      /\ Head(q) = q[1] /\ \A i \in 1..Len(Tail(q)) : Tail(q)[i] = q[i + 1]
      /\ Len(q) \in Nat
  BY HeadTailProperties, LenProperties DEF IsChannel
<1>2. Len(q) # 0
  BY EmptySeq, LenProperties, ElementOfSeq DEF IsChannel
<1>3. QED
  BY <1>1, <1>2, ChannelOf, LenProperties

\* The channel after try_send.
LEMMA ChannelQueued ==
  ASSUME NEW q, NEW m, IsChannel(q)
  PROVE  /\ IsChannel(Queued(q, m))
         /\ Queued(q, m) = q \/ Queued(q, m) = Append(q, m)
         /\ q # <<>> => Queued(q, m) # <<>> /\ Head(Queued(q, m)) = Head(q)
<1>1. Queued(q, m) = q \/ Queued(q, m) = Append(q, m)
  BY DEF Queued
<1>2. CASE Queued(q, m) = q
  BY <1>2
<1>3. CASE Queued(q, m) = Append(q, m)
  <2>1. Append(q, m) # <<>>
    BY ChannelAppend, EmptySeq
  <2>2. q # <<>> => Head(Append(q, m)) = Head(q)
    BY <2>1, ChannelAppend, ChannelTail
  <2>3. QED
    BY <1>3, <2>1, <2>2, ChannelAppend
<1>4. QED
  BY <1>1, <1>2, <1>3

-----------------------------------------------------------------------------
(* The window: ArmedIsCurrent                                              *)

\* The models keep their fields.
Fields ==
  /\ HasFields(svc) /\ DOMAIN session = DOMAIN Disarmed /\ DOMAIN boot = DOMAIN NoEntries
  /\ DOMAIN task = DOMAIN NoTask /\ IsChannel(queue)

\* Preparing one operation disarms the others.
OneArmed ==
  /\ session.default # NoRequest => session.settings = NoRequest /\ ~session.rebuild
  /\ session.settings # NoRequest => ~session.rebuild

\* What is known of the configuration is of the state that is loaded.
ConfigIsLoaded ==
  /\ vm.etag # NoEtag => vm.ready
  /\ boot.config # NoEtag => vm.etag = boot.config

\* A refresh is under way.
Fetching == task.pc = "call" /\ task.msg.m = "FetchEntries"

\* In Demo Mode a state is loaded, except while the first fetch is due or under way:
\* the mock answers every call.
DemoIsLoaded ==
  IsDemo(svc) =>
    \/ vm.ready \/ Fetching \/ task.pc \in {"start", "off"}
    \/ task.pc = "recv" /\ queue # <<>> /\ Head(queue).m = "FetchEntries"

\* What is armed was staged on what is loaded, and a refresh has disarmed it.
Current ==
  /\ session.default # NoRequest =>
       /\ session.default.etag = boot.config /\ boot.config # NoEtag
       /\ session.default.previous = boot.default
  /\ session.rebuild => vm.ready /\ RebuildReady(vm, svc)
  /\ Fetching => session = Disarmed

ArmedInv == Fields /\ OneArmed /\ ConfigIsLoaded /\ DemoIsLoaded /\ Current

\* What the changes of the list of entries leave of the configuration.
KeepsConfig(b, c) == DOMAIN c = DOMAIN NoEntries /\ c.config = b.config /\ c.default = b.default

LEMMA LoadKeepsConfig ==
  ASSUME NEW b, DOMAIN b = DOMAIN NoEntries
  PROVE  /\ KeepsConfig(b, BeginLoad(b)) /\ KeepsConfig(b, FailLoad(b))
         /\ \A entries, etag : KeepsConfig(b, FinishLoad(b, entries, etag))
<1>1. KeepsConfig(b, BeginLoad(b))
  BY DEF BeginLoad, KeepsConfig, NoEntries
<1>2. KeepsConfig(b, FailLoad(b))
  BY <1>1 DEF FailLoad, KeepsConfig, NoEntries
<1>3. ASSUME NEW entries, NEW etag
      PROVE  KeepsConfig(b, FinishLoad(b, entries, etag))
  BY DEF FinishLoad, KeepsConfig, NoEntries
<1>4. QED
  BY <1>1, <1>2, <1>3

LEMMA EditKeepsConfig ==
  ASSUME NEW b, DOMAIN b = DOMAIN NoEntries
  PROVE  /\ \A delta : KeepsConfig(b, MoveSelection(b, delta))
         /\ \A i : KeepsConfig(b, [b EXCEPT !.selected = i])
         /\ \A p : KeepsConfig(b, [b EXCEPT !.staged = p])
  BY DEF MoveSelection, KeepsConfig, NoEntries

LEMMA SetConfig ==
  ASSUME NEW b, DOMAIN b = DOMAIN NoEntries, NEW path, NEW etag
  PROVE  /\ DOMAIN SetConfigState(b, path, etag) = DOMAIN NoEntries
         /\ SetConfigState(b, path, etag).config = etag
         /\ SetConfigState(b, path, etag).default = path
  BY DEF SetConfigState, NoEntries

\* What the changes of what is armed do.
LEMMA SessionEdits ==
  ASSUME NEW s, DOMAIN s = DOMAIN Disarmed
  PROVE  /\ Disarmed.default = NoRequest /\ Disarmed.settings = NoRequest /\ ~Disarmed.rebuild
         /\ \A t \in {ConfirmGrubDefault(s).rest} :
              /\ DOMAIN t = DOMAIN Disarmed /\ t.default = NoRequest
              /\ t.settings = s.settings /\ t.rebuild = s.rebuild
         /\ \A t \in {ConfirmGrubSettings(s, typed).rest} :
              /\ DOMAIN t = DOMAIN Disarmed /\ t.settings = NoRequest
              /\ t.default = s.default /\ t.rebuild = s.rebuild
         /\ \A t \in {[s EXCEPT !.rebuild = FALSE]} :
              /\ DOMAIN t = DOMAIN Disarmed /\ ~t.rebuild
              /\ t.default = s.default /\ t.settings = s.settings
         /\ ConfirmGrubDefault(s).req = s.default /\ ConfirmGrubSettings(s, typed).req = s.settings
  BY DEF Disarmed, ConfirmGrubDefault, ConfirmGrubSettings

LEMMA Prepares ==
  ASSUME NEW r, NEW v, NEW s
  PROVE  /\ LET t == PrepareGrubDefault(r) IN
              /\ DOMAIN t = DOMAIN Disarmed /\ t.settings = NoRequest /\ ~t.rebuild
              /\ t.default = NoRequest \/ (t.default = r /\ r.etag # NoEtag)
         /\ LET t == PrepareGrubSettings(r) IN
              /\ DOMAIN t = DOMAIN Disarmed /\ t.default = NoRequest /\ ~t.rebuild
              /\ t.settings \in {NoRequest, r}
         /\ LET t == PrepareRebuild(v, s) IN
              /\ DOMAIN t = DOMAIN Disarmed /\ t.default = NoRequest /\ t.settings = NoRequest
              /\ t.rebuild => RebuildReady(v, s)
<1>1. LET t == PrepareGrubDefault(r) IN
        /\ DOMAIN t = DOMAIN Disarmed /\ t.settings = NoRequest /\ ~t.rebuild
        /\ t.default = NoRequest \/ (t.default = r /\ r.etag # NoEtag)
  BY DEF PrepareGrubDefault, Disarmed, DefaultReady
<1>2. LET t == PrepareGrubSettings(r) IN
        /\ DOMAIN t = DOMAIN Disarmed /\ t.default = NoRequest /\ ~t.rebuild
        /\ t.settings \in {NoRequest, r}
  BY DEF PrepareGrubSettings, Disarmed
<1>3. LET t == PrepareRebuild(v, s) IN
        /\ DOMAIN t = DOMAIN Disarmed /\ t.default = NoRequest /\ t.settings = NoRequest
        /\ t.rebuild => RebuildReady(v, s)
  <2>1. PrepareRebuild(v, s) = [Disarmed EXCEPT !.rebuild = RebuildReady(v, s)]
    BY DEF PrepareRebuild
  <2>2. ASSUME NEW x
        PROVE  LET t == [Disarmed EXCEPT !.rebuild = x] IN
                 /\ DOMAIN t = DOMAIN Disarmed /\ t.default = NoRequest /\ t.settings = NoRequest
                 /\ t.rebuild = x
    BY DEF Disarmed
  <2>3. QED
    BY <2>1, <2>2, Zenon
<1>4. QED
  BY <1>1, <1>2, <1>3

LEMMA CallsTask ==
  ASSUME DOMAIN task = DOMAIN NoTask, NEW c, NEW req, Calls(c, req)
  PROVE  /\ DOMAIN task' = DOMAIN NoTask /\ task'.pc = "call" /\ task'.msg = Head(queue)
         /\ task'.call = c /\ task'.req = req /\ task'.todo = task.todo
  BY DEF Calls, NoTask

LEMMA ThenTask ==
  ASSUME NEW todo, Then(todo)
  PROVE  /\ DOMAIN task' = DOMAIN NoTask /\ task'.todo = todo /\ task'.pc \in {"recv", "send"}
         /\ task'.pc = "send" <=> todo # <<>>
  BY DEF Then, NoTask

LEMMA ChannelPrime ==
  /\ IsChannel(queue') => IsChannel(queue)'
  /\ HasFields(svc) /\ svc' = svc => HasFields(svc)'
  BY DEF IsChannel, Messages, HasFields

\* A state that may be rebuilt is loaded, unless a fetch is due or under way.
LEMMA ReadyIsLoaded ==
  ASSUME ArmedInv, RebuildReady(vm, svc), task.pc = "recv", ~(queue # <<>> /\ Head(queue).m = "FetchEntries")
  PROVE  vm.ready
  BY DEF ArmedInv, ConfigIsLoaded, DemoIsLoaded, Fetching, RebuildReady

\* The task takes a message that is no refresh; it may go on to call.
TakesOther ==
  /\ task.pc = "recv" /\ queue # <<>> /\ Head(queue).m # "FetchEntries"
  /\ queue' = Tail(queue) /\ svc' = svc /\ vm' = vm

TaskAfter == task' = task \/ (DOMAIN task' = DOMAIN NoTask /\ task'.pc = "call" /\ task'.msg = Head(queue))

\* What is armed then was armed before, or is staged on what is loaded.
SessionAfter ==
  /\ DOMAIN session' = DOMAIN Disarmed /\ OneArmed'
  /\ \/ session'.default \in {NoRequest, session.default}
     \/ /\ session'.default.etag = boot.config /\ boot.config # NoEtag
        /\ session'.default.previous = boot.default
  /\ session'.rebuild => session.rebuild \/ RebuildReady(vm, svc)

LEMMA TakeKeepsArmed ==
  ASSUME ArmedInv, TakesOther, TaskAfter, KeepsConfig(boot, boot'), SessionAfter
  PROVE  ArmedInv'
<1>0. /\ DOMAIN boot' = DOMAIN NoEntries /\ boot'.config = boot.config /\ boot'.default = boot.default
  BY DEF KeepsConfig
<1>1. IsChannel(queue)' /\ HasFields(svc)'
  BY ChannelTail, ChannelPrime DEF ArmedInv, Fields, TakesOther
<1>2. Fields'
  BY <1>0, <1>1 DEF ArmedInv, Fields, TaskAfter, SessionAfter
<1>3. ~Fetching'
  BY DEF Fetching, TakesOther, TaskAfter
<1>4. DemoIsLoaded'
  BY <1>3 DEF ArmedInv, DemoIsLoaded, Fetching, IsDemo, TakesOther
<1>5. session'.rebuild => vm.ready /\ RebuildReady(vm, svc)
  BY ReadyIsLoaded DEF ArmedInv, Current, TakesOther, SessionAfter
<1>6. session'.default # NoRequest =>
        /\ session'.default.etag = boot.config /\ boot.config # NoEtag
        /\ session'.default.previous = boot.default
  BY DEF ArmedInv, Current, SessionAfter
<1>7. Current'
  BY <1>0, <1>3, <1>5, <1>6 DEF Current, RebuildReady, IsDemo, TakesOther
<1>8. QED
  BY <1>0, <1>2, <1>4, <1>7 DEF ArmedInv, ConfigIsLoaded, TakesOther, SessionAfter

\* What taking a message that is no refresh does to the configuration known, and to
\* what is armed.
LEMMA TakeBoot ==
  ASSUME DOMAIN boot = DOMAIN NoEntries, GuiTake, ~TakeFetchEntries
  PROVE  KeepsConfig(boot, boot')
<1>1. KeepsConfig(boot, boot)
  BY DEF KeepsConfig
<1>2. CASE boot' = boot
  BY <1>1, <1>2
<1>3. CASE TakeFetchGrubMenu
  BY <1>3, LoadKeepsConfig DEF TakeFetchGrubMenu
<1>4. CASE TakeBootEntriesEdit
  <2>1. \/ boot' = boot \/ (\E delta : boot' = MoveSelection(boot, delta))
        \/ (\E i : boot' = [boot EXCEPT !.selected = i])
        \/ (\E p : boot' = [boot EXCEPT !.staged = p])
    BY <1>4 DEF TakeBootEntriesEdit
  <2>2. QED
    BY <1>1, <2>1, EditKeepsConfig
<1>5. QED
  BY <1>2, <1>3, <1>4 DEF GuiTake, TakeFetchGrubSettings, TakePrepareGrubDefault,
     TakeApplyGrubDefault, TakeSettingsEdit, TakePrepareGrubSettings, TakeApplyGrubSettings,
     TakePrepareRebuild, TakeRebuild, TakeCancel, TakePlain, TakeRestore, models

LEMMA TakeSession ==
  ASSUME GuiTake
  PROVE  \/ session' \in {session, Disarmed, [session EXCEPT !.rebuild = FALSE],
                          PrepareGrubDefault(PendingDefault(boot)), PrepareGrubSettings(PendingSettings(typed)),
                          PrepareRebuild(vm, svc)}
         \/ TakeApplyGrubDefault /\ session' = ConfirmGrubDefault(session).rest
         \/ TakeApplyGrubSettings /\ session' = ConfirmGrubSettings(session, typed).rest
  BY DEF GuiTake, TakeFetchEntries, TakeFetchGrubMenu, TakeFetchGrubSettings, TakeBootEntriesEdit,
     TakePrepareGrubDefault, TakeApplyGrubDefault, TakeSettingsEdit, TakePrepareGrubSettings,
     TakeApplyGrubSettings, TakePrepareRebuild, TakeRebuild, TakeCancel, TakePlain, TakeRestore, Cancel, models

LEMMA TakeArmed == ASSUME ArmedInv, GuiTake PROVE ArmedInv'
<1>1. /\ DOMAIN session = DOMAIN Disarmed /\ DOMAIN boot = DOMAIN NoEntries
      /\ DOMAIN task = DOMAIN NoTask /\ OneArmed
  BY DEF ArmedInv, Fields
<1>2. CASE TakeFetchEntries
  <2>1. /\ task.pc = "recv" /\ queue # <<>> /\ Head(queue).m = "FetchEntries"
        /\ queue' = Tail(queue) /\ svc' = svc /\ session' = Disarmed
        /\ boot' = SetConfigState(boot, "", NoEtag) /\ vm' = Unloaded
        /\ Calls(Msg("GetActiveBackend"), NoRequest)
    BY <1>2 DEF TakeFetchEntries, Takes, Cancel
  <2>2. /\ DOMAIN task' = DOMAIN NoTask /\ task'.pc = "call" /\ task'.msg.m = "FetchEntries"
    BY <1>1, <2>1, CallsTask
  <2>3. DOMAIN boot' = DOMAIN NoEntries /\ boot'.config = NoEtag /\ vm'.etag = NoEtag
    <3>1. PICK path : boot' = SetConfigState(boot, path, NoEtag)
      BY <2>1
    <3>2. DOMAIN boot' = DOMAIN NoEntries /\ boot'.config = NoEtag
      BY <1>1, <3>1, SetConfig
    <3>3. Unloaded.etag = NoEtag
      BY DEF Unloaded
    <3>4. QED
      BY <2>1, <3>2, <3>3
  <2>4. Fields' /\ Fetching'
    BY <2>1, <2>2, <2>3, ChannelTail, ChannelPrime DEF ArmedInv, Fields, Fetching
  <2>5. OneArmed' /\ Current'
    BY <2>1, SessionEdits, <1>1 DEF OneArmed, Current
  <2>6. QED
    BY <2>3, <2>4, <2>5 DEF ArmedInv, ConfigIsLoaded, DemoIsLoaded
<1>3. CASE ~TakeFetchEntries
  <2> USE <1>3
  <2>1. TakesOther
    BY DEF TakesOther, GuiTake, Takes, TakeFetchGrubMenu, TakeFetchGrubSettings, TakeBootEntriesEdit,
       TakePrepareGrubDefault, TakeApplyGrubDefault, TakeSettingsEdit, TakePrepareGrubSettings,
       TakeApplyGrubSettings, TakePrepareRebuild, TakeRebuild, TakeCancel, TakePlain, TakeRestore, models
  <2>2. TaskAfter
    <3>1. task' = task \/ \E c, req : Calls(c, req)
      BY DEF GuiTake, TakeFetchGrubMenu, TakeFetchGrubSettings, TakeBootEntriesEdit,
         TakePrepareGrubDefault, TakeApplyGrubDefault, TakeSettingsEdit, TakePrepareGrubSettings,
         TakeApplyGrubSettings, TakePrepareRebuild, TakeRebuild, TakeCancel, TakePlain, TakeRestore, Handled
    <3>2. QED
      BY <1>1, <3>1, CallsTask DEF TaskAfter
  <2>3. KeepsConfig(boot, boot')
    BY <1>1, TakeBoot
  <2>4. SessionAfter
    <3>1. CASE session' = session
      BY <1>1, <3>1 DEF SessionAfter, OneArmed
    <3>2. CASE session' = PrepareGrubDefault(PendingDefault(boot))
      <4>1. PendingDefault(boot).etag = boot.config /\ PendingDefault(boot).previous = boot.default
        BY DEF PendingDefault
      <4>2. QED
        BY <3>2, <4>1, Prepares DEF SessionAfter, OneArmed
    <3>3. CASE session' = PrepareGrubSettings(PendingSettings(typed))
      BY <3>3, Prepares DEF SessionAfter, OneArmed
    <3>4. CASE session' = PrepareRebuild(vm, svc)
      BY <3>4, Prepares DEF SessionAfter, OneArmed
    <3>5. CASE session' = ConfirmGrubDefault(session).rest
      BY <1>1, <3>5, SessionEdits DEF SessionAfter, OneArmed
    <3>6. CASE session' = ConfirmGrubSettings(session, typed).rest
      BY <1>1, <3>6, SessionEdits DEF SessionAfter, OneArmed
    <3>7. CASE session' = [session EXCEPT !.rebuild = FALSE]
      BY <1>1, <3>7, SessionEdits DEF SessionAfter, OneArmed
    <3>8. CASE session' = Disarmed
      BY <1>1, <3>8, SessionEdits DEF SessionAfter, OneArmed
    <3>9. QED
      BY <3>1, <3>2, <3>3, <3>4, <3>5, <3>6, <3>7, <3>8, TakeSession
  <2>5. QED
    BY <2>1, <2>2, <2>3, <2>4, TakeKeepsArmed
<1>4. QED
  BY <1>2, <1>3

\* A step that leaves the window's models as they are, and no fetch under way.
LEMMA ModelsKeepArmed ==
  ASSUME ArmedInv, [Next]_vars, DOMAIN task' = DOMAIN NoTask, IsChannel(queue'), session' = session,
         vm' = vm, KeepsConfig(boot, boot'), Fetching' => session = Disarmed, DemoIsLoaded'
  PROVE  ArmedInv'
<1>1. DOMAIN boot' = DOMAIN NoEntries /\ boot'.config = boot.config /\ boot'.default = boot.default
  BY DEF KeepsConfig
<1>2. HasFields(svc)' /\ svc'.host = svc.host
  BY ServiceKept DEF ArmedInv, Fields
<1>3. Fields'
  BY <1>1, <1>2, ChannelPrime DEF ArmedInv, Fields
<1>4. Current'
  BY <1>1, <1>2 DEF ArmedInv, Current, RebuildReady, IsDemo
<1>5. QED
  BY <1>1, <1>3, <1>4 DEF ArmedInv, ConfigIsLoaded, OneArmed

\* The answer to a step of the refresh.
LEMMA FetchArmed ==
  ASSUME ArmedInv, [Next]_vars, NEW o \in Outcomes(task.call, svc), AnswerFetchEntries(o)
  PROVE  ArmedInv'
<1>1. /\ DOMAIN session = DOMAIN Disarmed /\ DOMAIN boot = DOMAIN NoEntries
      /\ DOMAIN task = DOMAIN NoTask /\ Fetching /\ session = Disarmed /\ IsChannel(queue)
      /\ session' = session /\ queue' = queue
  BY DEF ArmedInv, Fields, Current, AnswerFetchEntries, Answers, Fetching
<1>2. KeepsConfig(boot, boot)
  BY <1>1 DEF KeepsConfig
<1>3. CASE vm' = vm /\ boot' = boot /\ ~o.ok /\ Then(<<>>)
  <2>1. DOMAIN task' = DOMAIN NoTask
    BY <1>3, ThenTask
  <2>2. ~IsDemo(svc) /\ svc'.host = svc.host
    BY <1>3, OutcomeFacts, ServiceKept DEF ArmedInv, Fields
  <2>3. DemoIsLoaded'
    BY <2>2 DEF DemoIsLoaded, IsDemo
  <2>4. QED
    BY <1>1, <1>2, <1>3, <2>1, <2>3, ModelsKeepArmed
<1>4. ASSUME NEW c, NEW got, vm' = vm, boot' = boot, task' = [task EXCEPT !.call = c, !.got = got]
      PROVE  ArmedInv'
  <2>1. DOMAIN task' = DOMAIN NoTask /\ task'.pc = task.pc /\ task'.msg = task.msg
    BY <1>1, <1>4 DEF NoTask
  <2>2. Fetching'
    BY <1>1, <2>1 DEF Fetching
  <2>3. DemoIsLoaded'
    BY <2>2 DEF DemoIsLoaded
  <2>4. QED
    BY <1>1, <1>2, <1>4, <2>1, <2>3, ModelsKeepArmed
<1>5. ASSUME NEW host, NEW shown, NEW etag, NEW path, vm' = Loaded(host, shown, etag),
             boot' = SetConfigState(boot, path, etag), Then(<<>>)
      PROVE  ArmedInv'
  <2>1. vm'.ready /\ vm'.etag = etag
    BY <1>5 DEF Loaded
  <2>2. DOMAIN boot' = DOMAIN NoEntries /\ boot'.config = etag
    BY <1>1, <1>5, SetConfig
  <2>3. DOMAIN task' = DOMAIN NoTask
    BY <1>5, ThenTask
  <2>4. HasFields(svc)'
    BY ServiceKept DEF ArmedInv, Fields
  <2>5. Fields'
    BY <1>1, <2>2, <2>3, <2>4, ChannelPrime DEF Fields
  <2>6. OneArmed' /\ Current'
    BY <1>1, SessionEdits DEF OneArmed, Current
  <2>7. QED
    BY <2>1, <2>2, <2>5, <2>6 DEF ArmedInv, ConfigIsLoaded, DemoIsLoaded
<1>6. \/ vm' = vm /\ boot' = boot /\ ~o.ok /\ Then(<<>>)
      \/ \E c, got : vm' = vm /\ boot' = boot /\ task' = [task EXCEPT !.call = c, !.got = got]
      \/ \E host, shown, etag, path :
           vm' = Loaded(host, shown, etag) /\ boot' = SetConfigState(boot, path, etag) /\ Then(<<>>)
  BY DEF AnswerFetchEntries
<1>7. QED
  BY <1>3, <1>4, <1>5, <1>6

LEMMA AnswerArmed == ASSUME ArmedInv, [Next]_vars, GuiAnswer PROVE ArmedInv'
<1>1. PICK o \in Outcomes(task.call, svc) :
        \/ AnswerFetchEntries(o) \/ AnswerFetchGrubMenu(o) \/ AnswerFetchGrubSettings(o)
        \/ AnswerApply(o) \/ AnswerRestore(o) \/ AnswerPlain(o)
  BY DEF GuiAnswer
<1>2. CASE AnswerFetchEntries(o)
  BY <1>1, <1>2, FetchArmed
<1>3. CASE ~AnswerFetchEntries(o)
  <2> USE <1>3
  <2>1. DOMAIN boot = DOMAIN NoEntries /\ IsChannel(queue)
    BY DEF ArmedInv, Fields
  <2>2. /\ task.pc = "call" /\ task.msg.m # "FetchEntries"
        /\ session' = session /\ queue' = queue /\ vm' = vm
    BY <1>1 DEF AnswerFetchGrubMenu, AnswerFetchGrubSettings, AnswerApply, AnswerRestore, AnswerPlain, Answers
  <2>3. KeepsConfig(boot, boot')
    <3>1. KeepsConfig(boot, boot)
      BY <2>1 DEF KeepsConfig
    <3>2. CASE AnswerFetchGrubMenu(o)
      BY <2>1, <3>2, LoadKeepsConfig DEF AnswerFetchGrubMenu
    <3>3. QED
      BY <1>1, <3>1, <3>2 DEF AnswerFetchGrubSettings, AnswerApply, AnswerRestore, AnswerPlain
  <2>4. \E todo : Then(todo)
    BY <1>1 DEF AnswerFetchGrubMenu, AnswerFetchGrubSettings, AnswerApply, AnswerRestore, AnswerPlain
  <2>5. DOMAIN task' = DOMAIN NoTask /\ task'.pc # "call"
    BY <2>4, ThenTask
  <2>6. ~Fetching' /\ ~Fetching /\ svc'.host = svc.host
    BY <2>2, <2>5, ServiceKept DEF Fetching, ArmedInv, Fields
  <2>7. DemoIsLoaded'
    BY <2>2, <2>6 DEF ArmedInv, DemoIsLoaded, IsDemo
  <2>8. QED
    BY <2>1, <2>2, <2>3, <2>5, <2>6, <2>7, ModelsKeepArmed
<1>4. QED
  BY <1>2, <1>3

\* The window's thread only appends to the channel.
LEMMA WindowAppends ==
  ASSUME GuiWindow, IsChannel(queue)
  PROVE  /\ IsChannel(queue') /\ (queue # <<>> => queue' # <<>> /\ Head(queue') = Head(queue))
         /\ UNCHANGED <<svc, task, models>>
<1>1. \/ queue' = queue \/ (\E m : queue' = Queued(queue, m))
      \/ (\E m, n : queue' = Queued(Queued(queue, m), n))
  BY DEF GuiWindow, GuiClick, GuiOpenRestore, GuiConfirm, GuiCancel
<1>2. IsChannel(queue') /\ (queue # <<>> => queue' # <<>> /\ Head(queue') = Head(queue))
  BY <1>1, ChannelQueued
<1>3. QED
  BY <1>2 DEF GuiWindow, GuiClick, GuiOpenRestore, GuiConfirm, GuiCancel

LEMMA WindowArmed == ASSUME ArmedInv, [Next]_vars, GuiWindow PROVE ArmedInv'
<1>1. /\ DOMAIN boot = DOMAIN NoEntries /\ DOMAIN task = DOMAIN NoTask /\ IsChannel(queue)
      /\ Fetching => session = Disarmed
  BY DEF ArmedInv, Fields, Current
<1>2. IsChannel(queue') /\ (queue # <<>> => queue' # <<>> /\ Head(queue') = Head(queue))
  BY <1>1, WindowAppends
<1>3. /\ svc' = svc /\ task' = task /\ session' = session /\ vm' = vm /\ boot' = boot
  BY <1>1, WindowAppends DEF models
<1>4. KeepsConfig(boot, boot')
  BY <1>1, <1>3 DEF KeepsConfig
<1>5. Fetching' = Fetching /\ DemoIsLoaded'
  BY <1>2, <1>3 DEF Fetching, DemoIsLoaded, ArmedInv, IsDemo
<1>6. QED
  BY <1>1, <1>2, <1>3, <1>4, <1>5, ModelsKeepArmed

LEMMA TaskArmed == ASSUME ArmedInv, [Next]_vars, GuiStart \/ GuiFollow PROVE ArmedInv'
<1>1. /\ DOMAIN boot = DOMAIN NoEntries /\ DOMAIN task = DOMAIN NoTask /\ IsChannel(queue)
  BY DEF ArmedInv, Fields
<1>2. KeepsConfig(boot, boot)
  BY <1>1 DEF KeepsConfig
<1>3. CASE GuiStart
  <2>1. vm' = vm /\ boot' = boot /\ session' = session
    BY <1>3 DEF GuiStart, models
  <2>2. \/ queue' = Fetches /\ task' = NoTask
        \/ queue' = queue /\ task' = [task EXCEPT !.pc = "off"]
    BY <1>3 DEF GuiStart
  <2>3. IsChannel(Fetches) /\ Fetches # <<>> /\ Head(Fetches).m = "FetchEntries"
    <3>1. Fetches \in Seq({Msg("FetchEntries"), Msg("FetchGrubMenu"), Msg("FetchGrubSettings"), Msg("FetchSnapshots")})
      BY DEF Fetches
    <3>2. Fetches # <<>> /\ Head(Fetches) = Msg("FetchEntries")
      BY DEF Fetches
    <3>3. QED
      BY <3>1, <3>2, ChannelOf DEF Msg
  <2>4. CASE queue' = Fetches /\ task' = NoTask
    <3>1. DOMAIN task' = DOMAIN NoTask /\ task'.pc = "recv"
      BY <2>4 DEF NoTask
    <3>2. ~Fetching' /\ DemoIsLoaded'
      BY <2>3, <2>4, <3>1 DEF Fetching, DemoIsLoaded
    <3>3. QED
      BY <1>2, <2>1, <2>3, <2>4, <3>1, <3>2, ModelsKeepArmed
  <2>5. CASE queue' = queue /\ task' = [task EXCEPT !.pc = "off"]
    <3>1. DOMAIN task' = DOMAIN NoTask /\ task'.pc = "off"
      BY <1>1, <2>5 DEF NoTask
    <3>2. ~Fetching' /\ DemoIsLoaded'
      BY <3>1 DEF Fetching, DemoIsLoaded
    <3>3. QED
      BY <1>1, <1>2, <2>1, <2>5, <3>1, <3>2, ModelsKeepArmed
  <2>6. QED
    BY <2>2, <2>4, <2>5
<1>4. CASE GuiFollow
  <2>1. /\ vm' = vm /\ boot' = boot /\ session' = session /\ svc' = svc /\ task.pc = "send"
        /\ \E m : queue' = Append(queue, m)
        /\ \E todo : Then(todo)
    BY <1>4 DEF GuiFollow, models
  <2>2. IsChannel(queue') /\ DOMAIN task' = DOMAIN NoTask /\ task'.pc # "call"
    BY <1>1, <2>1, ChannelAppend, ThenTask
  <2>3. ~Fetching' /\ ~Fetching
    BY <2>1, <2>2 DEF Fetching
  <2>4. DemoIsLoaded'
    BY <2>1, <2>3 DEF ArmedInv, DemoIsLoaded, IsDemo
  <2>5. QED
    BY <1>2, <2>1, <2>2, <2>3, <2>4, ModelsKeepArmed
<1>5. QED
  BY <1>3, <1>4

LEMMA ArmedStep == ArmedInv /\ [Next]_vars => ArmedInv'
<1> SUFFICES ASSUME ArmedInv, [Next]_vars
             PROVE  ArmedInv'
  OBVIOUS
<1>1. CASE Gui
  BY <1>1, TakeArmed, AnswerArmed, WindowArmed, TaskArmed DEF Gui, GuiNext, GuiTask
<1>2. CASE UNCHANGED guiVars
  <2>1. /\ DOMAIN boot = DOMAIN NoEntries /\ DOMAIN task = DOMAIN NoTask /\ IsChannel(queue)
        /\ (Fetching => session = Disarmed) /\ HasFields(svc)
    BY DEF ArmedInv, Fields, Current
  <2>2. /\ queue' = queue /\ task' = task /\ session' = session /\ vm' = vm /\ boot' = boot
        /\ svc'.host = svc.host
    BY <1>2, <2>1, ServiceKept DEF guiVars
  <2>3. KeepsConfig(boot, boot')
    BY <2>1, <2>2 DEF KeepsConfig
  <2>4. Fetching' = Fetching /\ DemoIsLoaded'
    BY <2>2 DEF Fetching, DemoIsLoaded, ArmedInv, IsDemo
  <2>5. QED
    BY <2>1, <2>2, <2>3, <2>4, ModelsKeepArmed
<1>3. QED
  BY <1>1, <1>2 DEF Next, Tui, Cli, Other, vars

LEMMA ArmedInit == Init => ArmedInv
<1> SUFFICES ASSUME Init
             PROVE  ArmedInv
  OBVIOUS
<1>1. /\ session = Disarmed /\ boot.config = NoEtag /\ DOMAIN boot = DOMAIN NoEntries
      /\ vm.etag = NoEtag
  BY DEF Init, GuiInit, NoEntries, Unloaded
<1>2. task.pc = "start" /\ DOMAIN task = DOMAIN NoTask
  BY DEF Init, GuiInit, NoTask
<1>3. IsChannel(queue)
  BY ChannelOf, EmptySeq DEF Init, GuiInit
<1>4. HasFields(svc)
  BY ClientsAssumption DEF Init, HasFields
<1>5. QED
  BY <1>1, <1>2, <1>3, <1>4, SessionEdits
     DEF ArmedInv, Fields, OneArmed, ConfigIsLoaded, DemoIsLoaded, Current

\* The window arms at most one operation; an armed change of the default was staged on
\* the configuration the window holds, an armed rebuild on a state that is loaded.
THEOREM WindowArmsOne == Spec => []ArmedIsCurrent
<1>1. Init => ArmedInv
  BY ArmedInit
<1>2. ArmedInv => ArmedIsCurrent
  <2> SUFFICES ASSUME ArmedInv
               PROVE  ArmedIsCurrent
    OBVIOUS
  <2> DEFINE Armed == {r \in {session.default, session.settings} : r # NoRequest}
  <2>1. Cardinality(Armed) + (IF session.rebuild THEN 1 ELSE 0) <= 1
    <3>1. CASE session.default # NoRequest
      <4>1. Armed = {session.default} /\ ~session.rebuild
        BY <3>1 DEF ArmedInv, OneArmed
      <4>2. Cardinality(Armed) = 1
        BY <4>1, FS_Singleton
      <4>3. QED
        BY <4>1, <4>2
    <3>2. CASE session.default = NoRequest /\ session.settings # NoRequest
      <4>1. Armed = {session.settings} /\ ~session.rebuild
        BY <3>2 DEF ArmedInv, OneArmed
      <4>2. Cardinality(Armed) = 1
        BY <4>1, FS_Singleton
      <4>3. QED
        BY <4>1, <4>2
    <3>3. CASE session.default = NoRequest /\ session.settings = NoRequest
      <4>1. Armed = {}
        BY <3>3
      <4>2. Cardinality(Armed) = 0
        BY <4>1, FS_EmptySet
      <4>3. QED
        BY <4>2
    <3>4. QED
      BY <3>1, <3>2, <3>3
  <2>2. session.default # NoRequest =>
          /\ vm.ready
          /\ session.default.etag = vm.etag /\ session.default.etag = boot.config
          /\ session.default.previous = boot.default
    BY DEF ArmedInv, Current, ConfigIsLoaded
  <2>3. session.rebuild => vm.ready /\ RebuildReady(vm, svc)
    BY DEF ArmedInv, Current
  <2>4. QED
    BY <2>1, <2>2, <2>3 DEF ArmedIsCurrent
<1>3. QED
  BY <1>1, <1>2, ArmedStep, PTL DEF Spec

-----------------------------------------------------------------------------
(* The window: what is sent, and by whom                                   *)

Asking == {"Set default entry", "Apply GRUB settings"}
FetchKinds == {"FetchEntries", "FetchGrubMenu", "FetchGrubSettings", "FetchSnapshots"}

\* The task sends itself fetches; the pages send what their controls do.
Senders ==
  /\ \A m \in menuOf : m.m \in Controls
  /\ sheet.open => sheet.verb \in Asking \union {"Rewrite GRUB", "Restore Snapshot"}
  /\ IsChannel(task.todo) /\ \A i \in DOMAIN task.todo : task.todo[i].m \in FetchKinds
  /\ task.pc = "send" => task.todo # <<>>

LEMMA SheetVerbs ==
  /\ \A id : Sheet("Restore Snapshot", id, TRUE).verb = "Restore Snapshot"
  /\ \A req, pass : Sheet("Set default entry", req, pass).verb = "Set default entry"
  /\ \A req : Sheet("Apply GRUB settings", req, TRUE).verb = "Apply GRUB settings"
  /\ \A pass : Sheet("Rewrite GRUB", NoRequest, pass).verb = "Rewrite GRUB"
  /\ ~ClosedSheet.open
  BY DEF Sheet, ClosedSheet

\* What the task has still to send itself, when it is done with a message.
FetchesOnly(todo) == IsChannel(todo) /\ \A i \in DOMAIN todo : todo[i].m \in FetchKinds

LEMMA FollowUps ==
  /\ FetchesOnly(<<>>)
  /\ FetchesOnly(<<Msg("FetchEntries"), Msg("FetchGrubMenu")>>)
  /\ FetchesOnly(<<Msg("FetchEntries"), Msg("FetchGrubMenu"), Msg("FetchGrubSettings")>>)
  /\ FetchesOnly(<<Msg("FetchEntries"), Msg("FetchSnapshots")>>)
  /\ FetchesOnly(Fetches)
<1> DEFINE S == {Msg(k) : k \in FetchKinds}
<1>1. /\ <<>> \in Seq(S)
      /\ <<Msg("FetchEntries"), Msg("FetchGrubMenu")>> \in Seq(S)
      /\ <<Msg("FetchEntries"), Msg("FetchGrubMenu"), Msg("FetchGrubSettings")>> \in Seq(S)
      /\ <<Msg("FetchEntries"), Msg("FetchSnapshots")>> \in Seq(S)
      /\ Fetches \in Seq(S)
  BY DEF FetchKinds, Fetches
<1>2. \A e \in S : e.m \in FetchKinds
  BY DEF Msg
<1>3. ASSUME NEW todo \in Seq(S)
      PROVE  FetchesOnly(todo)
  <2>1. \A i \in DOMAIN todo : todo[i] \in S
    BY ElementOfSeq, LenProperties
  <2> HIDE DEF S
  <2>2. QED
    BY <1>2, <2>1, ChannelOf DEF FetchesOnly
<1>4. QED
  BY <1>1, <1>3

LEMMA FollowUpsTail ==
  ASSUME NEW todo, FetchesOnly(todo), todo # <<>>
  PROVE  Head(todo).m \in FetchKinds /\ FetchesOnly(Tail(todo))
<1>1. /\ IsChannel(Tail(todo)) /\ Len(todo) \in Nat \ {0} /\ Head(todo) = todo[1]
      /\ DOMAIN Tail(todo) = 1..(Len(todo) - 1) /\ DOMAIN todo = 1..Len(todo)
      /\ \A i \in 1..(Len(todo) - 1) : Tail(todo)[i] = todo[i + 1] /\ i + 1 \in DOMAIN todo
  BY ChannelTail, LenProperties DEF FetchesOnly, IsChannel
<1>2. QED
  BY <1>1 DEF FetchesOnly

LEMMA WindowSenders == ASSUME Senders, GuiWindow PROVE Senders'
<1>1. task' = task /\ menuOf' = menuOf
  BY DEF GuiWindow, GuiClick, GuiOpenRestore, GuiConfirm, GuiCancel
<1>2. sheet' = sheet \/ sheet' = ClosedSheet \/ \E id : sheet' = Sheet("Restore Snapshot", id, TRUE)
  BY DEF GuiWindow, GuiClick, GuiOpenRestore, GuiConfirm, GuiCancel
<1>3. sheet'.open => sheet'.verb \in Asking \union {"Rewrite GRUB", "Restore Snapshot"}
  BY <1>2, SheetVerbs DEF Senders
<1>4. QED
  BY <1>1, <1>3 DEF Senders, IsChannel, Messages

LEMMA TakeSenders == ASSUME ArmedInv, Senders, GuiTake PROVE Senders'
<1>1. DOMAIN task = DOMAIN NoTask
  BY DEF ArmedInv, Fields
<1>2. task.pc = "recv" /\ menuOf' = menuOf
  BY DEF GuiTake, Takes, TakeFetchEntries, TakeFetchGrubMenu, TakeFetchGrubSettings, TakeBootEntriesEdit,
     TakePrepareGrubDefault, TakeApplyGrubDefault, TakeSettingsEdit, TakePrepareGrubSettings,
     TakeApplyGrubSettings, TakePrepareRebuild, TakeRebuild, TakeCancel, TakePlain, TakeRestore
<1>3. task' = task \/ \E c, req : Calls(c, req)
  BY DEF GuiTake, TakeFetchEntries, TakeFetchGrubMenu, TakeFetchGrubSettings, TakeBootEntriesEdit,
     TakePrepareGrubDefault, TakeApplyGrubDefault, TakeSettingsEdit, TakePrepareGrubSettings,
     TakeApplyGrubSettings, TakePrepareRebuild, TakeRebuild, TakeCancel, TakePlain, TakeRestore, Handled
<1>4. task'.pc \in {"recv", "call"} /\ task'.todo = task.todo
  BY <1>1, <1>2, <1>3, CallsTask
<1>5. \/ sheet' = sheet \/ sheet' = ClosedSheet
      \/ \E req, pass : sheet' = Sheet("Set default entry", req, pass)
      \/ \E req : sheet' = Sheet("Apply GRUB settings", req, TRUE)
      \/ \E pass : sheet' = Sheet("Rewrite GRUB", NoRequest, pass)
  BY DEF GuiTake, TakeFetchEntries, TakeFetchGrubMenu, TakeFetchGrubSettings, TakeBootEntriesEdit,
     TakePrepareGrubDefault, TakeApplyGrubDefault, TakeSettingsEdit, TakePrepareGrubSettings,
     TakeApplyGrubSettings, TakePrepareRebuild, TakeRebuild, TakeCancel, TakePlain, TakeRestore
<1>6. sheet'.open => sheet'.verb \in Asking \union {"Rewrite GRUB", "Restore Snapshot"}
  BY <1>5, SheetVerbs DEF Senders, Asking
<1>7. QED
  BY <1>2, <1>4, <1>6 DEF Senders, IsChannel, Messages

LEMMA AnswerSenders == ASSUME ArmedInv, Senders, GuiAnswer PROVE Senders'
<1>1. PICK o \in Outcomes(task.call, svc) :
        \/ AnswerFetchEntries(o) \/ AnswerFetchGrubMenu(o) \/ AnswerFetchGrubSettings(o)
        \/ AnswerApply(o) \/ AnswerRestore(o) \/ AnswerPlain(o)
  BY DEF GuiAnswer
<1>2. sheet' = sheet /\ menuOf' = menuOf /\ task.pc = "call"
  BY <1>1 DEF AnswerFetchEntries, AnswerFetchGrubMenu, AnswerFetchGrubSettings, AnswerApply, AnswerRestore,
     AnswerPlain, Answers
<1>3. \/ \E todo : FetchesOnly(todo) /\ Then(todo)
      \/ \E c, got : task' = [task EXCEPT !.call = c, !.got = got]
  <2>1. CASE AnswerFetchEntries(o)
    BY <2>1, FollowUps DEF AnswerFetchEntries
  <2>2. CASE AnswerFetchGrubMenu(o) \/ AnswerFetchGrubSettings(o) \/ AnswerPlain(o)
    BY <2>2, FollowUps DEF AnswerFetchGrubMenu, AnswerFetchGrubSettings, AnswerPlain
  <2>3. CASE AnswerApply(o)
    BY <2>3, FollowUps DEF AnswerApply
  <2>4. CASE AnswerRestore(o)
    <3>1. FetchesOnly(AfterRestore(o))
      BY FollowUps DEF AfterRestore
    <3>2. QED
      BY <2>4, <3>1 DEF AnswerRestore
  <2>5. QED
    BY <1>1, <2>1, <2>2, <2>3, <2>4
<1>4. CASE \E todo : FetchesOnly(todo) /\ Then(todo)
  <2>1. PICK todo : FetchesOnly(todo) /\ Then(todo)
    BY <1>4
  <2>2. task'.todo = todo /\ (task'.pc = "send" => todo # <<>>)
    BY <2>1, ThenTask
  <2>3. QED
    BY <1>2, <2>1, <2>2 DEF Senders, FetchesOnly, IsChannel, Messages
<1>5. CASE \E c, got : task' = [task EXCEPT !.call = c, !.got = got]
  <2>1. task'.todo = task.todo /\ task'.pc = task.pc
    BY <1>5 DEF ArmedInv, Fields, NoTask
  <2>2. QED
    BY <1>2, <2>1 DEF Senders, IsChannel, Messages
<1>6. QED
  BY <1>3, <1>4, <1>5

LEMMA TaskSenders == ASSUME ArmedInv, Senders, GuiStart \/ GuiFollow PROVE Senders'
<1>1. DOMAIN task = DOMAIN NoTask
  BY DEF ArmedInv, Fields
<1>2. sheet' = sheet /\ menuOf' = menuOf
  BY DEF GuiStart, GuiFollow
<1>3. CASE GuiStart
  <2>1. \/ task' = NoTask
        \/ task' = [task EXCEPT !.pc = "off"]
    BY <1>3 DEF GuiStart
  <2>2. task'.todo \in {<<>>, task.todo} /\ task'.pc # "send"
    BY <1>1, <2>1 DEF NoTask
  <2>3. QED
    BY <1>2, <2>2, FollowUps DEF Senders, FetchesOnly, IsChannel, Messages
<1>4. CASE GuiFollow
  <2>1. task.pc = "send" /\ Then(Tail(task.todo)) /\ task.todo # <<>>
    BY <1>4 DEF GuiFollow, Senders
  <2>2. FetchesOnly(Tail(task.todo))
    BY <2>1, FollowUpsTail DEF Senders, FetchesOnly
  <2>3. task'.todo = Tail(task.todo) /\ (task'.pc = "send" => task'.todo # <<>>)
    BY <2>1, ThenTask
  <2>4. QED
    BY <1>2, <2>2, <2>3 DEF Senders, FetchesOnly, IsChannel, Messages
<1>5. QED
  BY <1>3, <1>4

LEMMA SendersInit == Init => Senders
<1> SUFFICES ASSUME Init
             PROVE  Senders
  OBVIOUS
<1>1. sheet = ClosedSheet /\ task.todo = <<>> /\ task.pc = "start"
  BY DEF Init, GuiInit, NoTask
<1>2. \A m \in menuOf : m.m \in Controls
  BY ClientsAssumption DEF Init
<1>3. QED
  BY <1>1, <1>2, SheetVerbs, FollowUps DEF Senders, FetchesOnly

LEMMA SendersStep == ArmedInv /\ Senders /\ [Next]_vars => Senders'
<1> SUFFICES ASSUME ArmedInv, Senders, [Next]_vars
             PROVE  Senders'
  OBVIOUS
<1>1. CASE Gui
  BY <1>1, TakeSenders, AnswerSenders, WindowSenders, TaskSenders DEF Gui, GuiNext, GuiTask
<1>2. CASE UNCHANGED guiVars
  <2>1. task' = task /\ sheet' = sheet /\ menuOf' = menuOf
    BY <1>2 DEF guiVars
  <2>2. QED
    BY <2>1 DEF Senders, IsChannel, Messages
<1>3. QED
  BY <1>1, <1>2 DEF Next, Tui, Cli, Other, vars

-----------------------------------------------------------------------------
(* Lists of entries, and an entry of one moved                             *)

\* A part of a sequence.
LEMMA PartOf ==
  ASSUME NEW s \in Seq(Nat), NEW m \in Nat \ {0}, NEW n \in Nat, n <= Len(s)
  PROVE  SubSeq(s, m, n) \in Seq(Nat) /\ Len(SubSeq(s, m, n)) = IF m <= n THEN n - m + 1 ELSE 0
<1>1. m \in Int /\ n \in Int /\ Len(s) \in Nat
  BY LenProperties
<1>2. \A i \in m..n : s[i] \in Nat
  BY <1>1, ElementOfSeq
<1>3. QED
  BY <1>1, <1>2, SubSeqProperties

\* A sequence without one of its elements.
LEMMA Removed ==
  ASSUME NEW s \in Seq(Nat), NEW i \in 1..Len(s)
  PROVE  RemoveAt(s, i) \in Seq(Nat) /\ Len(RemoveAt(s, i)) = Len(s) - 1
<1> DEFINE front == SubSeq(s, 1, i - 1)
           back == SubSeq(s, i + 1, Len(s))
<1>1. Len(s) \in Nat
  BY LenProperties
<1>2. i - 1 \in Nat /\ i + 1 \in Nat \ {0} /\ i - 1 <= Len(s)
  BY <1>1
<1>3. front \in Seq(Nat) /\ Len(front) = i - 1
  BY <1>1, <1>2, PartOf
<1>4. back \in Seq(Nat) /\ Len(back) = Len(s) - i
  BY <1>1, <1>2, PartOf
<1>5. RemoveAt(s, i) = front \o back
  BY DEF RemoveAt
<1> HIDE DEF front, back
<1>6. front \o back \in Seq(Nat) /\ Len(front \o back) = Len(front) + Len(back)
  BY <1>3, <1>4, ConcatProperties
<1>7. QED
  BY <1>1, <1>3, <1>4, <1>5, <1>6

\* A sequence with an element put in at a position.
LEMMA Inserted ==
  ASSUME NEW s \in Seq(Nat), NEW i \in 1..(Len(s) + 1), NEW e \in Nat
  PROVE  /\ InsertAt(s, i, e) \in Seq(Nat) /\ Len(InsertAt(s, i, e)) = Len(s) + 1
         /\ InsertAt(s, i, e)[i] = e
<1> DEFINE front == SubSeq(s, 1, i - 1)
           back == SubSeq(s, i, Len(s))
<1>1. Len(s) \in Nat /\ i \in Nat \ {0} /\ i - 1 \in Nat /\ i - 1 <= Len(s)
  BY LenProperties
<1>2. front \in Seq(Nat) /\ Len(front) = i - 1
  BY <1>1, PartOf
<1>3. back \in Seq(Nat) /\ Len(back) = Len(s) - i + 1
  BY <1>1, PartOf
<1>4. InsertAt(s, i, e) = (front \o <<e>>) \o back
  BY DEF InsertAt
<1> HIDE DEF front, back
<1>5. Append(front, e) = front \o <<e>>
  BY <1>2, AppendIsConcat
<1>6. /\ front \o <<e>> \in Seq(Nat) /\ Len(front \o <<e>>) = i
      /\ (front \o <<e>>)[i] = e
  BY <1>1, <1>2, <1>5, AppendProperties
<1>7. /\ (front \o <<e>>) \o back \in Seq(Nat)
      /\ Len((front \o <<e>>) \o back) = Len(s) + 1
      /\ ((front \o <<e>>) \o back)[i] = (front \o <<e>>)[i]
  <2> DEFINE p == front \o <<e>>
  <2>1. p \in Seq(Nat) /\ Len(p) = i
    BY <1>6
  <2> HIDE DEF p
  <2>2. /\ p \o back \in Seq(Nat)
        /\ Len(p \o back) = Len(p) + Len(back)
        /\ \A j \in 1..(Len(p) + Len(back)) :
             (p \o back)[j] = IF j <= Len(p) THEN p[j] ELSE back[j - Len(p)]
    BY <1>3, <2>1, ConcatProperties
  <2>3. i \in 1..(Len(p) + Len(back)) /\ i <= Len(p)
    BY <1>1, <1>3, <2>1
  <2>4. (p \o back)[i] = p[i]
    BY <2>2, <2>3
  <2>5. Len(p \o back) = Len(s) + 1
    BY <1>1, <1>3, <2>1, <2>2
  <2>6. QED
    BY <2>2, <2>4, <2>5 DEF p
<1>8. QED
  BY <1>4, <1>6, <1>7

\* The position asked for, or the last.
Landing(order, to) == IF to < Len(order) - 1 THEN to ELSE Len(order) - 1

\* Moving an entry of a list keeps its length, and puts the entry at the position
\* asked for or, beyond the end, last.
LEMMA MovedEntry ==
  ASSUME NEW s \in Seq(Nat), NEW from \in Nat, NEW to \in Nat, from < Len(s)
  PROVE  /\ Moved(s, from, to) \in Seq(Nat)
         /\ Len(Moved(s, from, to)) = Len(s)
         /\ Moved(s, from, to)[1 + Landing(s, to)] = s[from + 1]
<1> DEFINE at == Landing(s, to)
           r == RemoveAt(s, from + 1)
<1>1. Len(s) \in Nat /\ from + 1 \in 1..Len(s) /\ s[from + 1] \in Nat
  BY LenProperties, ElementOfSeq
<1>2. at \in Nat /\ at <= Len(s) - 1
  BY <1>1 DEF Landing
<1>3. r \in Seq(Nat) /\ Len(r) = Len(s) - 1
  BY <1>1, Removed
<1>4. Moved(s, from, to) = InsertAt(r, at + 1, s[from + 1])
  BY DEF Moved, Landing
<1> HIDE DEF at, r
<1>5. at + 1 \in 1..(Len(r) + 1) /\ 1 + at = at + 1
  BY <1>1, <1>2, <1>3
<1>6. /\ InsertAt(r, at + 1, s[from + 1]) \in Seq(Nat)
      /\ Len(InsertAt(r, at + 1, s[from + 1])) = Len(r) + 1
      /\ InsertAt(r, at + 1, s[from + 1])[at + 1] = s[from + 1]
  BY <1>1, <1>3, <1>5, Inserted
<1>7. QED
  BY <1>1, <1>3, <1>4, <1>5, <1>6 DEF at

-----------------------------------------------------------------------------
(* The command line client: MoveKeepsEntries                               *)

CliWrites == {"SetValue", "SetLoaderDefault", "AddKernelParam", "RemoveKernelParam", "SetBootOrder",
              "RestoreSnapshot"}

\* A call of a command that does not write the boot order by another name.
CallOK(call) ==
  /\ call.m \in CliWrites \union Reads \union Plain
  /\ call.m = "RestoreSnapshot" => call.id[1] # "order"
  /\ call.m = "SetBootOrder" => call.order \in Seq(Nat)

\* The boot order is a list of numbers, and no snapshot is of it.
OrderOK(s) ==
  /\ HasFields(s) /\ DOMAIN s.files = Kinds
  /\ s.files["order"] \in Seq(Nat)
  /\ \A id \in s.snaps : id[1] # "order"

\* The arguments of a move-entry are positions; what it writes is what it has read,
\* with the entry moved.
MoveOK ==
  /\ cli.cmd.from \in Nat /\ cli.cmd.to \in Nat
  /\ \/ cli.call.m = "GetBootOrder"
     \/ /\ cli.call.m = "SetBootOrder"
        /\ cli.got \in Seq(Nat) /\ cli.cmd.from < Len(cli.got)
        /\ cli.call.order = Moved(cli.got, cli.cmd.from, cli.cmd.to)

MoveInv ==
  client = "cli" =>
    /\ OrderOK(svc)
    /\ DOMAIN cli = DOMAIN NoProcess
    /\ cli.pc = "call" => CallOK(cli.call) /\ (cli.cmd.cmd = "EfiMoveEntry" => MoveOK)

\* What a write leaves of the boot order.
LEMMA AfterOrder ==
  ASSUME NEW c, NEW s, OrderOK(s), CallOK(c), c.m \notin Reads \union Plain
  PROVE  /\ OrderOK(After(c, s))
         /\ After(c, s).files["order"] = IF c.m = "SetBootOrder" THEN c.order ELSE s.files["order"]
<1>1. c.m \in CliWrites
  BY DEF CallOK
<1>2. FileWritten(c) = "order" <=> c.m = "SetBootOrder"
  <2>1. CASE c.m = "SetBootOrder"
    BY <2>1 DEF FileWritten
  <2>2. CASE c.m = "RestoreSnapshot"
    BY <2>2 DEF FileWritten, CallOK
  <2>3. CASE c.m = "SetValue"
    BY <2>3 DEF FileWritten
  <2>4. CASE c.m = "SetLoaderDefault"
    BY <2>4 DEF FileWritten
  <2>5. CASE c.m \in {"AddKernelParam", "RemoveKernelParam"}
    BY <2>5 DEF FileWritten
  <2>6. QED
    BY <1>1, <2>1, <2>2, <2>3, <2>4, <2>5 DEF CliWrites
<1>3. c.m = "SetBootOrder" => Written(c, s) = c.order /\ c.order \in Seq(Nat)
  BY DEF Written, CallOK, GrubEdits
<1>4. PICK kind : kind = FileWritten(c)
  OBVIOUS
<1>5. PICK w : w = Written(c, s)
  OBVIOUS
<1>6. After(c, s) = [s EXCEPT !.files[kind] = w,
                              !.snaps = IF c.m \in GrubEdits THEN @ \union {EtagOf("config", s)} ELSE @]
  BY <1>4, <1>5 DEF After
<1>7. EtagOf("config", s)[1] # "order"
  BY DEF EtagOf
<1>8. /\ HasFields(After(c, s))
      /\ After(c, s).files = [s.files EXCEPT ![kind] = w]
      /\ After(c, s).snaps = IF c.m \in GrubEdits THEN s.snaps \union {EtagOf("config", s)} ELSE s.snaps
  BY <1>6 DEF OrderOK, HasFields
<1>9. /\ DOMAIN After(c, s).files = Kinds
      /\ After(c, s).files["order"] = IF kind = "order" THEN w ELSE s.files["order"]
  BY <1>8 DEF OrderOK, Kinds
<1>10. \A id \in After(c, s).snaps : id[1] # "order"
  BY <1>7, <1>8 DEF OrderOK
<1>11. QED
  BY <1>2, <1>3, <1>4, <1>5, <1>8, <1>9, <1>10 DEF OrderOK

\* The commands, with their first calls.
LEMMA CommandFacts ==
  ASSUME OrderOK(svc), NEW c \in Commands(svc, printed)
  PROVE  /\ CallOK(c.call)
         /\ c.cmd = "EfiMoveEntry" =>
              c.from \in Nat /\ c.to \in Nat /\ c.call.m = "GetBootOrder"
<1> DEFINE Simple == {"GetActiveBackend", "RebuildGrubConfig", "BackupNvram", "SignAndEnrollUki", "SetValue",
                      "ListLoaderEntries", "ReadLoaderEntry", "RenameLoaderEntry", "SetLoaderDefault",
                      "ReadKernelCmdline", "AddKernelParam", "RemoveKernelParam", "ListSnapshots", "GetBootOrder",
                      "GetBootNext", "ListEfiBootEntries", "SetBootNext", "ClearBootNext"}
<1>1. /\ Simple \subseteq CliWrites \union Reads \union Plain
      /\ "RestoreSnapshot" \notin Simple /\ "SetBootOrder" \notin Simple
      /\ {"RestoreSnapshot", "SetBootOrder"} \subseteq CliWrites
  BY DEF CliWrites, Reads, Plain, FileRead
<1>2. \/ c \in EfiMove
      \/ c.call.m \in Simple /\ c.cmd # "EfiMoveEntry"
      \/ c.call.m = "RestoreSnapshot" /\ c.call.id \in svc.snaps /\ c.cmd # "EfiMoveEntry"
      \/ c.call.m = "SetBootOrder" /\ c.call.order \in Orders /\ c.cmd # "EfiMoveEntry"
  <2> DEFINE Plainly == c.call.m \in Simple /\ c.cmd # "EfiMoveEntry"
  <2>1. ASSUME c \in ShowCommands
        PROVE  Plainly
    BY <2>1 DEF ShowCommands
  <2>2. ASSUME c \in RebuildCommand
        PROVE  Plainly
    BY <2>2 DEF RebuildCommand
  <2>3. ASSUME c \in NvramCommand \union MokCommand
        PROVE  Plainly
    BY <2>3 DEF NvramCommand, MokCommand
  <2>4. ASSUME c \in SetCommand(printed)
        PROVE  Plainly
    BY <2>4 DEF SetCommand
  <2>5. ASSUME c \in BootCommands(printed)
        PROVE  Plainly
    BY <2>5 DEF BootCommands
  <2>6. ASSUME c \in CmdlineCommands(printed)
        PROVE  Plainly
    BY <2>6 DEF CmdlineCommands
  <2>7. ASSUME c \in EfiReads
        PROVE  Plainly
    BY <2>7 DEF EfiReads
  <2>8. ASSUME c \in EfiNext
        PROVE  Plainly
    BY <2>8 DEF EfiNext
  <2>9. CASE c \in SnapshotCommands(svc, printed)
    BY <2>9 DEF SnapshotCommands
  <2>10. ASSUME c \in EfiSetOrder
         PROVE  c.call.m = "SetBootOrder" /\ c.call.order \in Orders /\ c.cmd # "EfiMoveEntry"
    BY <2>10 DEF EfiSetOrder
  <2>11. QED
    BY <2>1, <2>2, <2>3, <2>4, <2>5, <2>6, <2>7, <2>8, <2>9, <2>10 DEF Commands
<1>3. CASE c \in EfiMove
  <2>1. PICK p \in Moves : c = [cmd |-> "EfiMoveEntry", call |-> [m |-> "GetBootOrder"], from |-> p[1], to |-> p[2]]
    BY <1>3 DEF EfiMove
  <2>2. p[1] \in Nat /\ p[2] \in Nat
    BY MovesAssumption
  <2>3. c.from = p[1] /\ c.to = p[2] /\ c.call.m = "GetBootOrder"
    BY <2>1
  <2>4. QED
    BY <1>1, <2>2, <2>3 DEF CallOK
<1> HIDE DEF Simple
<1>4. CASE c.call.m \in Simple /\ c.cmd # "EfiMoveEntry"
  BY <1>1, <1>4 DEF CallOK
<1>5. CASE c.call.m = "RestoreSnapshot" /\ c.call.id \in svc.snaps /\ c.cmd # "EfiMoveEntry"
  BY <1>1, <1>5 DEF CallOK, OrderOK
<1>6. CASE c.call.m = "SetBootOrder" /\ c.call.order \in Orders /\ c.cmd # "EfiMoveEntry"
  BY <1>1, <1>6, MovesAssumption DEF CallOK
<1>7. QED
  BY <1>2, <1>3, <1>4, <1>5, <1>6

\* A command starts.
LEMMA StartMove == ASSUME MoveInv, client = "cli", CliStart PROVE MoveInv'
<1>1. PICK c \in Commands(svc, printed) :
        cli' \in {[NoProcess EXCEPT !.pc = "call", !.cmd = c, !.call = c.call],
                  [NoProcess EXCEPT !.pc = "exit", !.code = 1]}
  BY DEF CliStart
<1>2. /\ CallOK(c.call)
      /\ c.cmd = "EfiMoveEntry" => c.from \in Nat /\ c.to \in Nat /\ c.call.m = "GetBootOrder"
  BY CommandFacts DEF MoveInv
<1>3. svc' = svc
  BY DEF CliStart
<1>4. CASE cli' = [NoProcess EXCEPT !.pc = "call", !.cmd = c, !.call = c.call]
  <2>1. DOMAIN cli' = DOMAIN NoProcess /\ cli'.cmd = c /\ cli'.call = c.call
    BY <1>4 DEF NoProcess
  <2>2. QED
    BY <1>2, <1>3, <2>1 DEF MoveInv, MoveOK
<1>5. CASE cli' = [NoProcess EXCEPT !.pc = "exit", !.code = 1]
  <2>1. DOMAIN cli' = DOMAIN NoProcess /\ cli'.pc = "exit"
    BY <1>5 DEF NoProcess
  <2>2. QED
    BY <1>3, <2>1 DEF MoveInv
<1>6. QED
  BY <1>1, <1>4, <1>5

\* The boot order that a command has read.
LEMMA OrderRead ==
  ASSUME OrderOK(svc), NEW c, c.m = "GetBootOrder", NEW o \in Outcomes(c, svc), o.ok
  PROVE  o.value.content = svc.files["order"]
<1>1. c.m \in Reads
  BY DEF Reads, FileRead
<1>2. o.value = ValueOf(c, svc)
  BY <1>1, OutcomeFacts
<1>3. ReadOf(c, svc) = svc.files["order"]
  BY DEF ReadOf, FileRead
<1>4. QED
  BY <1>2, <1>3 DEF ValueOf

\* A call is answered.
LEMMA AnswerMoves == ASSUME MoveInv, client = "cli", CliAnswer PROVE MoveInv'
<1>1. PICK o \in Outcomes(cli.call, svc) :
        AnswerShow(o) \/ AnswerCmdlineGet(o) \/ AnswerOne(o) \/ AnswerMove(o)
  BY DEF CliAnswer
<1>2. cli.pc = "call" /\ svc' = o.svc
  BY <1>1 DEF AnswerShow, AnswerCmdlineGet, AnswerOne, AnswerMove, CliAnswers
<1>3. OrderOK(svc) /\ CallOK(cli.call) /\ DOMAIN cli = DOMAIN NoProcess
  BY <1>2 DEF MoveInv
<1>4. OrderOK(svc')
  BY <1>2, <1>3, AfterOrder, OutcomeFacts
<1>5. ASSUME NEW code, Exits(code)
      PROVE  MoveInv'
  <2>1. DOMAIN cli' = DOMAIN NoProcess /\ cli'.pc = "exit"
    BY <1>5 DEF Exits, NoProcess
  <2>2. QED
    BY <1>4, <2>1 DEF MoveInv
<1>6. ASSUME NEW call, NEW got, Continues(call, got)
      PROVE  /\ DOMAIN cli' = DOMAIN NoProcess /\ cli'.cmd = cli.cmd
             /\ cli'.call = call /\ cli'.got = got
  BY <1>3, <1>6 DEF Continues, NoProcess
<1>7. CASE AnswerShow(o)
  <2>1. CASE \E code : Exits(code)
    BY <1>5, <2>1
  <2>2. CASE \E host : Continues(ShowCall(cli.cmd.cmd, host), NoAnswer)
    <3>1. PICK host : Continues(ShowCall(cli.cmd.cmd, host), NoAnswer)
      BY <2>2
    <3>2. CallOK(ShowCall(cli.cmd.cmd, host))
      BY DEF ShowCall, CallOK, CliWrites, Reads, Plain, FileRead
    <3>3. cli.cmd.cmd # "EfiMoveEntry"
      BY <1>7 DEF AnswerShow, CliAnswers
    <3>4. QED
      BY <1>4, <1>6, <3>1, <3>2, <3>3 DEF MoveInv
  <2>3. QED
    BY <1>7, <2>1, <2>2 DEF AnswerShow
<1>8. CASE AnswerCmdlineGet(o) \/ AnswerOne(o)
  BY <1>5, <1>8 DEF AnswerCmdlineGet, AnswerOne
<1>9. CASE AnswerMove(o)
  <2>1. CASE \E code : Exits(code)
    BY <1>5, <2>1
  <2> DEFINE order == o.value.content
             moved == Moved(order, cli.cmd.from, cli.cmd.to)
  <2>2. CASE /\ o.ok /\ cli.call.m # "SetBootOrder" /\ ~(cli.cmd.from >= Len(order))
             /\ Continues([m |-> "SetBootOrder", order |-> moved], order)
    <3>1. cli.cmd.cmd = "EfiMoveEntry"
      BY <1>9 DEF AnswerMove, CliAnswers
    <3>2. MoveOK
      BY <1>2, <3>1 DEF MoveInv
    <3>3. order \in Seq(Nat)
      BY <1>3, <2>2, <3>2, OrderRead DEF MoveOK, OrderOK
    <3> HIDE DEF order
    <3>4. cli.cmd.from \in Nat /\ cli.cmd.to \in Nat /\ Len(order) \in Nat
      BY <3>2, <3>3 DEF MoveOK
    <3>5. cli.cmd.from < Len(order)
      BY <2>2, <3>4
    <3>6. moved \in Seq(Nat)
      BY <3>3, <3>4, <3>5, MovedEntry
    <3> HIDE DEF moved
    <3>7. /\ DOMAIN cli' = DOMAIN NoProcess /\ cli'.cmd = cli.cmd /\ cli'.got = order
          /\ cli'.call = [m |-> "SetBootOrder", order |-> moved]
      BY <1>6, <2>2
    <3>8. cli'.call.m = "SetBootOrder" /\ cli'.call.order = moved
      BY <3>7
    <3>9. CallOK(cli'.call)
      BY <3>6, <3>8 DEF CallOK, CliWrites
    <3>10. MoveOK'
      BY <3>3, <3>4, <3>5, <3>7, <3>8 DEF MoveOK, moved
    <3>11. QED
      BY <1>4, <3>7, <3>9, <3>10 DEF MoveInv
  <2>3. QED
    BY <1>9, <2>1, <2>2 DEF AnswerMove
<1>10. QED
  BY <1>1, <1>7, <1>8, <1>9

\* Whoever steps.
LEMMA MoveStep == MoveInv /\ [Next]_vars => MoveInv'
<1> SUFFICES ASSUME MoveInv, [Next]_vars
             PROVE  MoveInv'
  OBVIOUS
<1>1. ASSUME UNCHANGED <<client, svc, cli>>
      PROVE  MoveInv'
  BY <1>1 DEF MoveInv, MoveOK
<1>2. CASE Gui \/ Tui
  BY <1>2 DEF Gui, Tui, MoveInv
<1>3. CASE Cli
  <2>1. CASE CliStart
    BY <1>3, <2>1, StartMove DEF Cli
  <2>2. CASE CliAnswer
    BY <1>3, <2>2, AnswerMoves DEF Cli
  <2>3. CASE RescueStart \/ RescueMount \/ RescueCheck \/ RescueGivesUp
    BY <1>1, <1>3, <2>3 DEF Cli, RescueStart, RescueMount, RescueCheck, RescueGivesUp
  <2>4. QED
    BY <1>3, <2>1, <2>2, <2>3 DEF Cli, CliNext
<1>4. CASE Other
  <2>1. PICK kind, content : OtherChange(kind, content) /\ content \in OtherContents[kind]
    BY <1>4 DEF Other
  <2>2. client' = client /\ cli' = cli
    BY <1>4 DEF Other, cliVars
  <2>3. ASSUME client = "cli"
        PROVE  OrderOK(svc')
    <3>1. OrderOK(svc) /\ svc' = [svc EXCEPT !.files[kind] = content]
      BY <2>1, <2>3 DEF MoveInv, OtherChange
    <3>2. HasFields(svc') /\ svc'.files = [svc.files EXCEPT ![kind] = content] /\ svc'.snaps = svc.snaps
      BY <3>1 DEF OrderOK, HasFields
    <3>3. /\ DOMAIN svc'.files = Kinds
          /\ svc'.files["order"] = IF kind = "order" THEN content ELSE svc.files["order"]
      BY <3>1, <3>2 DEF OrderOK, Kinds
    <3>4. QED
      BY <2>1, <3>1, <3>2, <3>3, OthersAssumption DEF OrderOK
  <2>4. QED
    BY <2>2, <2>3 DEF MoveInv, MoveOK
<1>5. CASE UNCHANGED vars
  BY <1>1, <1>5 DEF vars, cliVars
<1>6. QED
  BY <1>2, <1>3, <1>4, <1>5 DEF Next

LEMMA MoveInit == Init => MoveInv
<1> SUFFICES ASSUME Init
             PROVE  MoveInv
  OBVIOUS
<1>1. PICK s \in Starts : svc = s.svc
  BY DEF Init
<1>2. OrderOK(svc)
  BY <1>1, ClientsAssumption DEF OrderOK, HasFields
<1>3. cli = NoProcess /\ NoProcess.pc = "none"
  BY DEF Init, CliInit, NoProcess
<1>4. QED
  BY <1>2, <1>3 DEF MoveInv

\* Moving an entry of the boot order loses none, whatever other programs write in
\* between, and puts it where it was asked to be: for orders of any length and
\* any positions.
THEOREM MoveKeptEntries == Spec => MoveKeepsEntries
<1> DEFINE A == cli # cli' /\ svc' # svc /\ cli.cmd.cmd = "EfiMoveEntry" =>
                  LET old == svc.files["order"]
                      new == svc'.files["order"]
                      last == Len(new) - 1
                  IN /\ Range(new) = Range(old) /\ Len(new) = Len(old)
                     /\ new[1 + (IF cli.cmd.to < last THEN cli.cmd.to ELSE last)] = cli.got[cli.cmd.from + 1]
<1>1. ASSUME MoveInv, Next, cli # cli', svc' # svc, cli.cmd.cmd = "EfiMoveEntry"
      PROVE  A
  <2>1. client = "cli" /\ CliNext
    BY <1>1 DEF Next, Gui, Tui, Cli, Other, cliVars
  <2>2. CliAnswer
    BY <1>1, <2>1 DEF CliNext, CliStart, RescueStart, RescueMount, RescueCheck, RescueGivesUp
  <2>3. PICK o \in Outcomes(cli.call, svc) : svc' = o.svc /\ cli.pc = "call"
    BY <2>2 DEF CliAnswer, AnswerShow, AnswerCmdlineGet, AnswerOne, AnswerMove, CliAnswers
  <2>4. OrderOK(svc) /\ CallOK(cli.call) /\ MoveOK
    BY <1>1, <2>1, <2>3 DEF MoveInv
  <2>5. svc' = After(cli.call, svc) /\ Admits(cli.call, svc) /\ cli.call.m \notin Reads \union Plain
    BY <1>1, <2>3, OutcomeFacts
  <2>6. "GetBootOrder" \in Reads
    BY DEF Reads, FileRead
  <2>7. /\ cli.call.m = "SetBootOrder" /\ cli.got \in Seq(Nat) /\ cli.cmd.from < Len(cli.got)
        /\ cli.cmd.from \in Nat /\ cli.cmd.to \in Nat
        /\ cli.call.order = Moved(cli.got, cli.cmd.from, cli.cmd.to)
    BY <2>4, <2>5, <2>6 DEF MoveOK
  <2>8. svc'.files["order"] = cli.call.order
    BY <2>4, <2>5, <2>7, AfterOrder
  <2>9. Len(cli.call.order) = Len(svc.files["order"]) /\ Range(cli.call.order) = Range(svc.files["order"])
    BY <2>5, <2>7 DEF Admits
  <2>10. /\ Len(cli.call.order) = Len(cli.got)
         /\ cli.call.order[1 + Landing(cli.got, cli.cmd.to)] = cli.got[cli.cmd.from + 1]
    <3>1. PICK got, from, to : got = cli.got /\ from = cli.cmd.from /\ to = cli.cmd.to
      OBVIOUS
    <3>2. got \in Seq(Nat) /\ from \in Nat /\ to \in Nat /\ from < Len(got)
      BY <2>7, <3>1
    <3>3. Len(Moved(got, from, to)) = Len(got) /\ Moved(got, from, to)[1 + Landing(got, to)] = got[from + 1]
      BY <3>2, MovedEntry
    <3>4. QED
      BY <2>7, <3>1, <3>3
  <2>11. QED
    BY <2>8, <2>9, <2>10 DEF Landing
<1>2. MoveInv /\ [Next]_vars => [A]_vars
  BY <1>1
<1>3. QED
  BY <1>2, MoveInit, MoveStep, PTL DEF Spec, MoveKeepsEntries

-----------------------------------------------------------------------------
(* The edit of GRUB's configuration                                        *)

IsText(text) == text \in Seq(Range(text))

\* Changes of different keys, each of a key that an assignment may have.
IsEdit(changes) ==
  /\ changes \in Seq(Range(changes))
  /\ \A i \in DOMAIN changes : /\ changes[i] = <<changes[i][1], changes[i][2]>>
                               /\ changes[i][1] \notin {Remark, Statement}
  /\ \A i, j \in DOMAIN changes : changes[i][1] = changes[j][1] => i = j

\* The last assignment to a key.
LEMMA LastLineIs ==
  ASSUME NEW text, IsText(text), NEW key, \E i \in DOMAIN text : text[i].key = key
  PROVE  /\ LastLine(text, key) \in DOMAIN text /\ text[LastLine(text, key)].key = key
         /\ \A i \in DOMAIN text : text[i].key = key => i <= LastLine(text, key)
<1> DEFINE at == {i \in DOMAIN text : text[i].key = key}
<1>1. DOMAIN text = 1..Len(text) /\ Len(text) \in Nat
  BY LenProperties DEF IsText
<1>2. at \in SUBSET (1..Len(text)) /\ at # {}
  BY <1>1
<1>3. LastLine(text, key) = Max(at)
  BY DEF LastLine
<1> HIDE DEF at
<1>4. Max(at) \in at /\ \A i \in at : i <= Max(at)
  BY <1>1, <1>2, FirstAndLast
<1>5. QED
  BY <1>3, <1>4 DEF at

LEMMA KeysAre ==
  ASSUME NEW text
  PROVE  \A k : k \in Keys(text) <=> \E i \in DOMAIN text : text[i].key = k /\ k \notin {Remark, Statement}
  BY DEF Keys, IsAssignment

\* What is asked for a key, and which changes are absent.
ChangesFit(text, changes, absent) ==
  /\ \A i \in DOMAIN changes : /\ changes[i][1] \in Requested(changes)
                               /\ Wanted(changes, changes[i][1]) = changes[i][2]
  /\ \A k \in Requested(changes) : \E i \in DOMAIN changes : changes[i][1] = k
  /\ absent \in Seq(Range(changes))
  /\ \A j \in DOMAIN absent : \E i \in DOMAIN changes :
       absent[j] = changes[i] /\ changes[i][1] \notin Keys(text)
  /\ \A i \in DOMAIN changes : changes[i][1] \notin Keys(text) =>
       \E j \in DOMAIN absent : absent[j] = changes[i]
  /\ \A i, j \in DOMAIN absent : absent[i][1] = absent[j][1] => i = j
  /\ Len(absent) = Cardinality(Requested(changes) \ Keys(text))

LEMMA ChangesAre ==
  ASSUME NEW text, NEW changes, IsEdit(changes)
  PROVE  ChangesFit(text, changes, Absent(text, changes))
<1> DEFINE T == {c \in Range(changes) : c[1] \notin Keys(text)}
           absent == Select(changes, T)
<1>0. Absent(text, changes) = absent
  BY DEF Absent
<1>1. ASSUME NEW i \in DOMAIN changes
      PROVE  /\ changes[i][1] \in Requested(changes)
             /\ Wanted(changes, changes[i][1]) = changes[i][2]
  <2>1. changes[i] \in Range(changes) /\ changes[i] = <<changes[i][1], changes[i][2]>>
    BY DEF Range, IsEdit
  <2>2. PICK k, v : k = changes[i][1] /\ v = changes[i][2]
    OBVIOUS
  <2>3. ASSUME NEW w, <<k, w>> \in Range(changes)
        PROVE  w = v
    <3>1. PICK j \in DOMAIN changes : changes[j] = <<k, w>>
      BY <2>3 DEF Range
    <3>2. changes[j][1] = k /\ changes[j][2] = w
      BY <3>1
    <3>3. j = i
      BY <2>2, <3>2 DEF IsEdit
    <3>4. QED
      BY <2>2, <3>2, <3>3
  <2>4. v \in {c[2] : c \in Range(changes)} /\ <<k, v>> \in Range(changes)
    BY <2>1, <2>2
  <2>5. Wanted(changes, k) = v
    BY <2>3, <2>4 DEF Wanted
  <2>6. QED
    BY <2>1, <2>2, <2>5 DEF Requested
<1>2. \A k \in Requested(changes) : \E i \in DOMAIN changes : changes[i][1] = k
  BY DEF Requested, Range
<1>3. changes \in Seq(Range(changes)) /\ DOMAIN changes = 1..Len(changes)
  BY LenProperties DEF IsEdit
<1>4. absent \in Seq(Range(changes)) /\ Range(absent) = Range(changes) \intersect T
  BY <1>3, SelectStays, SelectRange
<1>5. Apart(absent)
  <2>1. Apart(changes)
    BY <1>3 DEF Apart, IsEdit
  <2>2. QED
    BY <1>3, <2>1, SelectApart
<1> HIDE DEF absent
<1>6. DOMAIN absent = 1..Len(absent) /\ Len(absent) \in Nat
  BY <1>4, LenProperties
<1>7. ASSUME NEW j \in DOMAIN absent
      PROVE  \E i \in DOMAIN changes : absent[j] = changes[i] /\ changes[i][1] \notin Keys(text)
  <2>1. absent[j] \in Range(changes) /\ absent[j] \in T
    BY <1>4 DEF Range
  <2>2. QED
    BY <2>1 DEF Range
<1>8. ASSUME NEW i \in DOMAIN changes, changes[i][1] \notin Keys(text)
      PROVE  \E j \in DOMAIN absent : absent[j] = changes[i]
  <2>1. changes[i] \in Range(absent)
    BY <1>4, <1>8 DEF Range
  <2>2. QED
    BY <2>1 DEF Range
<1>9. ASSUME NEW i \in DOMAIN absent, NEW j \in DOMAIN absent, absent[i][1] = absent[j][1]
      PROVE  i = j
  <2>1. PICK k \in DOMAIN changes : absent[i] = changes[k]
    BY <1>7
  <2>2. PICK l \in DOMAIN changes : absent[j] = changes[l]
    BY <1>7
  <2>3. k = l
    BY <1>9, <2>1, <2>2 DEF IsEdit
  <2>4. QED
    BY <1>5, <1>6, <2>1, <2>2, <2>3 DEF Apart
<1>10. Len(absent) = Cardinality(Requested(changes) \ Keys(text))
  <2> DEFINE K == Requested(changes) \ Keys(text)
             f == [j \in 1..Len(absent) |-> absent[j][1]]
  <2>1. \A j \in 1..Len(absent) : f[j] \in K
    BY <1>1, <1>6, <1>7
  <2>2. \A i, j \in 1..Len(absent) : f[i] = f[j] => i = j
    BY <1>6, <1>9
  <2>3. \A k \in K : \E j \in 1..Len(absent) : f[j] = k
    BY <1>2, <1>6, <1>8
  <2>4. f \in [1..Len(absent) -> K]
    BY <2>1
  <2> HIDE DEF f, K
  <2>5. f \in Bijection(1..Len(absent), K)
    BY <2>2, <2>3, <2>4 DEF Bijection, Injection, Surjection, IsInjective
  <2>6. ExistsBijection(1..Len(absent), K)
    BY <2>5 DEF ExistsBijection
  <2>7. QED
    BY <1>6, <2>6, FS_CountingElements DEF K
<1>11. QED
  BY <1>0, <1>1, <1>2, <1>4, <1>7, <1>8, <1>9, <1>10 DEF ChangesFit

\* The lines of the edited file, one after the other.
LinesFit(text, changes, absent, new) ==
  /\ IsText(new) /\ DOMAIN new = 1..Len(new)
  /\ Len(new) = Len(text) + Len(absent)
  /\ \A i \in 1..Len(text) :
       new[i] = IF text[i].key \in Requested(changes) /\ i = LastLine(text, text[i].key)
                THEN Assignment(text[i].key, Wanted(changes, text[i].key)) ELSE text[i]
  /\ \A j \in 1..Len(absent) : new[Len(text) + j] = Assignment(absent[j][1], absent[j][2])

LEMMA UpdatedIs ==
  ASSUME NEW text, IsText(text), NEW changes, IsEdit(changes)
  PROVE  LinesFit(text, changes, Absent(text, changes), Updated(text, changes))
<1> DEFINE absent == Absent(text, changes)
           Line(i) == IF text[i].key \in Requested(changes) /\ i = LastLine(text, text[i].key)
                      THEN Assignment(text[i].key, Wanted(changes, text[i].key)) ELSE text[i]
           a == [i \in DOMAIN text |-> Line(i)]
           b == [i \in DOMAIN absent |-> Assignment(absent[i][1], absent[i][2])]
           S == Range(a) \union Range(b)
           new == a \o b
<1>1. Updated(text, changes) = new
  BY DEF Updated, EditedLine, LastLine
<1>2. DOMAIN text = 1..Len(text) /\ Len(text) \in Nat
  BY LenProperties DEF IsText
<1>3. DOMAIN absent = 1..Len(absent) /\ Len(absent) \in Nat
  <2>1. absent \in Seq(Range(changes))
    BY ChangesAre DEF ChangesFit
  <2> HIDE DEF absent
  <2>2. QED
    BY <2>1, LenProperties
<1>4. /\ DOMAIN a = 1..Len(text) /\ \A i \in 1..Len(text) : a[i] = Line(i) /\ a[i] \in Range(a)
      /\ a = [i \in 1..Len(text) |-> a[i]]
  BY <1>2 DEF Range
<1>5. /\ DOMAIN b = 1..Len(absent)
      /\ \A i \in 1..Len(absent) : b[i] = Assignment(absent[i][1], absent[i][2]) /\ b[i] \in Range(b)
      /\ b = [i \in 1..Len(absent) |-> b[i]]
  BY <1>3 DEF Range
<1> HIDE DEF a, b, absent, Line
<1>6. a \in Seq(S) /\ Len(a) = Len(text)
  BY <1>2, <1>4, IsASeq
<1>7. b \in Seq(S) /\ Len(b) = Len(absent)
  BY <1>3, <1>5, IsASeq
<1>8. /\ new \in Seq(S)
      /\ Len(new) = Len(a) + Len(b)
      /\ \A i \in 1..(Len(a) + Len(b)) : new[i] = IF i <= Len(a) THEN a[i] ELSE b[i - Len(a)]
  BY <1>6, <1>7, ConcatProperties
<1> HIDE DEF new, S
<1>9. IsText(new) /\ DOMAIN new = 1..Len(new)
  BY <1>8, SeqOfRange, LenProperties DEF IsText
<1>10. ASSUME NEW i \in 1..Len(text)
       PROVE  new[i] = Line(i)
  <2>1. i \in 1..(Len(a) + Len(b)) /\ i <= Len(a)
    BY <1>2, <1>3, <1>6, <1>7
  <2>2. QED
    BY <1>4, <1>8, <2>1
<1>11. ASSUME NEW j \in 1..Len(absent)
       PROVE  new[Len(text) + j] = Assignment(absent[j][1], absent[j][2])
  <2>1. /\ Len(text) + j \in 1..(Len(a) + Len(b)) /\ ~ (Len(text) + j <= Len(a))
        /\ (Len(text) + j) - Len(a) = j
    BY <1>2, <1>3, <1>6, <1>7
  <2>2. QED
    BY <1>5, <1>8, <2>1
<1>12. QED
  BY <1>1, <1>6, <1>7, <1>8, <1>9, <1>10, <1>11 DEF LinesFit, Line, absent

\* A text and what an edit makes of it.
EditFits(text, changes, new) ==
  /\ \A i \in DOMAIN changes : /\ changes[i][1] \in Keys(new)
                               /\ GrubConfig(new)[changes[i][1]] = changes[i][2]
  /\ \A k \in Keys(text) \ Requested(changes) : /\ k \in Keys(new)
                                                /\ GrubConfig(new)[k] = GrubConfig(text)[k]
  /\ Keys(new) = Keys(text) \union Requested(changes)
  /\ Len(new) = Len(text) + Cardinality(Requested(changes) \ Keys(text))
  /\ \A i \in DOMAIN text : \/ new[i] = text[i]
                            \/ /\ text[i].key \in Requested(changes)
                               /\ \A j \in (i + 1)..Len(text) : text[j].key # text[i].key

\* An edit gives the keys asked for the values asked for, keeps the value of every
\* other key, and keeps every line but the last assignment of a key asked for.
LEMMA EditKeeps ==
  ASSUME NEW text, IsText(text), NEW changes, IsEdit(changes)
  PROVE  EditFits(text, changes, Updated(text, changes))
<1>0. PICK new, absent, n : /\ new = Updated(text, changes) /\ absent = Absent(text, changes)
                            /\ n = Len(text)
  OBVIOUS
<1>1. LinesFit(text, changes, absent, new)
  BY <1>0, UpdatedIs
<1>2. ChangesFit(text, changes, absent)
  BY <1>0, ChangesAre
<1> USE DEF LinesFit, ChangesFit
<1>3. DOMAIN text = 1..n /\ n \in Nat /\ DOMAIN absent = 1..Len(absent) /\ Len(absent) \in Nat
  BY <1>0, <1>2, LenProperties DEF IsText
<1>4. \A key, value : Assignment(key, value).key = key /\ Assignment(key, value).text = value
  BY DEF Assignment
<1>5. \A i \in 1..n : i \in DOMAIN new /\ new[i].key = text[i].key
  BY <1>0, <1>1, <1>3, <1>4
<1>6. \A j \in 1..Len(absent) : /\ n + j \in DOMAIN new /\ new[n + j].key = absent[j][1]
                                /\ new[n + j].text = absent[j][2]
  BY <1>0, <1>1, <1>3, <1>4
<1>7. \A i \in DOMAIN new : i \in 1..n \/ \E j \in 1..Len(absent) : i = n + j
  <2> SUFFICES ASSUME NEW i \in DOMAIN new, i \notin 1..n
               PROVE  \E j \in 1..Len(absent) : i = n + j
    OBVIOUS
  <2>1. i - n \in 1..Len(absent) /\ i = n + (i - n)
    BY <1>1, <1>3
  <2>2. QED
    BY <2>1
<1>8. \A j \in 1..Len(absent) : absent[j][1] \notin Keys(text) /\ absent[j][1] \in Requested(changes)
  BY <1>2, <1>3
<1>9. \A k \in Requested(changes) : k \notin {Remark, Statement}
  BY <1>2 DEF IsEdit
\* The lines of a key that had one.
<1>10. ASSUME NEW k \in Keys(text)
       PROVE  /\ k \in Keys(new) /\ LastLine(new, k) = LastLine(text, k)
              /\ LastLine(text, k) \in 1..n /\ text[LastLine(text, k)].key = k
  <2>1. (\E i \in DOMAIN text : text[i].key = k) /\ k \notin {Remark, Statement}
    BY KeysAre
  <2>2. \A i \in DOMAIN new : new[i].key = k <=> i \in DOMAIN text /\ text[i].key = k
    BY <1>3, <1>5, <1>6, <1>7, <1>8, SMTT(30)
  <2>3. {i \in DOMAIN new : new[i].key = k} = {i \in DOMAIN text : text[i].key = k}
    BY <1>3, <1>5, <2>2
  <2>4. LastLine(new, k) = LastLine(text, k)
    BY <2>3 DEF LastLine
  <2>5. LastLine(text, k) \in DOMAIN text /\ text[LastLine(text, k)].key = k
    BY <2>1, LastLineIs
  <2>6. k \in Keys(new)
    BY <1>3, <1>5, <2>1, KeysAre
  <2>7. QED
    BY <1>3, <2>4, <2>5, <2>6
\* The line of a key that had none.
<1>11. ASSUME NEW i \in DOMAIN changes, changes[i][1] \notin Keys(text)
       PROVE  /\ changes[i][1] \in Keys(new)
              /\ new[LastLine(new, changes[i][1])].text = changes[i][2]
  <2>1. PICK k : k = changes[i][1]
    OBVIOUS
  <2>2. PICK j \in 1..Len(absent) : absent[j] = changes[i]
    BY <1>2, <1>3, <1>11
  <2>3. new[n + j].key = k /\ n + j \in DOMAIN new /\ new[n + j].text = changes[i][2]
    BY <1>6, <2>1, <2>2
  <2>4. k \notin {Remark, Statement} /\ k \notin Keys(text)
    BY <1>11, <2>1 DEF IsEdit
  <2>5. k \in Keys(new)
    BY <2>3, <2>4, KeysAre
  <2>6. ASSUME NEW l \in DOMAIN new, new[l].key = k
        PROVE  l = n + j
    <3>1. l \notin 1..n
      <4>1. l \in 1..n => text[l].key = k /\ l \in DOMAIN text
        BY <1>3, <1>5, <2>6
      <4>2. QED
        BY <2>4, <4>1, KeysAre
    <3>2. PICK m \in 1..Len(absent) : l = n + m
      BY <1>7, <3>1
    <3>3. absent[m][1] = absent[j][1]
      BY <1>6, <2>1, <2>2, <2>6, <3>2
    <3>4. QED
      BY <1>2, <1>3, <3>2, <3>3
  <2>7. LastLine(new, k) = n + j
    <3>1. LastLine(new, k) \in DOMAIN new /\ new[LastLine(new, k)].key = k
      <4>1. IsText(new) /\ \E l \in DOMAIN new : new[l].key = k
        BY <1>1, <2>3
      <4>2. QED
        BY <4>1, LastLineIs
    <3>2. QED
      BY <2>6, <3>1
  <2>8. QED
    BY <2>1, <2>3, <2>5, <2>7
<1>12. ASSUME NEW i \in DOMAIN changes, changes[i][1] \in Keys(text)
       PROVE  new[LastLine(new, changes[i][1])].text = changes[i][2]
  <2>1. PICK k : k = changes[i][1]
    OBVIOUS
  <2>2. PICK l : l = LastLine(text, k)
    OBVIOUS
  <2>3. LastLine(new, k) = l /\ l \in 1..n /\ text[l].key = k
    BY <1>10, <1>12, <2>1, <2>2
  <2>4. k \in Requested(changes) /\ Wanted(changes, k) = changes[i][2]
    BY <1>2, <2>1
  <2>5. new[l] = Assignment(k, Wanted(changes, k))
    BY <1>0, <1>1, <2>2, <2>3, <2>4
  <2>6. QED
    BY <1>4, <2>1, <2>3, <2>4, <2>5
<1>13. \A k \in Keys(new) : GrubConfig(new)[k] = new[LastLine(new, k)].text
  BY DEF GrubConfig
<1>14. \A k \in Keys(text) : GrubConfig(text)[k] = text[LastLine(text, k)].text
  BY DEF GrubConfig
<1>15. ASSUME NEW i \in DOMAIN changes
       PROVE  changes[i][1] \in Keys(new) /\ GrubConfig(new)[changes[i][1]] = changes[i][2]
  BY <1>10, <1>11, <1>12, <1>13
<1>16. ASSUME NEW k \in Keys(text) \ Requested(changes)
       PROVE  k \in Keys(new) /\ GrubConfig(new)[k] = GrubConfig(text)[k]
  <2>1. PICK l : l = LastLine(text, k)
    OBVIOUS
  <2>2. k \in Keys(new) /\ LastLine(new, k) = l /\ l \in 1..n /\ text[l].key = k
    BY <1>10, <2>1
  <2>3. new[l] = text[l]
    BY <1>0, <1>1, <2>2
  <2>4. QED
    BY <1>13, <1>14, <2>1, <2>2, <2>3
<1>17. Keys(new) = Keys(text) \union Requested(changes)
  <2>1. Keys(text) \subseteq Keys(new)
    BY <1>10
  <2>2. Requested(changes) \subseteq Keys(new)
    BY <1>2, <1>15
  <2>3. ASSUME NEW k \in Keys(new)
        PROVE  k \in Keys(text) \union Requested(changes)
    <3>1. PICK i \in DOMAIN new : new[i].key = k /\ k \notin {Remark, Statement}
      BY KeysAre
    <3>2. CASE i \in 1..n
      BY <1>3, <1>5, <3>1, <3>2, KeysAre
    <3>3. CASE \E j \in 1..Len(absent) : i = n + j
      BY <1>6, <1>8, <3>1, <3>3
    <3>4. QED
      BY <1>7, <3>2, <3>3
  <2>4. QED
    BY <2>1, <2>2, <2>3
<1>18. ASSUME NEW i \in DOMAIN text, new[i] # text[i]
       PROVE  /\ text[i].key \in Requested(changes)
              /\ \A j \in (i + 1)..Len(text) : text[j].key # text[i].key
  <2>1. PICK k : k = text[i].key
    OBVIOUS
  <2>2. k \in Requested(changes) /\ i = LastLine(text, k)
    BY <1>1, <1>3, <1>18, <2>1
  <2>3. \A j \in DOMAIN text : text[j].key = k => j <= i
    BY <2>1, <2>2, LastLineIs
  <2>4. \A j \in (i + 1)..Len(text) : j \in DOMAIN text /\ ~ (j <= i)
    BY <1>0, <1>3
  <2>5. QED
    BY <2>1, <2>2, <2>3, <2>4
<1>19. Len(new) = Len(text) + Cardinality(Requested(changes) \ Keys(text))
  BY <1>0, <1>1, <1>2
<1>20. QED
  BY <1>0, <1>15, <1>16, <1>17, <1>18, <1>19 DEF EditFits

-----------------------------------------------------------------------------
(* Every client: EditKeepsTheRest                                          *)

\* GRUB's configuration is a text, now and in the snapshots of it.
TextOK(s) ==
  /\ HasFields(s) /\ DOMAIN s.files = Kinds
  /\ IsText(s.files["config"])
  /\ \A id \in s.snaps : id[1] = "config" => IsText(id[2])

Writes == GrubEdits \union {"SetLoaderDefault", "AddKernelParam", "RemoveKernelParam", "SetBootOrder", "RestoreSnapshot"}

\* A call of a method of the daemon; the key of an assignment is one that has been shown.
IsCall(c) ==
  /\ c.m \in Reads \union Plain \union Writes
  /\ c.m = "SetValue" => c.etag = NoEtag \/ c.key \notin {Remark, Statement}

\* One client calls; the others have no call.
TextInv ==
  /\ others \in Nat /\ TextOK(svc)
  /\ client # "gui" => task.call.m = "none"
  /\ client # "tui" => handler.call.m = "none"
  /\ client # "cli" => cli.call.m = "none"
  /\ task.pc = "call" => IsCall(task.call)
  /\ handler.pc = "call" => IsCall(handler.call)
  /\ cli.pc = "call" => IsCall(cli.call)
  /\ app.selected \in Nat

\* The methods that write have a name of their own.
LEMMA MethodsDiffer ==
  /\ "none" \notin Reads \union Plain \union Writes
  /\ (Reads \union Plain) \intersect Writes = {}
  BY DEF Reads, Plain, Writes, GrubEdits, FileRead

\* A change is one text for one key.
LEMMA AskedIsEdit ==
  ASSUME NEW c, c.m \in GrubEdits, c.m = "SetValue" => c.key \notin {Remark, Statement}
  PROVE  IsEdit(Asked(c))
<1>1. ASSUME NEW k, NEW v, k \notin {Remark, Statement}
      PROVE  IsEdit(<<<<k, v>>>>)
  <2>1. PICK s : s = <<<<k, v>>>>
    OBVIOUS
  <2>2. s \in Seq({<<k, v>>}) /\ DOMAIN s = {1} /\ s[1] = <<k, v>>
    BY <2>1
  <2>3. s \in Seq(Range(s))
    BY <2>2, SeqOfRange
  <2>4. s[1][1] = k /\ s[1][2] = v
    BY <2>2
  <2>5. QED
    BY <1>1, <2>1, <2>2, <2>3, <2>4 DEF IsEdit
<1>2. CASE c.m = "SetValue"
  BY <1>1, <1>2 DEF Asked
<1>3. CASE c.m = "SetGrubDefault"
  BY <1>1, <1>3 DEF Asked, Remark, Statement
<1>4. CASE c.m = "SetGrubSettings"
  <2>1. Asked(c) = SettingsChanges(c.settings)
    BY <1>4 DEF Asked
  <2>2. PICK s : s = SettingsChanges(c.settings)
    OBVIOUS
  <2>3. /\ DOMAIN SettingKeys = 1..4
        /\ \A i \in 1..4 : SettingKeys[i] \notin {Remark, Statement}
        /\ \A i, j \in 1..4 : SettingKeys[i] = SettingKeys[j] => i = j
    BY DEF SettingKeys, Remark, Statement
  <2>4. s = [i \in 1..4 |-> <<SettingKeys[i], SettingText(c.settings, SettingKeys[i])>>]
    BY <2>2, <2>3 DEF SettingsChanges
  <2>5. DOMAIN s = 1..4 /\ \A i \in 1..4 : s[i] = <<s[i][1], s[i][2]>> /\ s[i][1] = SettingKeys[i]
    BY <2>4
  <2>6. s \in Seq(Range(s))
    <3>1. s = [i \in 1..4 |-> s[i]] /\ \A i \in 1..4 : s[i] \in Range(s)
      BY <2>5, <2>4 DEF Range
    <3>2. QED
      BY <3>1, IsASeq
  <2>7. QED
    BY <2>1, <2>2, <2>3, <2>5, <2>6 DEF IsEdit
<1>5. QED
  BY <1>2, <1>3, <1>4 DEF GrubEdits

\* What a write leaves of the texts.
LEMMA AfterText ==
  ASSUME NEW c, NEW s, TextOK(s), IsCall(c), Admits(c, s), c.m \notin Reads \union Plain
  PROVE  /\ TextOK(After(c, s))
         /\ c.m \in GrubEdits => /\ IsEdit(Asked(c))
                                 /\ After(c, s).files["config"] = Updated(s.files["config"], Asked(c))
<1>1. c.m \in Writes
  BY DEF IsCall
<1>2. c.m \in GrubEdits => FileWritten(c) = "config" /\ Written(c, s) = Updated(s.files["config"], Asked(c))
  <2>1. c.m \in GrubEdits => FileWritten(c) = "config"
    BY DEF GrubEdits, FileWritten
  <2>2. c.m \in GrubEdits => Written(c, s) = Updated(s.files["config"], Asked(c))
    BY DEF Written, GrubEdits
  <2>3. QED
    BY <2>1, <2>2
<1>3. c.m \in GrubEdits => IsEdit(Asked(c))
  <2>1. EtagOf("config", s) # NoEtag
    BY DEF EtagOf, NoEtag
  <2>2. c.m = "SetValue" => c.etag = EtagOf("config", s)
    BY DEF Admits
  <2>3. QED
    BY <2>1, <2>2, AskedIsEdit DEF IsCall
<1>4. FileWritten(c) = "config" => IsText(Written(c, s))
  <2>1. CASE c.m \in GrubEdits
    <3>1. PICK text, changes : text = s.files["config"] /\ changes = Asked(c)
      OBVIOUS
    <3>2. IsText(text) /\ IsEdit(changes)
      BY <1>3, <2>1, <3>1 DEF TextOK
    <3>3. IsText(Updated(text, changes))
      BY <3>2, UpdatedIs DEF LinesFit
    <3>4. QED
      BY <1>2, <2>1, <3>1, <3>3
  <2>2. CASE c.m \in {"SetLoaderDefault", "AddKernelParam", "RemoveKernelParam", "SetBootOrder"}
    BY <2>2 DEF FileWritten
  <2>3. CASE c.m = "RestoreSnapshot"
    <3>1. FileWritten(c) = c.id[1] /\ c.id \in s.snaps
      BY <2>3 DEF FileWritten, Admits
    <3>2. Written(c, s) = c.id[2]
      BY <2>3 DEF Written, GrubEdits
    <3>3. QED
      BY <3>1, <3>2 DEF TextOK
  <2>4. QED
    BY <1>1, <2>1, <2>2, <2>3 DEF Writes
<1>5. PICK kind : kind = FileWritten(c)
  OBVIOUS
<1>6. PICK w : w = Written(c, s)
  OBVIOUS
<1>7. After(c, s) = [s EXCEPT !.files[kind] = w,
                              !.snaps = IF c.m \in GrubEdits THEN @ \union {EtagOf("config", s)} ELSE @]
  BY <1>5, <1>6 DEF After
<1>8. EtagOf("config", s) = <<"config", s.files["config"]>>
  BY DEF EtagOf
<1>9. /\ HasFields(After(c, s))
      /\ After(c, s).files = [s.files EXCEPT ![kind] = w]
      /\ After(c, s).snaps = IF c.m \in GrubEdits THEN s.snaps \union {EtagOf("config", s)} ELSE s.snaps
  BY <1>7 DEF TextOK, HasFields
<1>10. /\ DOMAIN After(c, s).files = Kinds
       /\ After(c, s).files["config"] = IF kind = "config" THEN w ELSE s.files["config"]
  BY <1>9 DEF TextOK, Kinds
<1>11. \A id \in After(c, s).snaps : id[1] = "config" => IsText(id[2])
  BY <1>8, <1>9 DEF TextOK
<1>12. QED
  BY <1>2, <1>3, <1>4, <1>5, <1>6, <1>9, <1>10, <1>11 DEF TextOK

\* What an answer leaves of them.
LEMMA AnswerText ==
  ASSUME NEW c, TextOK(svc), IsCall(c), NEW o \in Outcomes(c, svc)
  PROVE  TextOK(o.svc)
  BY OutcomeFacts, AfterText

\* The terminal client's keys; the key of an assignment is that of the row shown.
LEMMA RowIsShown ==
  ASSUME ShownInv, IsGrub(app), HasRow(app), app.selected \in Nat, app.etag # NoEtag
  PROVE  CurrentKey(app) \notin {Remark, Statement}
<1> DEFINE shown == Rows(app)
<1>1. app.shown = GrubConfig(app.etag[2])
  BY DEF ShownInv, ShownOfEtag
<1>2. DOMAIN app.shown = Keys(app.etag[2])
  BY <1>1 DEF GrubConfig
<1>3. shown = Select(KeyOrder, Keys(app.etag[2]))
  BY <1>2 DEF Rows
<1>4. shown \in Seq(Range(KeyOrder) \intersect Keys(app.etag[2]))
  BY <1>3, KeysAssumption, SelectIsSeq
<1>5. CurrentKey(app) = shown[app.selected + 1] /\ app.selected < Len(shown)
  BY DEF CurrentKey, HasRow
<1> HIDE DEF shown
<1>6. app.selected + 1 \in 1..Len(shown)
  BY <1>4, <1>5, LenProperties
<1>7. CurrentKey(app) \in Keys(app.etag[2])
  BY <1>4, <1>5, <1>6, ElementOfSeq
<1>8. QED
  BY <1>7, KeysAre

LEMMA RowsAreSeq == ASSUME NEW a PROVE Len(Rows(a)) \in Nat /\ (Rows(a) # <<>> => Len(Rows(a)) # 0)
<1>1. PICK T : Rows(a) = Select(KeyOrder, T)
  BY DEF Rows
<1>2. Rows(a) \in Seq(Range(KeyOrder))
  BY <1>1, KeysAssumption, SelectStays
<1>3. QED
  BY <1>2, EmptySeq, LenProperties

\* The selection stays a position.
LEMMA Selections ==
  ASSUME NEW a, DOMAIN a = DOMAIN NoApp, a.selected \in Nat
  PROVE  /\ \A b \in {MoveUp(a), MoveDown(a), OpenEdit(a), OpenAdd(a), CancelEdit(a), ShowError(a),
                      DismissError(a)} : b.selected \in Nat
         /\ \A shown, etag, then : Reported(then, ApplyEntries(a, shown, etag)).selected \in Nat
         /\ \A x : /\ [a EXCEPT !.quit = x].selected \in Nat /\ [a EXCEPT !.buf = x].selected \in Nat
                   /\ [a EXCEPT !.backend = x].selected \in Nat
<1> USE DEF NoApp
<1>1. MoveUp(a).selected \in Nat
  <2>1. CASE Rows(a) = <<>>
    BY <2>1 DEF MoveUp
  <2>2. CASE Rows(a) # <<>>
    <3>1. Len(Rows(a)) - 1 \in Nat
      BY <2>2, RowsAreSeq
    <3>2. a.selected # 0 => a.selected - 1 \in Nat
      OBVIOUS
    <3>3. PICK n : n = Len(Rows(a))
      OBVIOUS
    <3>4. MoveUp(a) = [a EXCEPT !.selected = IF @ = 0 THEN n - 1 ELSE @ - 1]
      BY <2>2, <3>3 DEF MoveUp
    <3>5. QED
      BY <3>1, <3>2, <3>3, <3>4
  <2>3. QED
    BY <2>1, <2>2
<1>2. MoveDown(a).selected \in Nat
  <2>1. CASE Rows(a) = <<>>
    BY <2>1 DEF MoveDown
  <2>2. CASE Rows(a) # <<>>
    <3>1. PICK n : n = Len(Rows(a))
      OBVIOUS
    <3>2. n \in Nat \ {0}
      BY <2>2, <3>1, RowsAreSeq
    <3>3. (a.selected + 1) % n \in Nat
      BY <3>2
    <3>4. MoveDown(a) = [a EXCEPT !.selected = (@ + 1) % n]
      BY <2>2, <3>1 DEF MoveDown
    <3>5. QED
      BY <3>3, <3>4
  <2>3. QED
    BY <2>1, <2>2
<1>3. /\ OpenEdit(a).selected \in Nat /\ OpenAdd(a).selected \in Nat /\ CancelEdit(a).selected \in Nat
      /\ ShowError(a).selected \in Nat /\ DismissError(a).selected \in Nat
  BY DEF OpenEdit, OpenAdd, CancelEdit, ShowError, DismissError
<1>4. ASSUME NEW shown, NEW etag, NEW then
      PROVE  Reported(then, ApplyEntries(a, shown, etag)).selected \in Nat
  <2>1. PICK b : b = [a EXCEPT !.shown = shown, !.etag = etag]
    OBVIOUS
  <2>2. PICK n : n = Len(Rows(b))
    OBVIOUS
  <2>3. n \in Nat
    BY <2>2, RowsAreSeq
  <2>4. DOMAIN b = DOMAIN NoApp /\ b.selected = a.selected
    BY <2>1
  <2>5. ApplyEntries(a, shown, etag) =
          [b EXCEPT !.selected = IF n - 1 < 0 THEN 0 ELSE IF @ > n - 1 THEN n - 1 ELSE @]
    BY <2>1, <2>2 DEF ApplyEntries
  <2>6. PICK c : c = ApplyEntries(a, shown, etag)
    OBVIOUS
  <2>7. c.selected \in Nat /\ DOMAIN c = DOMAIN NoApp
    BY <2>3, <2>4, <2>5, <2>6
  <2>8. Reported(then, c).selected = c.selected
    BY <2>7 DEF Reported, ShowError
  <2>9. QED
    BY <2>6, <2>7, <2>8
<1>5. \A x : /\ [a EXCEPT !.quit = x].selected \in Nat /\ [a EXCEPT !.buf = x].selected \in Nat
             /\ [a EXCEPT !.backend = x].selected \in Nat
  OBVIOUS
<1>6. QED
  BY <1>1, <1>2, <1>3, <1>4, <1>5

\* A call that is no assignment of one key.
LEMMA PlainCall == ASSUME NEW c, c.m \in Reads \union Plain \union (Writes \ {"SetValue"}) PROVE IsCall(c)
  BY MethodsDiffer DEF IsCall, Writes, GrubEdits

\* The methods of the calls of the clients.
LEMMA MethodNames ==
  /\ {"GetActiveBackend", "ReadConfig", "ReadGrubSettings", "ListGrubEntries", "ListLoaderEntries",
      "GetLoaderConfEtag", "ReadKernelCmdline", "GetBootOrder", "ListSnapshots"} \subseteq Reads
  /\ {"RebuildGrubConfig", "BackupNvram", "SignAndEnrollUki"} \subseteq Plain
  /\ {"SetGrubDefault", "SetGrubSettings", "SetLoaderDefault", "AddKernelParam", "RemoveKernelParam",
      "SetBootOrder", "RestoreSnapshot"} \subseteq Writes \ {"SetValue"}
  BY DEF Reads, Plain, Writes, GrubEdits, FileRead

\* The window's calls.
LEMMA TakeCalls == ASSUME GuiTake PROVE task' = task \/ \E c, req : Calls(c, req) /\ IsCall(c)
<1>1. \A m \in {"GetActiveBackend", "ListGrubEntries", "ReadGrubSettings", "RebuildGrubConfig",
                "BackupNvram", "SignAndEnrollUki", "ListSnapshots"} : IsCall(Msg(m))
  BY PlainCall, MethodNames DEF Msg
<1>2. CASE TakeApplyGrubDefault
  <2>1. PICK req, p, e, f : \/ task' = task
                            \/ Calls([m |-> "SetGrubDefault", path |-> p, menuEtag |-> e, etag |-> f], req)
    BY <1>2 DEF TakeApplyGrubDefault, Handled
  <2>2. PICK c : c = [m |-> "SetGrubDefault", path |-> p, menuEtag |-> e, etag |-> f]
    OBVIOUS
  <2>3. IsCall(c)
    BY <2>2, PlainCall, MethodNames
  <2>4. QED
    BY <2>1, <2>2, <2>3
<1>3. CASE TakeApplyGrubSettings
  <2>1. PICK req, p, e : task' = task \/ Calls([m |-> "SetGrubSettings", settings |-> p, etag |-> e], req)
    BY <1>3 DEF TakeApplyGrubSettings, Handled
  <2>2. PICK c : c = [m |-> "SetGrubSettings", settings |-> p, etag |-> e]
    OBVIOUS
  <2>3. IsCall(c)
    BY <2>2, PlainCall, MethodNames
  <2>4. QED
    BY <2>1, <2>2, <2>3
<1>4. CASE TakeRestore
  <2>1. PICK req, p, e : task' = task \/ Calls([m |-> "RestoreSnapshot", id |-> p, etag |-> e], req)
    BY <1>4 DEF TakeRestore, Handled
  <2>2. PICK c : c = [m |-> "RestoreSnapshot", id |-> p, etag |-> e]
    OBVIOUS
  <2>3. IsCall(c)
    BY <2>2, PlainCall, MethodNames
  <2>4. QED
    BY <2>1, <2>2, <2>3
<1>5. CASE ~(TakeApplyGrubDefault \/ TakeApplyGrubSettings \/ TakeRestore)
  <2>1. \/ task' = task
        \/ \E m \in {"GetActiveBackend", "ListGrubEntries", "ReadGrubSettings", "RebuildGrubConfig",
                     "BackupNvram", "SignAndEnrollUki", "ListSnapshots"} : Calls(Msg(m), NoRequest)
    BY <1>5 DEF GuiTake, TakeFetchEntries, TakeFetchGrubMenu, TakeFetchGrubSettings, TakeBootEntriesEdit,
       TakePrepareGrubDefault, TakeSettingsEdit, TakePrepareGrubSettings, TakePrepareRebuild, TakeRebuild,
       TakeCancel, TakePlain, Handled
  <2>2. QED
    BY <1>1, <2>1
<1>6. QED
  BY <1>2, <1>3, <1>4, <1>5

LEMMA GuiText == ASSUME TextInv, ArmedInv, Gui PROVE TextInv'
<1>0. /\ client = "gui" /\ client' = client /\ GuiNext
      /\ handler' = handler /\ app' = app /\ cli' = cli /\ DOMAIN task = DOMAIN NoTask
  BY DEF Gui, tuiVars, cliVars, ArmedInv, Fields
<1>1. ASSUME others' = others, TextOK(svc'), task'.pc = "call" => IsCall(task'.call)
      PROVE  TextInv'
  BY <1>0, <1>1 DEF TextInv
<1>2. CASE GuiTake
  <2>1. others' = others /\ svc' = svc
    BY <1>2 DEF GuiTake, Takes, TakeFetchEntries, TakeFetchGrubMenu, TakeFetchGrubSettings,
       TakeBootEntriesEdit, TakePrepareGrubDefault, TakeApplyGrubDefault, TakeSettingsEdit,
       TakePrepareGrubSettings, TakeApplyGrubSettings, TakePrepareRebuild, TakeRebuild, TakeCancel,
       TakePlain, TakeRestore
  <2>2. task'.pc = "call" => IsCall(task'.call)
    BY <1>0, <1>2, TakeCalls, CallsTask DEF TextInv
  <2>3. QED
    BY <1>1, <2>1, <2>2 DEF TextInv
<1>3. CASE GuiAnswer
  <2>1. PICK o \in Outcomes(task.call, svc) :
          \/ AnswerFetchEntries(o) \/ AnswerFetchGrubMenu(o) \/ AnswerFetchGrubSettings(o)
          \/ AnswerApply(o) \/ AnswerRestore(o) \/ AnswerPlain(o)
    BY <1>3 DEF GuiAnswer
  <2>2. others' = others /\ svc' = o.svc /\ task.pc = "call"
    BY <2>1 DEF AnswerFetchEntries, AnswerFetchGrubMenu, AnswerFetchGrubSettings, AnswerApply, AnswerRestore,
       AnswerPlain, Answers
  <2>3. TextOK(svc')
    BY <2>2, AnswerText DEF TextInv
  <2>4. ASSUME NEW c, NEW got, task' = [task EXCEPT !.call = c, !.got = got], IsCall(c)
        PROVE  task'.pc = "call" => IsCall(task'.call)
    BY <1>0, <2>4 DEF NoTask
  <2>5. ASSUME NEW host
        PROVE  IsCall(LoadCall(host))
    BY PlainCall, MethodNames DEF LoadCall, Msg
  <2>6. IsCall(Msg("GetLoaderConfEtag"))
    BY PlainCall, MethodNames DEF Msg
  <2>7. ASSUME NEW todo, Then(todo)
        PROVE  task'.pc # "call"
    BY <2>7, ThenTask
  <2>8. \/ \E todo : Then(todo)
        \/ \E host, got : task' = [task EXCEPT !.call = LoadCall(host), !.got = got]
        \/ \E got : task' = [task EXCEPT !.call = Msg("GetLoaderConfEtag"), !.got = got]
    BY <2>1 DEF AnswerFetchEntries, AnswerFetchGrubMenu, AnswerFetchGrubSettings, AnswerApply, AnswerRestore,
       AnswerPlain
  <2>9. task'.pc = "call" => IsCall(task'.call)
    BY <2>4, <2>5, <2>6, <2>7, <2>8
  <2>10. QED
    BY <1>1, <2>2, <2>3, <2>9
<1>4. CASE GuiStart \/ GuiFollow
  <2>1. others' = others /\ svc' = svc
    BY <1>4 DEF GuiStart, GuiFollow
  <2>2. task'.pc # "call"
    <3>1. GuiStart => task'.pc # "call"
      BY <1>0 DEF GuiStart, NoTask
    <3>2. GuiFollow => task'.pc # "call"
      BY ThenTask DEF GuiFollow
    <3>3. QED
      BY <1>4, <3>1, <3>2
  <2>3. QED
    BY <1>1, <2>1, <2>2 DEF TextInv
<1>5. CASE GuiWindow
  <2>1. others' = others /\ svc' = svc /\ task' = task
    BY <1>5 DEF GuiWindow, GuiClick, GuiOpenRestore, GuiConfirm, GuiCancel
  <2>2. QED
    BY <1>1, <2>1 DEF TextInv
<1>6. QED
  BY <1>0, <1>2, <1>3, <1>4, <1>5 DEF GuiNext, GuiTask

\* The terminal client's calls.
LEMMA ReloadIsCall == ASSUME NEW a PROVE IsCall(ReloadCall(a))
  BY PlainCall, MethodNames DEF ReloadCall

LEMMA TuiText == ASSUME TextInv, ShownInv, Tui PROVE TextInv'
<1>0. /\ client = "tui" /\ client' = client /\ TuiNext
      /\ task' = task /\ cli' = cli /\ DOMAIN app = DOMAIN NoApp /\ DOMAIN handler = DOMAIN Idle
      /\ app.selected \in Nat
  BY DEF Tui, guiVars, cliVars, ShownInv, TextInv
<1>1. ASSUME others' = others, TextOK(svc'), handler'.pc = "call" => IsCall(handler'.call), app'.selected \in Nat
      PROVE  TextInv'
  BY <1>0, <1>1 DEF TextInv
<1>2. ASSUME NEW op, NEW call, Call(op, call), IsCall(call)
      PROVE  handler'.pc = "call" => IsCall(handler'.call)
  BY <1>2, CallHandler
<1>3. ASSUME NEW a, NEW then, Reload(a, then)
      PROVE  handler'.pc = "call" => IsCall(handler'.call)
  BY <1>3, ReloadHandler, ReloadIsCall
<1>4. Idle.pc = "idle"
  BY DEF Idle
<1>5. CASE TuiKey
  <2>1. others' = others /\ svc' = svc
    BY <1>5 DEF TuiKey, KeyBrowse, KeyReload, KeySetDefault, KeyDelete, KeyType, KeyEscape,
       KeyCommitGrub, KeyCommitUki, Key
  <2>2. app'.selected \in Nat
    <3>1. \/ app' = app \/ app' \in {MoveUp(app), MoveDown(app), OpenEdit(app), OpenAdd(app), CancelEdit(app),
                                     ShowError(app), DismissError(app)}
          \/ \E x : app' = [app EXCEPT !.quit = x] \/ app' = [app EXCEPT !.buf = x]
      BY <1>5 DEF TuiKey, KeyBrowse, KeyReload, KeySetDefault, KeyDelete, KeyType, KeyEscape,
         KeyCommitGrub, KeyCommitUki
    <3>2. QED
      BY <1>0, <3>1, Selections
  <2>3. handler'.pc = "call" => IsCall(handler'.call)
    <3>1. CASE handler' = handler
      BY <3>1 DEF TextInv
    <3>2. CASE KeyReload
      BY <1>2, <3>2, ReloadIsCall DEF KeyReload
    <3>3. CASE KeySetDefault
      <4>1. PICK c : c = [m |-> "SetLoaderDefault", key |-> CurrentKey(app), etag |-> app.etag]
        OBVIOUS
      <4>2. IsCall(c) /\ Call("set_default", c)
        BY <3>3, <4>1, PlainCall, MethodNames DEF KeySetDefault
      <4>3. QED
        BY <1>2, <4>2
    <3>4. CASE KeyDelete
      <4>1. PICK c : c = [m |-> "RemoveKernelParam", key |-> CurrentKey(app), etag |-> app.etag]
        OBVIOUS
      <4>2. IsCall(c) /\ Call("delete", c)
        BY <3>4, <4>1, PlainCall, MethodNames DEF KeyDelete
      <4>3. QED
        BY <1>2, <4>2
    <3>5. CASE KeyCommitGrub
      <4>1. PICK c : c = [m |-> "SetValue", key |-> CurrentKey(app), value |-> app.buf, etag |-> app.etag]
        OBVIOUS
      <4>2. c.m = "SetValue" /\ c.key = CurrentKey(app) /\ c.etag = app.etag /\ Call("commit_grub", c)
        BY <3>5, <4>1 DEF KeyCommitGrub
      <4>3. IsGrub(app) /\ HasRow(app)
        BY <3>5 DEF KeyCommitGrub, Key, ShownInv, IsGrub
      <4>4. app.etag # NoEtag => CurrentKey(app) \notin {Remark, Statement}
        BY <1>0, <4>3, RowIsShown
      <4>5. "SetValue" \in Writes
        BY DEF Writes, GrubEdits
      <4>6. IsCall(c)
        BY <4>2, <4>4, <4>5 DEF IsCall
      <4>7. QED
        BY <1>2, <4>2, <4>6
    <3>6. CASE KeyCommitUki
      <4>1. PICK c : c = [m |-> "AddKernelParam", key |-> app.buf, etag |-> app.etag]
        OBVIOUS
      <4>2. IsCall(c) /\ (handler' = handler \/ Call("add", c))
        BY <3>6, <4>1, PlainCall, MethodNames DEF KeyCommitUki
      <4>3. QED
        BY <1>2, <3>1, <4>2
    <3>7. QED
      BY <1>5, <3>1, <3>2, <3>3, <3>4, <3>5, <3>6 DEF TuiKey, KeyBrowse, KeyType, KeyEscape
  <2>4. QED
    BY <1>1, <2>1, <2>2, <2>3 DEF TextInv
<1>6. CASE TuiStart
  <2>1. PICK c : c = [m |-> "GetActiveBackend"]
    OBVIOUS
  <2>2. PICK o \in Outcomes(c, svc) :
          /\ svc' = o.svc
          /\ \/ /\ \E pc \in {"start", "exit"} : handler' = [handler EXCEPT !.pc = pc, !.op = "load"]
                /\ app' = app
             \/ \E a, x : a = [app EXCEPT !.backend = x] /\ app' = a /\ Call("load", ReloadCall(a))
    BY <1>6, <2>1 DEF TuiStart
  <2>3. others' = others
    BY <1>6 DEF TuiStart
  <2>4. TextOK(svc')
    <3>1. IsCall(c)
      BY <2>1, PlainCall, MethodNames
    <3>2. QED
      BY <2>2, <3>1, AnswerText DEF TextInv
  <2>5. app'.selected \in Nat
    BY <1>0, <2>2, Selections
  <2>6. handler'.pc = "call" => IsCall(handler'.call)
    <3>1. CASE \E pc \in {"start", "exit"} : handler' = [handler EXCEPT !.pc = pc, !.op = "load"]
      BY <1>0, <3>1 DEF Idle
    <3>2. CASE \E a : Call("load", ReloadCall(a))
      BY <1>2, <3>2, ReloadIsCall
    <3>3. QED
      BY <2>2, <3>1, <3>2
  <2>7. QED
    BY <1>1, <2>3, <2>4, <2>5, <2>6
<1>7. CASE TuiAnswer
  <2>1. PICK o \in Outcomes(handler.call, svc) :
          AnswerLoad(o) \/ AnswerWrite(o) \/ AnswerAdd(o) \/ AnswerReread(o) \/ AnswerRemoveOld(o)
    BY <1>7 DEF TuiAnswer
  <2>2. others' = others /\ svc' = o.svc /\ handler.pc = "call"
    BY <2>1 DEF AnswerLoad, AnswerWrite, AnswerAdd, AnswerReread, AnswerRemoveOld, Answer
  <2>3. TextOK(svc')
    BY <2>2, AnswerText DEF TextInv
  <2>4. app'.selected \in Nat
    <3>1. CancelEdit(app).selected \in Nat /\ DOMAIN CancelEdit(app) = DOMAIN NoApp
      BY <1>0, Selections, AppEdits
    <3>2. \/ app' \in {app, CancelEdit(app), ShowError(app), ShowError(CancelEdit(app))}
          \/ \E shown, etag, then : app' = Reported(then, ApplyEntries(app, shown, etag))
      BY <2>1 DEF AnswerLoad, AnswerWrite, AnswerAdd, AnswerReread, AnswerRemoveOld
    <3>3. ShowError(CancelEdit(app)).selected \in Nat
      BY <3>1, Selections
    <3>4. QED
      BY <1>0, <3>1, <3>2, <3>3, Selections
  <2>5. handler'.pc = "call" => IsCall(handler'.call)
    <3>1. ASSUME NEW m \in {"GetLoaderConfEtag", "ReadKernelCmdline"}
          PROVE  IsCall([m |-> m])
      BY PlainCall, MethodNames
    <3>2. CASE \E a, then : Reload(a, then)
      BY <1>3, <3>2
    <3>4. CASE \E pc \in {"idle", "exit"} : handler' = [Idle EXCEPT !.pc = pc]
      BY <3>4 DEF Idle
    <3>5. CASE \E k, e : Call("remove_old", [m |-> "RemoveKernelParam", key |-> k, etag |-> e])
      <4>1. PICK k, e : Call("remove_old", [m |-> "RemoveKernelParam", key |-> k, etag |-> e])
        BY <3>5
      <4>2. PICK c : c = [m |-> "RemoveKernelParam", key |-> k, etag |-> e]
        OBVIOUS
      <4>3. IsCall(c)
        BY <4>2, PlainCall, MethodNames
      <4>4. QED
        BY <1>2, <4>1, <4>2, <4>3
    <3>6. CASE handler' = Idle
      BY <1>4, <3>6
    <3>7. CASE AnswerLoad(o)
      <4>1. CASE handler' = [handler EXCEPT !.call = [m |-> "GetLoaderConfEtag"], !.got = o.value.content]
        <5>1. PICK c, got : c = [m |-> "GetLoaderConfEtag"] /\ got = o.value.content
          OBVIOUS
        <5>2. handler'.call = c
          BY <1>0, <4>1, <5>1 DEF Idle
        <5>3. QED
          BY <3>1, <5>1, <5>2
      <4>2. QED
        BY <3>4, <3>6, <3>7, <4>1 DEF AnswerLoad
    <3>8. CASE AnswerWrite(o)
      BY <3>2, <3>6, <3>8 DEF AnswerWrite
    <3>9. CASE AnswerAdd(o)
      <4>1. CASE handler' = [handler EXCEPT !.op = "reread", !.call = [m |-> "ReadKernelCmdline"]]
        <5>1. PICK c : c = [m |-> "ReadKernelCmdline"]
          OBVIOUS
        <5>2. handler'.call = c
          BY <1>0, <4>1, <5>1 DEF Idle
        <5>3. QED
          BY <3>1, <5>1, <5>2
      <4>2. QED
        BY <3>2, <3>6, <3>9, <4>1 DEF AnswerAdd
    <3>10. CASE AnswerReread(o)
      BY <3>2, <3>5, <3>10 DEF AnswerReread
    <3>11. CASE AnswerRemoveOld(o)
      BY <3>2, <3>11 DEF AnswerRemoveOld
    <3>12. QED
      BY <2>1, <3>7, <3>8, <3>9, <3>10, <3>11
  <2>6. QED
    BY <1>1, <2>2, <2>3, <2>4, <2>5
<1>8. QED
  BY <1>0, <1>5, <1>6, <1>7 DEF TuiNext

\* The commands: "set" assigns the timeout.
LEMMA CommandIsCall ==
  ASSUME OrderOK(svc), NEW c \in Commands(svc, printed)
  PROVE  IsCall(c.call)
<1>1. c.call.m \in CliWrites \union Reads \union Plain
  BY CommandFacts DEF CallOK
<1>2. CliWrites \subseteq Writes
  BY DEF CliWrites, Writes, GrubEdits
<1>3. c.call.m = "SetValue" => c.call.key = "GRUB_TIMEOUT"
  <2> DEFINE Fine == c.call.m = "SetValue" => c.call.key = "GRUB_TIMEOUT"
  <2>1. ASSUME c \in ShowCommands
        PROVE  Fine
    BY <2>1 DEF ShowCommands
  <2>2. ASSUME c \in RebuildCommand \union NvramCommand \union MokCommand
        PROVE  Fine
    BY <2>2 DEF RebuildCommand, NvramCommand, MokCommand
  <2>3. ASSUME c \in SetCommand(printed)
        PROVE  Fine
    BY <2>3 DEF SetCommand
  <2>4. ASSUME c \in BootCommands(printed)
        PROVE  Fine
    BY <2>4 DEF BootCommands
  <2>5. ASSUME c \in CmdlineCommands(printed)
        PROVE  Fine
    BY <2>5 DEF CmdlineCommands
  <2>6. ASSUME c \in SnapshotCommands(svc, printed)
        PROVE  Fine
    BY <2>6 DEF SnapshotCommands
  <2>7. ASSUME c \in EfiReads \union EfiNext
        PROVE  Fine
    BY <2>7 DEF EfiReads, EfiNext
  <2>8. ASSUME c \in EfiSetOrder
        PROVE  Fine
    BY <2>8 DEF EfiSetOrder
  <2>9. ASSUME c \in EfiMove
        PROVE  Fine
    BY <2>9 DEF EfiMove
  <2>10. QED
    BY <2>1, <2>2, <2>3, <2>4, <2>5, <2>6, <2>7, <2>8, <2>9 DEF Commands
<1>4. QED
  BY <1>1, <1>2, <1>3 DEF IsCall, Remark, Statement

LEMMA CliText == ASSUME TextInv, MoveInv, Cli PROVE TextInv'
<1>0. /\ client = "cli" /\ client' = client /\ CliNext
      /\ task' = task /\ handler' = handler /\ app' = app
      /\ DOMAIN cli = DOMAIN NoProcess /\ OrderOK(svc)
  BY DEF Cli, guiVars, tuiVars, MoveInv
<1>1. ASSUME others' = others, TextOK(svc'), cli'.pc = "call" => IsCall(cli'.call)
      PROVE  TextInv'
  BY <1>0, <1>1 DEF TextInv
<1>2. CASE CliStart
  <2>1. PICK c \in Commands(svc, printed) :
          cli' \in {[NoProcess EXCEPT !.pc = "call", !.cmd = c, !.call = c.call],
                    [NoProcess EXCEPT !.pc = "exit", !.code = 1]}
    BY <1>2 DEF CliStart
  <2>2. IsCall(c.call)
    BY <1>0, CommandIsCall
  <2>3. cli'.pc = "call" => cli'.call = c.call
    BY <2>1 DEF NoProcess
  <2>4. others' = others /\ svc' = svc
    BY <1>2 DEF CliStart
  <2>5. QED
    BY <1>1, <2>2, <2>3, <2>4 DEF TextInv
<1>3. CASE CliAnswer
  <2>1. PICK o \in Outcomes(cli.call, svc) :
          AnswerShow(o) \/ AnswerCmdlineGet(o) \/ AnswerOne(o) \/ AnswerMove(o)
    BY <1>3 DEF CliAnswer
  <2>2. others' = others /\ svc' = o.svc /\ cli.pc = "call"
    BY <2>1 DEF AnswerShow, AnswerCmdlineGet, AnswerOne, AnswerMove, CliAnswers
  <2>3. TextOK(svc')
    BY <2>2, AnswerText DEF TextInv
  <2>4. ASSUME NEW code, Exits(code)
        PROVE  cli'.pc # "call"
    BY <2>4 DEF Exits, NoProcess
  <2>5. ASSUME NEW call, NEW got, Continues(call, got), IsCall(call)
        PROVE  IsCall(cli'.call)
    BY <1>0, <2>5 DEF Continues, NoProcess
  <2>6. ASSUME NEW cmd, NEW host
        PROVE  IsCall(ShowCall(cmd, host))
    BY PlainCall, MethodNames DEF ShowCall
  <2>7. ASSUME NEW order
        PROVE  IsCall([m |-> "SetBootOrder", order |-> order])
    <3>1. PICK c : c = [m |-> "SetBootOrder", order |-> order]
      OBVIOUS
    <3>2. IsCall(c)
      BY <3>1, PlainCall, MethodNames
    <3>3. QED
      BY <3>1, <3>2
  <2>8. \/ \E code : Exits(code)
        \/ \E cmd, host, got : Continues(ShowCall(cmd, host), got)
        \/ \E order, got : Continues([m |-> "SetBootOrder", order |-> order], got)
    BY <2>1 DEF AnswerShow, AnswerCmdlineGet, AnswerOne, AnswerMove
  <2>9. QED
    BY <1>1, <2>2, <2>3, <2>4, <2>5, <2>6, <2>7, <2>8
<1>4. CASE RescueStart \/ RescueMount \/ RescueCheck \/ RescueGivesUp
  BY <1>1, <1>4 DEF RescueStart, RescueMount, RescueCheck, RescueGivesUp, TextInv
<1>5. QED
  BY <1>0, <1>2, <1>3, <1>4 DEF CliNext

\* Another program writes a text too.
LEMMA OtherText == ASSUME TextInv, Other PROVE TextInv'
<1>1. PICK kind, content : OtherChange(kind, content) /\ content \in OtherContents[kind]
  BY DEF Other
<1>2. /\ UNCHANGED <<client, task, handler, app, cli>> /\ others' = others + 1
      /\ svc' = [svc EXCEPT !.files[kind] = content]
  BY <1>1 DEF Other, OtherChange, guiVars, tuiVars, cliVars
<1>3. TextOK(svc)
  BY DEF TextInv
<1>4. HasFields(svc') /\ svc'.files = [svc.files EXCEPT ![kind] = content] /\ svc'.snaps = svc.snaps
  BY <1>2, <1>3 DEF TextOK, HasFields
<1>5. /\ DOMAIN svc'.files = Kinds
      /\ svc'.files["config"] = IF kind = "config" THEN content ELSE svc.files["config"]
  BY <1>3, <1>4 DEF TextOK, Kinds
<1>6. TextOK(svc')
  BY <1>1, <1>3, <1>4, <1>5, OthersAssumption DEF TextOK, IsText
<1>7. QED
  BY <1>2, <1>6 DEF TextInv

\* The invariant, together with those of the clients' own.
CallsInv == TextInv /\ ArmedInv /\ ShownInv /\ MoveInv

LEMMA CallsInit == Init => CallsInv
<1> SUFFICES ASSUME Init
             PROVE  TextInv
  BY ArmedInit, ShownInit, MoveInit DEF CallsInv
<1>1. PICK s \in Starts : svc = s.svc /\ others = s.others
  BY DEF Init
<1>2. TextOK(svc) /\ others \in Nat
  BY <1>1, ClientsAssumption DEF TextOK, HasFields, IsText
<1>3. task.call.m = "none" /\ task.pc = "start"
  BY DEF Init, GuiInit, NoTask, Msg
<1>4. handler.call.m = "none" /\ handler.pc = "start" /\ app.selected = 0
  BY DEF Init, TuiInit, Idle, NoApp
<1>5. cli.call.m = "none" /\ cli.pc = "none"
  BY DEF Init, CliInit, NoProcess
<1>6. QED
  BY <1>2, <1>3, <1>4, <1>5 DEF TextInv

LEMMA CallsStep == CallsInv /\ [Next]_vars => CallsInv'
<1> SUFFICES ASSUME CallsInv, [Next]_vars
             PROVE  TextInv'
  BY ArmedStep, ShownStep, MoveStep DEF CallsInv
<1>1. CASE UNCHANGED vars
  BY <1>1 DEF vars, guiVars, tuiVars, cliVars, CallsInv, TextInv, TextOK, HasFields
<1>2. QED
  BY <1>1, GuiText, TuiText, CliText, OtherText DEF Next, CallsInv

\* The call that changed the configuration is the one under way, and was carried out.
LEMMA ChangedByCall ==
  ASSUME TextInv, Next, svc'.files["config"] # svc.files["config"], others' = others,
         NEW c \in {task.call, handler.call, cli.call}, c.m \in GrubEdits
  PROVE  IsCall(c) /\ svc' = After(c, svc) /\ Admits(c, svc)
<1>1. "none" \notin GrubEdits /\ GrubEdits \intersect (Reads \union Plain) = {}
  BY MethodsDiffer DEF Writes
<1>2. \E d : /\ \E o \in Outcomes(d, svc) : svc' = o.svc
             /\ \/ IsCall(d) /\ c = d
                \/ d.m \in Reads
  <2>1. CASE Gui
    <3>1. client = "gui" /\ GuiNext
      BY <2>1 DEF Gui
    <3>2. c = task.call
      BY <1>1, <3>1 DEF TextInv
    <3>3. GuiAnswer
      BY <3>1 DEF GuiNext, GuiTask, GuiStart, GuiFollow, GuiWindow, GuiClick, GuiOpenRestore, GuiConfirm,
         GuiCancel, GuiTake, Takes, TakeFetchEntries, TakeFetchGrubMenu, TakeFetchGrubSettings,
         TakeBootEntriesEdit, TakePrepareGrubDefault, TakeApplyGrubDefault, TakeSettingsEdit,
         TakePrepareGrubSettings, TakeApplyGrubSettings, TakePrepareRebuild, TakeRebuild, TakeCancel,
         TakePlain, TakeRestore
    <3>4. task.pc = "call" /\ \E o \in Outcomes(task.call, svc) : svc' = o.svc
      BY <3>3 DEF GuiAnswer, AnswerFetchEntries, AnswerFetchGrubMenu, AnswerFetchGrubSettings, AnswerApply,
         AnswerRestore, AnswerPlain, Answers
    <3>5. QED
      BY <3>2, <3>4 DEF TextInv
  <2>2. CASE Tui
    <3>1. client = "tui" /\ TuiNext
      BY <2>2 DEF Tui
    <3>2. c = handler.call
      BY <1>1, <3>1 DEF TextInv
    <3>3. TuiStart \/ TuiAnswer
      BY <3>1 DEF TuiNext, TuiKey, KeyBrowse, KeyReload, KeySetDefault, KeyDelete, KeyType, KeyEscape,
         KeyCommitGrub, KeyCommitUki, Key
    <3>4. CASE TuiStart
      <4>1. PICK d : d = [m |-> "GetActiveBackend"]
        OBVIOUS
      <4>2. (\E o \in Outcomes(d, svc) : svc' = o.svc) /\ d.m \in Reads
        BY <3>4, <4>1, MethodNames DEF TuiStart
      <4>3. QED
        BY <4>2
    <3>5. CASE TuiAnswer
      <4>1. handler.pc = "call" /\ \E o \in Outcomes(handler.call, svc) : svc' = o.svc
        BY <3>5 DEF TuiAnswer, AnswerLoad, AnswerWrite, AnswerAdd, AnswerReread, AnswerRemoveOld, Answer
      <4>2. QED
        BY <3>2, <4>1 DEF TextInv
    <3>6. QED
      BY <3>3, <3>4, <3>5
  <2>3. CASE Cli
    <3>1. client = "cli" /\ CliNext
      BY <2>3 DEF Cli
    <3>2. c = cli.call
      BY <1>1, <3>1 DEF TextInv
    <3>3. CliAnswer
      BY <3>1 DEF CliNext, CliStart, RescueStart, RescueMount, RescueCheck, RescueGivesUp
    <3>4. cli.pc = "call" /\ \E o \in Outcomes(cli.call, svc) : svc' = o.svc
      BY <3>3 DEF CliAnswer, AnswerShow, AnswerCmdlineGet, AnswerOne, AnswerMove, CliAnswers
    <3>5. QED
      BY <3>2, <3>4 DEF TextInv
  <2>4. CASE Other
    BY <2>4 DEF Other, OtherChange, TextInv
  <2>5. QED
    BY <2>1, <2>2, <2>3, <2>4 DEF Next
<1>3. PICK d : /\ \E o \in Outcomes(d, svc) : svc' = o.svc
               /\ (IsCall(d) /\ c = d) \/ d.m \in Reads
  BY <1>2
<1>4. svc' = After(d, svc) /\ Admits(d, svc) /\ d.m \notin Reads \union Plain
  BY <1>3, OutcomeFacts
<1>5. QED
  BY <1>3, <1>4

\* An edit of GRUB's configuration, by whichever client and of whatever text, gives the
\* keys asked for the values asked for and keeps everything else.
THEOREM EditKeptTheRest == Spec => EditKeepsTheRest
<1> DEFINE A == \A c \in {task.call, handler.call, cli.call} :
                  c.m \in GrubEdits /\ svc'.files["config"] # svc.files["config"] /\ others' = others =>
                    LET old == svc.files["config"]
                        new == svc'.files["config"]
                        asked == {Asked(c)[i][1] : i \in DOMAIN Asked(c)}
                    IN /\ \A i \in DOMAIN Asked(c) : GrubConfig(new)[Asked(c)[i][1]] = Asked(c)[i][2]
                       /\ \A k \in Keys(old) \ asked : GrubConfig(new)[k] = GrubConfig(old)[k]
                       /\ Len(new) = Len(old) + Cardinality(asked \ Keys(old))
                       /\ \A i \in DOMAIN old :
                            new[i] = old[i] \/ (old[i].key \in asked /\ \A j \in (i + 1)..Len(old) : old[j].key # old[i].key)
<1>1. ASSUME CallsInv, [Next]_vars
      PROVE  [A]_vars
  <2> SUFFICES ASSUME Next, NEW c \in {task.call, handler.call, cli.call}, c.m \in GrubEdits,
                      svc'.files["config"] # svc.files["config"], others' = others
               PROVE  LET old == svc.files["config"]
                          new == svc'.files["config"]
                          asked == {Asked(c)[i][1] : i \in DOMAIN Asked(c)}
                      IN /\ \A i \in DOMAIN Asked(c) : GrubConfig(new)[Asked(c)[i][1]] = Asked(c)[i][2]
                         /\ \A k \in Keys(old) \ asked : GrubConfig(new)[k] = GrubConfig(old)[k]
                         /\ Len(new) = Len(old) + Cardinality(asked \ Keys(old))
                         /\ \A i \in DOMAIN old :
                              new[i] = old[i] \/ (old[i].key \in asked /\ \A j \in (i + 1)..Len(old) : old[j].key # old[i].key)
    BY <1>1
  <2>1. IsCall(c) /\ svc' = After(c, svc) /\ Admits(c, svc) /\ TextOK(svc)
    BY <1>1, ChangedByCall DEF CallsInv, TextInv
  <2>2. c.m \notin Reads \union Plain
    BY MethodsDiffer DEF Writes
  <2>3. PICK old, new, changes : /\ old = svc.files["config"] /\ new = svc'.files["config"]
                                 /\ changes = Asked(c)
    OBVIOUS
  <2>4. IsEdit(changes) /\ IsText(old) /\ new = Updated(old, changes)
    BY <2>1, <2>2, <2>3, AfterText DEF TextOK
  <2>5. Requested(changes) = {changes[i][1] : i \in DOMAIN changes}
    BY DEF Requested, Range
  <2>6. /\ \A i \in DOMAIN changes : GrubConfig(new)[changes[i][1]] = changes[i][2]
        /\ \A k \in Keys(old) \ Requested(changes) : GrubConfig(new)[k] = GrubConfig(old)[k]
        /\ Len(new) = Len(old) + Cardinality(Requested(changes) \ Keys(old))
        /\ \A i \in DOMAIN old : \/ new[i] = old[i]
                                 \/ /\ old[i].key \in Requested(changes)
                                    /\ \A j \in (i + 1)..Len(old) : old[j].key # old[i].key
    BY <2>4, EditKeeps DEF EditFits
  <2>7. QED
    BY <2>3, <2>5, <2>6
<1>2. QED
  BY <1>1, CallsInit, CallsStep, PTL DEF Spec, EditKeepsTheRest

-----------------------------------------------------------------------------
(* The window: PreviewIsTheChange                                          *)

IsSettings(s) ==
  /\ DOMAIN s = {"timeout_seconds", "timeout_style", "detect_other_os", "generate_recovery_entries"}
  /\ s.timeout_seconds \in Numerals /\ s.timeout_style \in Styles
  /\ s.detect_other_os \in BOOLEAN /\ s.generate_recovery_entries \in BOOLEAN

\* The keys two settings differ in, with both values.
Diffs(was, is) ==
  {c \in {[key |-> k, previous |-> SettingText(was, k), desired |-> SettingText(is, k)] :
            k \in Range(SettingKeys)} : c.previous # c.desired}

SetsFields(q) == \A i \in DOMAIN q : SetsField(q[i])

\* The default that is known, if one is, is that of the configuration its ETag is of.
DefaultOK(path, etag) == path # "" /\ etag # NoEtag => path = DefaultOf(GrubConfig(etag[2]))

\* The typed settings are edits of those of the configuration their ETag is of.
TypedOK(t) ==
  /\ DOMAIN t = DOMAIN NoSettings
  /\ t.etag # NoEtag =>
       /\ SettingsParse(t.etag[2]) /\ t.baseline = GrubSettings(t.etag[2])
       /\ IsSettings(t.current)

\* A request says what it changes, of the configuration its ETag is of.
DefaultReq(r) == r.previous # "" /\ r.etag # NoEtag /\ r.previous = DefaultOf(GrubConfig(r.etag[2]))
SettingsReq(r) ==
  /\ r.etag # NoEtag /\ SettingsParse(r.etag[2]) /\ IsSettings(r.settings)
  /\ r.changes = Diffs(GrubSettings(r.etag[2]), r.settings)

\* What is armed says what it changes.
Requests ==
  /\ session.default # NoRequest => DefaultReq(session.default)
  /\ session.settings # NoRequest => SettingsReq(session.settings)

\* The call under way is that of the request.
ApplyOK ==
  task.pc = "call" =>
    /\ task.msg.m = "ApplyGrubDefault" =>
         /\ DefaultReq(task.req) /\ task.call.m = "SetGrubDefault"
         /\ task.call.path = task.req.selected /\ task.call.etag = task.req.etag
    /\ task.msg.m = "ApplyGrubSettings" =>
         /\ SettingsReq(task.req) /\ task.call.m = "SetGrubSettings"
         /\ task.call.settings = task.req.settings /\ task.call.etag = task.req.etag
    /\ task.msg.m = "FetchGrubSettings" => task.call.m = "ReadGrubSettings"

\* In Demo Mode nothing is changed, and a file that does not parse is read.
PreviewInv ==
  ~IsDemo(svc) =>
    /\ \A m \in menuOf : SetsField(m)
    /\ SetsFields(queue)
    /\ TypedOK(typed) /\ DefaultOK(boot.default, boot.config)
    /\ Requests /\ ApplyOK

\* The texts of the settings are none that the parser refuses.
LEMMA SettingTexts ==
  ASSUME NEW s, IsSettings(s)
  PROVE  /\ SettingText(s, "GRUB_TIMEOUT") \in Numerals /\ SettingText(s, "GRUB_TIMEOUT_STYLE") \in Styles
         /\ SettingText(s, "GRUB_DISABLE_OS_PROBER") = (IF s.detect_other_os THEN "false" ELSE "true")
         /\ SettingText(s, "GRUB_DISABLE_RECOVERY") = (IF s.generate_recovery_entries THEN "false" ELSE "true")
         /\ Range(SettingKeys) = {"GRUB_TIMEOUT", "GRUB_TIMEOUT_STYLE", "GRUB_DISABLE_OS_PROBER", "GRUB_DISABLE_RECOVERY"}
         /\ \A k \in Range(SettingKeys) : SettingText(s, k) \notin Refused
<1>1. SettingText(s, "GRUB_TIMEOUT") = s.timeout_seconds
  BY DEF SettingText
<1>2. SettingText(s, "GRUB_TIMEOUT_STYLE") = s.timeout_style
  BY DEF SettingText
<1>3. SettingText(s, "GRUB_DISABLE_OS_PROBER") = Flag(~s.detect_other_os)
  BY DEF SettingText
<1>4. SettingText(s, "GRUB_DISABLE_RECOVERY") = Flag(~s.generate_recovery_entries)
  BY DEF SettingText
<1>5. Flag(~s.detect_other_os) = IF s.detect_other_os THEN "false" ELSE "true"
  BY DEF Flag
<1>6. Flag(~s.generate_recovery_entries) = IF s.generate_recovery_entries THEN "false" ELSE "true"
  BY DEF Flag
<1>7. Range(SettingKeys) = {"GRUB_TIMEOUT", "GRUB_TIMEOUT_STYLE", "GRUB_DISABLE_OS_PROBER", "GRUB_DISABLE_RECOVERY"}
  BY DEF Range, SettingKeys
<1>8. /\ SettingText(s, "GRUB_TIMEOUT") \in Numerals /\ SettingText(s, "GRUB_TIMEOUT_STYLE") \in Styles
      /\ SettingText(s, "GRUB_DISABLE_OS_PROBER") \in Flags /\ SettingText(s, "GRUB_DISABLE_RECOVERY") \in Flags
  BY <1>1, <1>2, <1>3, <1>4, <1>5, <1>6 DEF IsSettings, Flags
<1>9. QED
  BY <1>3, <1>4, <1>5, <1>6, <1>7, <1>8, GrubTextAssumption

\* The settings that are read.
LEMMA SettingsRead ==
  ASSUME NEW text, SettingsParse(text)
  PROVE  IsSettings(GrubSettings(text))
<1>1. PICK a, b : /\ a = (ValueOr(text, "GRUB_DISABLE_OS_PROBER", "false") # "true")
                  /\ b = (ValueOr(text, "GRUB_DISABLE_RECOVERY", "false") # "true")
  OBVIOUS
<1>2. a \in BOOLEAN /\ b \in BOOLEAN
  BY <1>1
<1>3. GrubSettings(text) = [timeout_seconds           |-> ValueOr(text, "GRUB_TIMEOUT", "5"),
                            timeout_style             |-> ValueOr(text, "GRUB_TIMEOUT_STYLE", "menu"),
                            detect_other_os           |-> a,
                            generate_recovery_entries |-> b]
  BY <1>1 DEF GrubSettings
<1>4. QED
  BY <1>2, <1>3 DEF SettingsParse, IsSettings

\* A file whose settings were set parses, and its settings are those.
LEMMA SettingsWritten ==
  ASSUME NEW text, IsText(text), SettingsParse(text), NEW s, IsSettings(s), NEW new,
         new = Updated(text, SettingsChanges(s)), IsEdit(SettingsChanges(s))
  PROVE  /\ SettingsParse(new)
         /\ \A k \in Range(SettingKeys) : SettingText(GrubSettings(new), k) = SettingText(s, k)
<1>1. PICK changes, absent, n : /\ changes = SettingsChanges(s) /\ absent = Absent(text, changes)
                                /\ n = Len(text)
  OBVIOUS
<1>2. /\ DOMAIN changes = 1..4
      /\ \A i \in 1..4 : changes[i][1] = SettingKeys[i] /\ changes[i][2] = SettingText(s, SettingKeys[i])
      /\ \A i \in 1..4 : SettingKeys[i] \in Range(SettingKeys)
      /\ \A k \in Range(SettingKeys) : \E i \in 1..4 : SettingKeys[i] = k
  <2>1. DOMAIN SettingKeys = 1..4
    BY DEF SettingKeys
  <2>2. changes = [i \in 1..4 |-> <<SettingKeys[i], SettingText(s, SettingKeys[i])>>]
    BY <1>1, <2>1 DEF SettingsChanges
  <2>3. QED
    BY <2>1, <2>2 DEF Range
<1>3. LinesFit(text, changes, absent, new) /\ ChangesFit(text, changes, absent)
  BY <1>1, UpdatedIs, ChangesAre
<1>4. \A k \in Range(SettingKeys) : k \in Keys(new) /\ GrubConfig(new)[k] = SettingText(s, k)
  <2>1. \A i \in DOMAIN changes : changes[i][1] \in Keys(new) /\ GrubConfig(new)[changes[i][1]] = changes[i][2]
    <3>1. EditFits(text, changes, new)
      BY <1>1, EditKeeps
    <3>2. QED
      BY <3>1 DEF EditFits
  <2>2. QED
    BY <1>2, <2>1
<1>5. \A k \in Range(SettingKeys) : \A d : ValueOr(new, k, d) = SettingText(s, k)
  BY <1>4 DEF ValueOr
<1>6. Parses(new)
  <2>1. \A k, v : v \notin Refused /\ k # Statement => ~IsBashConstruct(Assignment(k, v))
    BY DEF IsBashConstruct, Assignment
  <2>2. \A i \in DOMAIN changes : changes[i][2] \notin Refused /\ changes[i][1] # Statement
    BY <1>1, <1>2, SettingTexts DEF IsEdit
  <2>3. \A k \in Requested(changes) : Wanted(changes, k) \notin Refused /\ k # Statement
    BY <1>3, <2>2 DEF ChangesFit
  <2>4. \A i \in 1..n : ~IsBashConstruct(text[i])
    <3>1. DOMAIN text = 1..n
      BY <1>1, LenProperties DEF IsText
    <3>2. QED
      BY <3>1 DEF SettingsParse, Parses
  <2>5. \A i \in 1..n : ~IsBashConstruct(new[i])
    BY <1>1, <1>3, <2>1, <2>3, <2>4 DEF LinesFit
  <2>6. absent \in Seq(Range(changes)) /\ DOMAIN absent = 1..Len(absent) /\ Len(absent) \in Nat
    BY <1>3, LenProperties DEF ChangesFit
  <2>7. \A j \in 1..Len(absent) : absent[j][2] \notin Refused /\ absent[j][1] # Statement
    BY <1>3, <2>2, <2>6 DEF ChangesFit
  <2>8. \A j \in 1..Len(absent) : ~IsBashConstruct(new[n + j])
    BY <1>1, <1>3, <2>1, <2>7 DEF LinesFit
  <2>9. n \in Nat
    BY <1>1, LenProperties DEF IsText
  <2>10. ASSUME NEW i \in DOMAIN new, i \notin 1..n
         PROVE  ~IsBashConstruct(new[i])
    <3>1. i - n \in 1..Len(absent) /\ i = n + (i - n)
      BY <1>1, <1>3, <2>6, <2>9, <2>10 DEF LinesFit
    <3>2. QED
      BY <2>8, <3>1
  <2>11. QED
    BY <2>5, <2>10 DEF Parses
<1>7. /\ SettingText(s, "GRUB_TIMEOUT") \in Numerals /\ SettingText(s, "GRUB_TIMEOUT_STYLE") \in Styles
      /\ SettingText(s, "GRUB_DISABLE_OS_PROBER") = (IF s.detect_other_os THEN "false" ELSE "true")
      /\ SettingText(s, "GRUB_DISABLE_RECOVERY") = (IF s.generate_recovery_entries THEN "false" ELSE "true")
      /\ Range(SettingKeys) = {"GRUB_TIMEOUT", "GRUB_TIMEOUT_STYLE", "GRUB_DISABLE_OS_PROBER", "GRUB_DISABLE_RECOVERY"}
  BY SettingTexts
<1>8. SettingsParse(new)
  BY <1>5, <1>6, <1>7 DEF SettingsParse, Flags
<1>9. IsSettings(GrubSettings(new))
  BY <1>8, SettingsRead
<1>10. PICK g : g = GrubSettings(new)
  OBVIOUS
<1>11. /\ g.timeout_seconds = ValueOr(new, "GRUB_TIMEOUT", "5")
       /\ g.timeout_style = ValueOr(new, "GRUB_TIMEOUT_STYLE", "menu")
  BY <1>10 DEF GrubSettings
<1>12. g.detect_other_os <=> s.detect_other_os
  <2>1. g.detect_other_os = (ValueOr(new, "GRUB_DISABLE_OS_PROBER", "false") # "true")
    BY <1>10 DEF GrubSettings
  <2>2. QED
    BY <1>5, <1>7, <2>1
<1>13. g.generate_recovery_entries <=> s.generate_recovery_entries
  <2>1. g.generate_recovery_entries = (ValueOr(new, "GRUB_DISABLE_RECOVERY", "false") # "true")
    BY <1>10 DEF GrubSettings
  <2>2. QED
    BY <1>5, <1>7, <2>1
<1>14. SettingText(g, "GRUB_TIMEOUT") = SettingText(s, "GRUB_TIMEOUT")
  BY <1>5, <1>7, <1>11 DEF SettingText
<1>15. SettingText(g, "GRUB_TIMEOUT_STYLE") = SettingText(s, "GRUB_TIMEOUT_STYLE")
  BY <1>5, <1>7, <1>11 DEF SettingText
<1>16. /\ SettingText(g, "GRUB_DISABLE_OS_PROBER") = SettingText(s, "GRUB_DISABLE_OS_PROBER")
       /\ SettingText(g, "GRUB_DISABLE_RECOVERY") = SettingText(s, "GRUB_DISABLE_RECOVERY")
  BY <1>7, <1>9, <1>10, <1>12, <1>13, SettingTexts
<1>17. QED
  BY <1>7, <1>8, <1>10, <1>14, <1>15, <1>16

\* The edits of the typed settings.
LEMMA StagesTyped ==
  ASSUME NEW t, TypedOK(t)
  PROVE  /\ \A field \in {"timeout_seconds", "timeout_style"} : \A value : TypedOK(StageValue(t, field, value))
         /\ \A field \in {"detect_other_os", "generate_recovery_entries"}, b \in BOOLEAN :
              TypedOK(StageToggle(t, field, b))
         /\ TypedOK([t EXCEPT !.current = t.baseline])
         /\ \A status : TypedOK([NoSettings EXCEPT !.status = status])
<1>1. ASSUME NEW c, t.etag # NoEtag => IsSettings(c)
      PROVE  TypedOK([t EXCEPT !.current = c])
  <2>1. PICK u : u = [t EXCEPT !.current = c]
    OBVIOUS
  <2>2. /\ DOMAIN u = DOMAIN NoSettings /\ u.etag = t.etag /\ u.baseline = t.baseline /\ u.current = c
    BY <2>1 DEF TypedOK, NoSettings
  <2>3. QED
    BY <1>1, <2>1, <2>2 DEF TypedOK
<1>2. ASSUME NEW field \in {"timeout_seconds", "timeout_style"}, NEW value
      PROVE  TypedOK(StageValue(t, field, value))
  <2>1. CASE StageValue(t, field, value) = t
    BY <2>1
  <2>2. CASE StageValue(t, field, value) # t
    <3>1. /\ value \in (IF field = "timeout_seconds" THEN Timeouts ELSE Styles)
          /\ StageValue(t, field, value) = [t EXCEPT !.current[field] = value]
      BY <2>2 DEF StageValue
    <3>2. PICK c : c = [t.current EXCEPT ![field] = value]
      OBVIOUS
    <3>3. [t EXCEPT !.current[field] = value] = [t EXCEPT !.current = c]
      BY <3>2
    <3>4. IsSettings(t.current) => IsSettings(c)
      BY <3>1, <3>2 DEF IsSettings, Numerals
    <3>5. QED
      BY <1>1, <3>1, <3>3, <3>4 DEF TypedOK
  <2>3. QED
    BY <2>1, <2>2
<1>3. ASSUME NEW field \in {"detect_other_os", "generate_recovery_entries"}, NEW b \in BOOLEAN
      PROVE  TypedOK(StageToggle(t, field, b))
  <2>1. CASE StageToggle(t, field, b) = t
    BY <2>1
  <2>2. CASE StageToggle(t, field, b) # t
    <3>1. StageToggle(t, field, b) = [t EXCEPT !.current[field] = b]
      BY <2>2 DEF StageToggle
    <3>2. PICK c : c = [t.current EXCEPT ![field] = b]
      OBVIOUS
    <3>3. [t EXCEPT !.current[field] = b] = [t EXCEPT !.current = c]
      BY <3>2
    <3>4. IsSettings(t.current) => IsSettings(c)
      BY <3>2 DEF IsSettings
    <3>5. QED
      BY <1>1, <3>1, <3>3, <3>4 DEF TypedOK
  <2>3. QED
    BY <2>1, <2>2
<1>4. t.etag # NoEtag => IsSettings(t.baseline)
  BY SettingsRead DEF TypedOK
<1>5. TypedOK([t EXCEPT !.current = t.baseline])
  BY <1>1, <1>4
<1>6. \A status : TypedOK([NoSettings EXCEPT !.status = status])
  BY DEF TypedOK, NoSettings
<1>7. QED
  BY <1>2, <1>3, <1>5, <1>6

\* What is armed is ready, and says what it changes.
LEMMA PreparedDefault ==
  ASSUME NEW b, DefaultOK(b.default, b.config), NEW t, t = PrepareGrubDefault(PendingDefault(b))
  PROVE  t.default # NoRequest => DefaultReq(t.default)
<1>1. PICK r : r = PendingDefault(b)
  OBVIOUS
<1>2. r.previous = b.default /\ r.etag = b.config
  BY <1>1 DEF PendingDefault
<1>3. t.default = IF DefaultReady(r) THEN r ELSE NoRequest
  BY <1>1 DEF PrepareGrubDefault, Disarmed
<1>4. DefaultReady(r) => r.previous # "" /\ r.etag # NoEtag
  BY DEF DefaultReady
<1>5. QED
  BY <1>2, <1>3, <1>4 DEF DefaultReq, DefaultOK

LEMMA PreparedSettings ==
  ASSUME NEW u, TypedOK(u), NEW t, t = PrepareGrubSettings(PendingSettings(u))
  PROVE  t.settings # NoRequest => SettingsReq(t.settings)
<1>1. PICK r : r = PendingSettings(u)
  OBVIOUS
<1>2. r.settings = u.current /\ r.etag = u.etag /\ r.changes = Changes(u)
  BY <1>1 DEF PendingSettings
<1>3. t.settings = IF SettingsReady(r) THEN r ELSE NoRequest
  BY <1>1 DEF PrepareGrubSettings, Disarmed
<1>4. SettingsReady(r) => r.etag # NoEtag /\ r.changes # {}
  BY DEF SettingsReady
<1>5. Changes(u) # {} => Changes(u) = Diffs(u.baseline, u.current)
  BY DEF Changes, Diffs
<1>6. QED
  BY <1>2, <1>3, <1>4, <1>5 DEF SettingsReq, TypedOK

\* A read that succeeds, of a daemon that reads files, is of a text that parses.
LEMMA ReadParses ==
  ASSUME NEW c, NEW s, ~IsDemo(s), NEW o \in Outcomes(c, s), o.ok, c.m \in Reads
  PROVE  Readable(c, s)
<1>1. o \in {Failed(s)} \union DbusReads(c, s)
  BY DEF Outcomes, DbusOutcomes
<1>2. ~Failed(s).ok
  BY DEF Failed
<1>3. QED
  BY <1>1, <1>2 DEF DbusReads

\* The typed settings, once they are read.
LEMMA SettingsLoaded ==
  ASSUME NEW s, ~IsDemo(s), NEW c, c.m = "ReadGrubSettings", NEW o \in Outcomes(c, s), o.ok, NEW status
  PROVE  TypedOK([baseline |-> o.value.content, current |-> o.value.content,
                  etag |-> o.value.etag, status |-> status])
<1>1. c.m \in Reads /\ FileRead[c.m] = "config"
  BY DEF Reads, FileRead
<1>2. SettingsParse(s.files["config"])
  BY <1>1, ReadParses DEF Readable
<1>3. o.value = [content |-> GrubSettings(s.files["config"]), etag |-> <<"config", s.files["config"]>>]
  BY <1>1, OutcomeFacts DEF ValueOf, ReadOf, EtagOf
<1>4. PICK text, g, e : text = s.files["config"] /\ g = GrubSettings(text) /\ e = <<"config", text>>
  OBVIOUS
<1>5. o.value.content = g /\ o.value.etag = e /\ e[2] = text
  BY <1>3, <1>4
<1>6. IsSettings(g) /\ SettingsParse(text)
  BY <1>2, <1>4, SettingsRead
<1>7. QED
  BY <1>4, <1>5, <1>6 DEF TypedOK, NoSettings

\* The default that is known, once the configuration is read.
LEMMA DefaultLoaded ==
  ASSUME NEW s, NEW c, c.m = "ReadConfig", NEW o \in Outcomes(c, s), o.ok
  PROVE  DefaultOK(DefaultOf(o.value.content), o.value.etag)
<1>1. o.value = [content |-> GrubConfig(s.files["config"]), etag |-> <<"config", s.files["config"]>>]
  BY ReadShown, OutcomeFacts
<1>2. PICK text, g, e : text = s.files["config"] /\ g = GrubConfig(text) /\ e = <<"config", text>>
  OBVIOUS
<1>3. o.value.content = g /\ o.value.etag = e /\ e[2] = text
  BY <1>1, <1>2
<1>4. QED
  BY <1>2, <1>3 DEF DefaultOK

\* The channel, with one message fewer or more.
LEMMA SetsFieldsTail ==
  ASSUME NEW q, IsChannel(q), q # <<>>, SetsFields(q)
  PROVE  SetsFields(Tail(q)) /\ SetsField(Head(q))
<1>1. /\ DOMAIN Tail(q) = 1..(Len(q) - 1) /\ Len(q) \in Nat \ {0} /\ Head(q) = q[1]
      /\ DOMAIN q = 1..Len(q) /\ \A i \in 1..(Len(q) - 1) : Tail(q)[i] = q[i + 1]
  BY ChannelTail, LenProperties DEF IsChannel
<1>2. QED
  BY <1>1 DEF SetsFields

LEMMA SetsFieldsAppend ==
  ASSUME NEW q, NEW m, IsChannel(q), SetsFields(q), SetsField(m)
  PROVE  SetsFields(Append(q, m))
<1>1. /\ Append(q, m)[Len(q) + 1] = m /\ DOMAIN Append(q, m) = 1..(Len(q) + 1)
      /\ \A i \in 1..Len(q) : Append(q, m)[i] = q[i]
      /\ Len(q) \in Nat /\ DOMAIN q = 1..Len(q)
  BY ChannelAppend
<1>2. ASSUME NEW i \in 1..(Len(q) + 1)
      PROVE  SetsField(Append(q, m)[i])
  <2>1. CASE i = Len(q) + 1
    BY <1>1, <2>1
  <2>2. CASE i \in 1..Len(q)
    BY <1>1, <2>2 DEF SetsFields
  <2>3. QED
    BY <1>1, <2>1, <2>2
<1>3. QED
  BY <1>1, <1>2 DEF SetsFields

LEMMA SetsFieldsQueued ==
  ASSUME NEW q, NEW m, IsChannel(q), SetsFields(q), SetsField(m)
  PROVE  SetsFields(Queued(q, m)) /\ IsChannel(Queued(q, m))
  BY ChannelQueued, SetsFieldsAppend

LEMMA OtherMessages ==
  ASSUME NEW m, m.m \notin {"StageGrubSetting", "StageGrubToggle"}
  PROVE  SetsField(m)
  BY DEF SetsField

\* The steps of the window's thread, and what the task sends itself.
LEMMA WindowPreviews == ASSUME ArmedInv, PreviewInv, Senders, GuiWindow PROVE PreviewInv'
<1> SUFFICES ASSUME ~IsDemo(svc), ~IsDemo(svc')
             PROVE  PreviewInv'
  <2>1. svc' = svc
    BY DEF GuiWindow, GuiClick, GuiOpenRestore, GuiConfirm, GuiCancel
  <2>2. QED
    BY <2>1 DEF PreviewInv
<1>1. /\ IsChannel(queue) /\ SetsFields(queue) /\ \A m \in menuOf : SetsField(m)
  BY DEF ArmedInv, Fields, PreviewInv
<1>2. /\ menuOf' = menuOf /\ task' = task /\ typed' = typed /\ boot' = boot /\ session' = session
  BY DEF GuiWindow, GuiClick, GuiOpenRestore, GuiConfirm, GuiCancel, models
<1>3. SetsFields(queue')
  <2>1. CASE \E m \in menuOf : GuiClick(m)
    <3>1. PICK m \in menuOf : queue' = IF m.m = "FetchEntries" THEN Queued(Queued(queue, m), Msg("FetchGrubMenu"))
                                                               ELSE Queued(queue, m)
      BY <2>1 DEF GuiClick
    <3>2. SetsFields(Queued(queue, m)) /\ IsChannel(Queued(queue, m))
      BY <1>1, SetsFieldsQueued
    <3>3. SetsField(Msg("FetchGrubMenu"))
      BY DEF Msg, SetsField
    <3>4. SetsFields(Queued(Queued(queue, m), Msg("FetchGrubMenu")))
      BY <3>2, <3>3, SetsFieldsQueued
    <3>5. QED
      BY <3>1, <3>2, <3>4
  <2>2. CASE \E id \in rows : GuiOpenRestore(id)
    BY <1>1, <2>2 DEF GuiOpenRestore
  <2>3. CASE GuiConfirm
    <3>1. PICK m : /\ queue' = Queued(queue, m)
                   /\ m \in {Msg("RebuildGrub"), [m |-> "RestoreSnapshot", id |-> sheet.shown],
                             Applying("ApplyGrubDefault"), Applying("ApplyGrubSettings")}
      BY <2>3 DEF GuiConfirm, Senders, Asking
    <3>2. m.m \notin {"StageGrubSetting", "StageGrubToggle"}
      BY <3>1 DEF Msg, Applying
    <3>3. QED
      BY <1>1, <3>1, <3>2, OtherMessages, SetsFieldsQueued
  <2>4. CASE GuiCancel
    <3>1. queue' = Queued(queue, Msg("CancelConfirmation"))
      BY <2>4 DEF GuiCancel
    <3>2. SetsField(Msg("CancelConfirmation"))
      BY DEF Msg, SetsField
    <3>3. QED
      BY <1>1, <3>1, <3>2, SetsFieldsQueued
  <2>5. QED
    BY <2>1, <2>2, <2>3, <2>4 DEF GuiWindow
<1>4. ApplyOK'
  BY <1>2 DEF PreviewInv, ApplyOK
<1>5. TypedOK(typed') /\ DefaultOK(boot.default, boot.config)' /\ Requests'
  BY <1>2 DEF PreviewInv, Requests
<1>6. QED
  BY <1>1, <1>2, <1>3, <1>4, <1>5 DEF PreviewInv, SetsFields

LEMMA TaskPreviews == ASSUME ArmedInv, PreviewInv, Senders, [Next]_vars, GuiStart \/ GuiFollow PROVE PreviewInv'
<1>0. IsDemo(svc') = IsDemo(svc)
  <2>1. svc'.host = svc.host
    BY ServiceKept DEF ArmedInv, Fields
  <2>2. QED
    BY <2>1 DEF IsDemo
<1> SUFFICES ASSUME ~IsDemo(svc)
             PROVE  PreviewInv'
  BY <1>0 DEF PreviewInv
<1>1. /\ IsChannel(queue) /\ SetsFields(queue) /\ DOMAIN task = DOMAIN NoTask
      /\ \A i \in DOMAIN task.todo : task.todo[i].m \in FetchKinds
      /\ IsChannel(task.todo) /\ (task.pc = "send" => task.todo # <<>>)
  BY DEF ArmedInv, Fields, PreviewInv, Senders
<1>2. menuOf' = menuOf /\ typed' = typed /\ boot' = boot /\ session' = session
  BY DEF GuiStart, GuiFollow, models
<1>3. \A m : m.m \in FetchKinds => SetsField(m)
  BY DEF FetchKinds, SetsField
<1>4. SetsFields(queue')
  <2>1. SetsFields(Fetches)
    BY <1>3, FollowUps DEF FetchesOnly, SetsFields
  <2>2. CASE GuiFollow
    <3>1. queue' = Append(queue, Head(task.todo)) /\ task.todo # <<>>
      BY <1>1, <2>2 DEF GuiFollow
    <3>2. Head(task.todo).m \in FetchKinds
      BY <1>1, <3>1, FollowUpsTail DEF FetchesOnly
    <3>3. QED
      BY <1>1, <1>3, <3>1, <3>2, SetsFieldsAppend
  <2>3. QED
    BY <1>1, <2>1, <2>2 DEF GuiStart
<1>5. task'.pc # "call"
  <2>1. CASE GuiFollow
    <3>1. PICK todo : Then(todo)
      BY <2>1 DEF GuiFollow
    <3>2. QED
      BY <3>1, ThenTask
  <2>2. CASE GuiStart
    <3>1. task' = NoTask \/ task' = [task EXCEPT !.pc = "off"]
      BY <2>2 DEF GuiStart
    <3>2. QED
      BY <1>1, <3>1 DEF NoTask
  <2>3. QED
    BY <2>1, <2>2
<1>6. ApplyOK'
  BY <1>5 DEF ApplyOK
<1>7. TypedOK(typed') /\ DefaultOK(boot.default, boot.config)' /\ Requests'
  BY <1>2 DEF PreviewInv, Requests
<1>8. QED
  BY <1>2, <1>4, <1>6, <1>7 DEF PreviewInv, SetsFields

\* What the answers leave of it: a read brings the settings or the default of the file
\* it read, everything else leaves both as they were.
LEMMA AnswerPreviews == ASSUME ArmedInv, PreviewInv, [Next]_vars, GuiAnswer PROVE PreviewInv'
<1>0. IsDemo(svc') = IsDemo(svc)
  <2>1. svc'.host = svc.host
    BY ServiceKept DEF ArmedInv, Fields
  <2>2. QED
    BY <2>1 DEF IsDemo
<1> SUFFICES ASSUME ~IsDemo(svc)
             PROVE  PreviewInv'
  BY <1>0 DEF PreviewInv
<1>1. PICK o \in Outcomes(task.call, svc) :
        \/ AnswerFetchEntries(o) \/ AnswerFetchGrubMenu(o) \/ AnswerFetchGrubSettings(o)
        \/ AnswerApply(o) \/ AnswerRestore(o) \/ AnswerPlain(o)
  BY DEF GuiAnswer
<1>2. /\ menuOf' = menuOf /\ queue' = queue /\ session' = session /\ task.pc = "call"
      /\ DOMAIN boot = DOMAIN NoEntries /\ DOMAIN task = DOMAIN NoTask
  BY <1>1 DEF AnswerFetchEntries, AnswerFetchGrubMenu, AnswerFetchGrubSettings, AnswerApply, AnswerRestore,
     AnswerPlain, Answers, ArmedInv, Fields
<1>3. /\ TypedOK(typed) /\ DefaultOK(boot.default, boot.config) /\ Requests /\ ApplyOK /\ SetsFields(queue)
      /\ \A m \in menuOf : SetsField(m)
  BY DEF PreviewInv
<1>4. TypedOK(typed')
  <2>1. CASE AnswerFetchGrubSettings(o)
    <3>1. /\ task.call.m = "ReadGrubSettings"
          /\ typed' = IF o.ok
                      THEN [baseline |-> o.value.content, current |-> o.value.content,
                            etag |-> o.value.etag, status |-> "ready"]
                      ELSE [NoSettings EXCEPT !.status = "error"]
      BY <1>3, <2>1 DEF AnswerFetchGrubSettings, Answers, ApplyOK
    <3>2. CASE o.ok
      BY <3>1, <3>2, SettingsLoaded
    <3>3. CASE ~o.ok
      BY <1>3, <3>1, <3>3, StagesTyped
    <3>4. QED
      BY <3>2, <3>3
  <2>2. CASE typed' = typed
    BY <1>3, <2>2
  <2>3. QED
    BY <1>1, <2>1, <2>2 DEF AnswerFetchEntries, AnswerFetchGrubMenu, AnswerApply, AnswerRestore, AnswerPlain
<1>5. DefaultOK(boot'.default, boot'.config)
  <2>1. CASE boot' = boot
    BY <1>3, <2>1
  <2>2. CASE AnswerFetchGrubMenu(o)
    <3>1. KeepsConfig(boot, boot')
      BY <1>2, <2>2, LoadKeepsConfig DEF AnswerFetchGrubMenu
    <3>2. QED
      BY <1>3, <3>1 DEF KeepsConfig
  <2>3. CASE AnswerFetchEntries(o) /\ boot' # boot
    <3>1. /\ o.ok
          /\ \/ \E etag : boot' = SetConfigState(boot, "", etag)
             \/ task.call.m = "ReadConfig" /\ boot' = SetConfigState(boot, DefaultOf(o.value.content), o.value.etag)
      BY <2>3 DEF AnswerFetchEntries
    <3>2. CASE \E etag : boot' = SetConfigState(boot, "", etag)
      <4>1. PICK etag, path : path = "" /\ boot' = SetConfigState(boot, path, etag)
        BY <3>2
      <4>2. boot' = SetConfigState(boot, path, etag)
        BY <4>1
      <4>3. boot'.default = path
        BY <1>2, <4>2, SetConfig
      <4>4. QED
        BY <4>1, <4>3 DEF DefaultOK
    <3>3. CASE task.call.m = "ReadConfig" /\ boot' = SetConfigState(boot, DefaultOf(o.value.content), o.value.etag)
      <4>1. boot'.default = DefaultOf(o.value.content) /\ boot'.config = o.value.etag
        BY <1>2, <3>3, SetConfig
      <4>2. QED
        BY <3>1, <3>3, <4>1, DefaultLoaded
    <3>4. QED
      BY <3>1, <3>2, <3>3
  <2>4. QED
    BY <1>1, <2>1, <2>2, <2>3 DEF AnswerFetchGrubSettings, AnswerApply, AnswerRestore, AnswerPlain
<1>6. ApplyOK'
  <2>1. \/ \E todo : Then(todo)
        \/ task.msg.m = "FetchEntries" /\ \E c, got : task' = [task EXCEPT !.call = c, !.got = got]
    <3>1. CASE AnswerFetchEntries(o)
      <4>1. task.msg.m = "FetchEntries"
        BY <3>1 DEF AnswerFetchEntries, Answers
      <4>2. (\E todo : Then(todo)) \/ \E c, got : task' = [task EXCEPT !.call = c, !.got = got]
        BY <3>1 DEF AnswerFetchEntries
      <4>3. QED
        BY <4>1, <4>2
    <3>2. CASE AnswerFetchGrubMenu(o) \/ AnswerFetchGrubSettings(o) \/ AnswerPlain(o)
      BY <3>2 DEF AnswerFetchGrubMenu, AnswerFetchGrubSettings, AnswerPlain
    <3>3. CASE AnswerApply(o)
      BY <3>3 DEF AnswerApply
    <3>4. CASE AnswerRestore(o)
      BY <3>4 DEF AnswerRestore
    <3>5. QED
      BY <1>1, <3>1, <3>2, <3>3, <3>4
  <2>2. CASE \E todo : Then(todo)
    <3>1. task'.pc # "call"
      BY <2>2, ThenTask
    <3>2. QED
      BY <3>1 DEF ApplyOK
  <2>3. CASE task.msg.m = "FetchEntries" /\ \E c, got : task' = [task EXCEPT !.call = c, !.got = got]
    <3>1. task'.msg = task.msg
      BY <1>2, <2>3 DEF NoTask
    <3>2. QED
      BY <2>3, <3>1 DEF ApplyOK
  <2>4. QED
    BY <2>1, <2>2, <2>3
<1>7. Requests'
  BY <1>2, <1>3 DEF Requests
<1>8. QED
  BY <1>2, <1>3, <1>4, <1>5, <1>6, <1>7 DEF PreviewInv, SetsFields

\* What taking a message leaves of it.
LEMMA TakePreviews == ASSUME ArmedInv, PreviewInv, GuiTake PROVE PreviewInv'
<1> SUFFICES ASSUME ~IsDemo(svc)
             PROVE  PreviewInv'
  <2>1. svc' = svc
    BY DEF GuiTake, Takes, TakeFetchEntries, TakeFetchGrubMenu, TakeFetchGrubSettings, TakeBootEntriesEdit,
       TakePrepareGrubDefault, TakeApplyGrubDefault, TakeSettingsEdit, TakePrepareGrubSettings,
       TakeApplyGrubSettings, TakePrepareRebuild, TakeRebuild, TakeCancel, TakePlain, TakeRestore
  <2>2. QED
    BY <2>1 DEF PreviewInv
<1>1. /\ menuOf' = menuOf /\ queue # <<>> /\ queue' = Tail(queue) /\ task.pc = "recv"
      /\ DOMAIN session = DOMAIN Disarmed /\ DOMAIN boot = DOMAIN NoEntries
      /\ DOMAIN task = DOMAIN NoTask /\ IsChannel(queue)
  BY DEF GuiTake, Takes, TakeFetchEntries, TakeFetchGrubMenu, TakeFetchGrubSettings, TakeBootEntriesEdit,
     TakePrepareGrubDefault, TakeApplyGrubDefault, TakeSettingsEdit, TakePrepareGrubSettings,
     TakeApplyGrubSettings, TakePrepareRebuild, TakeRebuild, TakeCancel, TakePlain, TakeRestore,
     ArmedInv, Fields
<1>2. /\ TypedOK(typed) /\ DefaultOK(boot.default, boot.config) /\ Requests /\ ApplyOK /\ SetsFields(queue)
      /\ \A m \in menuOf : SetsField(m)
  BY DEF PreviewInv
<1>3. SetsFields(queue') /\ SetsField(Head(queue))
  BY <1>1, <1>2, SetsFieldsTail
<1>4. TypedOK(typed')
  <2>1. CASE typed' = typed
    BY <1>2, <2>1
  <2>2. CASE TakeFetchGrubSettings
    BY <1>2, <2>2, StagesTyped DEF TakeFetchGrubSettings
  <2>3. CASE TakeSettingsEdit
    <3>1. CASE Takes("StageGrubSetting") /\ typed' = StageValue(typed, Head(queue).field, Head(queue).value)
      <4>1. Head(queue).field \in {"timeout_seconds", "timeout_style"}
        BY <1>3, <3>1 DEF Takes, SetsField
      <4>2. QED
        BY <1>2, <3>1, <4>1, StagesTyped
    <3>2. CASE Takes("StageGrubToggle") /\ typed' = StageToggle(typed, Head(queue).field, Head(queue).enabled)
      <4>1. /\ Head(queue).field \in {"detect_other_os", "generate_recovery_entries"}
            /\ Head(queue).enabled \in BOOLEAN
        BY <1>3, <3>2 DEF Takes, SetsField
      <4>2. QED
        BY <1>2, <3>2, <4>1, StagesTyped
    <3>3. CASE typed' = [typed EXCEPT !.current = typed.baseline]
      BY <1>2, <3>3, StagesTyped
    <3>4. QED
      BY <2>3, <3>1, <3>2, <3>3 DEF TakeSettingsEdit
  <2>4. QED
    BY <2>1, <2>2, <2>3 DEF GuiTake, TakeFetchEntries, TakeFetchGrubMenu, TakeBootEntriesEdit,
       TakePrepareGrubDefault, TakeApplyGrubDefault, TakePrepareGrubSettings, TakeApplyGrubSettings,
       TakePrepareRebuild, TakeRebuild, TakeCancel, TakePlain, TakeRestore, models
<1>5. DefaultOK(boot'.default, boot'.config)
  <2>1. CASE TakeFetchEntries
    <3>1. PICK path : path = "" /\ boot' = SetConfigState(boot, path, NoEtag)
      BY <2>1 DEF TakeFetchEntries
    <3>2. boot' = SetConfigState(boot, path, NoEtag)
      BY <3>1
    <3>3. boot'.default = path
      BY <1>1, <3>2, SetConfig
    <3>4. QED
      BY <3>1, <3>3 DEF DefaultOK
  <2>2. CASE ~TakeFetchEntries
    BY <1>1, <1>2, <2>2, TakeBoot DEF KeepsConfig
  <2>3. QED
    BY <2>1, <2>2
<1>6. Requests'
  <2>1. CASE session' \in {session, Disarmed, [session EXCEPT !.rebuild = FALSE]}
    BY <1>1, <1>2, <2>1, SessionEdits DEF Requests
  <2>2. CASE session' = PrepareGrubDefault(PendingDefault(boot))
    BY <1>2, <2>2, PreparedDefault, Prepares DEF Requests
  <2>3. CASE session' = PrepareGrubSettings(PendingSettings(typed))
    BY <1>2, <2>3, PreparedSettings, Prepares DEF Requests
  <2>4. CASE session' = PrepareRebuild(vm, svc)
    BY <2>4, Prepares DEF Requests
  <2>5. CASE session' = ConfirmGrubDefault(session).rest
    BY <1>1, <1>2, <2>5, SessionEdits DEF Requests
  <2>6. CASE session' = ConfirmGrubSettings(session, typed).rest
    BY <1>1, <1>2, <2>6, SessionEdits DEF Requests
  <2>7. QED
    BY <2>1, <2>2, <2>3, <2>4, <2>5, <2>6, TakeSession
<1>7. ApplyOK'
  <2>1. CASE task' = task
    BY <1>1, <2>1 DEF ApplyOK
  <2>2. CASE TakeApplyGrubDefault /\ task' # task
    <3>1. PICK req, c : /\ req = session.default /\ req # NoRequest /\ Calls(c, req)
                        /\ c = [m |-> "SetGrubDefault", path |-> req.selected,
                                menuEtag |-> req.menuEtag, etag |-> req.etag]
      BY <1>1, <2>2, SessionEdits DEF TakeApplyGrubDefault, Handled
    <3>2. task'.msg = Head(queue) /\ task'.call = c /\ task'.req = req
      BY <1>1, <3>1, CallsTask
    <3>3. Head(queue).m = "ApplyGrubDefault"
      BY <2>2 DEF TakeApplyGrubDefault, Takes
    <3>4. DefaultReq(req)
      BY <1>2, <3>1 DEF Requests
    <3>5. c.m = "SetGrubDefault" /\ c.path = req.selected /\ c.etag = req.etag
      BY <3>1
    <3>6. QED
      BY <3>2, <3>3, <3>4, <3>5 DEF ApplyOK
  <2>3. CASE TakeApplyGrubSettings /\ task' # task
    <3>1. PICK req, c : /\ req = session.settings /\ req # NoRequest /\ Calls(c, req)
                        /\ c = [m |-> "SetGrubSettings", settings |-> req.settings, etag |-> req.etag]
      BY <1>1, <2>3, SessionEdits DEF TakeApplyGrubSettings, Handled
    <3>2. task'.msg = Head(queue) /\ task'.call = c /\ task'.req = req
      BY <1>1, <3>1, CallsTask
    <3>3. Head(queue).m = "ApplyGrubSettings"
      BY <2>3 DEF TakeApplyGrubSettings, Takes
    <3>4. SettingsReq(req)
      BY <1>2, <3>1 DEF Requests
    <3>5. c.m = "SetGrubSettings" /\ c.settings = req.settings /\ c.etag = req.etag
      BY <3>1
    <3>6. QED
      BY <3>2, <3>3, <3>4, <3>5 DEF ApplyOK
  <2>4. CASE TakeFetchGrubSettings /\ task' # task
    <3>1. Calls(Msg("ReadGrubSettings"), NoRequest) /\ Head(queue).m = "FetchGrubSettings"
      BY <2>4 DEF TakeFetchGrubSettings, Takes, Handled
    <3>2. task'.msg.m = "FetchGrubSettings" /\ task'.call = Msg("ReadGrubSettings")
      BY <1>1, <3>1, CallsTask
    <3>3. task'.call.m = "ReadGrubSettings"
      BY <3>2 DEF Msg
    <3>4. QED
      BY <3>2, <3>3 DEF ApplyOK
  <2>5. CASE /\ Head(queue).m \notin {"ApplyGrubDefault", "ApplyGrubSettings", "FetchGrubSettings"}
             /\ \E c, req : Calls(c, req)
    <3>1. task'.msg = Head(queue)
      BY <1>1, <2>5, CallsTask
    <3>2. QED
      BY <2>5, <3>1 DEF ApplyOK
  <2>6. QED
    BY <2>1, <2>2, <2>3, <2>4, <2>5 DEF GuiTake, Takes, TakeFetchEntries, TakeFetchGrubMenu, TakeBootEntriesEdit,
       TakePrepareGrubDefault, TakeSettingsEdit, TakePrepareGrubSettings,
       TakePrepareRebuild, TakeRebuild, TakeCancel, TakePlain, TakeRestore, Handled
<1>8. QED
  BY <1>1, <1>2, <1>3, <1>4, <1>5, <1>6, <1>7 DEF PreviewInv, SetsFields

\* The differences are those of the values.
LEMMA DiffsAre ==
  ASSUME NEW was, NEW is, NEW k \in Range(SettingKeys), NEW a, NEW b,
         a = SettingText(was, k), b = SettingText(is, k)
  PROVE  a # b <=> \E c \in Diffs(was, is) : c = [key |-> k, previous |-> a, desired |-> b]
<1>1. ASSUME NEW c, c = [key |-> k, previous |-> a, desired |-> b]
      PROVE  c.previous = a /\ c.desired = b
  BY <1>1
<1>2. ASSUME a # b
      PROVE  \E c \in Diffs(was, is) : c = [key |-> k, previous |-> a, desired |-> b]
  <2>1. PICK c : c = [key |-> k, previous |-> a, desired |-> b]
    OBVIOUS
  <2>2. c.previous # c.desired
    BY <1>1, <1>2, <2>1
  <2>3. c \in Diffs(was, is)
    BY <2>1, <2>2 DEF Diffs
  <2>4. QED
    BY <2>1, <2>3
<1>3. ASSUME NEW c \in Diffs(was, is), c = [key |-> k, previous |-> a, desired |-> b]
      PROVE  a # b
  <2>1. c.previous # c.desired
    BY DEF Diffs
  <2>2. QED
    BY <1>1, <1>3, <2>1
<1>4. QED
  BY <1>2, <1>3

LEMMA PreviewInit == Init => PreviewInv
<1> SUFFICES ASSUME Init
             PROVE  PreviewInv
  OBVIOUS
<1>1. /\ queue = <<>> /\ task.pc = "start" /\ typed = NoSettings /\ boot.default = "" /\ session = Disarmed
      /\ \A m \in menuOf : SetsField(m)
  <2>1. \A m \in menuOf : SetsField(m)
    BY ClientsAssumption DEF Init
  <2>2. task.pc = "start" /\ boot.default = ""
    BY DEF Init, GuiInit, NoTask, NoEntries
  <2>3. QED
    BY <2>1, <2>2 DEF Init, GuiInit
<1>2. SetsFields(queue)
  <2>1. queue = <<>>
    BY <1>1
  <2>2. DOMAIN queue = {}
    BY <2>1
  <2>3. QED
    BY <2>2 DEF SetsFields
<1>3. TypedOK(typed)
  BY <1>1 DEF TypedOK, NoSettings
<1>4. DefaultOK(boot.default, boot.config) /\ ApplyOK
  BY <1>1 DEF DefaultOK, ApplyOK
<1>5. Requests
  BY <1>1 DEF Requests, Disarmed
<1>6. QED
  BY <1>1, <1>2, <1>3, <1>4, <1>5 DEF PreviewInv

LEMMA PreviewStep == ArmedInv /\ Senders /\ PreviewInv /\ [Next]_vars => PreviewInv'
<1> SUFFICES ASSUME ArmedInv, Senders, PreviewInv, [Next]_vars
             PROVE  PreviewInv'
  OBVIOUS
<1>1. CASE Gui
  BY <1>1, WindowPreviews, TaskPreviews, AnswerPreviews, TakePreviews DEF Gui, GuiNext, GuiTask
<1>2. CASE UNCHANGED guiVars
  <2>1. svc'.host = svc.host
    BY ServiceKept DEF ArmedInv, Fields
  <2>2. IsDemo(svc') = IsDemo(svc)
    BY <2>1 DEF IsDemo
  <2>3. /\ menuOf' = menuOf /\ queue' = queue /\ task' = task /\ typed' = typed /\ boot' = boot
        /\ session' = session
    BY <1>2 DEF guiVars
  <2>4. CASE ~IsDemo(svc)
    <3>1. TypedOK(typed') /\ DefaultOK(boot.default, boot.config)' /\ Requests' /\ ApplyOK'
      BY <2>3, <2>4 DEF PreviewInv, Requests, ApplyOK
    <3>2. QED
      BY <2>3, <2>4, <3>1 DEF PreviewInv, SetsFields
  <2>5. QED
    BY <2>2, <2>4 DEF PreviewInv
<1>3. QED
  BY <1>1, <1>2 DEF Next, Tui, Cli, Other, vars

\* What the call of an applied default did to the file.
DefaultDone(old, new, entries, req) ==
  /\ GrubConfig(old)["GRUB_DEFAULT"] = req.previous
  /\ GrubConfig(new)["GRUB_DEFAULT"] = req.selected
  /\ req.selected \in BootablePaths(entries)

LEMMA DefaultApplied ==
  ASSUME TextOK(svc), NEW c, IsCall(c), Admits(c, svc), NEW req, DefaultReq(req),
         c.m = "SetGrubDefault", c.path = req.selected, c.etag = req.etag, svc' = After(c, svc)
  PROVE  DefaultDone(svc.files["config"], svc'.files["config"], MenuNow(svc).entries, req)
<1>1. PICK old, new, changes : /\ old = svc.files["config"] /\ new = svc'.files["config"]
                               /\ changes = Asked(c)
  OBVIOUS
<1>2. c.m \in GrubEdits /\ c.m \notin Reads \union Plain
  BY MethodsDiffer DEF Writes, GrubEdits
<1>3. IsEdit(changes) /\ IsText(old) /\ new = Updated(old, changes)
  BY <1>1, <1>2, AfterText DEF TextOK
<1>4. EditFits(old, changes, new)
  BY <1>3, EditKeeps
<1>5. changes = <<<<"GRUB_DEFAULT", req.selected>>>>
  BY <1>1 DEF Asked
<1>6. 1 \in DOMAIN changes /\ changes[1][1] = "GRUB_DEFAULT" /\ changes[1][2] = req.selected
  BY <1>5
<1>7. GrubConfig(new)[changes[1][1]] = changes[1][2]
  BY <1>4, <1>6 DEF EditFits
<1>8. c.path \in BootablePaths(MenuNow(svc).entries) /\ c.etag = EtagOf("config", svc)
  BY DEF Admits
<1>9. req.etag[2] = old
  BY <1>1, <1>8 DEF EtagOf
<1>10. req.previous # "" /\ req.previous = DefaultOf(GrubConfig(old))
  BY <1>9 DEF DefaultReq
<1>11. GrubConfig(old)["GRUB_DEFAULT"] = req.previous
  BY <1>10 DEF DefaultOf
<1>12. QED
  BY <1>1, <1>6, <1>7, <1>8, <1>11 DEF DefaultDone

\* What the call of applied settings did.
SettingsDone(old, new, changes) ==
  /\ SettingsParse(old) /\ SettingsParse(new)
  /\ \A k \in Range(SettingKeys) :
       LET was == SettingText(GrubSettings(old), k)
           is == SettingText(GrubSettings(new), k)
       IN was # is <=> \E c \in changes : c = [key |-> k, previous |-> was, desired |-> is]

LEMMA SettingsApplied ==
  ASSUME TextOK(svc), NEW c, IsCall(c), Admits(c, svc), NEW req, SettingsReq(req),
         c.m = "SetGrubSettings", c.settings = req.settings, c.etag = req.etag, svc' = After(c, svc)
  PROVE  SettingsDone(svc.files["config"], svc'.files["config"], req.changes)
<1>1. PICK old, new, s : /\ old = svc.files["config"] /\ new = svc'.files["config"] /\ s = req.settings
  OBVIOUS
<1>2. c.m \in GrubEdits /\ c.m \notin Reads \union Plain
  BY MethodsDiffer DEF Writes, GrubEdits
<1>3. Asked(c) = SettingsChanges(s)
  BY <1>1 DEF Asked
<1>4. IsEdit(SettingsChanges(s)) /\ IsText(old) /\ new = Updated(old, SettingsChanges(s))
  BY <1>1, <1>2, <1>3, AfterText DEF TextOK
<1>5. c.etag = EtagOf("config", svc)
  BY DEF Admits
<1>6. req.etag[2] = old
  BY <1>1, <1>5 DEF EtagOf
<1>7. SettingsParse(old) /\ IsSettings(s) /\ req.changes = Diffs(GrubSettings(old), s)
  BY <1>1, <1>6 DEF SettingsReq
<1>8. SettingsParse(new) /\ \A k \in Range(SettingKeys) : SettingText(GrubSettings(new), k) = SettingText(s, k)
  BY <1>4, <1>7, SettingsWritten
<1>9. ASSUME NEW k \in Range(SettingKeys), NEW was, NEW is,
             was = SettingText(GrubSettings(old), k), is = SettingText(GrubSettings(new), k)
      PROVE  was # is <=> \E d \in req.changes : d = [key |-> k, previous |-> was, desired |-> is]
  <2>1. is = SettingText(s, k)
    BY <1>8, <1>9
  <2>2. was # is <=> \E d \in Diffs(GrubSettings(old), s) : d = [key |-> k, previous |-> was, desired |-> is]
    BY <1>9, <2>1, DiffsAre
  <2>3. QED
    BY <1>7, <2>2
<1>10. QED
  BY <1>1, <1>7, <1>8, <1>9 DEF SettingsDone

\* A change of the default or of the typed settings that the window makes is the one its
\* preview showed, however many other programs changed the files in between.
THEOREM PreviewWasTheChange == Spec => PreviewIsTheChange
<1> DEFINE A == task # task' /\ svc' # svc /\ task.pc = "call" =>
                  LET old == svc.files["config"]
                      new == svc'.files["config"]
                      req == task.req
                  IN /\ task.msg.m = "ApplyGrubDefault" =>
                          /\ GrubConfig(old)["GRUB_DEFAULT"] = req.previous
                          /\ GrubConfig(new)["GRUB_DEFAULT"] = req.selected
                          /\ req.selected \in BootablePaths(MenuNow(svc).entries)
                     /\ task.msg.m = "ApplyGrubSettings" =>
                          /\ SettingsParse(old) /\ SettingsParse(new)
                          /\ \A k \in Range(SettingKeys) :
                               LET was == SettingText(GrubSettings(old), k)
                                   is == SettingText(GrubSettings(new), k)
                               IN was # is <=> \E c \in req.changes : c = [key |-> k, previous |-> was, desired |-> is]
<1>1. ASSUME CallsInv, Senders, PreviewInv, [Next]_vars
      PROVE  [A]_vars
  <2> SUFFICES ASSUME Next, task # task', svc' # svc, task.pc = "call"
               PROVE  /\ task.msg.m = "ApplyGrubDefault" =>
                           DefaultDone(svc.files["config"], svc'.files["config"], MenuNow(svc).entries, task.req)
                      /\ task.msg.m = "ApplyGrubSettings" =>
                           SettingsDone(svc.files["config"], svc'.files["config"], task.req.changes)
    BY <1>1 DEF DefaultDone, SettingsDone
  <2>1. GuiNext
    BY DEF Next, Gui, Tui, Cli, Other, guiVars, vars
  <2>2. GuiAnswer
    BY <2>1 DEF GuiNext, GuiTask, GuiStart, GuiFollow, GuiWindow, GuiClick, GuiOpenRestore, GuiConfirm,
       GuiCancel, GuiTake, Takes, TakeFetchEntries, TakeFetchGrubMenu, TakeFetchGrubSettings,
       TakeBootEntriesEdit, TakePrepareGrubDefault, TakeApplyGrubDefault, TakeSettingsEdit,
       TakePrepareGrubSettings, TakeApplyGrubSettings, TakePrepareRebuild, TakeRebuild, TakeCancel,
       TakePlain, TakeRestore
  <2>3. PICK o \in Outcomes(task.call, svc) : svc' = o.svc
    BY <2>2 DEF GuiAnswer, AnswerFetchEntries, AnswerFetchGrubMenu, AnswerFetchGrubSettings, AnswerApply,
       AnswerRestore, AnswerPlain, Answers
  <2>4. svc' = After(task.call, svc) /\ Admits(task.call, svc) /\ ~IsDemo(svc)
    BY <2>3, OutcomeFacts
  <2>5. TextOK(svc) /\ IsCall(task.call) /\ ApplyOK
    BY <1>1, <2>4 DEF CallsInv, TextInv, PreviewInv
  <2>6. CASE task.msg.m = "ApplyGrubDefault"
    <3>1. /\ DefaultReq(task.req) /\ task.call.m = "SetGrubDefault"
          /\ task.call.path = task.req.selected /\ task.call.etag = task.req.etag
      BY <2>5, <2>6 DEF ApplyOK
    <3>2. QED
      BY <2>4, <2>5, <2>6, <3>1, DefaultApplied
  <2>7. CASE task.msg.m = "ApplyGrubSettings"
    <3>1. /\ SettingsReq(task.req) /\ task.call.m = "SetGrubSettings"
          /\ task.call.settings = task.req.settings /\ task.call.etag = task.req.etag
      BY <2>5, <2>7 DEF ApplyOK
    <3>2. QED
      BY <2>4, <2>5, <2>7, <3>1, SettingsApplied
  <2>8. QED
    BY <2>6, <2>7
<1>2. CallsInv => ArmedInv
  BY DEF CallsInv
<1>3. QED
  BY <1>1, <1>2, CallsInit, CallsStep, SendersInit, SendersStep, PreviewInit, PreviewStep, PTL
     DEF Spec, PreviewIsTheChange
=============================================================================
