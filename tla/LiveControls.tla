---------------------------- MODULE LiveControls ----------------------------
(***************************************************************************)
(* The controls of one live-mode tab: what clicks, keys, timers, late      *)
(* answers and events do to the floating bar, the copy editor, the insert  *)
(* placeholder, the annotation overlay and the steer chat.                 *)
(*                                                                         *)
(* The script keeps all of it in variables of one closure, here the record *)
(* tab; a helper of the script is an operator from tab to tab, and a       *)
(* handler composes them in the order of the code.  The page has one       *)
(* element to pick, with text; the version 0 of its copy is the source's.  *)
(* The protocol behind the requests is LiveSessions' and LiveEdits'; here  *)
(* the server answers or fails, and the agent writes the variants in one   *)
(* edit or reports an error.  Reloads are LiveSessions'.                   *)
(***************************************************************************)
EXTENDS Naturals, FiniteSets

CONSTANTS
  Habits,       \* bound on what one user does: sets of Abilities
  MaxSessions,  \* bound on generate events
  MaxVersion,   \* bound on versions of the copy typed by the user
  MaxSteers,    \* bound on steer messages
  MaxEvents,    \* bound on errors, lost servers and Applies together
  MaxBroken     \* bound on the kinds of excuses in one behaviour

ASSUME BoundAssumption ==
  {MaxSessions, MaxVersion, MaxSteers, MaxEvents, MaxBroken}
    \subseteq Nat

Abilities == {"copy", "steer", "voice", "tools"}
ASSUME HabitsAssumption == Habits \subseteq SUBSET Abilities

VARIABLES
  habit,    \* the user of this behaviour
  tab,      \* the closure of live-browser.js
  page,     \* the session whose variants are on the page, 0 for none
  source,   \* the sessions whose variants are in the source file
  asks,     \* requests and timers of the tab that are not over
  up,       \* the tab still has its event stream
  given,    \* sessions, steers and events so far, and the insert sessions
  excused   \* history: what broke the rules below, see Excuses

vars == <<habit, tab, page, source, asks, up, given, excused>>
-----------------------------------------------------------------------------
States == {"IDLE", "PICKING", "CONFIGURING", "EDITING", "GENERATING",
           "CYCLING", "SAVING", "CONFIRMED"}
Rows == {"configure", "insert", "generating", "cycling", "saving",
         "confirmed"}
Sessions == 1..MaxSessions
Steers == 1..MaxSteers
Versions == 0..MaxVersion

Tabs ==
  [st : States, pick : BOOLEAN, insert : BOOLEAN,
   kind : {"replace", "insert"}, sel : BOOLEAN, hover : BOOLEAN,
   edge : BOOLEAN, placeholder : BOOLEAN, overlay : BOOLEAN, notes : BOOLEAN,
   bar : Rows \cup {"none"}, dim : BOOLEAN, prompt : BOOLEAN,
   picker : BOOLEAN, tune : BOOLEAN,
   badge : {"hidden", "idle", "disabled", "editing"},
   rows : BOOLEAN, draft : BOOLEAN, text : Versions, orig : Versions,
   saved : Versions, session : 0..MaxSessions, arrived : BOOLEAN,
   watched : 0..MaxSessions, held : BOOLEAN, pending : 0..MaxSessions,
   voice : {"off", "go", "create", "steer"},
   heard : BOOLEAN,
   linked : BOOLEAN, applying : BOOLEAN, chat : BOOLEAN, steer : 0..MaxSteers]
Asks == [kind : {"accept", "discard", "source", "finish"}, no : Sessions]
        \cup [kind : {"save"}, no : Versions] \cup [kind : {"steer"}, no : Steers]
        \cup [kind : {"fade"}, no : {0}]
Fade == [kind |-> "fade", no |-> 0]
Excuses == {"late save", "late variants", "late answer", "late source",
            "fade", "toggle", "picker", "error", "apply", "lost",
            "stray edit"}

Init ==
  /\ habit \in Habits
  /\ tab = [st |-> "IDLE", pick |-> TRUE, insert |-> FALSE,
            kind |-> "replace", sel |-> FALSE, hover |-> FALSE,
            edge |-> FALSE, placeholder |-> FALSE, overlay |-> FALSE,
            notes |-> FALSE, bar |-> "none", dim |-> TRUE, prompt |-> FALSE,
            picker |-> FALSE, tune |-> FALSE, badge |-> "hidden",
            rows |-> FALSE, draft |-> FALSE, text |-> 0, orig |-> 0,
            saved |-> 0, session |-> 0, arrived |-> FALSE, watched |-> 0,
            held |-> FALSE, pending |-> 0, voice |-> "off", heard |-> FALSE,
            linked |-> FALSE, applying |-> FALSE, chat |-> FALSE, steer |-> 0]
  /\ page = 0 /\ source = {} /\ asks = {} /\ up = TRUE /\ excused = {}
  /\ given = [sessions |-> 0, inserts |-> {}, steers |-> 0, events |-> 0]
-----------------------------------------------------------------------------
(* Helpers of the script.                                                  *)

RestoreDrafts(t) ==
  IF t.rows /\ t.draft THEN [t EXCEPT !.text = t.orig] ELSE t
DisableEdit(t) == [t EXCEPT !.rows = FALSE, !.draft = FALSE]
EnableEdit(t) ==
  IF t.sel THEN [t EXCEPT !.rows = TRUE, !.draft = FALSE, !.orig = t.text]
           ELSE t
StopVoice(t) ==
  [t EXCEPT !.voice = "off", !.heard = FALSE, !.linked = FALSE]
FinalizeInsert(t) == [t EXCEPT !.placeholder = FALSE, !.kind = "replace"]
ClearInsertPicking(t) == FinalizeInsert([t EXCEPT !.edge = FALSE])
HideOverlay(t) == [t EXCEPT !.overlay = FALSE]
ClearNotes(t) == [t EXCEPT !.notes = FALSE]
ShowOverlay(t) == IF t.sel THEN [t EXCEPT !.overlay = TRUE] ELSE t
Badge(t, mode) == [t EXCEPT !.badge = mode]

(* The bar fades out; the timer that takes it off the page is not a part   *)
(* of the record: see Hides and FadeBar.                                   *)
HideBar(t) ==
  LET quiet == IF t.kind = "insert" THEN ClearInsertPicking(StopVoice(t))
                                    ELSE StopVoice(t)
      faded == [quiet EXCEPT !.dim = TRUE, !.picker = FALSE, !.tune = FALSE]
  IN DisableEdit(IF t.st = "EDITING" THEN RestoreDrafts(faded) ELSE faded)

Row(t, mode) ==
  IF mode = "configure" /\ t.kind = "insert" THEN "insert" ELSE mode
ShowBar(t, mode) ==
  [t EXCEPT !.bar = Row(t, mode), !.dim = FALSE, !.prompt = FALSE,
            !.linked = FALSE]
UpdateBar(t, mode) ==
  IF t.bar = "none" THEN t
  ELSE [t EXCEPT !.bar = Row(t, mode), !.prompt = FALSE, !.linked = FALSE]

(* CONFIGURING an element or a placeholder.                                *)
Configure(t, badge) ==
  Badge(ShowBar(ShowOverlay(ClearNotes(
    [t EXCEPT !.st = "CONFIGURING", !.sel = TRUE])), "configure"), badge)

CancelInsert(t) ==
  ClearInsertPicking(ClearNotes(HideOverlay(
    [HideBar(t) EXCEPT !.sel = FALSE,
                       !.st = IF t.insert THEN "PICKING" ELSE "IDLE"])))

CancelEditingKeeps(t) ==
  Badge(ShowOverlay(ShowBar(DisableEdit([t EXCEPT !.st = "CONFIGURING"]),
                            "configure")), "idle")
CancelEditing(t) ==
  Badge(ShowOverlay(ShowBar(DisableEdit(RestoreDrafts(
    [t EXCEPT !.st = "CONFIGURING"])), "configure")), "idle")

(* Out of CONFIGURING or EDITING by a click on the page or Escape.         *)
BackToPicking(t) ==
  Badge(ClearNotes(HideOverlay([HideBar(t) EXCEPT !.st = "PICKING"])),
        "hidden")

EndSessionHeld(t) ==
  Badge([HideBar(t) EXCEPT !.watched = 0, !.sel = FALSE, !.session = 0,
                           !.st = "PICKING"], "hidden")
(* The end of a session, discarded or accepted.                            *)
EndSession(t) ==
  Badge([HideBar(t) EXCEPT !.watched = 0, !.held = FALSE, !.sel = FALSE,
                           !.session = 0, !.st = "PICKING"], "hidden")
CleanUp(t) == FinalizeInsert(EndSession(t))
CleanUpAccepted(t) == [EndSession(t) EXCEPT !.pending = 0]

Cycling(t) ==
  DisableEdit(UpdateBar([t EXCEPT !.st = "CYCLING", !.arrived = TRUE,
                                  !.sel = TRUE], "cycling"))

(* The controls redrawn when an Apply starts or ends.                      *)
Refresh(t) ==
  LET shut == IF t.applying THEN [t EXCEPT !.picker = FALSE, !.tune = FALSE]
                            ELSE t
      kept == t.prompt /\ t.kind = "replace"
      drawn == IF shut.st = "CONFIGURING"
               THEN [UpdateBar(shut, "configure") EXCEPT !.prompt = kept]
               ELSE shut
  IN IF t.badge = "hidden" THEN drawn
     ELSE IF t.applying THEN Badge(drawn, "disabled")
     ELSE IF t.st = "CONFIGURING" /\ t.sel THEN Badge(drawn, "idle")
     ELSE drawn
-----------------------------------------------------------------------------
(* What a step changes: the tab, its requests, and the excuses it makes.   *)
Step(t, added, broken) ==
  /\ tab' = t
  /\ asks' = asks \cup added
  /\ excused' = excused \cup broken

Hides == {Fade}
Calls(kind, n) == {[kind |-> kind, no |-> n]}
Within == Cardinality(excused') <= MaxBroken /\ UNCHANGED habit
Calm == UNCHANGED <<page, source, up, given>> /\ Within

(* Clicks on the page and on the controls do nothing while an Apply runs.  *)
Free == ~tab.applying
(* A user clicks what can be seen.                                         *)
Offered(rows) == tab.bar \in rows /\ ~tab.dim /\ ~tab.applying
-----------------------------------------------------------------------------
(* The mouse.                                                              *)

(* Over an element: a target to pick, or an edge to insert at.             *)
Hover ==
  /\ Free /\ tab.st = "PICKING"
  /\ \/ tab.insert /\ Step([tab EXCEPT !.edge = ~@], {}, {})
     \/ ~tab.insert /\ tab.pick /\ ~tab.hover
        /\ Step([tab EXCEPT !.hover = TRUE], {}, {})
  /\ Calm

(* Outside the selected element and the script's own elements.             *)
ClickAway ==
  /\ Free /\ tab.sel /\ tab.st \in {"EDITING", "CONFIGURING"}
  /\ LET shut == [tab EXCEPT !.picker = FALSE]
     IN Step(IF tab.st = "CONFIGURING" /\ tab.kind = "insert"
             THEN CancelInsert(shut)
             ELSE [BackToPicking(shut) EXCEPT !.hover = FALSE], Hides, {})
  /\ Calm

ClickEdge ==
  /\ Free /\ tab.st = "PICKING" /\ tab.insert /\ tab.edge
  /\ LET placed == [tab EXCEPT !.edge = FALSE, !.placeholder = TRUE,
                               !.kind = "insert"]
     IN Step(Configure(placed, tab.badge), {}, {})
  /\ Calm

ClickElement ==
  /\ Free /\ tab.st = "PICKING" /\ ~tab.insert /\ tab.pick /\ tab.hover
  /\ Step(Configure(tab, "idle"), {}, {})
  /\ Calm

(* A pin or a stroke: the overlay takes pointer events whatever runs.      *)
Annotate ==
  /\ tab.overlay /\ ~tab.notes
  /\ Step([tab EXCEPT !.notes = TRUE], {}, {})
  /\ Calm
-----------------------------------------------------------------------------
(* The copy editor.                                                        *)

(* The badge has outlived the state it was drawn for.                      *)
Stray(st) == IF tab.st = st THEN {} ELSE {"stray edit"}

EditCopyUnbadged ==
  /\ "copy" \in habit /\ Free /\ tab.badge = "idle"
  /\ Step(EnableEdit(HideOverlay(HideBar([tab EXCEPT !.st = "EDITING"]))),
          Hides, Stray("CONFIGURING"))
  /\ Calm
EditCopy ==
  /\ "copy" \in habit /\ Free /\ tab.badge = "idle"
  /\ LET hidden == HideOverlay(HideBar([tab EXCEPT !.st = "EDITING"]))
     IN Step(EnableEdit(Badge(hidden, "editing")), Hides,
             Stray("CONFIGURING"))
  /\ Calm

Type ==
  /\ tab.rows /\ tab.text < MaxVersion
  /\ \E v \in Versions : v > tab.text /\ v > tab.saved
                        /\ Step([tab EXCEPT !.text = v, !.draft = TRUE], {}, {})
  /\ Calm

EscapeInText ==
  /\ tab.rows /\ tab.text # tab.orig
  /\ Step([tab EXCEPT !.text = tab.orig, !.draft = FALSE], {}, {})
  /\ Calm

Cancel ==
  /\ Free /\ tab.badge = "editing"
  /\ Step(CancelEditing(tab), {}, Stray("EDITING"))
  /\ Calm

Save ==
  /\ Free /\ tab.badge = "editing"
  /\ IF tab.draft /\ tab.text # tab.orig
     THEN Step(tab, Calls("save", tab.text), {})
     ELSE Step(CancelEditing(tab), {}, Stray("EDITING"))
  /\ Calm

(* The answer is taken whatever the tab does by then.                      *)
SaveAnswered ==
  \E a \in asks :
    /\ a.kind = "save"
    /\ LET stored == DisableEdit([tab EXCEPT !.saved = a.no,
                                            !.st = "CONFIGURING"])
       IN /\ tab' = Badge(ShowOverlay(ShowBar(stored, "configure")), "idle")
          /\ excused' = excused \cup
               (IF tab.st # "EDITING" \/ tab.text # a.no THEN {"late save"}
                                                         ELSE {})
    /\ asks' = asks \ {a}
    /\ Calm

SaveFails ==
  \E a \in asks : a.kind = "save" /\ asks' = asks \ {a}
                 /\ UNCHANGED <<tab, excused>> /\ Calm
-----------------------------------------------------------------------------
(* Starting a session.                                                     *)

Launch(t, isInsert) ==
  LET id == given.sessions + 1
      started == ClearNotes(HideOverlay(
                   [t EXCEPT !.session = id, !.arrived = FALSE, !.watched = id,
                             !.held = TRUE, !.st = "GENERATING"]))
  IN /\ given.sessions < MaxSessions
     /\ given' = [given EXCEPT !.sessions = id,
                    !.inserts = IF isInsert THEN @ \cup {id} ELSE @]
     /\ Step(ShowBar(started, "generating"), {}, {})
     /\ UNCHANGED <<page, source, up>> /\ Within

CanGo(t) == ~t.applying /\ t.sel /\ t.st = "CONFIGURING"
Go(t) ==
  /\ CanGo(t)
  /\ LET quiet == DisableEdit(StopVoice([t EXCEPT !.pending = 0]))
     IN Launch(IF t.badge = "hidden" THEN quiet ELSE Badge(quiet, "disabled"),
               FALSE)

(* No look at the Apply here: the button is locked, the voice is not.      *)
CanCreate(t) == /\ t.placeholder /\ t.st = "CONFIGURING" /\ t.kind = "insert"
                /\ t.prompt \/ t.notes
InsertCreate(t) == CanCreate(t) /\ Launch(StopVoice([t EXCEPT !.sel = TRUE]), TRUE)

ClickGo == Offered({"configure"}) /\ Go(tab)
ClickCreate == Offered({"insert"}) /\ InsertCreate(tab)

Prompt ==
  /\ Offered({"configure", "insert"}) /\ ~tab.prompt
  /\ Step([tab EXCEPT !.prompt = TRUE], {}, {})
  /\ Calm

TogglePicker ==
  /\ "tools" \in habit
  /\ Offered({"configure"})
  /\ Step([tab EXCEPT !.picker = ~@], {}, {})
  /\ Calm

ToggleTune ==
  /\ "tools" \in habit
  /\ Offered({"cycling"}) /\ (tab.tune \/ tab.st = "CYCLING")
  /\ Step([tab EXCEPT !.tune = ~@], {}, {})
  /\ Calm
-----------------------------------------------------------------------------
(* The toggles of the global bar.                                          *)

ToggledPick(t) ==
  IF ~t.pick
  THEN ClearInsertPicking(
         [t EXCEPT !.pick = TRUE, !.insert = FALSE,
                   !.st = IF @ = "IDLE" THEN "PICKING" ELSE @])
  ELSE LET off == [t EXCEPT !.pick = FALSE]
       IN IF t.kind = "insert" /\ t.st = "CONFIGURING" THEN CancelInsert(off)
          ELSE [HideBar(off) EXCEPT !.sel = FALSE, !.kind = "replace",
                  !.st = IF @ \in {"PICKING", "CONFIGURING"} THEN "IDLE"
                         ELSE @]

ToggledInsert(t) ==
  IF t.insert
  THEN ClearInsertPicking(
         [t EXCEPT !.insert = FALSE,
                   !.st = IF @ = "PICKING" /\ ~t.pick THEN "IDLE" ELSE @])
  ELSE LET on == [HideBar([t EXCEPT !.insert = TRUE, !.pick = FALSE])
                  EXCEPT !.sel = FALSE, !.kind = "replace"]
       IN IF t.st = "CONFIGURING" THEN CancelInsert(on)
          ELSE [on EXCEPT !.st = IF @ = "IDLE" THEN "PICKING" ELSE @]

Midway(t) == IF t.st \in {"IDLE", "PICKING"} THEN {} ELSE {"toggle"}

PickHides(t) == IF t.pick THEN Hides ELSE {}
InsertHides(t) == IF t.insert THEN {} ELSE Hides

TogglePick ==
  Free /\ Step(ToggledPick(tab), PickHides(tab), Midway(tab)) /\ Calm
ToggleInsert ==
  Free /\ Step(ToggledInsert(tab), InsertHides(tab), Midway(tab)) /\ Calm
-----------------------------------------------------------------------------
(* The keyboard.  The script listens in the capture phase, so that a key   *)
(* typed in the steer chat is handled by the page first.                   *)

Accepted(t) ==
  UpdateBar([t EXCEPT !.st = "SAVING", !.pending = t.session], "saving")
CanAccept(t) == ~t.applying /\ t.session # 0 /\ t.arrived

EnterCalls(t) ==
  IF t.st = "CYCLING" /\ CanAccept(t) THEN Calls("accept", t.session) ELSE {}
EnterKey(t) ==
  IF t.st = "PICKING" /\ t.hover THEN Configure(t, "idle")
  ELSE IF EnterCalls(t) # {} THEN Accepted(t) ELSE t

EscapeCalls(t) ==
  IF t.picker THEN {}
  ELSE CASE t.st = "CYCLING" /\ t.session # 0 -> Calls("discard", t.session)
         [] t.st = "CONFIGURING" -> Hides
         [] t.st = "PICKING" /\ ~t.insert -> PickHides(t)
         [] OTHER -> {}
EscapeKey(t) ==
  CASE t.picker -> [t EXCEPT !.picker = FALSE]
    [] ~t.picker /\ t.st = "EDITING" -> CancelEditing(t)
    [] ~t.picker /\ t.st = "CONFIGURING" ->
         IF t.kind = "insert" THEN CancelInsert(t) ELSE BackToPicking(t)
    [] ~t.picker /\ t.st = "PICKING" ->
         IF t.insert THEN ToggledInsert(t)
         ELSE IF t.pick THEN ToggledPick(t) ELSE [t EXCEPT !.st = "IDLE"]
    [] OTHER -> t

(* An arrow moves the selection: the row is rebuilt, its prompt with it.   *)
Arrow ==
  /\ Free /\ tab.st = "CONFIGURING" /\ tab.sel
  /\ Step(DisableEdit(Configure(tab, "idle")), {}, {})
  /\ Calm

Blocked == tab.applying /\ tab.st \in {"PICKING", "CONFIGURING", "CYCLING"}
SubmittedNext(t, id) == [StopVoice(t) EXCEPT !.steer = id + 1, !.chat = FALSE]
Submitted(t, id) == [StopVoice(t) EXCEPT !.steer = id, !.chat = FALSE]

Enter ==
  /\ Free
  /\ EnterKey(tab) # tab
  /\ Step(EnterKey(tab), EnterCalls(tab), {})
  /\ Calm

EnterInChat ==
  /\ ~Blocked /\ tab.chat /\ tab.steer = 0 /\ given.steers < MaxSteers
  /\ LET id == given.steers + 1
     IN /\ Step(Submitted(IF Free THEN EnterKey(tab) ELSE tab, id),
                Calls("steer", id) \cup (IF Free THEN EnterCalls(tab) ELSE {}),
                {})
        /\ given' = [given EXCEPT !.steers = id]
  /\ UNCHANGED <<page, source, up>> /\ Within

Escape ==
  /\ Free
  /\ \E inChat \in {FALSE, tab.chat} :
       Step([EscapeKey(tab) EXCEPT !.chat = @ /\ ~inChat],
            EscapeCalls(tab), {})
  /\ Calm

(* The input of the configure row has a handler of its own, which runs      *)
(* after EscapeKey and takes neither overlay nor notes off the page: they   *)
(* stay where EscapeKey has only closed the action picker.  The input of    *)
(* the insert row repeats CancelInsert.                                     *)
LeaveInput(t) == Badge([HideBar(DisableEdit(t)) EXCEPT !.st = "PICKING"],
                       "hidden")
EscapeInInput ==
  /\ Offered({"configure"}) /\ tab.st = "CONFIGURING"
  /\ Step(LeaveInput(EscapeKey(tab)), Hides,
          IF tab.picker THEN {"picker"} ELSE {})
  /\ Calm

TypeInChat ==
  /\ "steer" \in habit /\ tab.steer = 0 /\ ~tab.chat
  /\ Step([tab EXCEPT !.chat = TRUE], {}, {})
  /\ Calm
-----------------------------------------------------------------------------
(* Voice input: its text is submitted when the recognition ends.           *)

StartVoice ==
  /\ "voice" \in habit /\ Free /\ tab.voice = "off"
  /\ \/ /\ Offered({"configure", "insert"}) /\ tab.st = "CONFIGURING"
        /\ Step([tab EXCEPT !.linked = TRUE, !.heard = tab.prompt, !.voice =
                   IF tab.kind = "insert" THEN "create" ELSE "go"], {}, {})
     \/ /\ tab.steer = 0 /\ tab.st # "CONFIGURING"
        /\ Step([tab EXCEPT !.voice = "steer", !.heard = tab.chat], {}, {})
  /\ Calm

(* The words go to the input the voice was started on, which may have left *)
(* the page with its row.                                                  *)
VoiceHears ==
  /\ tab.voice # "off" /\ ~tab.heard
  /\ Step([tab EXCEPT !.heard = TRUE, !.chat = @ \/ tab.voice = "steer",
                      !.prompt = @ \/ (tab.voice # "steer" /\ tab.linked)],
          {}, {})
  /\ Calm

VoiceEnds ==
  LET t == StopVoice(tab)
      id == given.steers + 1
  IN \/ tab.voice = "go" /\ tab.heard /\ Go(t)
     \/ tab.voice = "create" /\ tab.heard /\ InsertCreate(t)
     \/ /\ tab.voice = "steer" /\ tab.chat /\ tab.steer = 0
        /\ given.steers < MaxSteers
        /\ Step(Submitted(t, id), Calls("steer", id), {})
        /\ given' = [given EXCEPT !.steers = id]
        /\ UNCHANGED <<page, source, up>> /\ Within
     \/ /\ CASE tab.voice = "go" -> ~(tab.heard /\ CanGo(t))
            [] tab.voice = "create" -> ~(tab.heard /\ CanCreate(t))
            [] tab.voice = "steer" -> ~tab.chat \/ tab.steer # 0
            [] OTHER -> FALSE
        /\ Step(t, {}, {})
        /\ Calm

(* The request of a steer failed: its lock is taken off, or a later one's. *)
SteerFails ==
  \E a \in asks :
    /\ a.kind = "steer"
    /\ tab' = [tab EXCEPT !.steer = 0] /\ asks' = asks \ {a}
    /\ excused' = IF tab.steer \in {0, a.no} THEN excused
                  ELSE excused \cup {"late answer"}
    /\ Calm

SteerAnswered ==
  \E a \in asks : /\ a.kind = "steer" /\ up /\ asks' = asks \ {a}
                  /\ UNCHANGED <<tab, excused>> /\ Calm

(* steer_done of the agent, its error, or the time limit.                  *)
SteerEnds ==
  /\ tab.steer # 0
  /\ Step([tab EXCEPT !.steer = 0], {}, {})
  /\ Calm
-----------------------------------------------------------------------------
(* Deciding on the variants.                                               *)

ClickAccept ==
  /\ Offered({"cycling"}) /\ CanAccept(tab)
  /\ Step(Accepted(tab), Calls("accept", tab.session), {})
  /\ Calm

ClickDiscard ==
  /\ Offered({"cycling"}) /\ tab.session # 0
  /\ Step(tab, Calls("discard", tab.session), {})
  /\ Calm

Late(kind, due) == IF due THEN {} ELSE {kind}
Gone(id) == IF page = id THEN 0 ELSE page

AcceptFails ==
  \E a \in asks :
    /\ a.kind = "accept" /\ asks' = asks \ {a}
    /\ tab' = UpdateBar([tab EXCEPT !.pending = 0, !.st = "CYCLING"], "cycling")
    /\ excused' = excused \cup
         Late("late answer", tab.st = "SAVING" /\ tab.session = a.no)
    /\ Calm

DiscardFails ==
  \E a \in asks : a.kind = "discard" /\ asks' = asks \ {a}
                 /\ UNCHANGED <<tab, excused>> /\ Calm

DiscardAnswered ==
  \E a \in asks :
    /\ a.kind = "discard" /\ up
    /\ asks' = (asks \ {a}) \cup Hides
    /\ tab' = CleanUp(tab)
    /\ page' = Gone(tab.session) /\ source' = source \ {a.no}
    /\ excused' = excused \cup
         Late("late answer", tab.st = "CYCLING" /\ tab.session = a.no)
    /\ UNCHANGED <<up, given>> /\ Within

(* complete, or accept: only for the accept this tab waits for.            *)
Complete ==
  \E a \in asks :
    /\ a.kind = "accept" /\ up
    /\ LET mine == tab.pending = a.no
           due == mine /\ tab.session \in {0, a.no}
       IN /\ tab' = IF due THEN UpdateBar([tab EXCEPT !.st = "CONFIRMED"],
                                          "confirmed")
                    ELSE IF mine THEN [tab EXCEPT !.pending = 0] ELSE tab
          /\ asks' = (asks \ {a}) \cup (IF due THEN Calls("finish", a.no)
                                               ELSE {})
          /\ excused' = IF due THEN excused \cup
                            Late("late answer", tab.st = "SAVING")
                        ELSE excused
    /\ Calm

(* A second and a bit after complete the page is cleaned up.               *)
Finish ==
  \E a \in asks :
    /\ a.kind = "finish"
    /\ asks' = (asks \ {a}) \cup Hides
    /\ tab' = CleanUpAccepted(tab)
    /\ page' = Gone(a.no) /\ source' = source \ {a.no}
    /\ excused' = excused \cup
         Late("late answer", tab.st = "CONFIRMED" /\ tab.session = a.no)
    /\ UNCHANGED <<up, given>> /\ Within
-----------------------------------------------------------------------------
(* What comes from the agent and the server.                               *)

AgentWrites ==
  \E id \in 1..given.sessions :
    /\ id \notin source /\ tab.session = id
    /\ source' = source \cup {id}
    /\ UNCHANGED <<tab, page, asks, up, given, excused>> /\ Within

(* Hot reload puts the variants on the page; the observer of their session *)
(* counts them, whatever the tab does by then.                             *)
VariantsMount ==
  \E id \in source :
    /\ page # id /\ page' = id
    /\ IF tab.watched = id /\ ~tab.arrived
       THEN LET t == Cycling(tab)
            IN Step(IF id \in given.inserts THEN FinalizeInsert(t) ELSE t, {},
                    Late("late variants", tab.st = "GENERATING"))
       ELSE UNCHANGED <<tab, asks, excused>>
    /\ UNCHANGED <<source, up, given>> /\ Within

(* done: the variants that are not on the page are fetched.                *)
Done ==
  \E id \in source :
    /\ up /\ tab.st = "GENERATING" /\ id = tab.session /\ ~tab.arrived
    /\ Step(tab, Calls("source", id), {})
    /\ Calm

SourceAnswered ==
  \E a \in asks :
    /\ a.kind = "source" /\ up /\ asks' = asks \ {a}
    /\ IF a.no \in source /\ (a.no \notin given.inserts \/ page = a.no)
       THEN /\ tab' = Cycling(tab) /\ page' = a.no
            /\ excused' = excused \cup Late("late source",
                 tab.session = a.no /\ tab.st \in {"GENERATING", "CYCLING"})
       ELSE UNCHANGED <<tab, page, excused>>
    /\ UNCHANGED <<source, up, given>> /\ Within

Event == given.events < MaxEvents /\ up
         /\ given' = [given EXCEPT !.events = @ + 1]

(* An error of the accept in progress, or of anything else but a steer.    *)
ErrorEvent ==
  /\ Event
  /\ \/ /\ tab.pending # 0
        /\ Step(UpdateBar([tab EXCEPT !.pending = 0, !.st = "CYCLING"],
                          "cycling"), {}, Late("late answer", tab.st = "SAVING"))
     \/ Step(Badge([HideBar(tab) EXCEPT !.st = "PICKING"], "hidden"), Hides,
             {"error"})
  /\ UNCHANGED <<page, source, up>> /\ Within

Connected ==
  /\ tab.st = "IDLE" /\ (tab.pick \/ tab.insert) /\ up
  /\ Step([tab EXCEPT !.st = "PICKING"], {}, {})
  /\ Calm

ServerLost ==
  /\ Event
  /\ Step(HideOverlay([HideBar(tab) EXCEPT !.watched = 0, !.held = FALSE,
             !.sel = FALSE, !.st = IF tab.session = 0 THEN "IDLE" ELSE @]),
          Hides, {"lost"})
  /\ up' = FALSE
  /\ UNCHANGED <<page, source>> /\ Within

(* The Apply of this tab, or of another tab of the page.                   *)
ApplyStarts ==
  /\ Event /\ ~tab.applying
  /\ Step(Refresh([tab EXCEPT !.applying = TRUE]), {},
          IF tab.st = "EDITING" THEN {"apply"} ELSE {})
  /\ UNCHANGED <<page, source, up>> /\ Within

ApplyEnds ==
  /\ tab.applying
  /\ Step(Refresh([tab EXCEPT !.applying = FALSE]), {}, {})
  /\ Calm

FadeBar ==
  /\ Fade \in asks /\ asks' = asks \ {Fade}
  /\ tab' = [tab EXCEPT !.bar = "none"]
  /\ excused' = IF tab.dim THEN excused ELSE excused \cup {"fade"}
  /\ Calm
-----------------------------------------------------------------------------
Mouse == Hover \/ ClickAway \/ ClickEdge \/ ClickElement \/ Annotate
Editor == EditCopy \/ Type \/ EscapeInText \/ Cancel \/ Save
          \/ SaveAnswered \/ SaveFails
Controls == ClickGo \/ ClickCreate \/ Prompt \/ TogglePicker \/ ToggleTune
            \/ TogglePick \/ ToggleInsert \/ ClickAccept \/ ClickDiscard
Keys == Arrow \/ Enter \/ EnterInChat \/ Escape \/ EscapeInInput \/ TypeInChat
Voice == StartVoice \/ VoiceHears \/ VoiceEnds
Answers == \/ SteerFails \/ SteerAnswered \/ SteerEnds \/ AcceptFails
           \/ DiscardFails \/ DiscardAnswered \/ Complete \/ Finish
           \/ SourceAnswered \/ FadeBar
Outside == AgentWrites \/ VariantsMount \/ Done \/ ErrorEvent \/ Connected
           \/ ServerLost \/ ApplyStarts \/ ApplyEnds
Next == Mouse \/ Editor \/ Controls \/ Keys \/ Voice \/ Answers \/ Outside

Spec == Init /\ [][Next]_vars
-----------------------------------------------------------------------------
(* Types.                                                                  *)
TypeOK ==
  /\ habit \in Habits /\ tab \in Tabs /\ page \in 0..MaxSessions /\ source \subseteq Sessions
  /\ asks \subseteq Asks /\ up \in BOOLEAN /\ excused \subseteq Excuses
  /\ given \in [sessions : 0..MaxSessions, inserts : SUBSET Sessions,
                steers : 0..MaxSteers, events : 0..MaxEvents]

(* The tab has moved on before an answer or the variants came to it.       *)
Overtaken == {"late save", "late answer", "late variants", "late source"}
Missed == Overtaken \ {"late save"}

(* Text that is not saved is on the page only while its editor is open,    *)
(* a Save under way or not: every way out of the editor puts the text      *)
(* back.  What comes when the tab has moved on is what goes wrong.         *)
PageShowsWhatIsSaved ==
  tab.text # tab.saved => tab.st = "EDITING" \/ Overtaken \cap excused # {}

(* The user who edits can save: the badge offers it, unless an Apply has   *)
(* started meanwhile and replaced the badge.                               *)
EditingCanBeSaved ==
  tab.st = "EDITING" => tab.badge = "editing" \/ "apply" \in excused

(* The insert placeholder is on the page only for the insert being         *)
(* configured or generated, unless what came late brought it back.         *)
PlaceholderHasAPurpose ==
  tab.placeholder =>
    \/ tab.kind = "insert" /\ tab.st \in {"CONFIGURING", "GENERATING"}
    \/ Missed \cap excused # {}

(* The observer and the scroll lock belong to the session the tab shows,   *)
(* unless an error, a late Save or a stray edit took the tab out of it.    *)
HoldsOnlyInSession ==
  (tab.watched # 0 \/ tab.held) =>
    \/ /\ tab.watched = tab.session
       /\ tab.st \in {"GENERATING", "CYCLING", "SAVING", "CONFIRMED"}
    \/ {"error", "late save", "stray edit"} \cap excused # {}

(* Whoever has to decide sees the bar to do it with, unless its fade-out   *)
(* came late, a toggle or a lost server took it away, or what came late    *)
(* brought back a state whose bar was gone.                                *)
BarWhileDeciding ==
  tab.st \in {"CONFIGURING", "GENERATING", "CYCLING", "SAVING", "CONFIRMED"} =>
    \/ tab.bar # "none" /\ ~tab.dim
    \/ ({"fade", "toggle", "lost"} \cup Missed) \cap excused # {}

(* The annotation overlay lies over the page only while an element is      *)
(* configured: left behind, as a toggle, Escape over an open picker, an     *)
(* error or what comes late may leave it, it takes the clicks meant for    *)
(* the page.                                                               *)
OverlayOnlyWhileConfiguring ==
  tab.overlay =>
    \/ tab.st = "CONFIGURING" /\ tab.sel
    \/ ({"toggle", "picker", "error"} \cup Missed) \cap excused # {}

(* No way out of a mode leaves behind what the mode put on the page.       *)
NothingIsLeftBehind ==
  PlaceholderHasAPurpose /\ HoldsOnlyInSession /\ OverlayOnlyWhileConfiguring

(* While an Apply runs no session starts, but by voice.                    *)
ApplyStartsNoSession ==
  tab.applying /\ tab.session # tab'.session =>
    tab'.session = 0 \/ tab.voice = "create"

(* Both: whoever edits or decides has the controls to do it with.          *)
ControlsAreThere == EditingCanBeSaved /\ BarWhileDeciding

(* Both: a session ends with nothing of it on the page, and none begins    *)
(* while an Apply writes to the files it would wrap.                       *)
SessionsComeAndGoClean ==
  NothingIsLeftBehind /\ [][NothingIsLeftBehind' /\ ApplyStartsNoSession]_vars
=============================================================================
