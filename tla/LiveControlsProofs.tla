------------------------- MODULE LiveControlsProofs -------------------------
(* The safety of the controls of a live tab, for every set of users and    *)
(* every bound, the number of kinds of breaks included: what the page      *)
(* shows and what is left on it whatever comes late, fails or is lost.     *)
EXTENDS LiveControls, TLAPS

Badges == {"hidden", "idle", "disabled", "editing"}
Session == {"GENERATING", "CYCLING", "SAVING", "CONFIRMED"}

(* The invariant, of a tab t with the excuses X made so far.  Its parts    *)
(* are stronger than the properties where a step needs what they leave     *)
(* out.  ins are the sessions of inserts, pg the session on the page.      *)

\* None of the excuses S has been made.
Without(S, X) == S \cap X = {}

\* What the bar offers fits the state, and a voice the row it started on.
Shaped(t) ==
  /\ t.st = "EDITING" => t.dim
  /\ t.st = "CONFIGURING" => t.bar \in {"configure", "insert", "none"}
  /\ t.st = "GENERATING" => t.bar \in {"generating", "none"} /\ ~t.arrived
  /\ t.kind = "insert" => t.bar # "configure"
  /\ t.voice = "go" => t.kind = "replace" /\ t.st \notin {"IDLE", "PICKING"}

\* Text that is not saved is the draft of an open editor, which can put back
\* what is saved.
Copied(t, X) ==
  Without(Overtaken, X) =>
    /\ t.rows => t.st = "EDITING" /\ t.orig = t.saved
    /\ t.text # t.saved => t.rows /\ t.draft

\* The user who edits has the badge that saves.
Badged(t, X) == t.st = "EDITING" => t.badge = "editing" \/ "apply" \in X

\* The placeholder's session is generated for it and has no variants yet.
Placed(t, ins, pg, X) ==
  Without(Missed, X) /\ t.placeholder =>
    /\ t.kind = "insert" /\ t.st \in {"CONFIGURING", "GENERATING"}
    /\ t.st = "GENERATING" => /\ t.session \in ins /\ pg # t.session
                             /\ t.watched = t.session

\* The observer and the scroll lock belong to the session shown.
Held(t, X) ==
  Without({"error", "late save", "stray edit"}, X) =>
    (t.watched # 0 \/ t.held => t.watched = t.session /\ t.st \in Session)

\* The bar is there for whoever has to decide.
Barred(t, X) ==
  Without({"fade", "toggle", "lost"} \cup Missed, X) =>
    (t.st \in Session \cup {"CONFIGURING"} => t.bar # "none" /\ ~t.dim)

\* The overlay lies over the element that is configured.
Overlaid(t, X) ==
  Without({"toggle", "picker", "error"} \cup Missed, X) =>
    (t.overlay => t.st = "CONFIGURING" /\ t.sel)

Sound(t, ins, pg, X) ==
  /\ Shaped(t) /\ Copied(t, X) /\ Badged(t, X) /\ Placed(t, ins, pg, X)
  /\ Held(t, X) /\ Barred(t, X) /\ Overlaid(t, X)

\* What is in the source and on the page was generated.
Generated == page \in 0..given.sessions /\ source \subseteq 1..given.sessions

IInv == Sound(tab, given.inserts, page, excused) /\ Generated
-----------------------------------------------------------------------------
(* The records that the helpers of the script make of a tab.               *)

\* One helper of the script after another makes a tab of a tab.
LEMMA HelperTypes ==
  ASSUME NEW t \in Tabs
  PROVE  /\ RestoreDrafts(t) \in Tabs /\ DisableEdit(t) \in Tabs
         /\ EnableEdit(t) \in Tabs /\ StopVoice(t) \in Tabs
         /\ FinalizeInsert(t) \in Tabs /\ ClearInsertPicking(t) \in Tabs
         /\ HideOverlay(t) \in Tabs /\ ClearNotes(t) \in Tabs
         /\ ShowOverlay(t) \in Tabs
         /\ \A m \in Badges : Badge(t, m) \in Tabs
         /\ \A m \in Rows : ShowBar(t, m) \in Tabs /\ UpdateBar(t, m) \in Tabs
         /\ \A s \in States : [t EXCEPT !.st = s] \in Tabs
<1>1. /\ DisableEdit(t) \in Tabs /\ StopVoice(t) \in Tabs
      BY DEF DisableEdit, StopVoice, Tabs
<1>2. RestoreDrafts(t) \in Tabs /\ EnableEdit(t) \in Tabs
      <2>1. [t EXCEPT !.text = t.orig] \in Tabs
            BY DEF Tabs
      <2>2. [t EXCEPT !.rows = TRUE, !.draft = FALSE, !.orig = t.text] \in Tabs
            BY DEF Tabs
      <2>3. QED BY <2>1, <2>2 DEF RestoreDrafts, EnableEdit
<1>3. FinalizeInsert(t) \in Tabs /\ HideOverlay(t) \in Tabs
      BY DEF FinalizeInsert, HideOverlay, Tabs
<1>4. ClearInsertPicking(t) \in Tabs
      <2>1. [t EXCEPT !.edge = FALSE, !.placeholder = FALSE,
                      !.kind = "replace"] \in Tabs
            BY DEF Tabs
      <2>2. QED BY <2>1 DEF ClearInsertPicking, FinalizeInsert
<1>5. ClearNotes(t) \in Tabs /\ ShowOverlay(t) \in Tabs
      <2>1. [t EXCEPT !.notes = FALSE] \in Tabs /\ [t EXCEPT !.overlay = TRUE] \in Tabs
            BY DEF Tabs
      <2>2. QED BY <2>1 DEF ClearNotes, ShowOverlay
<1>6. \A m \in Badges : Badge(t, m) \in Tabs
      BY DEF Badge, Badges, Tabs
<1>7. \A m \in Rows : Row(t, m) \in Rows
      BY DEF Row, Rows
<1>8. \A m \in Rows : ShowBar(t, m) \in Tabs
      <2> SUFFICES ASSUME NEW m \in Rows PROVE ShowBar(t, m) \in Tabs
          OBVIOUS
      <2> DEFINE r == Row(t, m)
      <2>1. r \in Rows \cup {"none"}
            BY <1>7
      <2> HIDE DEF r
      <2>2. [t EXCEPT !.bar = r, !.dim = FALSE, !.prompt = FALSE,
                      !.linked = FALSE] \in Tabs
            BY <2>1 DEF Tabs
      <2>3. QED BY <2>2 DEF ShowBar, r
<1>9. \A m \in Rows : UpdateBar(t, m) \in Tabs
      <2> SUFFICES ASSUME NEW m \in Rows PROVE UpdateBar(t, m) \in Tabs
          OBVIOUS
      <2> DEFINE r == Row(t, m)
      <2>1. r \in Rows \cup {"none"}
            BY <1>7
      <2> HIDE DEF r
      <2>2. [t EXCEPT !.bar = r, !.prompt = FALSE, !.linked = FALSE] \in Tabs
            BY <2>1 DEF Tabs
      <2>3. QED BY <2>2 DEF UpdateBar, r
<1>10. \A s \in States : [t EXCEPT !.st = s] \in Tabs
      BY DEF Tabs
<1>11. QED BY <1>1, <1>2, <1>3, <1>4, <1>5, <1>6, <1>8, <1>9, <1>10

\* The bar fades out, and what goes with it.
LEMMA HideBarType == \A t \in Tabs : HideBar(t) \in Tabs
<1> SUFFICES ASSUME NEW t \in Tabs PROVE HideBar(t) \in Tabs
    OBVIOUS
<1> DEFINE quiet == IF t.kind = "insert" THEN ClearInsertPicking(StopVoice(t))
                                         ELSE StopVoice(t)
           faded == [quiet EXCEPT !.dim = TRUE, !.picker = FALSE, !.tune = FALSE]
           left == IF t.st = "EDITING" THEN RestoreDrafts(faded) ELSE faded
<1>1. quiet \in Tabs
      BY HelperTypes
<1> HIDE DEF quiet
<1>2. faded \in Tabs
      BY <1>1 DEF Tabs
<1> HIDE DEF faded
<1>3. left \in Tabs
      BY <1>2, HelperTypes
<1> HIDE DEF left
<1>4. DisableEdit(left) \in Tabs
      BY <1>3, HelperTypes
<1>5. QED BY <1>4 DEF HideBar, left, faded, quiet

\* What the handlers make of a tab with these helpers.
LEMMA HandlerTypes ==
  ASSUME NEW t \in Tabs
  PROVE  /\ \A m \in Badges : Configure(t, m) \in Tabs
         /\ CancelInsert(t) \in Tabs /\ CancelEditing(t) \in Tabs
         /\ BackToPicking(t) \in Tabs /\ EndSession(t) \in Tabs
         /\ CleanUp(t) \in Tabs /\ CleanUpAccepted(t) \in Tabs
         /\ Cycling(t) \in Tabs /\ Refresh(t) \in Tabs
         /\ ToggledPick(t) \in Tabs /\ ToggledInsert(t) \in Tabs
         /\ Accepted(t) \in Tabs
<1>0. /\ "PICKING" \in States /\ "CONFIGURING" \in States /\ "IDLE" \in States
      /\ "CYCLING" \in States /\ "SAVING" \in States
      /\ "configure" \in Rows /\ "cycling" \in Rows /\ "saving" \in Rows
      /\ "hidden" \in Badges /\ "idle" \in Badges /\ "disabled" \in Badges
      /\ 0 \in 0..MaxSessions
      BY BoundAssumption DEF States, Rows, Badges
<1>1. ASSUME NEW m \in Badges PROVE Configure(t, m) \in Tabs
      <2>1. [t EXCEPT !.st = "CONFIGURING", !.sel = TRUE] \in Tabs
            BY <1>0 DEF Tabs
      <2>2. QED BY <1>0, <2>1, HelperTypes DEF Configure
<1>2. \A u \in Tabs : CancelInsert(u) \in Tabs
      <2> SUFFICES ASSUME NEW u \in Tabs PROVE CancelInsert(u) \in Tabs
          OBVIOUS
      <2> DEFINE h == HideBar(u)
                 s == IF u.insert THEN "PICKING" ELSE "IDLE"
                 v == [h EXCEPT !.sel = FALSE, !.st = s]
      <2>1. h \in Tabs
            BY HideBarType
      <2>2. s \in States
            BY <1>0
      <2> HIDE DEF h, s
      <2>3. v \in Tabs
            BY <2>1, <2>2 DEF Tabs
      <2> HIDE DEF v
      <2>4. ClearInsertPicking(ClearNotes(HideOverlay(v))) \in Tabs
            BY <2>3, HelperTypes
      <2>5. QED BY <2>4 DEF CancelInsert, v, s, h
<1>3. CancelEditing(t) \in Tabs
      BY <1>0, HelperTypes DEF CancelEditing
<1>4. BackToPicking(t) \in Tabs
      BY <1>0, HideBarType, HelperTypes DEF BackToPicking
<1>5. EndSession(t) \in Tabs
      <2> DEFINE h == HideBar(t)
                 v == [h EXCEPT !.watched = 0, !.held = FALSE, !.sel = FALSE,
                                !.session = 0, !.st = "PICKING"]
      <2>1. h \in Tabs
            BY HideBarType
      <2> HIDE DEF h
      <2>2. v \in Tabs
            BY <1>0, <2>1 DEF Tabs
      <2> HIDE DEF v
      <2>3. Badge(v, "hidden") \in Tabs
            BY <1>0, <2>2, HelperTypes
      <2>4. QED BY <2>3 DEF EndSession, v, h
<1>6. CleanUp(t) \in Tabs
      BY <1>5, HelperTypes DEF CleanUp
<1>7. CleanUpAccepted(t) \in Tabs
      BY <1>0, <1>5 DEF CleanUpAccepted, Tabs
<1>8. Cycling(t) \in Tabs
      <2>1. [t EXCEPT !.st = "CYCLING", !.arrived = TRUE, !.sel = TRUE] \in Tabs
            BY <1>0 DEF Tabs
      <2>2. QED BY <1>0, <2>1, HelperTypes DEF Cycling
<1>9. Refresh(t) \in Tabs
      <2> DEFINE shut == IF t.applying
                         THEN [t EXCEPT !.picker = FALSE, !.tune = FALSE]
                         ELSE t
                 kept == t.prompt /\ t.kind = "replace"
                 bar == UpdateBar(shut, "configure")
                 drawn == IF shut.st = "CONFIGURING"
                          THEN [bar EXCEPT !.prompt = kept] ELSE shut
      <2>1. shut \in Tabs
            <3>1. [t EXCEPT !.picker = FALSE, !.tune = FALSE] \in Tabs
                  BY DEF Tabs
            <3>2. QED BY <3>1
      <2> HIDE DEF shut
      <2>2. bar \in Tabs
            BY <1>0, <2>1, HelperTypes
      <2> HIDE DEF bar
      <2>3. drawn \in Tabs
            <3>1. [bar EXCEPT !.prompt = kept] \in Tabs
                  <4>1. kept \in BOOLEAN
                        OBVIOUS
                  <4> HIDE DEF kept
                  <4>2. QED BY <2>2, <4>1 DEF Tabs
            <3>2. QED BY <2>1, <3>1
      <2> HIDE DEF drawn
      <2>4. Badge(drawn, "disabled") \in Tabs /\ Badge(drawn, "idle") \in Tabs
            BY <1>0, <2>3, HelperTypes
      <2>5. QED BY <2>3, <2>4 DEF Refresh, drawn, bar, shut
<1>10. ToggledPick(t) \in Tabs
      <2> DEFINE on == [t EXCEPT !.pick = TRUE, !.insert = FALSE,
                          !.st = IF @ = "IDLE" THEN "PICKING" ELSE @]
                 off == [t EXCEPT !.pick = FALSE]
                 h == HideBar(off)
                 v == [h EXCEPT !.sel = FALSE, !.kind = "replace",
                         !.st = IF @ \in {"PICKING", "CONFIGURING"} THEN "IDLE"
                                ELSE @]
      <2>1. on \in Tabs /\ off \in Tabs
            <3>1. /\ [t EXCEPT !.pick = TRUE, !.insert = FALSE,
                               !.st = "PICKING"] \in Tabs
                  /\ [t EXCEPT !.pick = TRUE, !.insert = FALSE] \in Tabs
                  /\ off \in Tabs
                  BY <1>0 DEF Tabs
            <3>2. on = IF t.st = "IDLE"
                       THEN [t EXCEPT !.pick = TRUE, !.insert = FALSE,
                                      !.st = "PICKING"]
                       ELSE [t EXCEPT !.pick = TRUE, !.insert = FALSE]
                  BY DEF Tabs
            <3> HIDE DEF on, off
            <3>3. QED BY <3>1, <3>2
      <2> HIDE DEF on, off
      <2>2. h \in Tabs
            BY <2>1, HideBarType
      <2> HIDE DEF h
      <2>3. v \in Tabs
            <3>1. [h EXCEPT !.sel = FALSE, !.kind = "replace",
                            !.st = "IDLE"] \in Tabs
                  BY <1>0, <2>2 DEF Tabs
            <3>2. [h EXCEPT !.sel = FALSE, !.kind = "replace"] \in Tabs
                  BY <2>2 DEF Tabs
            <3>3. v = IF h.st \in {"PICKING", "CONFIGURING"}
                      THEN [h EXCEPT !.sel = FALSE, !.kind = "replace",
                                     !.st = "IDLE"]
                      ELSE [h EXCEPT !.sel = FALSE, !.kind = "replace"]
                  <4>1. CASE h.st \in {"PICKING", "CONFIGURING"}
                        BY <2>2, <4>1 DEF Tabs
                  <4>2. CASE h.st \notin {"PICKING", "CONFIGURING"}
                        BY <2>2, <4>2 DEF Tabs
                  <4>3. QED BY <4>1, <4>2
            <3> HIDE DEF v
            <3>4. QED BY <3>1, <3>2, <3>3
      <2> HIDE DEF v
      <2>4. ClearInsertPicking(on) \in Tabs /\ CancelInsert(off) \in Tabs
            BY <2>1, <1>2, HelperTypes
      <2>5. QED BY <2>3, <2>4 DEF ToggledPick, on, off, h, v
<1>11. ToggledInsert(t) \in Tabs
      <2> DEFINE off == [t EXCEPT !.insert = FALSE,
                           !.st = IF @ = "PICKING" /\ ~t.pick THEN "IDLE" ELSE @]
                 in == [t EXCEPT !.insert = TRUE, !.pick = FALSE]
                 h == HideBar(in)
                 on == [h EXCEPT !.sel = FALSE, !.kind = "replace"]
                 v == [on EXCEPT !.st = IF @ = "IDLE" THEN "PICKING" ELSE @]
      <2>1. off \in Tabs /\ in \in Tabs
            <3>1. /\ [t EXCEPT !.insert = FALSE, !.st = "IDLE"] \in Tabs
                  /\ [t EXCEPT !.insert = FALSE] \in Tabs /\ in \in Tabs
                  BY <1>0 DEF Tabs
            <3>2. off = IF t.st = "PICKING" /\ ~t.pick
                        THEN [t EXCEPT !.insert = FALSE, !.st = "IDLE"]
                        ELSE [t EXCEPT !.insert = FALSE]
                  BY DEF Tabs
            <3> HIDE DEF off, in
            <3>3. QED BY <3>1, <3>2
      <2> HIDE DEF off, in
      <2>2. h \in Tabs
            BY <2>1, HideBarType
      <2> HIDE DEF h
      <2>3. on \in Tabs
            BY <1>0, <2>2 DEF Tabs
      <2> HIDE DEF on
      <2>4. v \in Tabs
            <3>1. [on EXCEPT !.st = "PICKING"] \in Tabs
                  BY <1>0, <2>3, HelperTypes
            <3>2. v = IF on.st = "IDLE" THEN [on EXCEPT !.st = "PICKING"] ELSE on
                  BY <2>3 DEF Tabs
            <3> HIDE DEF v
            <3>3. QED BY <2>3, <3>1, <3>2
      <2> HIDE DEF v
      <2>5. ClearInsertPicking(off) \in Tabs /\ CancelInsert(on) \in Tabs
            BY <2>1, <2>3, <1>2, HelperTypes
      <2>6. QED BY <2>4, <2>5 DEF ToggledInsert, off, in, h, on, v
<1>12. Accepted(t) \in Tabs
      <2>1. t.session \in 0..MaxSessions
            BY <1>0 DEF Tabs
      <2>2. [t EXCEPT !.st = "SAVING", !.pending = t.session] \in Tabs
            BY <1>0, <2>1 DEF Tabs
      <2>3. QED BY <1>0, <2>2, HelperTypes DEF Accepted
<1>13. QED BY <1>1, <1>2, <1>3, <1>4, <1>5, <1>6, <1>7, <1>8, <1>9, <1>10,
              <1>11, <1>12

\* Requests, keys and steer messages.
LEMMA CallTypes ==
  /\ Fade \in Asks /\ Hides \subseteq Asks
  /\ \A n \in Sessions : \A k \in {"accept", "discard", "source", "finish"} :
       Calls(k, n) \subseteq Asks
  /\ \A n \in Versions : Calls("save", n) \subseteq Asks
  /\ \A n \in Steers : Calls("steer", n) \subseteq Asks
  /\ \A t \in Tabs : /\ EnterCalls(t) \subseteq Asks /\ EscapeCalls(t) \subseteq Asks
                     /\ PickHides(t) \subseteq Asks /\ InsertHides(t) \subseteq Asks
<1>1. Fade \in Asks /\ Hides \subseteq Asks
      BY DEF Fade, Hides, Asks
<1>2. \A n \in Sessions : \A k \in {"accept", "discard", "source", "finish"} :
        Calls(k, n) \subseteq Asks
      BY DEF Calls, Asks
<1>3. \A n \in Versions : Calls("save", n) \subseteq Asks
      BY DEF Calls, Asks
<1>4. \A n \in Steers : Calls("steer", n) \subseteq Asks
      BY DEF Calls, Asks
<1>5. \A t \in Tabs : t.session # 0 => t.session \in Sessions
      BY BoundAssumption DEF Tabs, Sessions
<1>6. \A t \in Tabs : PickHides(t) \subseteq Asks /\ InsertHides(t) \subseteq Asks
      BY <1>1 DEF PickHides, InsertHides
<1>7. \A t \in Tabs : EnterCalls(t) \subseteq Asks
      BY <1>2, <1>5 DEF EnterCalls, CanAccept
<1>8. \A t \in Tabs : EscapeCalls(t) \subseteq Asks
      BY <1>1, <1>2, <1>5, <1>6 DEF EscapeCalls
<1>9. QED BY <1>1, <1>2, <1>3, <1>4, <1>6, <1>7, <1>8

\* What a key makes of a tab.
LEMMA KeyTypes ==
  ASSUME NEW t \in Tabs
  PROVE  /\ EnterKey(t) \in Tabs /\ EscapeKey(t) \in Tabs
         /\ LeaveInput(t) \in Tabs
         /\ \A n \in Steers : Submitted(t, n) \in Tabs
<1>1. EnterKey(t) \in Tabs
      BY HandlerTypes DEF EnterKey, Badges
<1>2. [t EXCEPT !.picker = FALSE] \in Tabs /\ [t EXCEPT !.st = "IDLE"] \in Tabs
      BY DEF Tabs, States
<1>3. EscapeKey(t) \in Tabs
      BY <1>2, HandlerTypes DEF EscapeKey
<1>4. ASSUME NEW n \in Steers PROVE Submitted(t, n) \in Tabs
      <2> DEFINE v == StopVoice(t)
      <2>1. v \in Tabs /\ n \in 0..MaxSteers
            BY HelperTypes DEF Steers
      <2> HIDE DEF v
      <2>2. [v EXCEPT !.steer = n, !.chat = FALSE] \in Tabs
            BY <2>1 DEF Tabs
      <2>3. QED BY <2>2 DEF Submitted, v
<1>5. LeaveInput(t) \in Tabs
      <2> DEFINE h == HideBar(DisableEdit(t))
      <2>1. h \in Tabs
            BY HelperTypes, HideBarType
      <2> HIDE DEF h
      <2>2. [h EXCEPT !.st = "PICKING"] \in Tabs
            BY <2>1 DEF Tabs, States
      <2>3. QED BY <2>2, HelperTypes DEF LeaveInput, h, Badges
<1>6. QED BY <1>1, <1>3, <1>4, <1>5

\* A step that changes the tab, its requests and the excuses only.
LEMMA StepTypes ==
  ASSUME TypeOK, NEW t \in Tabs, NEW A \in SUBSET Asks,
         NEW X \in SUBSET Excuses, Step(t, A, X)
  PROVE  /\ tab' \in Tabs /\ asks' \subseteq Asks /\ excused' \subseteq Excuses
         /\ (Calm => TypeOK')
BY DEF TypeOK, Step, Calm, Within

\* A session starts, with the element or the placeholder that is selected.
LEMMA LaunchTypes ==
  ASSUME TypeOK, NEW t \in Tabs, NEW i \in BOOLEAN, Launch(t, i)
  PROVE  TypeOK'
<1> DEFINE id == given.sessions + 1
           v == [t EXCEPT !.session = id, !.arrived = FALSE, !.watched = id,
                          !.held = TRUE, !.st = "GENERATING"]
           started == ClearNotes(HideOverlay(v))
<1>1. id \in Sessions /\ id \in 0..MaxSessions
      BY BoundAssumption DEF TypeOK, Launch, Sessions
<1>2. /\ given' = [given EXCEPT !.sessions = id,
                      !.inserts = IF i THEN @ \cup {id} ELSE @]
      /\ Step(ShowBar(started, "generating"), {}, {})
      /\ UNCHANGED <<page, source, up, habit>>
      BY DEF Launch, Within
<1> HIDE DEF id
<1>3. v \in Tabs
      BY <1>1 DEF Tabs, States
<1> HIDE DEF v
<1>4. ShowBar(started, "generating") \in Tabs
      BY <1>3, HelperTypes DEF Rows
<1> HIDE DEF started
<1>5. tab' \in Tabs /\ asks' \subseteq Asks /\ excused' \subseteq Excuses
      BY <1>2, <1>4, StepTypes
<1>6. given' \in [sessions : 0..MaxSessions, inserts : SUBSET Sessions,
                  steers : 0..MaxSteers, events : 0..MaxEvents]
      BY <1>1, <1>2 DEF TypeOK
<1>7. QED BY <1>2, <1>5, <1>6 DEF TypeOK

\* A Go counts a session and asks for its variants.
LEMMA GoTypes ==
  ASSUME TypeOK, NEW t \in Tabs
  PROVE  (Go(t) => TypeOK') /\ (InsertCreate(t) => TypeOK')
<1>1. ASSUME Go(t) PROVE TypeOK'
      <2> DEFINE v == [t EXCEPT !.pending = 0]
                 quiet == DisableEdit(StopVoice(v))
                 u == IF t.badge = "hidden" THEN quiet
                      ELSE Badge(quiet, "disabled")
      <2>1. v \in Tabs
            BY BoundAssumption DEF Tabs
      <2> HIDE DEF v
      <2>2. quiet \in Tabs
            BY <2>1, HelperTypes
      <2> HIDE DEF quiet
      <2>3. u \in Tabs
            BY <2>2, HelperTypes DEF Badges
      <2>4. Launch(u, FALSE)
            BY <1>1 DEF Go, quiet, v
      <2> HIDE DEF u
      <2>5. QED BY <2>3, <2>4, LaunchTypes
<1>2. ASSUME InsertCreate(t) PROVE TypeOK'
      <2>1. [t EXCEPT !.sel = TRUE] \in Tabs
            BY DEF Tabs
      <2>2. StopVoice([t EXCEPT !.sel = TRUE]) \in Tabs
            BY <2>1, HelperTypes
      <2>3. QED BY <1>2, <2>2, LaunchTypes DEF InsertCreate
<1>3. QED BY <1>1, <1>2

\* The mouse.
LEMMA MouseTypes == TypeOK /\ Mouse => TypeOK'
<1> SUFFICES ASSUME TypeOK, Mouse PROVE TypeOK'
    OBVIOUS
<1>0. tab \in Tabs /\ {} \subseteq Asks /\ {} \subseteq Excuses
      BY DEF TypeOK
<1>1. CASE Hover
      <2>1. \A b \in BOOLEAN : [tab EXCEPT !.edge = b] \in Tabs
            BY <1>0 DEF Tabs
      <2>2. (~tab.edge) \in BOOLEAN
            OBVIOUS
      <2>3. [tab EXCEPT !.edge = ~@] \in Tabs
            BY <2>1, <2>2
      <2>4. [tab EXCEPT !.hover = TRUE] \in Tabs
            BY <1>0 DEF Tabs
      <2>5. QED BY <1>0, <1>1, <2>3, <2>4, StepTypes DEF Hover
<1>2. CASE ClickAway
      <2> DEFINE shut == [tab EXCEPT !.picker = FALSE]
                 b == BackToPicking(shut)
                 back == [b EXCEPT !.hover = FALSE]
      <2>1. shut \in Tabs
            BY <1>0 DEF Tabs
      <2> HIDE DEF shut
      <2>2. CancelInsert(shut) \in Tabs /\ b \in Tabs
            BY <2>1, HandlerTypes
      <2> HIDE DEF b
      <2>3. back \in Tabs
            BY <2>2 DEF Tabs
      <2>4. \/ Step(CancelInsert(shut), Hides, {})
            \/ Step(back, Hides, {})
            BY <1>2 DEF ClickAway, shut, b
      <2> HIDE DEF back
      <2>5. QED BY <1>0, <1>2, <2>2, <2>3, <2>4, StepTypes, CallTypes DEF ClickAway
<1>3. CASE ClickEdge
      <2> DEFINE placed == [tab EXCEPT !.edge = FALSE, !.placeholder = TRUE,
                                       !.kind = "insert"]
      <2>1. placed \in Tabs /\ tab.badge \in Badges
            BY <1>0 DEF Tabs, Badges
      <2> HIDE DEF placed
      <2>2. Configure(placed, tab.badge) \in Tabs
            BY <2>1, HandlerTypes
      <2>3. Step(Configure(placed, tab.badge), {}, {}) /\ Calm
            BY <1>3 DEF ClickEdge, placed
      <2>4. QED BY <1>0, <2>2, <2>3, StepTypes
<1>4. CASE ClickElement
      BY <1>0, <1>4, HandlerTypes, StepTypes DEF ClickElement, Badges
<1>5. CASE Annotate
      <2>1. [tab EXCEPT !.notes = TRUE] \in Tabs
            BY <1>0 DEF Tabs
      <2>2. QED BY <1>0, <1>5, <2>1, StepTypes DEF Annotate
<1>6. QED BY <1>1, <1>2, <1>3, <1>4, <1>5 DEF Mouse

\* The copy editor.
LEMMA EditorTypes == TypeOK /\ Editor => TypeOK'
<1> SUFFICES ASSUME TypeOK, Editor PROVE TypeOK'
    OBVIOUS
<1>0. /\ tab \in Tabs /\ {} \subseteq Asks /\ {} \subseteq Excuses
      /\ \A st \in States : Stray(st) \subseteq Excuses
      /\ "EDITING" \in States /\ "CONFIGURING" \in States
      BY DEF TypeOK, Stray, Excuses, States
<1>1. CASE EditCopy
      <2> DEFINE e == [tab EXCEPT !.st = "EDITING"]
      <2>1. e \in Tabs
            BY <1>0 DEF Tabs
      <2> HIDE DEF e
      <2>2. EnableEdit(Badge(HideOverlay(HideBar(e)), "editing")) \in Tabs
            BY <2>1, HideBarType, HelperTypes DEF Badges
      <2>3. Step(EnableEdit(Badge(HideOverlay(HideBar(e)), "editing")), Hides,
                 Stray("CONFIGURING")) /\ Calm
            BY <1>1 DEF EditCopy, e
      <2>4. QED BY <1>0, <2>2, <2>3, StepTypes, CallTypes
<1>2. CASE Type
      <2>1. PICK v \in Versions : Step([tab EXCEPT !.text = v, !.draft = TRUE], {}, {})
            BY <1>2 DEF Type
      <2>2. [tab EXCEPT !.text = v, !.draft = TRUE] \in Tabs
            BY <1>0 DEF Tabs
      <2>3. QED BY <1>0, <1>2, <2>1, <2>2, StepTypes DEF Type
<1>3. CASE EscapeInText
      <2>1. [tab EXCEPT !.text = tab.orig, !.draft = FALSE] \in Tabs
            BY <1>0 DEF Tabs
      <2>2. QED BY <1>0, <1>3, <2>1, StepTypes DEF EscapeInText
<1>4. CASE Cancel
      BY <1>0, <1>4, HandlerTypes, StepTypes DEF Cancel
<1>5. CASE Save
      <2>1. tab.text \in Versions
            BY <1>0 DEF Tabs
      <2>2. QED BY <1>0, <1>5, <2>1, HandlerTypes, StepTypes, CallTypes DEF Save
<1>6. CASE SaveAnswered
      <2>1. PICK a \in asks :
               /\ a.kind = "save"
               /\ tab' = Badge(ShowOverlay(ShowBar(DisableEdit(
                            [tab EXCEPT !.saved = a.no, !.st = "CONFIGURING"]),
                            "configure")), "idle")
               /\ excused' = excused \cup
                    (IF tab.st # "EDITING" \/ tab.text # a.no THEN {"late save"}
                                                              ELSE {})
               /\ asks' = asks \ {a} /\ Calm
            BY <1>6 DEF SaveAnswered
      <2> DEFINE v == [tab EXCEPT !.saved = a.no, !.st = "CONFIGURING"]
      <2>2. a.no \in Versions
            BY <2>1 DEF TypeOK, Asks, Fade
      <2>3. v \in Tabs
            BY <1>0, <2>2 DEF Tabs
      <2> HIDE DEF v
      <2>4. Badge(ShowOverlay(ShowBar(DisableEdit(v), "configure")), "idle") \in Tabs
            BY <2>3, HelperTypes DEF Rows, Badges
      <2>5. tab' \in Tabs
            BY <2>1, <2>4 DEF v
      <2>6. QED BY <2>1, <2>5 DEF TypeOK, Calm, Within, Excuses
<1>7. CASE SaveFails
      BY <1>7 DEF SaveFails, TypeOK, Calm, Within
<1>8. QED BY <1>1, <1>2, <1>3, <1>4, <1>5, <1>6, <1>7 DEF Editor

\* The buttons of the bars.
LEMMA ControlTypes == TypeOK /\ Controls => TypeOK'
<1> SUFFICES ASSUME TypeOK, Controls PROVE TypeOK'
    OBVIOUS
<1>0. /\ tab \in Tabs /\ {} \subseteq Asks /\ {} \subseteq Excuses
      /\ Midway(tab) \subseteq Excuses
      /\ tab.session # 0 => tab.session \in Sessions
      <2>1. tab \in Tabs /\ Midway(tab) \subseteq Excuses
            BY DEF TypeOK, Midway, Excuses
      <2>2. tab.session # 0 => tab.session \in Sessions
            BY <2>1, BoundAssumption DEF Tabs, Sessions
      <2>3. QED BY <2>1, <2>2
<1>1. CASE ClickGo
      BY <1>0, <1>1, GoTypes DEF ClickGo
<1>2. CASE ClickCreate
      BY <1>0, <1>2, GoTypes DEF ClickCreate
<1>3. CASE Prompt
      <2>1. [tab EXCEPT !.prompt = TRUE] \in Tabs
            BY <1>0 DEF Tabs
      <2>2. QED BY <1>0, <1>3, <2>1, StepTypes DEF Prompt
<1>4. CASE TogglePicker
      <2>1. \A b \in BOOLEAN : [tab EXCEPT !.picker = b] \in Tabs
            BY <1>0 DEF Tabs
      <2>2. (~tab.picker) \in BOOLEAN
            OBVIOUS
      <2>3. [tab EXCEPT !.picker = ~@] \in Tabs
            BY <2>1, <2>2
      <2>4. QED BY <1>0, <1>4, <2>3, StepTypes DEF TogglePicker
<1>5. CASE ToggleTune
      <2>1. \A b \in BOOLEAN : [tab EXCEPT !.tune = b] \in Tabs
            BY <1>0 DEF Tabs
      <2>2. (~tab.tune) \in BOOLEAN
            OBVIOUS
      <2>3. [tab EXCEPT !.tune = ~@] \in Tabs
            BY <2>1, <2>2
      <2>4. QED BY <1>0, <1>5, <2>3, StepTypes DEF ToggleTune
<1>6. CASE TogglePick
      BY <1>0, <1>6, HandlerTypes, CallTypes, StepTypes DEF TogglePick
<1>7. CASE ToggleInsert
      BY <1>0, <1>7, HandlerTypes, CallTypes, StepTypes DEF ToggleInsert
<1>8. CASE ClickAccept
      BY <1>0, <1>8, HandlerTypes, CallTypes, StepTypes DEF ClickAccept, CanAccept
<1>9. CASE ClickDiscard
      BY <1>0, <1>9, CallTypes, StepTypes DEF ClickDiscard
<1>10. QED BY <1>1, <1>2, <1>3, <1>4, <1>5, <1>6, <1>7, <1>8, <1>9 DEF Controls

\* The keyboard and the steer chat.
LEMMA KeyboardTypes == TypeOK /\ Keys => TypeOK'
<1> SUFFICES ASSUME TypeOK, Keys PROVE TypeOK'
    OBVIOUS
<1>0. tab \in Tabs /\ {} \subseteq Asks /\ {} \subseteq Excuses
      BY DEF TypeOK
<1>1. CASE Arrow
      BY <1>0, <1>1, HandlerTypes, HelperTypes, StepTypes DEF Arrow, Badges
<1>2. CASE Enter
      BY <1>0, <1>2, KeyTypes, CallTypes, StepTypes DEF Enter
<1>3. CASE EnterInChat
      <2> DEFINE id == given.steers + 1
                 u == IF Free THEN EnterKey(tab) ELSE tab
                 A == Calls("steer", id) \cup
                        (IF Free THEN EnterCalls(tab) ELSE {})
      <2>1. id \in Steers /\ id \in 0..MaxSteers
            BY <1>3, BoundAssumption DEF EnterInChat, TypeOK, Steers
      <2>2. /\ Step(Submitted(u, id), A, {})
            /\ given' = [given EXCEPT !.steers = id]
            /\ UNCHANGED <<page, source, up, habit>>
            BY <1>3 DEF EnterInChat, Within
      <2> HIDE DEF id
      <2>3. u \in Tabs /\ A \subseteq Asks
            BY <1>0, <2>1, KeyTypes, CallTypes
      <2> HIDE DEF u, A
      <2>4. tab' \in Tabs /\ asks' \subseteq Asks /\ excused' \subseteq Excuses
            BY <1>0, <2>1, <2>2, <2>3, KeyTypes, StepTypes
      <2>5. QED BY <2>1, <2>2, <2>4 DEF TypeOK
<1>4. CASE Escape
      <2> DEFINE k == EscapeKey(tab)
      <2>1. PICK inChat \in {FALSE, tab.chat} :
               Step([k EXCEPT !.chat = @ /\ ~inChat], EscapeCalls(tab), {})
            BY <1>4 DEF Escape
      <2>2. k \in Tabs
            BY <1>0, KeyTypes
      <2> HIDE DEF k
      <2>3. [k EXCEPT !.chat = @ /\ ~inChat] \in Tabs
            <3>1. \A b \in BOOLEAN : [k EXCEPT !.chat = b] \in Tabs
                  BY <2>2 DEF Tabs
            <3>2. (k.chat /\ ~inChat) \in BOOLEAN
                  OBVIOUS
            <3>3. QED BY <3>1, <3>2
      <2>4. QED BY <1>0, <1>4, <2>1, <2>3, CallTypes, StepTypes DEF Escape
<1>5. CASE TypeInChat
      <2>1. [tab EXCEPT !.chat = TRUE] \in Tabs
            BY <1>0 DEF Tabs
      <2>2. QED BY <1>0, <1>5, <2>1, StepTypes DEF TypeInChat
<1>6. CASE EscapeInInput
      <2> DEFINE u == LeaveInput(EscapeKey(tab))
      <2>1. u \in Tabs
            BY <1>0, KeyTypes
      <2> HIDE DEF u
      <2>2. {"picker"} \subseteq Excuses
            BY DEF Excuses
      <2>3. Step(u, Hides, {"picker"}) \/ Step(u, Hides, {})
            BY <1>6 DEF EscapeInInput, u
      <2>4. Hides \subseteq Asks
            BY CallTypes
      <2>5. QED BY <1>0, <1>6, <2>1, <2>2, <2>3, <2>4, StepTypes
                DEF EscapeInInput
<1>7. QED BY <1>1, <1>2, <1>3, <1>4, <1>5, <1>6 DEF Keys

\* Voice input and what it submits.
LEMMA VoiceTypes == TypeOK /\ Voice => TypeOK'
<1> SUFFICES ASSUME TypeOK, Voice PROVE TypeOK'
    OBVIOUS
<1>0. tab \in Tabs /\ {} \subseteq Asks /\ {} \subseteq Excuses
      BY DEF TypeOK
<1>1. CASE StartVoice
      <2> DEFINE k == IF tab.kind = "insert" THEN "create" ELSE "go"
                 u == [tab EXCEPT !.linked = TRUE, !.heard = tab.prompt, !.voice = k]
                 v == [tab EXCEPT !.voice = "steer", !.heard = tab.chat]
      <2>1. k \in {"off", "go", "create", "steer"}
            OBVIOUS
      <2>2. (Step(u, {}, {}) \/ Step(v, {}, {})) /\ Calm
            BY <1>1 DEF StartVoice
      <2> HIDE DEF k
      <2>3. u \in Tabs
            BY <1>0, <2>1 DEF Tabs
      <2>4. v \in Tabs
            BY <1>0 DEF Tabs
      <2> HIDE DEF u, v
      <2>5. QED BY <1>0, <2>2, <2>3, <2>4, StepTypes
<1>2. CASE VoiceHears
      <2> DEFINE c == tab.chat \/ tab.voice = "steer"
                 p == tab.prompt \/ (tab.voice # "steer" /\ tab.linked)
                 u == [tab EXCEPT !.heard = TRUE, !.chat = c, !.prompt = p]
      <2>1. c \in BOOLEAN /\ p \in BOOLEAN
            OBVIOUS
      <2>2. Step(u, {}, {}) /\ Calm
            <3>1. Step([tab EXCEPT !.heard = TRUE, !.chat = @ \/ tab.voice = "steer",
                          !.prompt = @ \/ (tab.voice # "steer" /\ tab.linked)],
                       {}, {}) /\ Calm
                  BY <1>2 DEF VoiceHears
            <3>2. QED BY <3>1
      <2> HIDE DEF c, p
      <2>3. u \in Tabs
            BY <1>0, <2>1 DEF Tabs
      <2> HIDE DEF u
      <2>4. QED BY <1>0, <2>2, <2>3, StepTypes
<1>3. CASE VoiceEnds
      <2> DEFINE t == StopVoice(tab)
                 id == given.steers + 1
      <2>1. t \in Tabs
            BY <1>0, HelperTypes
      <2>2. \/ Go(t) \/ InsertCreate(t)
            \/ /\ given.steers < MaxSteers
               /\ Step(Submitted(t, id), Calls("steer", id), {})
               /\ given' = [given EXCEPT !.steers = id]
               /\ UNCHANGED <<page, source, up, habit>>
            \/ Step(t, {}, {}) /\ Calm
            BY <1>3 DEF VoiceEnds, Within
      <2> HIDE DEF t
      <2>3. ASSUME given.steers < MaxSteers,
                   Step(Submitted(t, id), Calls("steer", id), {}),
                   given' = [given EXCEPT !.steers = id],
                   UNCHANGED <<page, source, up, habit>>
            PROVE  TypeOK'
            <3>1. id \in Steers /\ id \in 0..MaxSteers
                  BY <2>3, BoundAssumption DEF TypeOK, Steers
            <3> HIDE DEF id
            <3>2. tab' \in Tabs /\ asks' \subseteq Asks /\ excused' \subseteq Excuses
                  BY <1>0, <2>1, <2>3, <3>1, KeyTypes, CallTypes, StepTypes
            <3>3. QED BY <2>3, <3>1, <3>2 DEF TypeOK
      <2> HIDE DEF id
      <2>4. QED BY <1>0, <2>1, <2>2, <2>3, GoTypes, StepTypes
<1>4. QED BY <1>1, <1>2, <1>3 DEF Voice

\* The answers to the requests, and the timers.
LEMMA AnswerTypes == TypeOK /\ Answers => TypeOK'
<1> SUFFICES ASSUME TypeOK, Answers PROVE TypeOK'
    OBVIOUS
<1>0. /\ tab \in Tabs /\ {} \subseteq Asks /\ {} \subseteq Excuses
      /\ \A k \in Excuses : \A due \in BOOLEAN : Late(k, due) \subseteq Excuses
      /\ "late answer" \in Excuses /\ "late source" \in Excuses /\ "fade" \in Excuses
      /\ "CYCLING" \in States /\ "CONFIRMED" \in States
      /\ "cycling" \in Rows /\ "confirmed" \in Rows
      /\ 0 \in 0..MaxSessions /\ 0 \in 0..MaxSteers
      /\ \A n : Gone(n) \in 0..MaxSessions
      <2>1. \A k \in Excuses : \A due \in BOOLEAN : Late(k, due) \subseteq Excuses
            BY DEF Late
      <2>2. 0 \in 0..MaxSessions /\ 0 \in 0..MaxSteers
            BY BoundAssumption
      <2>3. \A n : Gone(n) \in 0..MaxSessions
            BY <2>2 DEF TypeOK, Gone
      <2>4. tab \in Tabs
            BY DEF TypeOK
      <2>5. QED BY <2>1, <2>2, <2>3, <2>4 DEF Excuses, States, Rows
<1>1. CASE SteerFails
      <2>1. [tab EXCEPT !.steer = 0] \in Tabs
            BY <1>0 DEF Tabs
      <2>2. QED BY <1>0, <1>1, <2>1 DEF SteerFails, TypeOK, Calm, Within
<1>2. CASE SteerAnswered
      BY <1>2 DEF SteerAnswered, TypeOK, Calm, Within
<1>3. CASE SteerEnds
      <2>1. [tab EXCEPT !.steer = 0] \in Tabs
            BY <1>0 DEF Tabs
      <2>2. Step([tab EXCEPT !.steer = 0], {}, {}) /\ Calm
            BY <1>3 DEF SteerEnds
      <2>3. {} \in SUBSET Asks /\ {} \in SUBSET Excuses
            OBVIOUS
      <2>4. QED BY <2>1, <2>2, <2>3, StepTypes
<1>4. CASE AcceptFails
      <2> DEFINE u == [tab EXCEPT !.pending = 0, !.st = "CYCLING"]
      <2>1. u \in Tabs
            BY <1>0 DEF Tabs
      <2> HIDE DEF u
      <2>2. UpdateBar(u, "cycling") \in Tabs
            BY <1>0, <2>1, HelperTypes
      <2>3. PICK a \in asks :
               /\ asks' = asks \ {a} /\ tab' = UpdateBar(u, "cycling")
               /\ excused' = excused \cup
                    Late("late answer", tab.st = "SAVING" /\ tab.session = a.no)
               /\ Calm
            BY <1>4 DEF AcceptFails, u
      <2>4. QED BY <1>0, <2>2, <2>3 DEF TypeOK, Calm, Within
<1>5. CASE DiscardFails
      BY <1>5 DEF DiscardFails, TypeOK, Calm, Within
<1>6. CASE DiscardAnswered
      <2>1. CleanUp(tab) \in Tabs
            BY <1>0, HandlerTypes
      <2>2. PICK a \in asks :
               /\ asks' = (asks \ {a}) \cup Hides /\ tab' = CleanUp(tab)
               /\ page' = Gone(tab.session) /\ source' = source \ {a.no}
               /\ excused' = excused \cup
                    Late("late answer", tab.st = "CYCLING" /\ tab.session = a.no)
               /\ UNCHANGED <<up, given, habit>>
            BY <1>6 DEF DiscardAnswered, Within
      <2>3. QED BY <1>0, <2>1, <2>2, CallTypes DEF TypeOK
<1>7. CASE Complete
      <2> DEFINE u == [tab EXCEPT !.st = "CONFIRMED"]
                 v == [tab EXCEPT !.pending = 0]
      <2>1. u \in Tabs /\ v \in Tabs
            BY <1>0 DEF Tabs
      <2>2. PICK a \in asks :
               /\ a.kind = "accept"
               /\ tab' \in {UpdateBar(u, "confirmed"), v, tab}
               /\ asks' \subseteq asks \cup Calls("finish", a.no)
               /\ excused' \in {excused, excused \cup
                                Late("late answer", tab.st = "SAVING")}
               /\ Calm
            BY <1>7 DEF Complete
      <2> HIDE DEF u, v
      <2>3. UpdateBar(u, "confirmed") \in Tabs
            BY <1>0, <2>1, HelperTypes
      <2>4. a.no \in Sessions
            BY <2>2 DEF TypeOK, Asks, Fade
      <2>5. QED BY <1>0, <2>1, <2>2, <2>3, <2>4, CallTypes DEF TypeOK, Calm, Within
<1>8. CASE Finish
      <2>1. CleanUpAccepted(tab) \in Tabs
            BY <1>0, HandlerTypes
      <2>2. PICK a \in asks :
               /\ asks' = (asks \ {a}) \cup Hides /\ tab' = CleanUpAccepted(tab)
               /\ page' = Gone(a.no) /\ source' = source \ {a.no}
               /\ excused' = excused \cup
                    Late("late answer", tab.st = "CONFIRMED" /\ tab.session = a.no)
               /\ UNCHANGED <<up, given, habit>>
            BY <1>8 DEF Finish, Within
      <2>3. QED BY <1>0, <2>1, <2>2, CallTypes DEF TypeOK
<1>9. CASE SourceAnswered
      <2>1. PICK a \in asks :
               /\ a.kind = "source" /\ asks' = asks \ {a}
               /\ tab' \in {Cycling(tab), tab} /\ page' \in {page, a.no}
               /\ excused' \in {excused, excused \cup Late("late source",
                    tab.session = a.no /\ tab.st \in {"GENERATING", "CYCLING"})}
               /\ UNCHANGED <<source, up, given, habit>>
            BY <1>9 DEF SourceAnswered, Within
      <2>2. a.no \in 0..MaxSessions
            <3>1. a.no \in Sessions
                  BY <2>1 DEF TypeOK, Asks
            <3>2. QED BY <3>1, BoundAssumption DEF Sessions
      <2>3. QED BY <1>0, <2>1, <2>2, HandlerTypes DEF TypeOK
<1>10. CASE FadeBar
      <2>1. [tab EXCEPT !.bar = "none"] \in Tabs
            BY <1>0 DEF Tabs
      <2>2. QED BY <1>0, <1>10, <2>1 DEF FadeBar, TypeOK, Calm, Within
<1>11. QED BY <1>1, <1>2, <1>3, <1>4, <1>5, <1>6, <1>7, <1>8, <1>9, <1>10
           DEF Answers

\* What comes from the agent and the server.
LEMMA OutsideTypes == TypeOK /\ Outside => TypeOK'
<1> SUFFICES ASSUME TypeOK, Outside PROVE TypeOK'
    OBVIOUS
<1>0. /\ tab \in Tabs /\ {} \in SUBSET Asks
      /\ \A k \in Excuses : {k} \in SUBSET Excuses
      /\ {} \in SUBSET Excuses
      BY DEF TypeOK
<1>00. /\ \A due \in BOOLEAN : /\ Late("late answer", due) \in SUBSET Excuses
                               /\ Late("late variants", due) \in SUBSET Excuses
       /\ {"error"} \in SUBSET Excuses /\ {"lost"} \in SUBSET Excuses
       /\ {"apply"} \in SUBSET Excuses
       BY DEF Late, Excuses
<1>1. CASE AgentWrites
      <2>1. PICK id \in 1..given.sessions :
               /\ source' = source \cup {id}
               /\ UNCHANGED <<tab, page, asks, up, given, excused, habit>>
            BY <1>1 DEF AgentWrites, Within
      <2>2. id \in Sessions
            BY BoundAssumption DEF TypeOK, Sessions
      <2>3. QED BY <2>1, <2>2 DEF TypeOK
<1>2. CASE VariantsMount
      <2>1. PICK id \in source :
               /\ page' = id
               /\ \/ \E t \in {Cycling(tab), FinalizeInsert(Cycling(tab))} :
                       Step(t, {}, Late("late variants", tab.st = "GENERATING"))
                  \/ UNCHANGED <<tab, asks, excused>>
               /\ UNCHANGED <<source, up, given, habit>>
            BY <1>2 DEF VariantsMount, Within
      <2>2. page' \in 0..MaxSessions
            <3>1. page' \in Sessions
                  BY <2>1 DEF TypeOK
            <3>2. QED BY <3>1, BoundAssumption DEF Sessions
      <2>3. Cycling(tab) \in Tabs /\ FinalizeInsert(Cycling(tab)) \in Tabs
            BY <1>0, HandlerTypes, HelperTypes
      <2>4. tab' \in Tabs /\ asks' \subseteq Asks /\ excused' \subseteq Excuses
            <3>1. (tab.st = "GENERATING") \in BOOLEAN
                  OBVIOUS
            <3>2. Late("late variants", tab.st = "GENERATING") \in SUBSET Excuses
                  BY <3>1, <1>00
            <3>3. QED BY <1>0, <2>1, <2>3, <3>2, StepTypes DEF TypeOK
      <2>5. QED BY <2>1, <2>2, <2>4 DEF TypeOK
<1>3. CASE Done
      <2>1. PICK id \in source : Step(tab, Calls("source", id), {})
            BY <1>3 DEF Done
      <2>2. Calls("source", id) \in SUBSET Asks
            BY CallTypes DEF TypeOK
      <2>3. Calm
            BY <1>3 DEF Done
      <2>4. QED BY <1>0, <2>1, <2>2, <2>3, StepTypes
<1>4. ASSUME Event
      PROVE  given' \in [sessions : 0..MaxSessions, inserts : SUBSET Sessions,
                         steers : 0..MaxSteers, events : 0..MaxEvents]
      BY <1>4, BoundAssumption DEF Event, TypeOK
<1>5. CASE ErrorEvent
      <2> DEFINE u == [tab EXCEPT !.pending = 0, !.st = "CYCLING"]
                 h == HideBar(tab)
                 v == [h EXCEPT !.st = "PICKING"]
      <2>1. UpdateBar(u, "cycling") \in Tabs
            <3>1. u \in Tabs
                  <4>1. 0 \in 0..MaxSessions /\ "CYCLING" \in States
                        BY BoundAssumption DEF States
                  <4>2. QED BY <1>0, <4>1 DEF Tabs
            <3> HIDE DEF u
            <3>2. QED BY <3>1, HelperTypes DEF Rows
      <2>2. Badge(v, "hidden") \in Tabs
            <3>1. v \in Tabs
                  BY <1>0, HideBarType, HelperTypes DEF States
            <3> HIDE DEF v
            <3>2. QED BY <3>1, HelperTypes DEF Badges
      <2>3. /\ Event
            /\ \/ Step(UpdateBar(u, "cycling"), {},
                       Late("late answer", tab.st = "SAVING"))
               \/ Step(Badge(v, "hidden"), Hides, {"error"})
            /\ UNCHANGED <<page, source, up, habit>>
            BY <1>5 DEF ErrorEvent, Within
      <2> HIDE DEF u, v
      <2>4. tab' \in Tabs /\ asks' \subseteq Asks /\ excused' \subseteq Excuses
            <3>1. (tab.st = "SAVING") \in BOOLEAN
                  OBVIOUS
            <3>2. Late("late answer", tab.st = "SAVING") \in SUBSET Excuses
                  BY <3>1, <1>00
            <3>3. Hides \in SUBSET Asks
                  BY CallTypes
            <3>4. QED BY <1>0, <1>00, <2>1, <2>2, <2>3, <3>2, <3>3, StepTypes
      <2>5. QED BY <1>4, <2>3, <2>4 DEF TypeOK
<1>6. CASE Connected
      <2>1. [tab EXCEPT !.st = "PICKING"] \in Tabs
            BY <1>0 DEF Tabs, States
      <2>2. QED BY <1>0, <1>6, <2>1, StepTypes DEF Connected
<1>7. CASE ServerLost
      <2> DEFINE h == HideBar(tab)
                 k == IF tab.session = 0 THEN "IDLE" ELSE h.st
                 v == [h EXCEPT !.watched = 0, !.held = FALSE, !.sel = FALSE,
                                !.st = k]
      <2>1. h \in Tabs
            BY <1>0, HideBarType
      <2>2. /\ Event
            /\ Step(HideOverlay(v), Hides, {"lost"})
            /\ up' = FALSE /\ UNCHANGED <<page, source, habit>>
            BY <1>7 DEF ServerLost, Within
      <2> HIDE DEF h
      <2>3. k \in States
            BY <2>1 DEF Tabs, States
      <2> HIDE DEF k
      <2>4. v \in Tabs
            <3>1. 0 \in 0..MaxSessions
                  BY BoundAssumption
            <3>2. QED BY <2>1, <2>3, <3>1 DEF Tabs
      <2> HIDE DEF v
      <2>5. HideOverlay(v) \in Tabs
            BY <2>4, HelperTypes
      <2>6. tab' \in Tabs /\ asks' \subseteq Asks /\ excused' \subseteq Excuses
            <3>1. Hides \in SUBSET Asks
                  BY CallTypes
            <3>2. QED BY <1>00, <2>2, <2>5, <3>1, StepTypes
      <2>7. QED BY <1>4, <2>2, <2>6 DEF TypeOK
<1>8. CASE ApplyStarts
      <2>1. [tab EXCEPT !.applying = TRUE] \in Tabs
            BY <1>0 DEF Tabs
      <2>2. Refresh([tab EXCEPT !.applying = TRUE]) \in Tabs
            BY <2>1, HandlerTypes
      <2>3. /\ Event
            /\ \E X \in {{"apply"}, {}} :
                 Step(Refresh([tab EXCEPT !.applying = TRUE]), {}, X)
            /\ UNCHANGED <<page, source, up, habit>>
            BY <1>8 DEF ApplyStarts, Within
      <2>4. tab' \in Tabs /\ asks' \subseteq Asks /\ excused' \subseteq Excuses
            BY <1>0, <1>00, <2>2, <2>3, StepTypes
      <2>5. QED BY <1>4, <2>3, <2>4 DEF TypeOK
<1>9. CASE ApplyEnds
      <2>1. [tab EXCEPT !.applying = FALSE] \in Tabs
            BY <1>0 DEF Tabs
      <2>2. Refresh([tab EXCEPT !.applying = FALSE]) \in Tabs
            BY <2>1, HandlerTypes
      <2>3. QED BY <1>0, <1>9, <2>2, StepTypes DEF ApplyEnds
<1>10. QED BY <1>1, <1>2, <1>3, <1>5, <1>6, <1>7, <1>8, <1>9 DEF Outside

\* A fresh tab has the declared types.
LEMMA InitTypes == Init => TypeOK
<1> SUFFICES ASSUME Init PROVE TypeOK
    OBVIOUS
<1>1. tab \in Tabs
      BY BoundAssumption DEF Init, Tabs, States, Versions
<1>2. QED BY <1>1, BoundAssumption DEF Init, TypeOK

(* The script, the user and the server keep to the types.                  *)
THEOREM TypeCorrect == Spec => []TypeOK
<1>1. TypeOK /\ [Next]_vars => TypeOK'
      <2> SUFFICES ASSUME TypeOK, [Next]_vars PROVE TypeOK'
          OBVIOUS
      <2>1. CASE UNCHANGED vars
            BY <2>1 DEF vars, TypeOK
      <2>2. QED BY <2>1, MouseTypes, EditorTypes, ControlTypes, KeyboardTypes,
                   VoiceTypes, AnswerTypes, OutsideTypes DEF Next
<1>2. QED BY <1>1, InitTypes, PTL DEF Spec

-----------------------------------------------------------------------------
(* What the handlers make of a sound tab.                                  *)

\* The bar of t fades out in h: what is typed is put back, the voice is
\* stopped, and an insert loses its placeholder.
Hidden(h, t) ==
  /\ h.st = t.st /\ h.pick = t.pick /\ h.insert = t.insert
  /\ h.kind = "replace" /\ h.sel = t.sel /\ h.overlay = t.overlay
  /\ h.placeholder => t.placeholder /\ t.kind # "insert"
  /\ h.bar = t.bar /\ h.dim = TRUE /\ h.badge = t.badge
  /\ h.rows = FALSE /\ h.draft = FALSE
  /\ h.text = IF t.st = "EDITING" /\ t.rows /\ t.draft THEN t.orig ELSE t.text
  /\ h.orig = t.orig /\ h.saved = t.saved /\ h.session = t.session
  /\ h.arrived = t.arrived /\ h.watched = t.watched /\ h.held = t.held
  /\ h.voice = "off" /\ h.applying = t.applying

\* HideBar does that.
LEMMA HideBarDoes == ASSUME NEW t \in Tabs PROVE Hidden(HideBar(t), t)
<1> DEFINE s == StopVoice(t)
           quiet == IF t.kind = "insert" THEN ClearInsertPicking(s) ELSE s
           faded == [quiet EXCEPT !.dim = TRUE, !.picker = FALSE, !.tune = FALSE]
           left == IF t.st = "EDITING" THEN RestoreDrafts(faded) ELSE faded
           h == HideBar(t)
<1>1. /\ quiet.st = t.st /\ quiet.pick = t.pick /\ quiet.insert = t.insert
      /\ quiet.kind = "replace" /\ quiet.sel = t.sel
      /\ quiet.placeholder => t.placeholder /\ t.kind # "insert"
      /\ quiet.overlay = t.overlay /\ quiet.bar = t.bar
      /\ quiet.badge = t.badge /\ quiet.rows = t.rows /\ quiet.draft = t.draft
      /\ quiet.text = t.text /\ quiet.orig = t.orig /\ quiet.saved = t.saved
      /\ quiet.session = t.session /\ quiet.arrived = t.arrived
      /\ quiet.watched = t.watched /\ quiet.held = t.held
      /\ quiet.voice = "off" /\ quiet.applying = t.applying
      <2>1. CASE t.kind = "insert"
            BY <2>1 DEF ClearInsertPicking, FinalizeInsert, StopVoice, Tabs
      <2>2. CASE t.kind # "insert"
            BY <2>2 DEF StopVoice, Tabs
      <2>3. QED BY <2>1, <2>2
<1>2. quiet \in Tabs
      BY HelperTypes
<1> HIDE DEF quiet
<1>3. /\ left.st = quiet.st /\ left.pick = quiet.pick
      /\ left.insert = quiet.insert /\ left.kind = quiet.kind
      /\ left.sel = quiet.sel /\ left.placeholder = quiet.placeholder
      /\ left.overlay = quiet.overlay /\ left.bar = quiet.bar
      /\ left.dim = TRUE /\ left.badge = quiet.badge
      /\ left.text = IF t.st = "EDITING" /\ quiet.rows /\ quiet.draft
                     THEN quiet.orig ELSE quiet.text
      /\ left.orig = quiet.orig /\ left.saved = quiet.saved
      /\ left.session = quiet.session /\ left.arrived = quiet.arrived
      /\ left.watched = quiet.watched /\ left.held = quiet.held
      /\ left.voice = quiet.voice /\ left.applying = quiet.applying
      BY <1>2 DEF RestoreDrafts, Tabs
<1>4. left \in Tabs
      <2>1. faded \in Tabs
            BY <1>2 DEF Tabs
      <2> HIDE DEF faded
      <2>2. QED BY <2>1, HelperTypes
<1>5. h = DisableEdit(left)
      BY DEF HideBar, quiet
<1> HIDE DEF left, h
<1>6. /\ h.st = left.st /\ h.pick = left.pick /\ h.insert = left.insert
      /\ h.kind = left.kind /\ h.sel = left.sel
      /\ h.placeholder = left.placeholder /\ h.overlay = left.overlay
      /\ h.bar = left.bar /\ h.dim = left.dim /\ h.badge = left.badge
      /\ h.rows = FALSE /\ h.draft = FALSE /\ h.text = left.text
      /\ h.orig = left.orig /\ h.saved = left.saved
      /\ h.session = left.session /\ h.arrived = left.arrived
      /\ h.watched = left.watched /\ h.held = left.held
      /\ h.voice = left.voice /\ h.applying = left.applying
      BY <1>4, <1>5 DEF DisableEdit, Tabs
<1>7. Hidden(h, t)
      BY <1>1, <1>3, <1>6 DEF Hidden
<1>8. QED BY <1>7 DEF h

\* More excuses excuse no less.
LEMMA SoundIsMonotone ==
  ASSUME NEW t, NEW ins, NEW pg, NEW X, NEW Y, Sound(t, ins, pg, X), X \subseteq Y
  PROVE  Sound(t, ins, pg, Y)
<1>1. \A S : Without(S, Y) => Without(S, X)
      BY DEF Without
<1>2. Copied(t, Y) /\ Badged(t, Y)
      BY <1>1 DEF Sound, Copied, Badged
<1>3. Placed(t, ins, pg, Y)
      BY <1>1 DEF Sound, Placed
<1>4. Held(t, Y)
      BY <1>1 DEF Sound, Held
<1>5. Barred(t, Y)
      BY <1>1 DEF Sound, Barred
<1>6. Overlaid(t, Y)
      BY <1>1 DEF Sound, Overlaid
<1>7. QED BY <1>2, <1>3, <1>4, <1>5, <1>6 DEF Sound

\* Out of the configuration of an insert.
LEMMA CancelInsertIsSound ==
  ASSUME NEW t \in Tabs, NEW ins, NEW pg, NEW X, Sound(t, ins, pg, X),
         t.st = "CONFIGURING"
  PROVE  Sound(CancelInsert(t), ins, pg, X)
<1> DEFINE h == HideBar(t)
           u == CancelInsert(t)
<1>1. h \in Tabs /\ Hidden(h, t)
      BY HideBarType, HideBarDoes
<1>2. /\ u.st \in {"PICKING", "IDLE"} /\ u.kind = "replace" /\ ~u.sel
      /\ ~u.overlay /\ ~u.placeholder /\ u.badge = h.badge /\ u.rows = h.rows
      /\ u.text = h.text /\ u.saved = h.saved /\ u.session = h.session
      /\ u.watched = h.watched /\ u.held = h.held /\ u.voice = h.voice
      BY <1>1 DEF CancelInsert, ClearInsertPicking, FinalizeInsert, ClearNotes,
                  HideOverlay, Tabs
<1> HIDE DEF u, h
<1>3. /\ u.st \in {"PICKING", "IDLE"} /\ u.kind = "replace"
      /\ ~u.overlay /\ ~u.placeholder /\ u.rows = FALSE /\ u.text = t.text
      /\ u.saved = t.saved /\ u.watched = t.watched /\ u.held = t.held
      /\ u.voice = "off"
      BY <1>1, <1>2 DEF Hidden
<1>4. Shaped(u)
      BY <1>3 DEF Shaped
<1>5. Copied(u, X)
      BY <1>3 DEF Sound, Copied
<1>6. Badged(u, X) /\ Placed(u, ins, pg, X)
      BY <1>3 DEF Badged, Placed
<1>7. Held(u, X)
      BY <1>3 DEF Sound, Held, Session
<1>8. Barred(u, X) /\ Overlaid(u, X)
      BY <1>3 DEF Barred, Overlaid, Session
<1>9. QED BY <1>4, <1>5, <1>6, <1>7, <1>8 DEF Sound, u

\* Fields that no property speaks of may change, a badge but the editor's, and
\* a voice may stop, or start where it finds a row to speak to.
Alike(u, t) ==
  /\ u.st = t.st /\ u.kind = t.kind /\ u.overlay = t.overlay
  /\ t.sel => u.sel
  /\ u.placeholder = t.placeholder /\ u.bar = t.bar /\ u.dim = t.dim
  /\ u.badge = t.badge \/ t.st # "EDITING"
  /\ u.rows = t.rows /\ u.draft = t.draft
  /\ u.text = t.text /\ u.orig = t.orig /\ u.saved = t.saved
  /\ u.session = t.session /\ u.arrived = t.arrived
  /\ u.watched = t.watched /\ u.held = t.held
  /\ u.voice = "go" => \/ t.voice = "go"
                       \/ t.kind = "replace" /\ t.st = "CONFIGURING"

\* A tab that differs in nothing the invariant reads is as sound.
LEMMA AlikeIsSound ==
  ASSUME NEW t, NEW u, NEW ins, NEW pg, NEW X, Sound(t, ins, pg, X), Alike(u, t)
  PROVE  Sound(u, ins, pg, X)
<1>1. Shaped(u)
      BY DEF Sound, Shaped, Alike
<1>2. Copied(u, X) /\ Badged(u, X)
      BY DEF Sound, Copied, Badged, Alike
<1>3. Placed(u, ins, pg, X)
      BY DEF Sound, Placed, Alike
<1>4. Held(u, X)
      BY DEF Sound, Held, Alike
<1>5. Barred(u, X)
      BY DEF Sound, Barred, Alike
<1>6. Overlaid(u, X)
      BY DEF Sound, Overlaid, Alike
<1>7. QED BY <1>1, <1>2, <1>3, <1>4, <1>5, <1>6 DEF Sound

\* An element, or the placeholder of an insert, is configured.
Configured(u, t) ==
  /\ u.st = "CONFIGURING" /\ u.kind = t.kind /\ u.sel /\ u.overlay
  /\ u.placeholder = t.placeholder
  /\ u.bar = IF t.kind = "insert" THEN "insert" ELSE "configure"
  /\ ~u.dim /\ u.rows = t.rows /\ u.draft = t.draft /\ u.text = t.text
  /\ u.orig = t.orig /\ u.saved = t.saved /\ u.watched = t.watched
  /\ u.held = t.held /\ u.session = t.session /\ u.voice = t.voice

\* Configure does that.
LEMMA ConfigureDoes ==
  ASSUME NEW t \in Tabs, NEW m \in Badges
  PROVE  Configured(Configure(t, m), t)
BY DEF Configure, Configured, Badge, ShowBar, ShowOverlay, ClearNotes, Row, Tabs

\* Configuring leaves a sound tab sound, whatever the badge.
LEMMA ConfigureIsSound ==
  ASSUME NEW t \in Tabs, NEW ins, NEW pg, NEW X, Sound(t, ins, pg, X),
         t.st \in {"PICKING", "CONFIGURING"}, NEW m \in Badges
  PROVE  Sound(Configure(t, m), ins, pg, X)
<1> DEFINE u == Configure(t, m)
<1>1. Configured(u, t)
      BY ConfigureDoes
<1> HIDE DEF u
<1>2. Shaped(u)
      BY <1>1 DEF Configured, Sound, Shaped
<1>3. Copied(u, X)
      BY <1>1 DEF Configured, Sound, Copied
<1>4. Badged(u, X)
      BY <1>1 DEF Configured, Sound, Badged
<1>5. Placed(u, ins, pg, X)
      BY <1>1 DEF Configured, Sound, Placed, Shaped
<1>6. Held(u, X)
      BY <1>1 DEF Configured, Sound, Held, Session
<1>7. Barred(u, X)
      BY <1>1 DEF Configured, Sound, Barred, Session
<1>8. Overlaid(u, X)
      BY <1>1 DEF Configured, Sound, Overlaid
<1>9. QED BY <1>2, <1>3, <1>4, <1>5, <1>6, <1>7, <1>8 DEF Configured, Sound, u

\* So does putting a placeholder on the page and configuring it.
LEMMA PlacedIsSound ==
  ASSUME NEW t \in Tabs, NEW ins, NEW pg, NEW X, Sound(t, ins, pg, X),
         t.st = "PICKING", NEW m \in Badges
  PROVE  Sound(Configure([t EXCEPT !.edge = FALSE, !.placeholder = TRUE,
                                   !.kind = "insert"], m), ins, pg, X)
<1> DEFINE v == [t EXCEPT !.edge = FALSE, !.placeholder = TRUE, !.kind = "insert"]
           u == Configure(v, m)
<1>1. /\ v \in Tabs /\ v.kind = "insert" /\ v.rows = t.rows /\ v.draft = t.draft
      /\ v.text = t.text /\ v.orig = t.orig /\ v.saved = t.saved
      /\ v.watched = t.watched /\ v.held = t.held /\ v.session = t.session
      /\ v.voice = t.voice
      BY DEF Tabs
<1> HIDE DEF v
<1>2. Configured(u, v)
      BY <1>1, ConfigureDoes
<1> HIDE DEF u
<1>3. Shaped(u)
      BY <1>1, <1>2 DEF Configured, Sound, Shaped
<1>4. Copied(u, X)
      BY <1>1, <1>2 DEF Configured, Sound, Copied
<1>5. Badged(u, X)
      BY <1>1, <1>2 DEF Configured, Sound, Badged
<1>6. Placed(u, ins, pg, X)
      BY <1>1, <1>2 DEF Configured, Sound, Placed, Shaped
<1>7. Held(u, X)
      BY <1>1, <1>2 DEF Configured, Sound, Held, Session
<1>8. Barred(u, X)
      BY <1>1, <1>2 DEF Configured, Sound, Barred, Session
<1>9. Overlaid(u, X)
      BY <1>1, <1>2 DEF Configured, Sound, Overlaid
<1>10. QED BY <1>3, <1>4, <1>5, <1>6, <1>7, <1>8, <1>9 DEF Sound, u, v

\* An editor that is not open is shut.
LEMMA DisableEditIsSound ==
  ASSUME NEW t \in Tabs, NEW ins, NEW pg, NEW X, Sound(t, ins, pg, X),
         t.st # "EDITING"
  PROVE  Sound(DisableEdit(t), ins, pg, X)
<1> DEFINE u == DisableEdit(t)
<1>1. /\ u.st = t.st /\ u.kind = t.kind /\ u.sel = t.sel /\ u.overlay = t.overlay
      /\ u.placeholder = t.placeholder /\ u.bar = t.bar /\ u.dim = t.dim
      /\ u.badge = t.badge /\ u.rows = FALSE
      /\ u.text = t.text /\ u.saved = t.saved
      /\ u.session = t.session /\ u.arrived = t.arrived
      /\ u.watched = t.watched /\ u.held = t.held /\ u.voice = t.voice
      BY DEF DisableEdit, Tabs
<1> HIDE DEF u
<1>2. Shaped(u)
      BY <1>1 DEF Sound, Shaped
<1>3. Copied(u, X)
      BY <1>1 DEF Sound, Copied
<1>4. Badged(u, X)
      BY <1>1 DEF Sound, Badged
<1>5. Placed(u, ins, pg, X)
      BY <1>1 DEF Sound, Placed, Shaped
<1>6. Held(u, X)
      BY <1>1 DEF Sound, Held, Session
<1>7. Barred(u, X)
      BY <1>1 DEF Sound, Barred, Session
<1>8. Overlaid(u, X)
      BY <1>1 DEF Sound, Overlaid
<1>9. QED BY <1>2, <1>3, <1>4, <1>5, <1>6, <1>7, <1>8 DEF Sound, u

\* Out of the editor, whose text is put back.
LEMMA CancelEditingIsSound ==
  ASSUME NEW t \in Tabs, NEW ins, NEW pg, NEW X, Sound(t, ins, pg, X),
         t.st = "EDITING" \/ "stray edit" \in X
  PROVE  Sound(CancelEditing(t), ins, pg, X)
<1> DEFINE d == DisableEdit(RestoreDrafts([t EXCEPT !.st = "CONFIGURING"]))
           u == CancelEditing(t)
<1>1. /\ d.st = "CONFIGURING" /\ d.kind = t.kind /\ d.sel = t.sel
      /\ d.overlay = t.overlay /\ d.placeholder = t.placeholder
      /\ d.rows = FALSE
      /\ d.text = IF t.rows /\ t.draft THEN t.orig ELSE t.text
      /\ d.saved = t.saved /\ d.session = t.session
      /\ d.watched = t.watched /\ d.held = t.held /\ d.voice = t.voice
      BY DEF RestoreDrafts, DisableEdit, Tabs
<1>2. d \in Tabs
      BY HelperTypes DEF States
<1>3. u = Badge(ShowOverlay(ShowBar(d, "configure")), "idle")
      BY DEF CancelEditing
<1> HIDE DEF d, u
<1>4. /\ u.st = d.st /\ u.kind = d.kind /\ u.sel = d.sel
      /\ u.overlay => d.sel \/ d.overlay
      /\ u.placeholder = d.placeholder /\ ~u.dim /\ u.rows = d.rows
      /\ u.bar = IF d.kind = "insert" THEN "insert" ELSE "configure"
      /\ u.text = d.text /\ u.saved = d.saved /\ u.session = d.session
      /\ u.watched = d.watched /\ u.held = d.held /\ u.voice = d.voice
      BY <1>2, <1>3 DEF ShowBar, ShowOverlay, Badge, Row, Tabs
<1>5. /\ u.st = "CONFIGURING" /\ u.kind = t.kind /\ u.sel = t.sel
      /\ u.overlay => t.sel \/ t.overlay
      /\ u.placeholder = t.placeholder /\ ~u.dim /\ u.rows = FALSE
      /\ u.bar = IF t.kind = "insert" THEN "insert" ELSE "configure"
      /\ u.text = IF t.rows /\ t.draft THEN t.orig ELSE t.text
      /\ u.saved = t.saved /\ u.session = t.session
      /\ u.watched = t.watched /\ u.held = t.held /\ u.voice = t.voice
      BY <1>1, <1>4
<1>6. Shaped(u)
      BY <1>5 DEF Sound, Shaped
<1>7. Copied(u, X)
      BY <1>5 DEF Sound, Copied
<1>8. Badged(u, X)
      BY <1>5 DEF Sound, Badged
<1>9. Placed(u, ins, pg, X)
      BY <1>5 DEF Sound, Placed, Shaped
<1>10. Held(u, X)
      BY <1>5 DEF Sound, Held, Session, Without
<1>11. Barred(u, X)
      BY <1>5 DEF Sound, Barred, Session
<1>12. Overlaid(u, X)
      BY <1>5 DEF Sound, Overlaid
<1>13. QED BY <1>6, <1>7, <1>8, <1>9, <1>10, <1>11, <1>12 DEF Sound, u

\* Back to picking from the configuration or the editor.
LEMMA BackToPickingIsSound ==
  ASSUME NEW t \in Tabs, NEW ins, NEW pg, NEW X, Sound(t, ins, pg, X),
         t.st \in {"CONFIGURING", "EDITING"}
  PROVE  Sound(BackToPicking(t), ins, pg, X)
<1> DEFINE h == HideBar(t)
           u == BackToPicking(t)
<1>1. h \in Tabs /\ Hidden(h, t)
      BY HideBarType, HideBarDoes
<1>2. /\ u.st = "PICKING" /\ u.kind = h.kind /\ ~u.overlay
      /\ u.placeholder = h.placeholder /\ u.rows = h.rows /\ u.text = h.text
      /\ u.saved = h.saved /\ u.watched = h.watched /\ u.held = h.held
      /\ u.voice = h.voice
      BY <1>1 DEF BackToPicking, Badge, ClearNotes, HideOverlay, Tabs
<1> HIDE DEF u, h
<1>3. /\ u.st = "PICKING" /\ u.kind = "replace" /\ ~u.overlay
      /\ u.placeholder => t.placeholder /\ t.kind # "insert"
      /\ u.rows = FALSE
      /\ u.text = IF t.st = "EDITING" /\ t.rows /\ t.draft THEN t.orig ELSE t.text
      /\ u.saved = t.saved /\ u.watched = t.watched /\ u.held = t.held
      /\ u.voice = "off"
      BY <1>1, <1>2 DEF Hidden
<1>4. Shaped(u)
      BY <1>3 DEF Sound, Shaped
<1>5. Copied(u, X)
      BY <1>3 DEF Sound, Copied
<1>6. Badged(u, X)
      BY <1>3 DEF Sound, Badged
<1>7. Placed(u, ins, pg, X)
      BY <1>3 DEF Sound, Placed, Shaped
<1>8. Held(u, X)
      BY <1>3 DEF Sound, Held, Session
<1>9. Barred(u, X)
      BY <1>3 DEF Sound, Barred, Session
<1>10. Overlaid(u, X)
      BY <1>3 DEF Sound, Overlaid
<1>11. QED BY <1>4, <1>5, <1>6, <1>7, <1>8, <1>9, <1>10 DEF Sound, u

\* Out of the input of the row, whose overlay may stay.
LEMMA LeaveInputIsSound ==
  ASSUME NEW t \in Tabs, NEW ins, NEW pg, NEW X, Sound(t, ins, pg, X),
         t.st \in {"CONFIGURING", "PICKING", "IDLE"},
         t.overlay => "picker" \in X
  PROVE  Sound(LeaveInput(t), ins, pg, X)
<1> DEFINE d == DisableEdit(t)
           h == HideBar(d)
           u == LeaveInput(t)
<1>1. d \in Tabs /\ Sound(d, ins, pg, X)
      BY HelperTypes, DisableEditIsSound
<1>2. d.st = t.st /\ d.overlay = t.overlay
      BY DEF DisableEdit, Tabs
<1> HIDE DEF d
<1>3. h \in Tabs /\ Hidden(h, d)
      BY <1>1, HideBarType, HideBarDoes
<1>4. /\ u.st = "PICKING" /\ u.kind = h.kind /\ u.overlay = h.overlay
      /\ u.placeholder = h.placeholder /\ u.rows = h.rows /\ u.text = h.text
      /\ u.saved = h.saved /\ u.watched = h.watched /\ u.held = h.held
      /\ u.voice = h.voice
      BY <1>3 DEF LeaveInput, Badge, Tabs, d
<1> HIDE DEF u, h
<1>5. /\ u.st = "PICKING" /\ u.kind = "replace" /\ u.overlay = t.overlay
      /\ u.placeholder => d.placeholder /\ d.kind # "insert"
      /\ u.rows = FALSE /\ u.text = d.text /\ u.saved = d.saved
      /\ u.watched = d.watched /\ u.held = d.held /\ u.voice = "off"
      BY <1>2, <1>3, <1>4 DEF Hidden
<1>6. Shaped(u)
      BY <1>5 DEF Shaped
<1>7. Copied(u, X)
      BY <1>1, <1>2, <1>5 DEF Sound, Copied
<1>8. Badged(u, X)
      BY <1>5 DEF Badged
<1>9. Placed(u, ins, pg, X)
      BY <1>1, <1>5 DEF Sound, Placed
<1>10. Held(u, X)
      BY <1>1, <1>2, <1>5 DEF Sound, Held, Session
<1>11. Barred(u, X)
      BY <1>5 DEF Barred, Session
<1>12. Overlaid(u, X)
      BY <1>5 DEF Overlaid, Without
<1>13. QED BY <1>6, <1>7, <1>8, <1>9, <1>10, <1>11, <1>12 DEF Sound, u

\* The end of a session, which an answer that is late may bring at any time.
LEMMA EndSessionIsSound ==
  ASSUME NEW t \in Tabs, NEW ins, NEW pg, NEW X, Sound(t, ins, pg, X),
         t.st \in Session \/ "late answer" \in X, NEW pg2
  PROVE  /\ Sound(CleanUp(t), ins, pg2, X) /\ Sound(CleanUpAccepted(t), ins, pg2, X)
<1> DEFINE h == HideBar(t)
           e == EndSession(t)
<1>1. h \in Tabs /\ Hidden(h, t)
      BY HideBarType, HideBarDoes
<1>2. /\ e.st = "PICKING" /\ e.kind = h.kind /\ e.overlay = h.overlay
      /\ e.placeholder = h.placeholder /\ e.rows = h.rows /\ e.text = h.text
      /\ e.saved = h.saved /\ e.watched = 0 /\ e.held = FALSE
      /\ e.voice = h.voice
      BY <1>1 DEF EndSession, Badge, Tabs
<1>3. e \in Tabs
      BY HandlerTypes
<1> HIDE DEF e, h
<1>4. /\ e.st = "PICKING" /\ e.kind = "replace" /\ e.overlay = t.overlay
      /\ e.placeholder => t.placeholder /\ t.kind # "insert"
      /\ e.rows = FALSE
      /\ e.text = IF t.st = "EDITING" /\ t.rows /\ t.draft THEN t.orig ELSE t.text
      /\ e.saved = t.saved /\ e.watched = 0 /\ e.held = FALSE /\ e.voice = "off"
      BY <1>1, <1>2 DEF Hidden
<1>5. ASSUME NEW u, u \in {CleanUp(t), CleanUpAccepted(t)}
      PROVE  /\ u.st = e.st /\ u.kind = "replace" /\ u.overlay = e.overlay
             /\ u.placeholder => e.placeholder
             /\ u.rows = e.rows /\ u.text = e.text /\ u.saved = e.saved
             /\ u.watched = e.watched /\ u.held = e.held /\ u.voice = e.voice
      <2>1. CASE u = CleanUp(t)
            BY <1>3, <1>4, <2>1 DEF CleanUp, FinalizeInsert, Tabs, e
      <2>2. CASE u = CleanUpAccepted(t)
            BY <1>3, <1>4, <2>2 DEF CleanUpAccepted, Tabs, e
      <2>3. QED BY <1>5, <2>1, <2>2
<1>6. ASSUME NEW u, u \in {CleanUp(t), CleanUpAccepted(t)}
      PROVE  Sound(u, ins, pg2, X)
      <2>1. /\ u.st = "PICKING" /\ u.kind = "replace" /\ u.overlay = t.overlay
            /\ u.placeholder => t.placeholder /\ t.kind # "insert"
            /\ u.rows = FALSE /\ u.saved = t.saved
            /\ u.text = IF t.st = "EDITING" /\ t.rows /\ t.draft THEN t.orig
                        ELSE t.text
            /\ u.watched = 0 /\ u.held = FALSE /\ u.voice = "off"
            BY <1>4, <1>5, <1>6
      <2>2. Shaped(u)
            BY <2>1 DEF Shaped
      <2>3. Copied(u, X)
            BY <2>1 DEF Sound, Copied
      <2>4. Badged(u, X) /\ Held(u, X) /\ Barred(u, X)
            BY <2>1 DEF Badged, Held, Barred, Session
      <2>5. Placed(u, ins, pg2, X)
            BY <2>1 DEF Sound, Placed
      <2>6. Overlaid(u, X)
            BY <2>1 DEF Sound, Overlaid, Without, Missed, Overtaken, Session
      <2>7. QED BY <2>2, <2>3, <2>4, <2>5, <2>6 DEF Sound
<1>7. QED BY <1>6

\* Fewer excuses.
LEMMA WithoutFacts ==
  /\ \A X, S : Without(S \cup Missed, X) => Without(Missed, X)
  /\ \A X : Without(Overtaken, X) => Without(Missed, X)
BY DEF Without, Missed

\* The variants are shown.
LEMMA CyclingIsSound ==
  ASSUME NEW t \in Tabs, NEW ins, NEW pg, NEW X, Sound(t, ins, pg, X),
         t.st \in {"GENERATING", "CYCLING"} \/ ~Without(Missed, X), NEW pg2,
         NEW u \in {Cycling(t), FinalizeInsert(Cycling(t))},
         u.placeholder => ~Without(Missed, X)
  PROVE  Sound(u, ins, pg2, X)
<1> DEFINE c == Cycling(t)
<1>1. /\ c.st = "CYCLING" /\ c.kind = t.kind /\ c.overlay = t.overlay
      /\ c.bar = IF t.bar = "none" THEN "none" ELSE "cycling"
      /\ c.dim = t.dim /\ c.rows = FALSE /\ c.text = t.text
      /\ c.saved = t.saved /\ c.session = t.session /\ c.watched = t.watched
      /\ c.held = t.held /\ c.voice = t.voice
      BY DEF Cycling, UpdateBar, DisableEdit, Row, Tabs
<1>2. c \in Tabs
      BY HandlerTypes
<1>3. u \in {c, FinalizeInsert(c)}
      OBVIOUS
<1> HIDE DEF c
<1>4. /\ u.st = "CYCLING" /\ u.kind \in {t.kind, "replace"} /\ u.overlay = t.overlay
      /\ u.bar = IF t.bar = "none" THEN "none" ELSE "cycling"
      /\ u.dim = t.dim /\ u.rows = FALSE /\ u.text = t.text
      /\ u.saved = t.saved /\ u.session = t.session /\ u.watched = t.watched
      /\ u.held = t.held /\ u.voice = t.voice
      <2>1. CASE u = c
            BY <1>1, <2>1
      <2>2. CASE u = FinalizeInsert(c)
            BY <1>1, <1>2, <2>2 DEF FinalizeInsert, Tabs
      <2>3. QED BY <1>3, <2>1, <2>2
<1>5. Shaped(u)
      BY <1>4, WithoutFacts DEF Sound, Shaped
<1>6. Copied(u, X)
      BY <1>4, WithoutFacts DEF Sound, Copied
<1>7. Badged(u, X)
      BY <1>4, WithoutFacts DEF Sound, Badged
<1>8. Placed(u, ins, pg2, X)
      BY <1>4, WithoutFacts DEF Sound, Placed, Shaped
<1>9. Held(u, X)
      BY <1>4, WithoutFacts DEF Sound, Held, Session
<1>10. Barred(u, X)
      BY <1>4, WithoutFacts DEF Sound, Barred, Session
<1>11. Overlaid(u, X)
      BY <1>4, WithoutFacts DEF Sound, Overlaid
<1>12. QED BY <1>5, <1>6, <1>7, <1>8, <1>9, <1>10, <1>11 DEF Sound

\* The controls are redrawn as an Apply starts or ends.
Refreshed(u, t) ==
  /\ u.st = t.st /\ u.kind = t.kind /\ u.sel = t.sel /\ u.overlay = t.overlay
  /\ u.placeholder = t.placeholder /\ u.dim = t.dim /\ u.rows = t.rows
  /\ u.draft = t.draft /\ u.text = t.text /\ u.orig = t.orig
  /\ u.saved = t.saved /\ u.session = t.session /\ u.arrived = t.arrived
  /\ u.watched = t.watched /\ u.held = t.held /\ u.voice = t.voice
  /\ u.bar = IF t.st # "CONFIGURING" \/ t.bar = "none" THEN t.bar
             ELSE IF t.kind = "insert" THEN "insert" ELSE "configure"
  /\ t.st = "EDITING" => u.badge = t.badge \/ t.applying

\* Refresh does that.
LEMMA RefreshDoes == ASSUME NEW t \in Tabs PROVE Refreshed(Refresh(t), t)
<1>1. CASE t.st = "CONFIGURING"
      BY <1>1 DEF Refresh, Refreshed, UpdateBar, Row, Badge, Tabs
<1>2. CASE t.st # "CONFIGURING"
      BY <1>2 DEF Refresh, Refreshed, Badge, Tabs
<1>3. QED BY <1>1, <1>2

\* It takes the badge from an editor only with the excuse of an Apply.
LEMMA RefreshIsSound ==
  ASSUME NEW t \in Tabs, NEW ins, NEW pg, NEW X, Sound(t, ins, pg, X),
         t.st = "EDITING" /\ t.applying => "apply" \in X
  PROVE  Sound(Refresh(t), ins, pg, X)
<1> DEFINE u == Refresh(t)
<1>1. Refreshed(u, t)
      BY RefreshDoes
<1> HIDE DEF u
<1>2. Shaped(u)
      BY <1>1 DEF Refreshed, Sound, Shaped
<1>3. Copied(u, X)
      BY <1>1 DEF Refreshed, Sound, Copied
<1>4. Badged(u, X)
      BY <1>1 DEF Refreshed, Sound, Badged
<1>5. Placed(u, ins, pg, X)
      BY <1>1 DEF Refreshed, Sound, Placed, Shaped
<1>6. Held(u, X)
      BY <1>1 DEF Refreshed, Sound, Held, Session
<1>7. Barred(u, X)
      BY <1>1 DEF Refreshed, Sound, Barred, Session
<1>8. Overlaid(u, X)
      BY <1>1 DEF Refreshed, Sound, Overlaid
<1>9. QED BY <1>2, <1>3, <1>4, <1>5, <1>6, <1>7, <1>8 DEF Sound, u

\* A mode of the global bar is left: the bar fades out and the selection goes.
Switched(v, t) ==
  /\ \/ v.st = t.st
     \/ t.st \in {"IDLE", "PICKING", "CONFIGURING"} /\ v.st \in {"IDLE", "PICKING"}
  /\ v.kind = "replace"
  /\ v.overlay => t.overlay
  /\ v.placeholder => t.placeholder /\ t.kind # "insert"
  /\ v.bar = t.bar /\ v.dim = TRUE /\ v.badge = t.badge /\ v.rows = FALSE
  /\ v.text = IF t.st = "EDITING" /\ t.rows /\ t.draft THEN t.orig ELSE t.text
  /\ v.saved = t.saved /\ v.session = t.session /\ v.arrived = t.arrived
  /\ v.watched = t.watched /\ v.held = t.held /\ v.voice = "off"

\* Outside picking that takes a toggle, which is an excuse.
LEMMA SwitchedIsSound ==
  ASSUME NEW t \in Tabs, NEW v \in Tabs, NEW ins, NEW pg, NEW X,
         Sound(t, ins, pg, X),
         t.st \in {"IDLE", "PICKING"} \/ "toggle" \in X, Switched(v, t)
  PROVE  Sound(v, ins, pg, X)
<1>1. "toggle" \in X => /\ ~Without({"fade", "toggle", "lost"} \cup Missed, X)
                        /\ ~Without({"toggle", "picker", "error"} \cup Missed, X)
      BY DEF Without
<1>2. Shaped(v)
      BY DEF Switched, Sound, Shaped
<1>3. Copied(v, X)
      BY DEF Switched, Sound, Copied
<1>4. Badged(v, X)
      BY DEF Switched, Sound, Badged
<1>5. Placed(v, ins, pg, X)
      <2>1. ASSUME Without(Missed, X), v.placeholder PROVE FALSE
            BY <2>1 DEF Switched, Sound, Placed
      <2>2. QED BY <2>1 DEF Placed
<1>6. Held(v, X)
      BY DEF Switched, Sound, Held, Session
<1>7. Barred(v, X)
      <2>1. CASE "toggle" \in X
            BY <1>1, <2>1 DEF Barred
      <2>2. CASE t.st \in {"IDLE", "PICKING"}
            <3>1. v.st \notin Session \cup {"CONFIGURING"}
                  BY <2>2 DEF Switched, Session
            <3>2. QED BY <3>1 DEF Barred
      <2>3. QED BY <2>1, <2>2
<1>8. Overlaid(v, X)
      <2>1. CASE "toggle" \in X
            BY <1>1, <2>1 DEF Overlaid
      <2>2. CASE t.st \in {"IDLE", "PICKING"}
            BY <2>2 DEF Switched, Sound, Overlaid
      <2>3. QED BY <2>1, <2>2
<1>9. QED BY <1>2, <1>3, <1>4, <1>5, <1>6, <1>7, <1>8 DEF Sound

\* Inserting ends: the placeholder goes, and the pick mode goes on or not.
LEMMA InsertModeOffIsSound ==
  ASSUME NEW t, NEW u, NEW ins, NEW pg, NEW X, Sound(t, ins, pg, X),
         u.st = t.st \/ {u.st, t.st} \subseteq {"IDLE", "PICKING"},
         u.kind = "replace", u.sel = t.sel, u.overlay = t.overlay, ~u.placeholder,
         u.bar = t.bar, u.dim = t.dim, u.badge = t.badge, u.rows = t.rows,
         u.draft = t.draft, u.text = t.text, u.orig = t.orig, u.saved = t.saved,
         u.session = t.session, u.arrived = t.arrived, u.watched = t.watched,
         u.held = t.held, u.voice = t.voice
  PROVE  Sound(u, ins, pg, X)
<1>1. Shaped(u)
      BY DEF Sound, Shaped
<1>2. Copied(u, X) /\ Badged(u, X)
      BY DEF Sound, Copied, Badged
<1>3. Placed(u, ins, pg, X)
      BY DEF Placed
<1>4. Held(u, X)
      BY DEF Sound, Held, Session
<1>5. Barred(u, X)
      BY DEF Sound, Barred, Session
<1>6. Overlaid(u, X)
      BY DEF Sound, Overlaid
<1>7. QED BY <1>1, <1>2, <1>3, <1>4, <1>5, <1>6 DEF Sound

\* The pick and the insert toggle.
LEMMA TogglesAreSound ==
  ASSUME NEW t \in Tabs, NEW ins, NEW pg, NEW X, Sound(t, ins, pg, X),
         t.st \in {"IDLE", "PICKING"} \/ "toggle" \in X
  PROVE  Sound(ToggledPick(t), ins, pg, X) /\ Sound(ToggledInsert(t), ins, pg, X)
<1>1. Sound(ToggledPick(t), ins, pg, X)
      <2> DEFINE off == [t EXCEPT !.pick = FALSE]
                 h == HideBar(off)
                 u == ToggledPick(t)
      <2>1. off \in Tabs /\ Alike(off, t) /\ off.kind = t.kind /\ off.st = t.st
            BY DEF Alike, Tabs
      <2> HIDE DEF off
      <2>2. CASE ~t.pick
            <3>1. /\ u.st = t.st \/ {u.st, t.st} \subseteq {"IDLE", "PICKING"}
                  /\ u.kind = "replace" /\ u.sel = t.sel /\ u.overlay = t.overlay
                  /\ ~u.placeholder /\ u.bar = t.bar /\ u.dim = t.dim
                  /\ u.badge = t.badge /\ u.rows = t.rows /\ u.draft = t.draft
                  /\ u.text = t.text /\ u.orig = t.orig /\ u.saved = t.saved
                  /\ u.session = t.session /\ u.arrived = t.arrived
                  /\ u.watched = t.watched /\ u.held = t.held /\ u.voice = t.voice
                  BY <2>2 DEF ToggledPick, ClearInsertPicking, FinalizeInsert, Tabs
            <3> HIDE DEF u
            <3>2. Sound(u, ins, pg, X)
                  BY <3>1, InsertModeOffIsSound
            <3>3. QED BY <3>2 DEF u
      <2>3. CASE t.pick /\ t.kind = "insert" /\ t.st = "CONFIGURING"
            <3>1. u = CancelInsert(off)
                  BY <2>3 DEF ToggledPick, off
            <3>2. Sound(CancelInsert(off), ins, pg, X)
                  <4>1. Sound(off, ins, pg, X)
                        BY <2>1, AlikeIsSound
                  <4>2. QED BY <2>1, <2>3, <4>1, CancelInsertIsSound
            <3>3. QED BY <3>1, <3>2
      <2>4. CASE t.pick /\ ~(t.kind = "insert" /\ t.st = "CONFIGURING")
            <3>1. h \in Tabs /\ Hidden(h, off)
                  BY <2>1, HideBarType, HideBarDoes
            <3>2. u = [h EXCEPT !.sel = FALSE, !.kind = "replace",
                         !.st = IF @ \in {"PICKING", "CONFIGURING"} THEN "IDLE"
                                ELSE @]
                  BY <2>4 DEF ToggledPick, off
            <3> HIDE DEF h, u
            <3>3. /\ u.st = IF h.st \in {"PICKING", "CONFIGURING"} THEN "IDLE"
                            ELSE h.st
                  /\ u.kind = "replace" /\ u.overlay = h.overlay
                  /\ u.placeholder = h.placeholder /\ u.bar = h.bar
                  /\ u.dim = h.dim /\ u.badge = h.badge /\ u.rows = h.rows
                  /\ u.text = h.text /\ u.saved = h.saved
                  /\ u.session = h.session /\ u.arrived = h.arrived
                  /\ u.watched = h.watched /\ u.held = h.held
                  /\ u.voice = h.voice
                  BY <3>1, <3>2 DEF Tabs
            <3>4. Switched(u, off)
                  BY <3>1, <3>3 DEF Switched, Hidden
            <3>5. Sound(off, ins, pg, X)
                  BY <2>1, AlikeIsSound
            <3>6. u \in Tabs
                  BY HandlerTypes DEF u
            <3>7. Sound(u, ins, pg, X)
                  BY <2>1, <3>4, <3>5, <3>6, SwitchedIsSound
            <3>8. QED BY <3>7 DEF u
      <2>5. QED BY <2>2, <2>3, <2>4
<1>2. Sound(ToggledInsert(t), ins, pg, X)
      <2> DEFINE in == [t EXCEPT !.insert = TRUE, !.pick = FALSE]
                 h == HideBar(in)
                 on == [h EXCEPT !.sel = FALSE, !.kind = "replace"]
                 u == ToggledInsert(t)
      <2>1. in \in Tabs /\ Alike(in, t) /\ in.st = t.st
            <3>1. in \in Tabs
                  BY DEF Tabs
            <3>2. in.sel = t.sel /\ in.voice = t.voice /\ in.badge = t.badge
                  BY DEF Tabs
            <3>3. Alike(in, t) /\ in.st = t.st
                  BY <3>2 DEF Alike, Tabs
            <3>4. QED BY <3>1, <3>3
      <2> HIDE DEF in
      <2>2. CASE t.insert
            <3>1. /\ u.st = t.st \/ {u.st, t.st} \subseteq {"IDLE", "PICKING"}
                  /\ u.kind = "replace" /\ u.sel = t.sel /\ u.overlay = t.overlay
                  /\ ~u.placeholder /\ u.bar = t.bar /\ u.dim = t.dim
                  /\ u.badge = t.badge /\ u.rows = t.rows /\ u.draft = t.draft
                  /\ u.text = t.text /\ u.orig = t.orig /\ u.saved = t.saved
                  /\ u.session = t.session /\ u.arrived = t.arrived
                  /\ u.watched = t.watched /\ u.held = t.held /\ u.voice = t.voice
                  BY <2>2 DEF ToggledInsert, ClearInsertPicking, FinalizeInsert, Tabs
            <3> HIDE DEF u
            <3>2. Sound(u, ins, pg, X)
                  BY <3>1, InsertModeOffIsSound
            <3>3. QED BY <3>2 DEF u
      <2>3. CASE ~t.insert
            <3>1. h \in Tabs /\ Hidden(h, in) /\ Sound(in, ins, pg, X)
                  BY <2>1, HideBarType, HideBarDoes, AlikeIsSound
            <3> HIDE DEF h
            <3>2. /\ on.st = h.st /\ on.kind = "replace" /\ on.overlay = h.overlay
                  /\ on.placeholder = h.placeholder /\ on.bar = h.bar
                  /\ on.dim = h.dim /\ on.badge = h.badge /\ on.rows = h.rows
                  /\ on.text = h.text /\ on.saved = h.saved
                  /\ on.session = h.session /\ on.arrived = h.arrived
                  /\ on.watched = h.watched /\ on.held = h.held
                  /\ on.voice = h.voice
                  BY <3>1 DEF Tabs
            <3>3. on \in Tabs
                  BY <3>1 DEF Tabs
            <3>4. Switched(on, in)
                  BY <3>1, <3>2 DEF Switched, Hidden
            <3>5. /\ t.st = "CONFIGURING" => u = CancelInsert(on)
                  /\ t.st # "CONFIGURING" =>
                       u = [on EXCEPT !.st = IF @ = "IDLE" THEN "PICKING" ELSE @]
                  BY <2>3 DEF ToggledInsert, h, in
            <3> HIDE DEF on, u
            <3>6. CASE t.st = "CONFIGURING"
                  <4>1. Sound(on, ins, pg, X) /\ on.st = "CONFIGURING"
                        <5>1. on.st = "CONFIGURING"
                              BY <2>1, <3>1, <3>2, <3>6 DEF Hidden
                        <5>2. QED BY <2>1, <3>1, <3>3, <3>4, <5>1, SwitchedIsSound
                  <4>2. QED BY <3>3, <3>5, <3>6, <4>1, CancelInsertIsSound DEF u
            <3>7. CASE t.st # "CONFIGURING"
                  <4>1. /\ u.st = IF on.st = "IDLE" THEN "PICKING" ELSE on.st
                        /\ u.kind = on.kind /\ u.overlay = on.overlay
                        /\ u.placeholder = on.placeholder /\ u.bar = on.bar
                        /\ u.dim = on.dim /\ u.badge = on.badge /\ u.rows = on.rows
                        /\ u.text = on.text /\ u.saved = on.saved
                        /\ u.session = on.session /\ u.arrived = on.arrived
                        /\ u.watched = on.watched /\ u.held = on.held
                        /\ u.voice = on.voice
                        BY <3>3, <3>5, <3>7 DEF Tabs
                  <4>2. on.st = in.st
                        BY <3>1, <3>2 DEF Hidden
                  <4>3. Switched(u, in)
                        BY <3>4, <4>1, <4>2 DEF Switched
                  <4>4. u \in Tabs
                        BY HandlerTypes DEF u
                  <4>5. Sound(u, ins, pg, X)
                        BY <2>1, <3>1, <4>3, <4>4, SwitchedIsSound
                  <4>6. QED BY <4>5 DEF u
            <3>8. QED BY <3>6, <3>7
      <2>4. QED BY <2>2, <2>3
<1>3. QED BY <1>1, <1>2

\* The session of the bar is accepted.
LEMMA AcceptedIsSound ==
  ASSUME NEW t \in Tabs, NEW ins, NEW pg, NEW X, Sound(t, ins, pg, X),
         t.st \notin {"CONFIGURING", "GENERATING", "EDITING"},
         t.st \in Session \/ (t.bar # "none" /\ ~t.dim)
  PROVE  Sound(Accepted(t), ins, pg, X)
<1> DEFINE u == Accepted(t)
<1>1. /\ u.st = "SAVING" /\ u.kind = t.kind /\ u.sel = t.sel /\ u.overlay = t.overlay
      /\ u.placeholder = t.placeholder /\ u.dim = t.dim /\ u.rows = t.rows
      /\ u.bar = IF t.bar = "none" THEN "none" ELSE "saving"
      /\ u.draft = t.draft /\ u.text = t.text /\ u.orig = t.orig
      /\ u.saved = t.saved /\ u.session = t.session /\ u.watched = t.watched
      /\ u.held = t.held /\ u.voice = t.voice
      BY DEF Accepted, UpdateBar, Row, Tabs
<1> HIDE DEF u
<1>2. Shaped(u)
      BY <1>1 DEF Sound, Shaped
<1>3. Copied(u, X)
      BY <1>1 DEF Sound, Copied
<1>4. Badged(u, X)
      BY <1>1 DEF Sound, Badged
<1>5. Placed(u, ins, pg, X)
      BY <1>1 DEF Sound, Placed, Shaped
<1>6. Held(u, X)
      BY <1>1 DEF Sound, Held, Session
<1>7. Barred(u, X)
      BY <1>1 DEF Sound, Barred, Session
<1>8. Overlaid(u, X)
      BY <1>1 DEF Sound, Overlaid
<1>9. QED BY <1>2, <1>3, <1>4, <1>5, <1>6, <1>7, <1>8 DEF Sound, u

\* The answer to an accept, or its error: the bar shows where it has got to.
LEMMA AnswerIsSound ==
  ASSUME NEW t \in Tabs, NEW ins, NEW pg, NEW X, Sound(t, ins, pg, X),
         t.st = "SAVING" \/ "late answer" \in X
  PROVE  /\ Sound(UpdateBar([t EXCEPT !.pending = 0, !.st = "CYCLING"], "cycling"),
                  ins, pg, X)
         /\ Sound(UpdateBar([t EXCEPT !.st = "CONFIRMED"], "confirmed"), ins, pg, X)
<1> DEFINE U == {UpdateBar([t EXCEPT !.pending = 0, !.st = "CYCLING"], "cycling"),
                 UpdateBar([t EXCEPT !.st = "CONFIRMED"], "confirmed")}
<1> SUFFICES ASSUME NEW u \in U PROVE Sound(u, ins, pg, X)
    OBVIOUS
<1>1. /\ u.st \in {"CYCLING", "CONFIRMED"} /\ u.kind = t.kind /\ u.sel = t.sel
      /\ u.overlay = t.overlay /\ u.placeholder = t.placeholder /\ u.dim = t.dim
      /\ u.rows = t.rows
      /\ \/ u.bar = "none" /\ t.bar = "none"
         \/ u.bar \in {"cycling", "confirmed"}
      /\ u.draft = t.draft /\ u.text = t.text /\ u.orig = t.orig
      /\ u.saved = t.saved /\ u.session = t.session /\ u.watched = t.watched
      /\ u.held = t.held /\ u.voice = t.voice
      <2>1. CASE u = UpdateBar([t EXCEPT !.pending = 0, !.st = "CYCLING"], "cycling")
            BY <2>1 DEF UpdateBar, Row, Tabs
      <2>2. CASE u = UpdateBar([t EXCEPT !.st = "CONFIRMED"], "confirmed")
            BY <2>2 DEF UpdateBar, Row, Tabs
      <2>3. QED BY <2>1, <2>2
<1> HIDE DEF U
<1>2. "late answer" \in X => /\ ~Without(Overtaken, X) /\ ~Without(Missed, X)
                             /\ ~Without({"fade", "toggle", "lost"} \cup Missed, X)
                             /\ ~Without({"toggle", "picker", "error"} \cup Missed, X)
      BY DEF Without, Missed, Overtaken
<1>3. Shaped(u)
      BY <1>1, <1>2 DEF Sound, Shaped
<1>4. Copied(u, X)
      BY <1>1, <1>2 DEF Sound, Copied
<1>5. Badged(u, X)
      BY <1>1, <1>2 DEF Sound, Badged
<1>6. Placed(u, ins, pg, X)
      BY <1>1, <1>2 DEF Sound, Placed, Shaped
<1>7. Held(u, X)
      BY <1>1, <1>2 DEF Sound, Held, Session
<1>8. Barred(u, X)
      BY <1>1, <1>2 DEF Sound, Barred, Session
<1>9. Overlaid(u, X)
      BY <1>1, <1>2 DEF Sound, Overlaid
<1>10. QED BY <1>3, <1>4, <1>5, <1>6, <1>7, <1>8, <1>9 DEF Sound

\* The editor opens on the element, whatever the badge was drawn for.
LEMMA EditCopyIsSound ==
  ASSUME NEW t \in Tabs, NEW ins, NEW pg, NEW X, Sound(t, ins, pg, X),
         t.st = "CONFIGURING" \/ "stray edit" \in X
  PROVE  Sound(EnableEdit(Badge(HideOverlay(HideBar([t EXCEPT !.st = "EDITING"])),
                                "editing")), ins, pg, X)
<1> DEFINE e == [t EXCEPT !.st = "EDITING"]
           h == HideBar(e)
           u == EnableEdit(Badge(HideOverlay(h), "editing"))
<1>1. /\ e \in Tabs /\ e.st = "EDITING" /\ e.kind = t.kind
      /\ e.placeholder = t.placeholder /\ e.rows = t.rows /\ e.draft = t.draft
      /\ e.text = t.text /\ e.orig = t.orig /\ e.saved = t.saved
      /\ e.watched = t.watched /\ e.held = t.held /\ e.session = t.session
      BY DEF Tabs, States
<1> HIDE DEF e
<1>2. h \in Tabs /\ Hidden(h, e)
      BY <1>1, HideBarType, HideBarDoes
<1> HIDE DEF h
<1>3. /\ u.st = h.st /\ u.kind = h.kind /\ ~u.overlay
      /\ u.placeholder = h.placeholder /\ u.dim = h.dim /\ u.badge = "editing"
      /\ u.rows => u.orig = u.text
      /\ u.text = h.text /\ u.saved = h.saved
      /\ u.watched = h.watched /\ u.held = h.held /\ u.session = h.session
      /\ u.voice = h.voice
      BY <1>2 DEF Hidden, EnableEdit, Badge, HideOverlay, Tabs
<1> HIDE DEF u
<1>4. /\ u.st = "EDITING" /\ u.kind = "replace" /\ ~u.overlay
      /\ u.placeholder => t.placeholder /\ t.kind # "insert"
      /\ u.dim = TRUE /\ u.badge = "editing"
      /\ u.rows => u.orig = u.text
      /\ u.text = IF t.rows /\ t.draft THEN t.orig ELSE t.text
      /\ u.saved = t.saved /\ u.watched = t.watched /\ u.held = t.held
      /\ u.session = t.session /\ u.voice = "off"
      BY <1>1, <1>2, <1>3 DEF Hidden
<1>5. "stray edit" \in X => ~Without({"error", "late save", "stray edit"}, X)
      BY DEF Without
<1>6. Shaped(u)
      BY <1>4, <1>5 DEF Sound, Shaped
<1>7. Copied(u, X)
      BY <1>4, <1>5 DEF Sound, Copied
<1>8. Badged(u, X)
      BY <1>4, <1>5 DEF Sound, Badged
<1>9. Placed(u, ins, pg, X)
      BY <1>4, <1>5 DEF Sound, Placed, Shaped
<1>10. Held(u, X)
      BY <1>4, <1>5 DEF Sound, Held, Session
<1>11. Barred(u, X)
      BY <1>4, <1>5 DEF Sound, Barred, Session
<1>12. Overlaid(u, X)
      BY <1>4, <1>5 DEF Sound, Overlaid
<1>13. QED BY <1>6, <1>7, <1>8, <1>9, <1>10, <1>11, <1>12 DEF Sound, u, h, e

\* The answer to a Save opens the configuration, in whatever state it comes.
LEMMA SaveAnsweredIsSound ==
  ASSUME NEW t \in Tabs, NEW ins, NEW pg, NEW X, Sound(t, ins, pg, X),
         NEW v \in Versions,
         (t.st = "EDITING" /\ t.text = v) \/ "late save" \in X
  PROVE  Sound(Badge(ShowOverlay(ShowBar(DisableEdit(
                 [t EXCEPT !.saved = v, !.st = "CONFIGURING"]), "configure")), "idle"),
               ins, pg, X)
<1> DEFINE d == DisableEdit([t EXCEPT !.saved = v, !.st = "CONFIGURING"])
           u == Badge(ShowOverlay(ShowBar(d, "configure")), "idle")
<1>1. /\ d \in Tabs /\ d.st = "CONFIGURING" /\ d.kind = t.kind /\ d.sel = t.sel
      /\ d.overlay = t.overlay /\ d.placeholder = t.placeholder
      /\ d.rows = FALSE /\ d.text = t.text /\ d.saved = v
      /\ d.session = t.session /\ d.watched = t.watched /\ d.held = t.held
      /\ d.voice = t.voice
      <2>1. [t EXCEPT !.saved = v, !.st = "CONFIGURING"] \in Tabs
            BY DEF Tabs, States
      <2>2. d \in Tabs
            BY <2>1, HelperTypes
      <2>3. QED BY <2>2 DEF DisableEdit, Tabs
<1> HIDE DEF d
<1>2. /\ u.st = d.st /\ u.kind = d.kind /\ u.sel = d.sel
      /\ u.overlay => d.sel \/ d.overlay
      /\ u.placeholder = d.placeholder /\ ~u.dim /\ u.rows = d.rows
      /\ u.bar = IF d.kind = "insert" THEN "insert" ELSE "configure"
      /\ u.text = d.text /\ u.saved = d.saved /\ u.session = d.session
      /\ u.watched = d.watched /\ u.held = d.held /\ u.voice = d.voice
      BY <1>1 DEF ShowBar, ShowOverlay, Badge, Row, Tabs
<1> HIDE DEF u
<1>3. "late save" \in X => /\ ~Without({"error", "late save", "stray edit"}, X)
                           /\ ~Without(Overtaken, X)
      BY DEF Without, Overtaken
<1>4. Shaped(u)
      BY <1>1, <1>2, <1>3 DEF Sound, Shaped
<1>5. Copied(u, X)
      BY <1>1, <1>2, <1>3 DEF Sound, Copied
<1>6. Badged(u, X)
      BY <1>1, <1>2, <1>3 DEF Sound, Badged
<1>7. Placed(u, ins, pg, X)
      BY <1>1, <1>2, <1>3 DEF Sound, Placed, Shaped
<1>8. Held(u, X)
      BY <1>1, <1>2, <1>3 DEF Sound, Held, Session
<1>9. Barred(u, X)
      BY <1>1, <1>2, <1>3 DEF Sound, Barred, Session
<1>10. Overlaid(u, X)
      BY <1>1, <1>2, <1>3 DEF Sound, Overlaid
<1>11. QED BY <1>4, <1>5, <1>6, <1>7, <1>8, <1>9, <1>10 DEF Sound, u, d

\* A session starts from the configuration of an element or a placeholder.
LEMMA LaunchIsSound ==
  ASSUME TypeOK, Generated, NEW t \in Tabs, NEW i \in BOOLEAN,
         Sound(t, given.inserts, page, excused), Launch(t, i),
         t.st = "CONFIGURING", i \/ t.kind = "replace"
  PROVE  IInv'
<1> DEFINE id == given.sessions + 1
           v == [t EXCEPT !.session = id, !.arrived = FALSE, !.watched = id,
                          !.held = TRUE, !.st = "GENERATING"]
           u == ShowBar(ClearNotes(HideOverlay(v)), "generating")
           ins == given'.inserts
<1>1. /\ tab' = u /\ excused' = excused /\ page' = page /\ source' = source
      /\ given'.sessions = id /\ given.inserts \subseteq ins
      /\ i => id \in ins
      /\ page # id
      BY DEF Launch, Step, Within, TypeOK, Generated
<1>2. id \in 1..MaxSessions /\ id \in 0..MaxSessions
      <2>1. /\ given.sessions \in 0..MaxSessions /\ given.sessions < MaxSessions
            /\ MaxSessions \in Nat
            BY BoundAssumption DEF Launch, TypeOK
      <2> HIDE DEF id
      <2>2. id = given.sessions + 1
            BY DEF id
      <2>3. QED BY <2>1, <2>2
<1>3. Generated'
      BY <1>1, <1>2 DEF Generated, TypeOK
<1> HIDE DEF id, ins
<1>0. v \in Tabs
      <2>1. "GENERATING" \in States
            BY DEF States
      <2>2. QED BY <1>2, <2>1 DEF Tabs
<1>4. /\ v.st = "GENERATING" /\ v.session = id /\ v.watched = id
      /\ ~v.arrived /\ v.kind = t.kind /\ v.placeholder = t.placeholder
      /\ v.rows = t.rows /\ v.draft = t.draft /\ v.text = t.text
      /\ v.orig = t.orig /\ v.saved = t.saved /\ v.voice = t.voice
      BY DEF Tabs
<1> HIDE DEF v
<1>5. /\ u.st = v.st /\ u.session = v.session /\ u.watched = v.watched
      /\ u.arrived = v.arrived /\ u.kind = v.kind /\ ~u.overlay
      /\ u.placeholder = v.placeholder /\ u.bar = "generating" /\ ~u.dim
      /\ u.rows = v.rows /\ u.draft = v.draft /\ u.text = v.text
      /\ u.orig = v.orig /\ u.saved = v.saved /\ u.voice = v.voice
      BY <1>0, <1>4 DEF ShowBar, ClearNotes, HideOverlay, Row, Tabs
<1> HIDE DEF u
<1>6. Shaped(u)
      BY <1>4, <1>5 DEF Sound, Shaped
<1>7. Copied(u, excused)
      BY <1>4, <1>5 DEF Sound, Copied
<1>8. Badged(u, excused)
      BY <1>4, <1>5 DEF Sound, Badged
<1>9. Placed(u, ins, page, excused)
      BY <1>1, <1>4, <1>5 DEF Sound, Placed, Shaped
<1>10. Held(u, excused)
      BY <1>4, <1>5 DEF Sound, Held, Session
<1>11. Barred(u, excused)
      BY <1>4, <1>5 DEF Sound, Barred, Session
<1>12. Overlaid(u, excused)
      BY <1>4, <1>5 DEF Sound, Overlaid
<1>13. QED BY <1>1, <1>3, <1>6, <1>7, <1>8, <1>9, <1>10, <1>11, <1>12
           DEF IInv, Sound, ins

\* An error of the agent that is not about an accept.
LEMMA ErrorIsSound ==
  ASSUME NEW t \in Tabs, NEW ins, NEW pg, NEW X, Sound(t, ins, pg, X), "error" \in X
  PROVE  Sound(Badge([HideBar(t) EXCEPT !.st = "PICKING"], "hidden"), ins, pg, X)
<1> DEFINE h == HideBar(t)
           u == Badge([h EXCEPT !.st = "PICKING"], "hidden")
<1>1. h \in Tabs /\ Hidden(h, t)
      BY HideBarType, HideBarDoes
<1> HIDE DEF h
<1>2. /\ u.st = "PICKING" /\ u.kind = h.kind /\ u.placeholder = h.placeholder
      /\ u.rows = h.rows /\ u.text = h.text /\ u.saved = h.saved
      /\ u.voice = h.voice
      BY <1>1 DEF Badge, Tabs
<1> HIDE DEF u
<1>3. /\ u.st = "PICKING" /\ u.kind = "replace" /\ u.voice = "off"
      /\ u.placeholder => t.placeholder /\ t.kind # "insert"
      /\ u.rows = FALSE /\ u.saved = t.saved
      /\ u.text = IF t.st = "EDITING" /\ t.rows /\ t.draft THEN t.orig ELSE t.text
      BY <1>1, <1>2 DEF Hidden
<1>4. /\ ~Without({"error", "late save", "stray edit"}, X)
      /\ ~Without({"toggle", "picker", "error"} \cup Missed, X)
      BY DEF Without
<1>5. Shaped(u)
      BY <1>3 DEF Shaped
<1>6. Copied(u, X)
      BY <1>3 DEF Sound, Copied
<1>7. Badged(u, X) /\ Barred(u, X)
      BY <1>3 DEF Badged, Barred, Session
<1>8. Placed(u, ins, pg, X)
      BY <1>3 DEF Sound, Placed
<1>9. Held(u, X) /\ Overlaid(u, X)
      BY <1>4 DEF Held, Overlaid
<1>10. QED BY <1>5, <1>6, <1>7, <1>8, <1>9 DEF Sound, u, h

\* The server is lost: the session, if any, stays in the tab without its bar.
LEMMA LostIsSound ==
  ASSUME NEW t \in Tabs, NEW ins, NEW pg, NEW X, Sound(t, ins, pg, X), "lost" \in X
  PROVE  Sound(HideOverlay([HideBar(t) EXCEPT !.watched = 0, !.held = FALSE,
                 !.sel = FALSE, !.st = IF t.session = 0 THEN "IDLE" ELSE @]),
               ins, pg, X)
<1> DEFINE h == HideBar(t)
           k == IF t.session = 0 THEN "IDLE" ELSE h.st
           u == HideOverlay([h EXCEPT !.watched = 0, !.held = FALSE,
                                      !.sel = FALSE, !.st = k])
<1>1. h \in Tabs /\ Hidden(h, t)
      BY HideBarType, HideBarDoes
<1> HIDE DEF h
<1>2. k \in {"IDLE", t.st}
      BY <1>1 DEF Hidden
<1>3. u = HideOverlay([h EXCEPT !.watched = 0, !.held = FALSE,
                 !.sel = FALSE, !.st = IF t.session = 0 THEN "IDLE" ELSE @])
      BY <1>1 DEF Tabs
<1> HIDE DEF k
<1>4. /\ u.st = k /\ u.kind = h.kind /\ ~u.overlay
      /\ u.placeholder = h.placeholder /\ u.bar = h.bar /\ u.dim = h.dim
      /\ u.badge = h.badge /\ u.rows = h.rows /\ u.text = h.text
      /\ u.saved = h.saved /\ u.arrived = h.arrived
      /\ u.watched = 0 /\ u.held = FALSE /\ u.voice = h.voice
      BY <1>1 DEF HideOverlay, Tabs
<1> HIDE DEF u
<1>5. /\ u.st \in {"IDLE", t.st} /\ u.kind = "replace" /\ ~u.overlay
      /\ u.placeholder => t.placeholder /\ t.kind # "insert"
      /\ u.bar = t.bar /\ u.dim = TRUE /\ u.badge = t.badge
      /\ u.rows = FALSE /\ u.saved = t.saved /\ u.arrived = t.arrived
      /\ u.text = IF t.st = "EDITING" /\ t.rows /\ t.draft THEN t.orig ELSE t.text
      /\ u.watched = 0 /\ u.held = FALSE /\ u.voice = "off"
      BY <1>1, <1>2, <1>4 DEF Hidden
<1>6. ~Without({"fade", "toggle", "lost"} \cup Missed, X)
      BY DEF Without
<1>7. Shaped(u)
      BY <1>5 DEF Sound, Shaped
<1>8. Copied(u, X)
      BY <1>5 DEF Sound, Copied
<1>9. Badged(u, X)
      BY <1>5 DEF Sound, Badged
<1>10. Placed(u, ins, pg, X)
      BY <1>5 DEF Sound, Placed
<1>11. Held(u, X) /\ Overlaid(u, X)
      BY <1>5 DEF Held, Overlaid
<1>12. Barred(u, X)
      BY <1>6 DEF Barred
<1>13. QED BY <1>3, <1>7, <1>8, <1>9, <1>10, <1>11, <1>12 DEF Sound, h

\* The timer of a fade-out takes the bar off the page, shown again or not.
LEMMA FadeIsSound ==
  ASSUME NEW t \in Tabs, NEW ins, NEW pg, NEW X, Sound(t, ins, pg, X),
         t.dim \/ "fade" \in X
  PROVE  Sound([t EXCEPT !.bar = "none"], ins, pg, X)
<1> DEFINE u == [t EXCEPT !.bar = "none"]
<1>1. /\ u.st = t.st /\ u.kind = t.kind /\ u.sel = t.sel /\ u.overlay = t.overlay
      /\ u.placeholder = t.placeholder /\ u.bar = "none" /\ u.dim = t.dim
      /\ u.badge = t.badge /\ u.rows = t.rows /\ u.draft = t.draft
      /\ u.text = t.text /\ u.orig = t.orig /\ u.saved = t.saved
      /\ u.session = t.session /\ u.arrived = t.arrived
      /\ u.watched = t.watched /\ u.held = t.held /\ u.voice = t.voice
      BY DEF Tabs
<1> HIDE DEF u
<1>2. "fade" \in X => ~Without({"fade", "toggle", "lost"} \cup Missed, X)
      BY DEF Without
<1>3. Shaped(u)
      BY <1>1 DEF Sound, Shaped
<1>4. Copied(u, X) /\ Badged(u, X)
      BY <1>1 DEF Sound, Copied, Badged
<1>5. Placed(u, ins, pg, X)
      BY <1>1 DEF Sound, Placed
<1>6. Held(u, X)
      BY <1>1 DEF Sound, Held
<1>7. Barred(u, X)
      BY <1>1, <1>2 DEF Sound, Barred
<1>8. Overlaid(u, X)
      BY <1>1 DEF Sound, Overlaid
<1>9. QED BY <1>3, <1>4, <1>5, <1>6, <1>7, <1>8 DEF Sound, u

\* The user types in the editor, or takes the draft back.
LEMMA DraftIsSound ==
  ASSUME NEW t \in Tabs, NEW ins, NEW pg, NEW X, Sound(t, ins, pg, X), t.rows
  PROVE  /\ \A v : Sound([t EXCEPT !.text = v, !.draft = TRUE], ins, pg, X)
         /\ Sound([t EXCEPT !.text = t.orig, !.draft = FALSE], ins, pg, X)
<1> SUFFICES ASSUME NEW v, NEW b \in BOOLEAN, b \/ v = t.orig
             PROVE  Sound([t EXCEPT !.text = v, !.draft = b], ins, pg, X)
    OBVIOUS
<1> DEFINE u == [t EXCEPT !.text = v, !.draft = b]
<1>1. /\ u.st = t.st /\ u.kind = t.kind /\ u.sel = t.sel /\ u.overlay = t.overlay
      /\ u.placeholder = t.placeholder /\ u.bar = t.bar /\ u.dim = t.dim
      /\ u.badge = t.badge /\ u.rows = t.rows /\ u.draft = b
      /\ u.text = v /\ u.orig = t.orig /\ u.saved = t.saved
      /\ u.session = t.session /\ u.arrived = t.arrived
      /\ u.watched = t.watched /\ u.held = t.held /\ u.voice = t.voice
      BY DEF Tabs
<1> HIDE DEF u
<1>2. Shaped(u)
      BY <1>1 DEF Sound, Shaped
<1>3. Copied(u, X)
      BY <1>1 DEF Sound, Copied
<1>4. Badged(u, X)
      BY <1>1 DEF Sound, Badged
<1>5. Placed(u, ins, pg, X)
      BY <1>1 DEF Sound, Placed
<1>6. Held(u, X)
      BY <1>1 DEF Sound, Held
<1>7. Barred(u, X)
      BY <1>1 DEF Sound, Barred
<1>8. Overlaid(u, X)
      BY <1>1 DEF Sound, Overlaid
<1>9. QED BY <1>2, <1>3, <1>4, <1>5, <1>6, <1>7, <1>8 DEF Sound, u

\* Picking begins or ends with nothing else on the page.
LEMMA RestingIsSound ==
  ASSUME NEW t \in Tabs, NEW ins, NEW pg, NEW X, Sound(t, ins, pg, X),
         t.st \in {"IDLE", "PICKING"}, NEW s \in {"IDLE", "PICKING"}
  PROVE  Sound([t EXCEPT !.st = s], ins, pg, X)
<1> DEFINE u == [t EXCEPT !.st = s]
<1>1. /\ u.st = s /\ u.kind = t.kind /\ u.sel = t.sel /\ u.overlay = t.overlay
      /\ u.placeholder = t.placeholder /\ u.bar = t.bar /\ u.dim = t.dim
      /\ u.badge = t.badge /\ u.rows = t.rows /\ u.draft = t.draft
      /\ u.text = t.text /\ u.orig = t.orig /\ u.saved = t.saved
      /\ u.session = t.session /\ u.arrived = t.arrived
      /\ u.watched = t.watched /\ u.held = t.held /\ u.voice = t.voice
      BY DEF Tabs
<1> HIDE DEF u
<1>2. Shaped(u)
      BY <1>1 DEF Sound, Shaped
<1>3. Copied(u, X) /\ Badged(u, X)
      BY <1>1 DEF Sound, Copied, Badged
<1>4. Placed(u, ins, pg, X)
      BY <1>1 DEF Sound, Placed
<1>5. Held(u, X)
      BY <1>1 DEF Sound, Held, Session
<1>6. Barred(u, X)
      BY <1>1 DEF Barred, Session
<1>7. Overlaid(u, X)
      BY <1>1 DEF Sound, Overlaid
<1>8. QED BY <1>2, <1>3, <1>4, <1>5, <1>6, <1>7 DEF Sound, u
\* What a tab gains or loses without a part of the invariant seeing it.
LEMMA SmallChangesAreSound ==
  ASSUME NEW t \in Tabs, NEW ins, NEW pg, NEW X, Sound(t, ins, pg, X)
  PROVE  /\ \A b \in BOOLEAN :
              /\ Sound([t EXCEPT !.edge = b], ins, pg, X)
              /\ Sound([t EXCEPT !.hover = b], ins, pg, X)
              /\ Sound([t EXCEPT !.notes = b], ins, pg, X)
              /\ Sound([t EXCEPT !.prompt = b], ins, pg, X)
              /\ Sound([t EXCEPT !.picker = b], ins, pg, X)
              /\ Sound([t EXCEPT !.tune = b], ins, pg, X)
              /\ Sound([t EXCEPT !.chat = b], ins, pg, X)
              /\ Sound([t EXCEPT !.applying = b], ins, pg, X)
         /\ \A n : /\ Sound([t EXCEPT !.steer = n], ins, pg, X)
                   /\ Sound([t EXCEPT !.pending = n], ins, pg, X)
                   /\ Sound(Submitted(t, n), ins, pg, X)
         /\ Sound([t EXCEPT !.sel = TRUE], ins, pg, X)
         /\ Sound(StopVoice(t), ins, pg, X)
         /\ t.st # "EDITING" => \A m : Sound(Badge(t, m), ins, pg, X)
<1>1. ASSUME NEW b \in BOOLEAN
      PROVE  /\ Alike([t EXCEPT !.edge = b], t) /\ Alike([t EXCEPT !.hover = b], t)
             /\ Alike([t EXCEPT !.notes = b], t) /\ Alike([t EXCEPT !.prompt = b], t)
             /\ Alike([t EXCEPT !.picker = b], t) /\ Alike([t EXCEPT !.tune = b], t)
             /\ Alike([t EXCEPT !.chat = b], t) /\ Alike([t EXCEPT !.applying = b], t)
      BY DEF Alike, Tabs
<1>2. ASSUME NEW n
      PROVE  /\ Alike([t EXCEPT !.steer = n], t) /\ Alike([t EXCEPT !.pending = n], t)
             /\ Alike(Submitted(t, n), t)
      BY DEF Submitted, StopVoice, Alike, Tabs
<1>3. Alike([t EXCEPT !.sel = TRUE], t) /\ Alike(StopVoice(t), t)
      BY DEF StopVoice, Alike, Tabs
<1>4. ASSUME t.st # "EDITING", NEW m PROVE Alike(Badge(t, m), t)
      BY <1>4 DEF Badge, Alike, Tabs
<1>5. \A u : Alike(u, t) => Sound(u, ins, pg, X)
      BY AlikeIsSound
<1>6. \A b \in BOOLEAN : /\ Sound([t EXCEPT !.edge = b], ins, pg, X)
                         /\ Sound([t EXCEPT !.hover = b], ins, pg, X)
                         /\ Sound([t EXCEPT !.notes = b], ins, pg, X)
                         /\ Sound([t EXCEPT !.prompt = b], ins, pg, X)
                         /\ Sound([t EXCEPT !.picker = b], ins, pg, X)
                         /\ Sound([t EXCEPT !.tune = b], ins, pg, X)
                         /\ Sound([t EXCEPT !.chat = b], ins, pg, X)
                         /\ Sound([t EXCEPT !.applying = b], ins, pg, X)
      BY <1>1, <1>5
<1>7. \A n : /\ Sound([t EXCEPT !.steer = n], ins, pg, X)
             /\ Sound([t EXCEPT !.pending = n], ins, pg, X)
             /\ Sound(Submitted(t, n), ins, pg, X)
      BY <1>2, <1>5
<1>8. Sound([t EXCEPT !.sel = TRUE], ins, pg, X) /\ Sound(StopVoice(t), ins, pg, X)
      BY <1>3, <1>5
<1>9. t.st # "EDITING" => \A m : Sound(Badge(t, m), ins, pg, X)
      BY <1>4, <1>5
<1>10. QED BY <1>6, <1>7, <1>8, <1>9

\* What the keys make of a tab.
LEMMA KeysAreSound ==
  ASSUME NEW t \in Tabs, NEW ins, NEW pg, NEW X, Sound(t, ins, pg, X)
  PROVE  Sound(EnterKey(t), ins, pg, X) /\ Sound(EscapeKey(t), ins, pg, X)
<1>1. Sound(EnterKey(t), ins, pg, X)
      <2>1. CASE t.st = "PICKING" /\ t.hover
            <3>1. Sound(Configure(t, "idle"), ins, pg, X)
                  BY <2>1, ConfigureIsSound DEF Badges
            <3>2. QED BY <2>1, <3>1 DEF EnterKey
      <2>2. CASE ~(t.st = "PICKING" /\ t.hover) /\ EnterCalls(t) # {}
            <3>1. t.st = "CYCLING"
                  BY <2>2 DEF EnterCalls
            <3>2. Sound(Accepted(t), ins, pg, X)
                  BY <3>1, AcceptedIsSound DEF Session
            <3>3. QED BY <2>2, <3>2 DEF EnterKey
      <2>3. CASE ~(t.st = "PICKING" /\ t.hover) /\ EnterCalls(t) = {}
            BY <2>3 DEF EnterKey
      <2>4. QED BY <2>1, <2>2, <2>3
<1>2. Sound(EscapeKey(t), ins, pg, X)
      <2>1. CASE t.picker
            <3>1. EscapeKey(t) = [t EXCEPT !.picker = FALSE]
                  BY <2>1 DEF EscapeKey
            <3>2. Sound([t EXCEPT !.picker = FALSE], ins, pg, X)
                  BY SmallChangesAreSound
            <3>3. QED BY <3>1, <3>2
      <2>2. CASE ~t.picker /\ t.st = "EDITING"
            <3>1. EscapeKey(t) = CancelEditing(t)
                  BY <2>2 DEF EscapeKey
            <3>2. QED BY <2>2, <3>1, CancelEditingIsSound
      <2>3. CASE ~t.picker /\ t.st = "CONFIGURING"
            <3>1. EscapeKey(t) \in {CancelInsert(t), BackToPicking(t)}
                  BY <2>3 DEF EscapeKey
            <3>2. QED BY <2>3, <3>1, CancelInsertIsSound, BackToPickingIsSound
      <2>4. CASE ~t.picker /\ t.st = "PICKING"
            <3>1. EscapeKey(t) \in {ToggledInsert(t), ToggledPick(t),
                                    [t EXCEPT !.st = "IDLE"]}
                  BY <2>4 DEF EscapeKey
            <3>2. Sound(ToggledInsert(t), ins, pg, X) /\ Sound(ToggledPick(t), ins, pg, X)
                  BY <2>4, TogglesAreSound
            <3>3. Sound([t EXCEPT !.st = "IDLE"], ins, pg, X)
                  BY <2>4, RestingIsSound
            <3>4. QED BY <3>1, <3>2, <3>3
      <2>5. CASE ~t.picker /\ t.st \notin {"EDITING", "CONFIGURING", "PICKING"}
            <3>1. EscapeKey(t) = t
                  BY <2>5 DEF EscapeKey
            <3>2. QED BY <3>1
      <2>6. QED BY <2>1, <2>2, <2>3, <2>4, <2>5
<1>3. QED BY <1>1, <1>2

\* Go and Create, clicked or spoken.
LEMMA StartsAreSound ==
  ASSUME TypeOK, Generated, NEW t \in Tabs,
         Sound(t, given.inserts, page, excused),
         (Go(t) /\ t.kind = "replace") \/ InsertCreate(t)
  PROVE  IInv'
<1>0. 0 \in 0..MaxSessions /\ "disabled" \in Badges
      BY BoundAssumption DEF Badges
<1>1. CASE Go(t) /\ t.kind = "replace"
      <2> DEFINE p == [t EXCEPT !.pending = 0]
                 v == StopVoice(p)
                 q == DisableEdit(v)
                 u == IF t.badge = "hidden" THEN q ELSE Badge(q, "disabled")
      <2>1. /\ p \in Tabs /\ p.st = "CONFIGURING" /\ p.kind = "replace"
            /\ Sound(p, given.inserts, page, excused)
            <3>1. p \in Tabs
                  BY <1>0 DEF Tabs
            <3>2. p.st = "CONFIGURING" /\ p.kind = "replace"
                  BY <1>1 DEF Go, CanGo, Tabs
            <3>3. QED BY <3>1, <3>2, SmallChangesAreSound
      <2> HIDE DEF p
      <2>2. /\ v \in Tabs /\ v.st = "CONFIGURING" /\ v.kind = "replace"
            /\ Sound(v, given.inserts, page, excused)
            <3>1. v \in Tabs /\ Sound(v, given.inserts, page, excused)
                  BY <2>1, HelperTypes, SmallChangesAreSound
            <3>2. QED BY <2>1, <3>1 DEF StopVoice, Tabs
      <2> HIDE DEF v
      <2>3. /\ q \in Tabs /\ q.st = "CONFIGURING" /\ q.kind = "replace"
            /\ Sound(q, given.inserts, page, excused)
            <3>1. q \in Tabs /\ Sound(q, given.inserts, page, excused)
                  BY <2>2, HelperTypes, DisableEditIsSound
            <3>2. QED BY <2>2, <3>1 DEF DisableEdit, Tabs
      <2> HIDE DEF q
      <2>4. /\ u \in Tabs /\ u.st = "CONFIGURING" /\ u.kind = "replace"
            /\ Sound(u, given.inserts, page, excused)
            <3>1. u \in Tabs /\ Sound(u, given.inserts, page, excused)
                  BY <1>0, <2>3, HelperTypes, SmallChangesAreSound
            <3>2. QED BY <2>3, <3>1 DEF Badge, Tabs
      <2>5. Launch(u, FALSE)
            BY <1>1 DEF Go, u, q, v, p
      <2> HIDE DEF u
      <2>6. QED BY <2>4, <2>5, LaunchIsSound
<1>2. CASE InsertCreate(t)
      <2> DEFINE p == [t EXCEPT !.sel = TRUE]
                 u == StopVoice(p)
      <2>1. /\ p \in Tabs /\ p.st = "CONFIGURING"
            /\ Sound(p, given.inserts, page, excused)
            <3>1. p \in Tabs
                  BY DEF Tabs
            <3>2. p.st = "CONFIGURING"
                  BY <1>2 DEF InsertCreate, CanCreate, Tabs
            <3>3. QED BY <3>1, <3>2, SmallChangesAreSound
      <2> HIDE DEF p
      <2>2. /\ u \in Tabs /\ u.st = "CONFIGURING"
            /\ Sound(u, given.inserts, page, excused)
            <3>1. u \in Tabs /\ Sound(u, given.inserts, page, excused)
                  BY <2>1, HelperTypes, SmallChangesAreSound
            <3>2. QED BY <2>1, <3>1 DEF StopVoice, Tabs
      <2>3. Launch(u, TRUE)
            BY <1>2 DEF InsertCreate, u, p
      <2> HIDE DEF u
      <2>4. QED BY <2>2, <2>3, LaunchIsSound
<1>3. QED BY <1>1, <1>2

\* A step that keeps the page and the source.
LEMMA KeptIsSound ==
  ASSUME IInv, NEW u, tab' = u, Sound(u, given.inserts, page, excused'),
         UNCHANGED <<page, source>>, given'.inserts = given.inserts,
         given'.sessions = given.sessions
  PROVE  IInv'
<1>1. Sound(tab', given'.inserts, page', excused')
      OBVIOUS
<1>2. QED BY <1>1 DEF IInv, Generated, Sound, Shaped, Copied, Badged, Placed, Held,
                      Barred, Overlaid

\* A step that makes a sound tab of the tab, with the excuses it makes.
LEMMA CalmIsSound ==
  ASSUME IInv, NEW u, NEW A, NEW X, Step(u, A, X), Calm,
         Sound(u, given.inserts, page, excused \cup X)
  PROVE  IInv'
BY KeptIsSound DEF Step, Calm

\* A step that keeps page, source and counts, and excuses nothing.
LEMMA QuietIsSound ==
  ASSUME IInv, NEW u, NEW A, Step(u, A, {}), Calm,
         Sound(u, given.inserts, page, excused)
  PROVE  IInv'
<1>1. excused \cup {} = excused
      OBVIOUS
<1>2. QED BY <1>1, CalmIsSound

\* The mouse.
LEMMA MouseIsSound == TypeOK /\ IInv /\ Mouse => IInv'
<1> SUFFICES ASSUME TypeOK, IInv, Mouse PROVE IInv'
    OBVIOUS
<1>0. tab \in Tabs /\ Sound(tab, given.inserts, page, excused)
      BY DEF TypeOK, IInv
<1>00. tab.badge \in Badges /\ "idle" \in Badges
      BY <1>0 DEF Tabs, Badges
<1>1. CASE Hover
      <2>1. (~tab.edge) \in BOOLEAN
            OBVIOUS
      <2>2. /\ Sound([tab EXCEPT !.edge = ~tab.edge], given.inserts, page, excused)
            /\ Sound([tab EXCEPT !.hover = TRUE], given.inserts, page, excused)
            BY <1>0, <2>1, SmallChangesAreSound
      <2>3. /\ \/ Step([tab EXCEPT !.edge = ~tab.edge], {}, {})
               \/ Step([tab EXCEPT !.hover = TRUE], {}, {})
            /\ Calm
            <3>1. [tab EXCEPT !.edge = ~@] = [tab EXCEPT !.edge = ~tab.edge]
                  BY <1>0 DEF Tabs
            <3>2. QED BY <1>1, <3>1 DEF Hover
      <2>4. QED BY <2>2, <2>3, QuietIsSound
<1>2. CASE ClickAway
      <2> DEFINE shut == [tab EXCEPT !.picker = FALSE]
                 b == BackToPicking(shut)
      <2>1. /\ shut \in Tabs /\ shut.st = tab.st
            /\ Sound(shut, given.inserts, page, excused)
            BY <1>0, SmallChangesAreSound DEF Tabs
      <2>2. /\ tab.st \in {"CONFIGURING", "EDITING"}
            /\ \/ tab.st = "CONFIGURING" /\ Step(CancelInsert(shut), Hides, {})
               \/ Step([b EXCEPT !.hover = FALSE], Hides, {})
            /\ Calm
            BY <1>2 DEF ClickAway
      <2> HIDE DEF shut
      <2>3. b \in Tabs /\ Sound(b, given.inserts, page, excused)
            BY <2>1, <2>2, HandlerTypes, BackToPickingIsSound
      <2> HIDE DEF b
      <2>4. Sound([b EXCEPT !.hover = FALSE], given.inserts, page, excused)
            BY <2>3, SmallChangesAreSound
      <2>5. tab.st = "CONFIGURING" =>
              Sound(CancelInsert(shut), given.inserts, page, excused)
            BY <2>1, CancelInsertIsSound
      <2>6. QED BY <2>2, <2>4, <2>5, QuietIsSound
<1>3. CASE ClickEdge
      <2> DEFINE u == Configure([tab EXCEPT !.edge = FALSE, !.placeholder = TRUE,
                                            !.kind = "insert"], tab.badge)
      <2>1. tab.st = "PICKING" /\ Step(u, {}, {}) /\ Calm
            BY <1>3 DEF ClickEdge
      <2>2. Sound(u, given.inserts, page, excused)
            BY <1>0, <1>00, <2>1, PlacedIsSound
      <2> HIDE DEF u
      <2>3. QED BY <2>1, <2>2, QuietIsSound
<1>4. CASE ClickElement
      <2>1. /\ tab.st = "PICKING" /\ Step(Configure(tab, "idle"), {}, {})
            /\ Calm
            BY <1>4 DEF ClickElement
      <2>2. Sound(Configure(tab, "idle"), given.inserts, page, excused)
            BY <1>0, <1>00, <2>1, ConfigureIsSound
      <2>3. QED BY <2>1, <2>2, QuietIsSound
<1>5. CASE Annotate
      <2>1. Step([tab EXCEPT !.notes = TRUE], {}, {}) /\ Calm
            BY <1>5 DEF Annotate
      <2>2. Sound([tab EXCEPT !.notes = TRUE], given.inserts, page, excused)
            BY <1>0, SmallChangesAreSound
      <2>3. QED BY <2>1, <2>2, QuietIsSound
<1>6. QED BY <1>1, <1>2, <1>3, <1>4, <1>5 DEF Mouse

\* The copy editor.
LEMMA EditorIsSound == TypeOK /\ IInv /\ Editor => IInv'
<1> SUFFICES ASSUME TypeOK, IInv, Editor PROVE IInv'
    OBVIOUS
<1>0. tab \in Tabs /\ Sound(tab, given.inserts, page, excused)
      BY DEF TypeOK, IInv
<1>00. \A X : Sound(tab, given.inserts, page, excused \cup X)
      <2> TAKE X
      <2>1. excused \subseteq excused \cup X
            OBVIOUS
      <2>2. QED BY <1>0, <2>1, SoundIsMonotone
<1>1. CASE EditCopy
      <2> DEFINE u == EnableEdit(Badge(HideOverlay(HideBar(
                        [tab EXCEPT !.st = "EDITING"])), "editing"))
                 X == Stray("CONFIGURING")
      <2>1. Step(u, Hides, X) /\ Calm
            BY <1>1 DEF EditCopy
      <2>2. tab.st = "CONFIGURING" \/ "stray edit" \in excused \cup X
            BY DEF Stray
      <2> HIDE DEF X
      <2>3. Sound(u, given.inserts, page, excused \cup X)
            BY <1>0, <1>00, <2>2, EditCopyIsSound
      <2> HIDE DEF u
      <2>4. QED BY <2>1, <2>3, CalmIsSound
<1>2. CASE Type
      <2>1. PICK v : Step([tab EXCEPT !.text = v, !.draft = TRUE], {}, {})
            BY <1>2 DEF Type
      <2>2. tab.rows /\ Calm
            BY <1>2 DEF Type
      <2>3. Sound([tab EXCEPT !.text = v, !.draft = TRUE], given.inserts, page, excused)
            BY <1>0, <2>2, DraftIsSound
      <2>4. QED BY <2>1, <2>2, <2>3, QuietIsSound
<1>3. CASE EscapeInText
      <2>1. /\ tab.rows /\ Calm
            /\ Step([tab EXCEPT !.text = tab.orig, !.draft = FALSE], {}, {})
            BY <1>3 DEF EscapeInText
      <2>2. Sound([tab EXCEPT !.text = tab.orig, !.draft = FALSE],
                  given.inserts, page, excused)
            BY <1>0, <2>1, DraftIsSound
      <2>3. QED BY <2>1, <2>2, QuietIsSound
<1>4. ASSUME Step(CancelEditing(tab), {}, Stray("EDITING")), Calm PROVE IInv'
      <2> DEFINE X == Stray("EDITING")
      <2>1. tab.st = "EDITING" \/ "stray edit" \in excused \cup X
            BY DEF Stray
      <2>2. Step(CancelEditing(tab), {}, X)
            BY <1>4
      <2> HIDE DEF X
      <2>3. Sound(CancelEditing(tab), given.inserts, page, excused \cup X)
            BY <1>0, <1>00, <2>1, CancelEditingIsSound
      <2>4. QED BY <1>4, <2>2, <2>3, CalmIsSound
<1>5. CASE Cancel
      BY <1>4, <1>5 DEF Cancel
<1>6. CASE Save
      <2>1. /\ \/ Step(tab, Calls("save", tab.text), {})
               \/ Step(CancelEditing(tab), {}, Stray("EDITING"))
            /\ Calm
            BY <1>6 DEF Save
      <2>2. QED BY <1>0, <1>4, <2>1, QuietIsSound
<1>7. CASE SaveAnswered
      <2>1. PICK a \in asks :
              /\ a.kind = "save"
              /\ tab' = Badge(ShowOverlay(ShowBar(DisableEdit(
                          [tab EXCEPT !.saved = a.no, !.st = "CONFIGURING"]),
                          "configure")), "idle")
              /\ excused' = excused \cup
                   (IF tab.st # "EDITING" \/ tab.text # a.no THEN {"late save"}
                                                             ELSE {})
              /\ Calm
            BY <1>7 DEF SaveAnswered
      <2> DEFINE u == Badge(ShowOverlay(ShowBar(DisableEdit(
                        [tab EXCEPT !.saved = a.no, !.st = "CONFIGURING"]),
                        "configure")), "idle")
      <2>2. a.no \in Versions
            BY <2>1 DEF TypeOK, Asks, Fade
      <2>3. /\ (tab.st = "EDITING" /\ tab.text = a.no) \/ "late save" \in excused'
            /\ excused \subseteq excused'
            BY <2>1
      <2>4. Sound(tab, given.inserts, page, excused')
            BY <1>0, <2>3, SoundIsMonotone
      <2>5. Sound(u, given.inserts, page, excused')
            BY <1>0, <2>2, <2>3, <2>4, SaveAnsweredIsSound
      <2>6. tab' = u /\ UNCHANGED <<page, source, given>>
            BY <2>1 DEF Calm
      <2> HIDE DEF u
      <2>7. QED BY <2>5, <2>6, KeptIsSound
<1>8. CASE SaveFails
      <2>1. UNCHANGED <<tab, excused, page, source, given>>
            BY <1>8 DEF SaveFails, Calm
      <2>2. QED BY <1>0, <2>1, KeptIsSound
<1>9. QED BY <1>1, <1>2, <1>3, <1>5, <1>6, <1>7, <1>8 DEF Editor

\* The bars: the rows that start and decide, and the toggles.
LEMMA ControlsAreSound == TypeOK /\ IInv /\ Controls => IInv'
<1> SUFFICES ASSUME TypeOK, IInv, Controls PROVE IInv'
    OBVIOUS
<1>0. tab \in Tabs /\ Sound(tab, given.inserts, page, excused) /\ Generated
      BY DEF TypeOK, IInv
<1>1. CASE ClickGo
      <2>1. tab.bar = "configure" /\ Go(tab)
            BY <1>1 DEF ClickGo, Offered
      <2>2. tab.kind = "replace"
            BY <1>0, <2>1 DEF Sound, Shaped, Tabs
      <2>3. QED BY <1>0, <2>1, <2>2, StartsAreSound
<1>2. CASE ClickCreate
      BY <1>0, <1>2, StartsAreSound DEF ClickCreate
<1>3. CASE Prompt
      <2>1. Step([tab EXCEPT !.prompt = TRUE], {}, {}) /\ Calm
            BY <1>3 DEF Prompt
      <2>2. Sound([tab EXCEPT !.prompt = TRUE], given.inserts, page, excused)
            BY <1>0, SmallChangesAreSound
      <2>3. QED BY <2>1, <2>2, QuietIsSound
<1>4. CASE TogglePicker
      <2> DEFINE b == ~tab.picker
      <2>1. Step([tab EXCEPT !.picker = b], {}, {}) /\ Calm
            BY <1>0, <1>4 DEF TogglePicker, Tabs
      <2>2. b \in BOOLEAN
            OBVIOUS
      <2> HIDE DEF b
      <2>3. Sound([tab EXCEPT !.picker = b], given.inserts, page, excused)
            BY <1>0, <2>2, SmallChangesAreSound
      <2>4. QED BY <2>1, <2>3, QuietIsSound
<1>5. CASE ToggleTune
      <2> DEFINE b == ~tab.tune
      <2>1. Step([tab EXCEPT !.tune = b], {}, {}) /\ Calm
            BY <1>0, <1>5 DEF ToggleTune, Tabs
      <2>2. b \in BOOLEAN
            OBVIOUS
      <2> HIDE DEF b
      <2>3. Sound([tab EXCEPT !.tune = b], given.inserts, page, excused)
            BY <1>0, <2>2, SmallChangesAreSound
      <2>4. QED BY <2>1, <2>3, QuietIsSound
<1>6. CASE TogglePick \/ ToggleInsert
      <2> DEFINE X == Midway(tab)
      <2>1. PICK u, A : u \in {ToggledPick(tab), ToggledInsert(tab)} /\ Step(u, A, X) /\ Calm
            BY <1>6 DEF TogglePick, ToggleInsert
      <2>2. tab.st \in {"IDLE", "PICKING"} \/ "toggle" \in excused \cup X
            BY DEF Midway
      <2> HIDE DEF X
      <2>3. excused \subseteq excused \cup X
            OBVIOUS
      <2>4. Sound(tab, given.inserts, page, excused \cup X)
            BY <1>0, <2>3, SoundIsMonotone
      <2>5. Sound(u, given.inserts, page, excused \cup X)
            BY <1>0, <2>1, <2>2, <2>4, TogglesAreSound
      <2>6. QED BY <2>1, <2>5, CalmIsSound
<1>7. CASE ClickAccept
      <2>1. /\ tab.bar = "cycling" /\ ~tab.dim
            /\ Step(Accepted(tab), Calls("accept", tab.session), {}) /\ Calm
            BY <1>7 DEF ClickAccept, Offered
      <2>2. tab.st \notin {"CONFIGURING", "GENERATING", "EDITING"}
            BY <1>0, <2>1 DEF Sound, Shaped
      <2>3. Sound(Accepted(tab), given.inserts, page, excused)
            BY <1>0, <2>1, <2>2, AcceptedIsSound
      <2>4. QED BY <2>1, <2>3, QuietIsSound
<1>8. CASE ClickDiscard
      <2>1. Step(tab, Calls("discard", tab.session), {}) /\ Calm
            BY <1>8 DEF ClickDiscard
      <2>2. QED BY <1>0, <2>1, QuietIsSound
<1>9. QED BY <1>1, <1>2, <1>3, <1>4, <1>5, <1>6, <1>7, <1>8 DEF Controls
\* The keyboard.
LEMMA KeyboardIsSound == TypeOK /\ IInv /\ Keys => IInv'
<1> SUFFICES ASSUME TypeOK, IInv, Keys PROVE IInv'
    OBVIOUS
<1>0. tab \in Tabs /\ Sound(tab, given.inserts, page, excused)
      BY DEF TypeOK, IInv
<1>1. CASE Arrow
      <2> DEFINE c == Configure(tab, "idle")
      <2>1. tab.st = "CONFIGURING" /\ Step(DisableEdit(c), {}, {}) /\ Calm
            BY <1>1 DEF Arrow
      <2>2. /\ c \in Tabs /\ c.st = "CONFIGURING"
            /\ Sound(c, given.inserts, page, excused)
            BY <1>0, <2>1, HandlerTypes, ConfigureDoes, ConfigureIsSound
               DEF Badges, Configured
      <2> HIDE DEF c
      <2>3. Sound(DisableEdit(c), given.inserts, page, excused)
            BY <2>2, DisableEditIsSound
      <2>4. QED BY <2>1, <2>3, QuietIsSound
<1>2. CASE Enter
      <2>1. Step(EnterKey(tab), EnterCalls(tab), {}) /\ Calm
            BY <1>2 DEF Enter
      <2>2. Sound(EnterKey(tab), given.inserts, page, excused)
            BY <1>0, KeysAreSound
      <2>3. QED BY <2>1, <2>2, QuietIsSound
<1>3. CASE EnterInChat
      <2> DEFINE t == IF Free THEN EnterKey(tab) ELSE tab
                 id == given.steers + 1
      <2>1. t \in Tabs /\ Sound(t, given.inserts, page, excused)
            BY <1>0, KeyTypes, KeysAreSound
      <2>2. /\ tab' = Submitted(t, id) /\ excused' = excused \cup {}
            /\ given' = [given EXCEPT !.steers = id] /\ UNCHANGED <<page, source>>
            BY <1>3 DEF EnterInChat, Step
      <2> HIDE DEF t
      <2>3. Sound(Submitted(t, id), given.inserts, page, excused')
            BY <2>1, <2>2, SmallChangesAreSound
      <2>4. given'.inserts = given.inserts /\ given'.sessions = given.sessions
            BY <2>2 DEF TypeOK
      <2>5. QED BY <2>2, <2>3, <2>4, KeptIsSound
<1>4. CASE Escape
      <2> DEFINE t == EscapeKey(tab)
      <2>1. t \in Tabs /\ Sound(t, given.inserts, page, excused)
            BY <1>0, KeyTypes, KeysAreSound
      <2>2. /\ \E b \in {FALSE, tab.chat} :
                 Step([t EXCEPT !.chat = @ /\ ~b], EscapeCalls(tab), {})
            /\ Calm
            BY <1>4 DEF Escape
      <2> HIDE DEF t
      <2>3. PICK c \in BOOLEAN : Step([t EXCEPT !.chat = c], EscapeCalls(tab), {})
            <3>1. PICK b \in {FALSE, tab.chat} :
                     Step([t EXCEPT !.chat = @ /\ ~b], EscapeCalls(tab), {})
                  BY <2>2
            <3>2. [t EXCEPT !.chat = @ /\ ~b] = [t EXCEPT !.chat = (t.chat /\ ~b)]
                  BY <2>1 DEF Tabs
            <3>3. (t.chat /\ ~b) \in BOOLEAN
                  OBVIOUS
            <3>4. QED BY <3>1, <3>2, <3>3
      <2>4. Sound([t EXCEPT !.chat = c], given.inserts, page, excused)
            BY <2>1, SmallChangesAreSound
      <2>5. QED BY <2>2, <2>3, <2>4, QuietIsSound
<1>5. CASE TypeInChat
      <2>1. Step([tab EXCEPT !.chat = TRUE], {}, {}) /\ Calm
            BY <1>5 DEF TypeInChat
      <2>2. Sound([tab EXCEPT !.chat = TRUE], given.inserts, page, excused)
            BY <1>0, SmallChangesAreSound
      <2>3. QED BY <2>1, <2>2, QuietIsSound
<1>6. CASE EscapeInInput
      <2> DEFINE k == EscapeKey(tab)
                 X == IF tab.picker THEN {"picker"} ELSE {}
      <2>1. /\ tab.st = "CONFIGURING"
            /\ Step(LeaveInput(k), Hides, X) /\ Calm
            BY <1>6 DEF EscapeInInput
      <2>2. k \in Tabs /\ Sound(k, given.inserts, page, excused)
            BY <1>0, KeyTypes, KeysAreSound
      <2>3. /\ k.st \in {"CONFIGURING", "PICKING", "IDLE"}
            /\ k.overlay => "picker" \in X
            <3>1. CASE tab.picker
                  BY <1>0, <2>1, <3>1 DEF EscapeKey, Tabs
            <3>2. CASE ~tab.picker /\ tab.kind = "insert"
                  <4>1. k = CancelInsert(tab)
                        BY <2>1, <3>2 DEF EscapeKey
                  <4>2. k.st \in {"PICKING", "IDLE"} /\ ~k.overlay
                        <5>1. HideBar(tab) \in Tabs
                              BY <1>0, HideBarType
                        <5>2. QED BY <4>1, <5>1
                                  DEF CancelInsert, ClearInsertPicking, ClearNotes,
                                      FinalizeInsert, HideOverlay, Tabs
                  <4>3. QED BY <4>2
            <3>3. CASE ~tab.picker /\ tab.kind # "insert"
                  <4>1. k = BackToPicking(tab)
                        BY <2>1, <3>3 DEF EscapeKey
                  <4>2. k.st = "PICKING" /\ ~k.overlay
                        <5>1. HideBar(tab) \in Tabs
                              BY <1>0, HideBarType
                        <5>2. QED BY <4>1, <5>1
                                  DEF BackToPicking, Badge, ClearNotes, HideOverlay,
                                      Tabs
                  <4>3. QED BY <4>2
            <3>4. QED BY <3>1, <3>2, <3>3
      <2> HIDE DEF k, X
      <2>4. Sound(k, given.inserts, page, excused \cup X)
            BY <2>2, SoundIsMonotone
      <2>5. k.overlay => "picker" \in excused \cup X
            BY <2>3
      <2>6. Sound(LeaveInput(k), given.inserts, page, excused \cup X)
            BY <2>2, <2>3, <2>4, <2>5, LeaveInputIsSound
      <2>7. QED BY <2>1, <2>6, CalmIsSound
<1>7. QED BY <1>1, <1>2, <1>3, <1>4, <1>5, <1>6 DEF Keys

\* Voice input and what it submits.
LEMMA VoiceIsSound == TypeOK /\ IInv /\ Voice => IInv'
<1> SUFFICES ASSUME TypeOK, IInv, Voice PROVE IInv'
    OBVIOUS
<1>0. tab \in Tabs /\ Sound(tab, given.inserts, page, excused) /\ Generated
      BY DEF TypeOK, IInv
<1>1. CASE StartVoice
      <2> DEFINE k == IF tab.kind = "insert" THEN "create" ELSE "go"
                 u == [tab EXCEPT !.linked = TRUE, !.heard = tab.prompt, !.voice = k]
                 v == [tab EXCEPT !.voice = "steer", !.heard = tab.chat]
      <2>1. /\ \/ tab.st = "CONFIGURING" /\ Step(u, {}, {})
               \/ Step(v, {}, {})
            /\ Calm
            BY <1>1 DEF StartVoice
      <2>2. k = "go" => tab.kind = "replace"
            BY <1>0 DEF Tabs
      <2> HIDE DEF k
      <2>3. tab.st = "CONFIGURING" => Alike(u, tab)
            BY <1>0, <2>2 DEF Alike, Tabs
      <2>4. Alike(v, tab)
            BY <1>0 DEF Alike, Tabs
      <2> HIDE DEF u, v
      <2>5. /\ tab.st = "CONFIGURING" => Sound(u, given.inserts, page, excused)
            /\ Sound(v, given.inserts, page, excused)
            BY <1>0, <2>3, <2>4, AlikeIsSound
      <2>6. QED BY <2>1, <2>5, QuietIsSound
<1>2. CASE VoiceHears
      <2> DEFINE u == [tab EXCEPT !.heard = TRUE, !.chat = @ \/ tab.voice = "steer",
                         !.prompt = @ \/ (tab.voice # "steer" /\ tab.linked)]
      <2>1. Step(u, {}, {}) /\ Calm
            BY <1>2 DEF VoiceHears
      <2>2. Alike(u, tab)
            BY <1>0 DEF Alike, Tabs
      <2> HIDE DEF u
      <2>3. Sound(u, given.inserts, page, excused)
            BY <1>0, <2>2, AlikeIsSound
      <2>4. QED BY <2>1, <2>3, QuietIsSound
<1>3. CASE VoiceEnds
      <2> DEFINE t == StopVoice(tab)
                 id == given.steers + 1
      <2>1. /\ t \in Tabs /\ t.kind = tab.kind
            /\ Sound(t, given.inserts, page, excused)
            <3>1. t \in Tabs /\ Sound(t, given.inserts, page, excused)
                  BY <1>0, HelperTypes, SmallChangesAreSound
            <3>2. t.kind = tab.kind
                  BY <1>0 DEF StopVoice, Tabs
            <3>3. QED BY <3>1, <3>2
      <2>2. \/ tab.voice = "go" /\ Go(t)
            \/ InsertCreate(t)
            \/ /\ Step(Submitted(t, id), Calls("steer", id), {})
               /\ given' = [given EXCEPT !.steers = id]
               /\ UNCHANGED <<page, source>>
            \/ Step(t, {}, {}) /\ Calm
            BY <1>3 DEF VoiceEnds
      <2>3. tab.voice = "go" => tab.kind = "replace"
            BY <1>0 DEF Sound, Shaped
      <2> HIDE DEF t, id
      <2>4. ASSUME Step(Submitted(t, id), Calls("steer", id), {}),
                   given' = [given EXCEPT !.steers = id], UNCHANGED <<page, source>>
            PROVE  IInv'
            <3>1. tab' = Submitted(t, id) /\ excused' = excused \cup {}
                  BY <2>4 DEF Step
            <3>2. Sound(Submitted(t, id), given.inserts, page, excused')
                  BY <2>1, <3>1, SmallChangesAreSound
            <3>3. given'.inserts = given.inserts /\ given'.sessions = given.sessions
                  BY <2>4 DEF TypeOK
            <3>4. QED BY <2>4, <3>1, <3>2, <3>3, KeptIsSound
      <2>5. QED BY <1>0, <2>1, <2>2, <2>3, <2>4, StartsAreSound, QuietIsSound
<1>4. QED BY <1>1, <1>2, <1>3 DEF Voice

\* A step that changes the page or the source too.
LEMMA MovedIsSound ==
  ASSUME NEW u, tab' = u, Sound(u, given.inserts, page', excused'),
         page' \in 0..given.sessions, source' \subseteq 1..given.sessions,
         UNCHANGED given
  PROVE  IInv'
<1>1. Sound(tab', given'.inserts, page', excused')
      OBVIOUS
<1>2. QED BY <1>1 DEF IInv, Generated, Sound, Shaped, Copied, Badged, Placed, Held,
                      Barred, Overlaid

\* What comes late brings with it that it does.
LEMMA LateFacts ==
  ASSUME NEW k, NEW due, NEW Y, Y = excused \cup Late(k, due)
  PROVE  /\ due \/ k \in Y
         /\ excused \subseteq Y
BY DEF Late
\* The page without the variants of n.
LEMMA GoneFacts == \A n : Gone(n) \in {0, page}
BY DEF Gone

\* The answers to the requests, and the timers.
LEMMA AnswersAreSound == TypeOK /\ IInv /\ Answers => IInv'
<1> SUFFICES ASSUME TypeOK, IInv, Answers PROVE IInv'
    OBVIOUS
<1>0. /\ tab \in Tabs /\ Sound(tab, given.inserts, page, excused) /\ Generated
      /\ 0 \in 0..given.sessions /\ page \in 0..given.sessions
      /\ source \subseteq 1..given.sessions
      BY DEF TypeOK, IInv, Generated
<1>00. ASSUME excused \subseteq excused'
       PROVE  Sound(tab, given.inserts, page, excused')
       BY <1>0, <1>00, SoundIsMonotone
<1>1. CASE SteerFails \/ SteerEnds
      <2>1. /\ tab' = [tab EXCEPT !.steer = 0] /\ excused \subseteq excused'
            /\ UNCHANGED <<page, source, given>>
            BY <1>1 DEF SteerFails, SteerEnds, Step, Calm
      <2>2. Sound([tab EXCEPT !.steer = 0], given.inserts, page, excused')
            BY <1>0, <1>00, <2>1, SmallChangesAreSound
      <2>3. QED BY <2>1, <2>2, KeptIsSound
<1>2. CASE SteerAnswered \/ DiscardFails
      <2>1. UNCHANGED <<tab, excused, page, source, given>>
            BY <1>2 DEF SteerAnswered, DiscardFails, Calm
      <2>2. QED BY <1>0, <2>1, KeptIsSound
<1>3. CASE AcceptFails
      <2> DEFINE u == UpdateBar([tab EXCEPT !.pending = 0, !.st = "CYCLING"], "cycling")
      <2>1. PICK a \in asks :
              /\ tab' = u
              /\ excused' = excused \cup
                   Late("late answer", tab.st = "SAVING" /\ tab.session = a.no)
              /\ UNCHANGED <<page, source, given>>
            BY <1>3 DEF AcceptFails, Calm
      <2>2. /\ tab.st = "SAVING" \/ "late answer" \in excused'
            /\ excused \subseteq excused'
            BY <2>1, LateFacts
      <2>3. Sound(u, given.inserts, page, excused')
            BY <1>0, <1>00, <2>2, AnswerIsSound
      <2> HIDE DEF u
      <2>4. QED BY <2>1, <2>3, KeptIsSound
<1>4. CASE DiscardAnswered
      <2>1. PICK a \in asks :
              /\ tab' = CleanUp(tab)
              /\ page' = Gone(tab.session) /\ source' = source \ {a.no}
              /\ excused' = excused \cup
                   Late("late answer", tab.st = "CYCLING" /\ tab.session = a.no)
              /\ UNCHANGED given
            BY <1>4 DEF DiscardAnswered
      <2>2. /\ tab.st \in Session \/ "late answer" \in excused'
            /\ excused \subseteq excused'
            BY <2>1, LateFacts DEF Session
      <2>3. Sound(CleanUp(tab), given.inserts, page', excused')
            BY <1>0, <1>00, <2>2, EndSessionIsSound
      <2>4. page' \in 0..given.sessions /\ source' \subseteq 1..given.sessions
            BY <1>0, <2>1, GoneFacts
      <2>5. QED BY <2>1, <2>3, <2>4, MovedIsSound
<1>5. CASE Complete
      <2> DEFINE u == UpdateBar([tab EXCEPT !.st = "CONFIRMED"], "confirmed")
      <2>1. /\ \/ /\ tab' = u
                  /\ excused' = excused \cup Late("late answer", tab.st = "SAVING")
               \/ /\ tab' \in {[tab EXCEPT !.pending = 0], tab}
                  /\ excused' = excused
            /\ UNCHANGED <<page, source, given>>
            BY <1>5 DEF Complete, Calm
      <2>2. CASE /\ tab' = u
                 /\ excused' = excused \cup Late("late answer", tab.st = "SAVING")
            <3>1. /\ tab.st = "SAVING" \/ "late answer" \in excused'
                  /\ excused \subseteq excused'
                  BY <2>2, LateFacts
            <3>2. Sound(u, given.inserts, page, excused')
                  BY <1>0, <1>00, <3>1, AnswerIsSound
            <3> HIDE DEF u
            <3>3. QED BY <2>1, <2>2, <3>2, KeptIsSound
      <2>3. CASE tab' \in {[tab EXCEPT !.pending = 0], tab} /\ excused' = excused
            <3>1. Sound([tab EXCEPT !.pending = 0], given.inserts, page, excused)
                  BY <1>0, SmallChangesAreSound
            <3>2. QED BY <1>0, <2>1, <2>3, <3>1, KeptIsSound
      <2>4. QED BY <2>1, <2>2, <2>3
<1>6. CASE Finish
      <2>1. PICK a \in asks :
              /\ tab' = CleanUpAccepted(tab)
              /\ page' = Gone(a.no) /\ source' = source \ {a.no}
              /\ excused' = excused \cup
                   Late("late answer", tab.st = "CONFIRMED" /\ tab.session = a.no)
              /\ UNCHANGED given
            BY <1>6 DEF Finish
      <2>2. /\ tab.st \in Session \/ "late answer" \in excused'
            /\ excused \subseteq excused'
            BY <2>1, LateFacts DEF Session
      <2>3. Sound(CleanUpAccepted(tab), given.inserts, page', excused')
            BY <1>0, <1>00, <2>2, EndSessionIsSound
      <2>4. page' \in 0..given.sessions /\ source' \subseteq 1..given.sessions
            BY <1>0, <2>1, GoneFacts
      <2>5. QED BY <2>1, <2>3, <2>4, MovedIsSound
<1>7. CASE SourceAnswered
      <2>1. PICK a \in asks :
              /\ IF a.no \in source /\ (a.no \notin given.inserts \/ page = a.no)
                 THEN /\ tab' = Cycling(tab) /\ page' = a.no
                      /\ excused' = excused \cup Late("late source",
                           tab.session = a.no /\ tab.st \in {"GENERATING", "CYCLING"})
                 ELSE UNCHANGED <<tab, page, excused>>
              /\ UNCHANGED <<source, given>>
            BY <1>7 DEF SourceAnswered
      <2>2. CASE /\ a.no \in source
                 /\ a.no \notin given.inserts \/ page = a.no
                 /\ tab' = Cycling(tab) /\ page' = a.no
                 /\ excused' = excused \cup Late("late source",
                      tab.session = a.no /\ tab.st \in {"GENERATING", "CYCLING"})
            <3>1. /\ \/ tab.session = a.no /\ tab.st \in {"GENERATING", "CYCLING"}
                     \/ "late source" \in excused'
                  /\ excused \subseteq excused'
                  BY <2>2, LateFacts
            <3>2. "late source" \in excused' => ~Without(Missed, excused')
                  BY DEF Without, Missed, Overtaken
            <3>3. Sound(tab, given.inserts, page, excused')
                  BY <1>00, <3>1
            <3>4. Cycling(tab).placeholder = tab.placeholder
                  BY <1>0 DEF Cycling, UpdateBar, DisableEdit, Tabs
            <3>5. Cycling(tab).placeholder => ~Without(Missed, excused')
                  BY <2>2, <3>1, <3>2, <3>3, <3>4 DEF Sound, Placed
            <3>6. Sound(Cycling(tab), given.inserts, page', excused')
                  BY <1>0, <3>1, <3>2, <3>3, <3>5, CyclingIsSound
            <3>7. page' \in 0..given.sessions
                  <4>1. page' \in source
                        BY <2>2
                  <4>2. source \subseteq 1..given.sessions
                        BY <1>0
                  <4>3. QED BY <4>1, <4>2
            <3>8. QED BY <1>0, <2>1, <2>2, <3>6, <3>7, MovedIsSound
      <2>3. CASE UNCHANGED <<tab, page, excused>>
            BY <1>0, <2>1, <2>3, KeptIsSound
      <2>4. QED BY <2>1, <2>2, <2>3
<1>8. CASE FadeBar
      <2>1. /\ tab' = [tab EXCEPT !.bar = "none"]
            /\ excused' = IF tab.dim THEN excused ELSE excused \cup {"fade"}
            /\ UNCHANGED <<page, source, given>>
            BY <1>8 DEF FadeBar, Calm
      <2>2. tab.dim \/ "fade" \in excused'
            BY <2>1
      <2>3. Sound([tab EXCEPT !.bar = "none"], given.inserts, page, excused')
            BY <1>0, <1>00, <2>1, <2>2, FadeIsSound
      <2>4. QED BY <2>1, <2>3, KeptIsSound
<1>9. QED BY <1>1, <1>2, <1>3, <1>4, <1>5, <1>6, <1>7, <1>8 DEF Answers

\* What comes from the agent and the server.
LEMMA OutsideIsSound == TypeOK /\ IInv /\ Outside => IInv'
<1> SUFFICES ASSUME TypeOK, IInv, Outside PROVE IInv'
    OBVIOUS
<1>0. /\ tab \in Tabs /\ Sound(tab, given.inserts, page, excused) /\ Generated
      /\ page \in 0..given.sessions /\ source \subseteq 1..given.sessions
      BY DEF TypeOK, IInv, Generated
<1>00. \A Y : excused \subseteq Y => Sound(tab, given.inserts, page, Y)
       BY <1>0, SoundIsMonotone
<1>1. CASE AgentWrites
      <2>1. /\ source' \subseteq 1..given.sessions
            /\ UNCHANGED <<tab, page, excused, given>>
            BY <1>0, <1>1 DEF AgentWrites
      <2>2. QED BY <1>0, <2>1, MovedIsSound
<1>2. CASE VariantsMount
      <2>1. PICK id \in source :
              /\ page' = id
              /\ IF tab.watched = id /\ ~tab.arrived
                 THEN LET t == Cycling(tab)
                      IN Step(IF id \in given.inserts THEN FinalizeInsert(t) ELSE t,
                              {}, Late("late variants", tab.st = "GENERATING"))
                 ELSE UNCHANGED <<tab, asks, excused>>
              /\ UNCHANGED <<source, given>>
            BY <1>2 DEF VariantsMount
      <2>2. page' \in 0..given.sessions /\ source' \subseteq 1..given.sessions
            <3>1. page' \in source /\ source' = source
                  BY <2>1
            <3>2. source \subseteq 1..given.sessions
                  BY <1>0
            <3>3. QED BY <3>1, <3>2
      <2>3. CASE tab.watched = id /\ ~tab.arrived
            <3> DEFINE c == Cycling(tab)
                       u == IF id \in given.inserts THEN FinalizeInsert(c) ELSE c
            <3>1. /\ tab' = u
                  /\ excused' = excused \cup Late("late variants", tab.st = "GENERATING")
                  BY <2>1, <2>3 DEF Step
            <3>2. /\ tab.st = "GENERATING" \/ "late variants" \in excused'
                  /\ excused \subseteq excused'
                  BY <3>1, LateFacts
            <3>3. "late variants" \in excused' => ~Without(Missed, excused')
                  BY DEF Without, Missed, Overtaken
            <3>4. Sound(tab, given.inserts, page, excused')
                  BY <1>00, <3>2
            <3>5. c \in Tabs /\ c.placeholder = tab.placeholder
                  <4>1. c \in Tabs
                        BY <1>0, HandlerTypes
                  <4>2. QED BY <1>0, <4>1 DEF Cycling, UpdateBar, DisableEdit, Tabs
            <3>6. u.placeholder => ~Without(Missed, excused')
                  <4>1. CASE id \in given.inserts
                        <5>1. ~FinalizeInsert(c).placeholder
                              BY <3>5 DEF FinalizeInsert, Tabs
                        <5>2. QED BY <4>1, <5>1
                  <4>2. CASE id \notin given.inserts
                        <5>1. u = c
                              BY <4>2
                        <5>2. QED BY <2>3, <3>2, <3>3, <3>4, <3>5, <4>2, <5>1
                                  DEF Sound, Placed
                  <4>3. QED BY <4>1, <4>2
            <3>7. u \in {Cycling(tab), FinalizeInsert(Cycling(tab))}
                  OBVIOUS
            <3> HIDE DEF u
            <3>8. Sound(u, given.inserts, page', excused')
                  BY <1>0, <3>2, <3>3, <3>4, <3>6, <3>7, CyclingIsSound
            <3>9. QED BY <2>1, <2>2, <3>1, <3>8, MovedIsSound
      <2>4. CASE ~(tab.watched = id /\ ~tab.arrived)
            <3>1. UNCHANGED <<tab, excused>>
                  BY <2>1, <2>4
            <3>2. Placed(tab, given.inserts, id, excused)
                  BY <1>0, <2>4 DEF Sound, Placed, Shaped
            <3>3. Sound(tab, given.inserts, page', excused')
                  BY <1>0, <2>1, <3>1, <3>2 DEF Sound
            <3>4. QED BY <2>1, <2>2, <3>1, <3>3, MovedIsSound
      <2>5. QED BY <2>3, <2>4
<1>3. CASE Done
      <2>1. PICK id \in source : Step(tab, Calls("source", id), {}) /\ Calm
            BY <1>3 DEF Done
      <2>2. QED BY <1>0, <2>1, QuietIsSound
<1>4. ASSUME Event
      PROVE  given'.inserts = given.inserts /\ given'.sessions = given.sessions
      BY <1>4 DEF Event, TypeOK
<1>5. CASE ErrorEvent
      <2> DEFINE u == UpdateBar([tab EXCEPT !.pending = 0, !.st = "CYCLING"], "cycling")
                 v == Badge([HideBar(tab) EXCEPT !.st = "PICKING"], "hidden")
      <2>1. /\ Event
            /\ \/ Step(u, {}, Late("late answer", tab.st = "SAVING"))
               \/ Step(v, Hides, {"error"})
            /\ UNCHANGED <<page, source>>
            BY <1>5 DEF ErrorEvent
      <2>2. CASE Step(u, {}, Late("late answer", tab.st = "SAVING"))
            <3>1. /\ tab' = u
                  /\ excused' = excused \cup Late("late answer", tab.st = "SAVING")
                  BY <2>2 DEF Step
            <3>2. /\ tab.st = "SAVING" \/ "late answer" \in excused'
                  /\ excused \subseteq excused'
                  BY <3>1, LateFacts
            <3>3. Sound(u, given.inserts, page, excused')
                  BY <1>0, <1>00, <3>2, AnswerIsSound
            <3> HIDE DEF u
            <3>4. QED BY <1>4, <2>1, <3>1, <3>3, KeptIsSound
      <2>3. CASE Step(v, Hides, {"error"})
            <3>1. /\ tab' = v /\ "error" \in excused' /\ excused \subseteq excused'
                  BY <2>3 DEF Step
            <3>2. Sound(v, given.inserts, page, excused')
                  BY <1>0, <1>00, <3>1, ErrorIsSound
            <3> HIDE DEF v
            <3>3. QED BY <1>4, <2>1, <3>1, <3>2, KeptIsSound
      <2>4. QED BY <2>1, <2>2, <2>3
<1>6. CASE Connected
      <2>1. tab.st = "IDLE" /\ Step([tab EXCEPT !.st = "PICKING"], {}, {}) /\ Calm
            BY <1>6 DEF Connected
      <2>2. Sound([tab EXCEPT !.st = "PICKING"], given.inserts, page, excused)
            BY <1>0, <2>1, RestingIsSound
      <2>3. QED BY <2>1, <2>2, QuietIsSound
<1>7. CASE ServerLost
      <2> DEFINE u == HideOverlay([HideBar(tab) EXCEPT !.watched = 0, !.held = FALSE,
                        !.sel = FALSE, !.st = IF tab.session = 0 THEN "IDLE" ELSE @])
      <2>1. /\ Event /\ Step(u, Hides, {"lost"}) /\ UNCHANGED <<page, source>>
            BY <1>7 DEF ServerLost
      <2>2. tab' = u /\ "lost" \in excused' /\ excused \subseteq excused'
            BY <2>1 DEF Step
      <2>3. Sound(u, given.inserts, page, excused')
            BY <1>0, <1>00, <2>2, LostIsSound
      <2> HIDE DEF u
      <2>4. QED BY <1>4, <2>1, <2>2, <2>3, KeptIsSound
<1>8. CASE ApplyStarts
      <2> DEFINE t == [tab EXCEPT !.applying = TRUE]
                 X == IF tab.st = "EDITING" THEN {"apply"} ELSE {}
      <2>1. /\ Event /\ Step(Refresh(t), {}, X) /\ UNCHANGED <<page, source>>
            BY <1>8 DEF ApplyStarts
      <2>2. tab' = Refresh(t) /\ excused' = excused \cup X
            BY <2>1 DEF Step
      <2>3. tab.st = "EDITING" => "apply" \in excused'
            BY <2>2
      <2>4. t \in Tabs /\ t.st = tab.st
            BY <1>0 DEF Tabs
      <2>5. Sound(t, given.inserts, page, excused')
            BY <1>0, <1>00, <2>2, SmallChangesAreSound
      <2> HIDE DEF t, X
      <2>6. Sound(Refresh(t), given.inserts, page, excused')
            BY <2>3, <2>4, <2>5, RefreshIsSound
      <2>7. QED BY <1>4, <2>1, <2>2, <2>6, KeptIsSound
<1>9. CASE ApplyEnds
      <2> DEFINE t == [tab EXCEPT !.applying = FALSE]
      <2>1. Step(Refresh(t), {}, {}) /\ Calm
            BY <1>9 DEF ApplyEnds
      <2>2. t \in Tabs /\ ~t.applying
            BY <1>0 DEF Tabs
      <2>3. Sound(t, given.inserts, page, excused)
            BY <1>0, SmallChangesAreSound
      <2> HIDE DEF t
      <2>4. Sound(Refresh(t), given.inserts, page, excused)
            BY <2>2, <2>3, RefreshIsSound
      <2>5. QED BY <2>1, <2>4, QuietIsSound
<1>10. QED BY <1>1, <1>2, <1>3, <1>5, <1>6, <1>7, <1>8, <1>9 DEF Outside
-----------------------------------------------------------------------------
(* The theorems.                                                           *)

\* A fresh tab satisfies the invariant.
LEMMA InitIsSound == Init => IInv
<1> SUFFICES ASSUME Init PROVE IInv
    OBVIOUS
<1>1. /\ tab.st = "IDLE" /\ tab.kind = "replace" /\ tab.voice = "off" /\ ~tab.rows
      /\ tab.text = tab.saved /\ ~tab.placeholder /\ tab.watched = 0 /\ ~tab.held
      /\ ~tab.overlay
      BY DEF Init
<1>2. Sound(tab, given.inserts, page, excused)
      BY <1>1 DEF Sound, Shaped, Copied, Badged, Placed, Held, Barred, Overlaid, Session
<1>3. Generated
      BY DEF Init, Generated
<1>4. QED BY <1>2, <1>3 DEF IInv

\* No step breaks the invariant, whatever came before it.
LEMMA Invariance == Spec => [](TypeOK /\ IInv)
<1>1. TypeOK /\ IInv /\ [Next]_vars => IInv'
      <2> SUFFICES ASSUME TypeOK, IInv, [Next]_vars PROVE IInv'
          OBVIOUS
      <2>1. CASE UNCHANGED vars
            BY <2>1 DEF vars, IInv, Generated, Sound, Shaped, Copied, Badged, Placed,
                        Held, Barred, Overlaid
      <2>2. QED BY <2>1, MouseIsSound, EditorIsSound, ControlsAreSound,
                   KeyboardIsSound, VoiceIsSound, AnswersAreSound, OutsideIsSound
                DEF Next
<1>2. QED BY <1>1, InitIsSound, TypeCorrect, PTL DEF Spec

(* Every way out of the copy editor puts the text back.                    *)
THEOREM TextIsSaved == Spec => []PageShowsWhatIsSaved
<1>1. IInv => PageShowsWhatIsSaved
      BY DEF IInv, Sound, Copied, Without, PageShowsWhatIsSaved
<1>2. QED BY <1>1, Invariance, PTL

(* Whoever edits or decides has the controls to do it with.                *)
THEOREM ControlsStay == Spec => []ControlsAreThere
<1>1. IInv => EditingCanBeSaved
      BY DEF IInv, Sound, Badged, EditingCanBeSaved
<1>2. IInv => BarWhileDeciding
      BY DEF IInv, Sound, Barred, Without, Session, BarWhileDeciding
<1>3. QED BY <1>1, <1>2, Invariance, PTL DEF ControlsAreThere

\* The invariant says of placeholder, observer and overlay what they are for.
LEMMA LeftBehind == TypeOK /\ IInv => NothingIsLeftBehind
<1> SUFFICES ASSUME TypeOK, IInv PROVE NothingIsLeftBehind
    OBVIOUS
<1>1. PlaceholderHasAPurpose
      BY DEF IInv, Sound, Placed, Without, PlaceholderHasAPurpose
<1>2. HoldsOnlyInSession
      BY DEF IInv, Sound, Held, Without, Session, HoldsOnlyInSession
<1>3. OverlayOnlyWhileConfiguring
      BY DEF IInv, Sound, Overlaid, Without, OverlayOnlyWhileConfiguring
<1>4. QED BY <1>1, <1>2, <1>3 DEF NothingIsLeftBehind

\* The session a handler leaves in the tab: the one it finds, or none.
Sessionless(u, t) == u.session \in {t.session, 0}

\* No helper of the script gives the tab a session.
LEMMA HandlersStartNothing ==
  ASSUME NEW t \in Tabs
  PROVE  /\ Sessionless(CancelInsert(t), t) /\ Sessionless(BackToPicking(t), t)
         /\ Sessionless(CancelEditing(t), t) /\ Sessionless(CleanUp(t), t)
         /\ Sessionless(CleanUpAccepted(t), t) /\ Sessionless(Cycling(t), t)
         /\ Sessionless(FinalizeInsert(Cycling(t)), t) /\ Sessionless(Refresh(t), t)
         /\ Sessionless(ToggledPick(t), t) /\ Sessionless(ToggledInsert(t), t)
         /\ Sessionless(Accepted(t), t) /\ Sessionless(EnterKey(t), t)
         /\ Sessionless(EscapeKey(t), t)
         /\ \A m \in Badges : Sessionless(Configure(t, m), t)
<1>0. \A s \in Tabs : HideBar(s) \in Tabs /\ HideBar(s).session = s.session
      BY HideBarType, HideBarDoes DEF Hidden
<1>1. \A s \in Tabs : Sessionless(CancelInsert(s), s)
      <2> SUFFICES ASSUME NEW s \in Tabs PROVE Sessionless(CancelInsert(s), s)
          OBVIOUS
      <2> DEFINE h == HideBar(s)
      <2>1. h \in Tabs /\ h.session = s.session
            BY <1>0
      <2> HIDE DEF h
      <2>2. CancelInsert(s).session = h.session
            BY <2>1 DEF CancelInsert, ClearInsertPicking, FinalizeInsert, ClearNotes,
                        HideOverlay, Tabs, h
      <2>3. QED BY <2>1, <2>2 DEF Sessionless
<1>2. Sessionless(BackToPicking(t), t)
      <2> DEFINE h == HideBar(t)
      <2>1. h \in Tabs /\ h.session = t.session
            BY <1>0
      <2> HIDE DEF h
      <2>2. BackToPicking(t).session = h.session
            BY <2>1 DEF BackToPicking, Badge, ClearNotes, HideOverlay, Tabs, h
      <2>3. QED BY <2>1, <2>2 DEF Sessionless
<1>3. Sessionless(CancelEditing(t), t)
      <2> DEFINE d == DisableEdit(RestoreDrafts([t EXCEPT !.st = "CONFIGURING"]))
      <2>1. d.session = t.session
            BY DEF RestoreDrafts, DisableEdit, Tabs
      <2>2. d \in Tabs
            BY HelperTypes DEF States
      <2>3. CancelEditing(t) = Badge(ShowOverlay(ShowBar(d, "configure")), "idle")
            BY DEF CancelEditing
      <2> HIDE DEF d
      <2>4. Badge(ShowOverlay(ShowBar(d, "configure")), "idle").session = d.session
            BY <2>2 DEF Badge, ShowOverlay, ShowBar, Tabs
      <2>5. QED BY <2>1, <2>3, <2>4 DEF Sessionless
<1>4. Sessionless(CleanUp(t), t) /\ Sessionless(CleanUpAccepted(t), t)
      <2> DEFINE e == EndSession(t)
      <2>1. e \in Tabs
            BY HandlerTypes
      <2>2. e.session = 0
            BY <1>0 DEF EndSession, Badge, Tabs
      <2> HIDE DEF e
      <2>3. /\ FinalizeInsert(e).session = 0
            /\ [e EXCEPT !.pending = 0].session = 0
            BY <2>1, <2>2 DEF FinalizeInsert, Tabs
      <2>4. QED BY <2>3 DEF CleanUp, CleanUpAccepted, Sessionless, e
<1>5. Sessionless(Cycling(t), t) /\ Sessionless(FinalizeInsert(Cycling(t)), t)
      <2> DEFINE c == Cycling(t)
      <2>1. c \in Tabs
            BY HandlerTypes
      <2>2. c.session = t.session
            BY DEF Cycling, UpdateBar, DisableEdit, Tabs
      <2> HIDE DEF c
      <2>3. FinalizeInsert(c).session = c.session
            BY <2>1 DEF FinalizeInsert, Tabs
      <2>4. QED BY <2>2, <2>3 DEF Sessionless, c
<1>6. Sessionless(Refresh(t), t) /\ Sessionless(Accepted(t), t)
      <2>1. Refresh(t).session = t.session
            BY RefreshDoes DEF Refreshed
      <2>2. Accepted(t).session = t.session
            BY DEF Accepted, UpdateBar, Tabs
      <2>3. QED BY <2>1, <2>2 DEF Sessionless
<1>7. \A m \in Badges : Sessionless(Configure(t, m), t)
      BY ConfigureDoes DEF Configured, Sessionless
<1>8. Sessionless(ToggledPick(t), t)
      <2> DEFINE off == [t EXCEPT !.pick = FALSE]
                 h == HideBar(off)
                 u == ToggledPick(t)
      <2>1. off \in Tabs /\ off.session = t.session
            BY DEF Tabs
      <2>2. CASE ~t.pick
            BY <2>2 DEF ToggledPick, ClearInsertPicking, FinalizeInsert, Sessionless, Tabs
      <2>3. CASE t.pick /\ t.kind = "insert" /\ t.st = "CONFIGURING"
            <3>1. u = CancelInsert(off)
                  BY <2>3 DEF ToggledPick
            <3> HIDE DEF off, u
            <3>2. Sessionless(u, t)
                  BY <1>1, <2>1, <3>1 DEF Sessionless
            <3>3. QED BY <3>2 DEF u
      <2>4. CASE t.pick /\ ~(t.kind = "insert" /\ t.st = "CONFIGURING")
            <3>1. u = [h EXCEPT !.sel = FALSE, !.kind = "replace",
                         !.st = IF @ \in {"PICKING", "CONFIGURING"} THEN "IDLE"
                                ELSE @]
                  BY <2>4 DEF ToggledPick
            <3>2. h \in Tabs /\ h.session = t.session
                  BY <1>0, <2>1
            <3> HIDE DEF h, u
            <3>3. Sessionless(u, t)
                  BY <3>1, <3>2 DEF Sessionless, Tabs
            <3>4. QED BY <3>3 DEF u
      <2>5. QED BY <2>2, <2>3, <2>4
<1>9. Sessionless(ToggledInsert(t), t)
      <2> DEFINE in == [t EXCEPT !.insert = TRUE, !.pick = FALSE]
                 h == HideBar(in)
                 on == [h EXCEPT !.sel = FALSE, !.kind = "replace"]
                 u == ToggledInsert(t)
      <2>1. in \in Tabs /\ in.session = t.session
            BY DEF Tabs
      <2>2. CASE t.insert
            BY <2>2 DEF ToggledInsert, ClearInsertPicking, FinalizeInsert, Sessionless, Tabs
      <2>3. CASE ~t.insert
            <3>1. u \in {CancelInsert(on),
                         [on EXCEPT !.st = IF @ = "IDLE" THEN "PICKING" ELSE @]}
                  BY <2>3 DEF ToggledInsert
            <3>2. h \in Tabs /\ h.session = t.session
                  BY <1>0, <2>1
            <3> HIDE DEF h, u
            <3>3. on \in Tabs /\ on.session = t.session
                  BY <3>2 DEF Tabs
            <3> HIDE DEF on
            <3>4. Sessionless(CancelInsert(on), t)
                  BY <1>1, <3>3 DEF Sessionless
            <3>5. [on EXCEPT !.st = IF @ = "IDLE" THEN "PICKING" ELSE @].session = t.session
                  BY <3>3 DEF Tabs
            <3>6. Sessionless(u, t)
                  BY <3>1, <3>4, <3>5 DEF Sessionless
            <3>7. QED BY <3>6 DEF u
      <2>4. QED BY <2>2, <2>3
<1>10. Sessionless(EnterKey(t), t)
      <2>1. EnterKey(t) \in {Configure(t, "idle"), Accepted(t), t}
            BY DEF EnterKey
      <2>2. "idle" \in Badges
            BY DEF Badges
      <2>3. QED BY <1>6, <1>7, <2>1, <2>2 DEF Sessionless
<1>11. Sessionless(EscapeKey(t), t)
      <2>1. EscapeKey(t) \in {[t EXCEPT !.picker = FALSE], CancelEditing(t),
               CancelInsert(t), BackToPicking(t), ToggledInsert(t), ToggledPick(t),
               [t EXCEPT !.st = "IDLE"], t}
            BY DEF EscapeKey
      <2>2. /\ [t EXCEPT !.picker = FALSE].session = t.session
            /\ [t EXCEPT !.st = "IDLE"].session = t.session
            BY DEF Tabs
      <2>3. QED BY <1>1, <1>2, <1>3, <1>8, <1>9, <2>1, <2>2 DEF Sessionless
<1>12. QED BY <1>1, <1>2, <1>3, <1>4, <1>5, <1>6, <1>7, <1>8, <1>9, <1>10, <1>11
\* While an Apply runs, a step starts a session only by a voice that creates.
LEMMA ApplyIsAlone == TypeOK /\ [Next]_vars => ApplyStartsNoSession
<1> SUFFICES ASSUME TypeOK, [Next]_vars PROVE ApplyStartsNoSession
    OBVIOUS
<1>0. /\ tab \in Tabs
      /\ \A u : Sessionless(u, tab) /\ tab' = u => ApplyStartsNoSession
      <2>1. tab \in Tabs
            BY DEF TypeOK
      <2>2. \A u : Sessionless(u, tab) /\ tab' = u => ApplyStartsNoSession
            BY DEF Sessionless, ApplyStartsNoSession
      <2>3. QED BY <2>1, <2>2
<1>00. "idle" \in Badges /\ tab.badge \in Badges
       BY <1>0 DEF Badges, Tabs
<1>000. Sessionless(tab, tab)
        BY DEF Sessionless
<1>1. CASE UNCHANGED vars
      BY <1>0, <1>000, <1>1 DEF vars
<1>2. CASE Mouse
      <2>1. CASE Hover \/ Annotate
            <3>1. tab'.session = tab.session
                  BY <1>0, <2>1 DEF Hover, Annotate, Step, Tabs
            <3>2. QED BY <3>1 DEF ApplyStartsNoSession
      <2>2. CASE ClickAway
            <3> DEFINE shut == [tab EXCEPT !.picker = FALSE]
                       b == BackToPicking(shut)
            <3>1. tab' \in {CancelInsert(shut), [b EXCEPT !.hover = FALSE]}
                  BY <2>2 DEF ClickAway, Step
            <3>2. shut \in Tabs /\ shut.session = tab.session
                  BY <1>0 DEF Tabs
            <3> HIDE DEF shut
            <3>3. b \in Tabs /\ Sessionless(b, shut) /\ Sessionless(CancelInsert(shut), shut)
                  BY <3>2, HandlerTypes, HandlersStartNothing
            <3> HIDE DEF b
            <3>4. [b EXCEPT !.hover = FALSE].session = b.session
                  BY <3>3 DEF Tabs
            <3>5. Sessionless(tab', tab)
                  BY <3>1, <3>2, <3>3, <3>4 DEF Sessionless
            <3>6. QED BY <1>0, <3>5
      <2>3. CASE ClickEdge
            <3> DEFINE v == [tab EXCEPT !.edge = FALSE, !.placeholder = TRUE,
                                        !.kind = "insert"]
            <3>1. tab' = Configure(v, tab.badge)
                  BY <2>3 DEF ClickEdge, Step
            <3>2. v \in Tabs /\ v.session = tab.session
                  BY <1>0 DEF Tabs
            <3> HIDE DEF v
            <3>3. Sessionless(tab', tab)
                  BY <1>00, <3>1, <3>2, HandlersStartNothing DEF Sessionless
            <3>4. QED BY <1>0, <3>3
      <2>4. CASE ClickElement
            <3>1. tab' = Configure(tab, "idle")
                  BY <2>4 DEF ClickElement, Step
            <3>2. QED BY <1>0, <1>00, <3>1, HandlersStartNothing
      <2>5. QED BY <1>2, <2>1, <2>2, <2>3, <2>4 DEF Mouse
<1>3. CASE Editor
      <2>1. CASE EditCopy
            <3> DEFINE e == [tab EXCEPT !.st = "EDITING"]
                       h == HideBar(e)
            <3>1. tab' = EnableEdit(Badge(HideOverlay(h), "editing"))
                  BY <2>1 DEF EditCopy, Step
            <3>2. e \in Tabs /\ e.session = tab.session
                  BY <1>0 DEF Tabs, States
            <3> HIDE DEF e
            <3>3. h \in Tabs /\ h.session = tab.session
                  BY <3>2, HideBarType, HideBarDoes DEF Hidden
            <3> HIDE DEF h
            <3>4. tab'.session = h.session
                  BY <3>1, <3>3 DEF EnableEdit, Badge, HideOverlay, Tabs
            <3>5. QED BY <3>3, <3>4 DEF ApplyStartsNoSession
      <2>2. CASE Type \/ EscapeInText
            <3>1. tab'.session = tab.session
                  BY <1>0, <2>2 DEF Type, EscapeInText, Step, Tabs
            <3>2. QED BY <3>1 DEF ApplyStartsNoSession
      <2>3. CASE Cancel \/ Save
            <3>1. tab' \in {tab, CancelEditing(tab)}
                  BY <2>3 DEF Cancel, Save, Step
            <3>2. QED BY <1>0, <1>000, <3>1, HandlersStartNothing
      <2>4. CASE SaveAnswered
            <3>1. PICK a \in asks :
                     /\ a.kind = "save"
                     /\ tab' = Badge(ShowOverlay(ShowBar(DisableEdit(
                          [tab EXCEPT !.saved = a.no, !.st = "CONFIGURING"]),
                          "configure")), "idle")
                  BY <2>4 DEF SaveAnswered
            <3>2. a.no \in Versions
                  BY <3>1 DEF TypeOK, Asks, Fade
            <3> DEFINE d == DisableEdit([tab EXCEPT !.saved = a.no, !.st = "CONFIGURING"])
            <3>3. d \in Tabs /\ d.session = tab.session
                  <4>1. [tab EXCEPT !.saved = a.no, !.st = "CONFIGURING"] \in Tabs
                        BY <1>0, <3>2 DEF Tabs, States
                  <4>2. d \in Tabs
                        BY <4>1, HelperTypes
                  <4>3. QED BY <1>0, <4>2 DEF DisableEdit, Tabs
            <3> HIDE DEF d
            <3>4. Badge(ShowOverlay(ShowBar(d, "configure")), "idle").session = d.session
                  BY <3>3 DEF Badge, ShowOverlay, ShowBar, Tabs
            <3>5. tab'.session = tab.session
                  BY <3>1, <3>3, <3>4 DEF d
            <3>6. QED BY <3>5 DEF ApplyStartsNoSession
      <2>5. CASE SaveFails
            BY <1>0, <1>000, <2>5 DEF SaveFails
      <2>6. QED BY <1>3, <2>1, <2>2, <2>3, <2>4, <2>5 DEF Editor
<1>4. CASE Controls
      <2>1. CASE ClickGo \/ ClickCreate
            BY <2>1 DEF ClickGo, ClickCreate, Offered, ApplyStartsNoSession
      <2>2. CASE Prompt \/ TogglePicker \/ ToggleTune
            <3>1. tab'.session = tab.session
                  BY <1>0, <2>2 DEF Prompt, TogglePicker, ToggleTune, Step, Tabs
            <3>2. QED BY <3>1 DEF ApplyStartsNoSession
      <2>3. CASE TogglePick \/ ToggleInsert \/ ClickAccept \/ ClickDiscard
            <3>1. tab' \in {ToggledPick(tab), ToggledInsert(tab), Accepted(tab), tab}
                  BY <2>3 DEF TogglePick, ToggleInsert, ClickAccept, ClickDiscard, Step
            <3>2. QED BY <1>0, <1>000, <3>1, HandlersStartNothing
      <2>4. QED BY <1>4, <2>1, <2>2, <2>3 DEF Controls
<1>5. CASE Keys
      <2>1. CASE Arrow
            <3> DEFINE c == Configure(tab, "idle")
            <3>1. tab' = DisableEdit(c)
                  BY <2>1 DEF Arrow, Step
            <3>2. c \in Tabs /\ Sessionless(c, tab)
                  BY <1>0, <1>00, HandlerTypes, HandlersStartNothing
            <3> HIDE DEF c
            <3>3. DisableEdit(c).session = c.session
                  BY <3>2 DEF DisableEdit, Tabs
            <3>4. Sessionless(tab', tab)
                  BY <3>1, <3>2, <3>3 DEF Sessionless
            <3>5. QED BY <1>0, <3>4
      <2>2. CASE Enter
            BY <1>0, <2>2, HandlersStartNothing DEF Enter, Step
      <2>3. CASE EnterInChat \/ Escape
            <3>1. \E t \in {EnterKey(tab), EscapeKey(tab), tab} :
                     \/ \E n : tab' = Submitted(t, n)
                     \/ \E b \in {FALSE, tab.chat} : tab' = [t EXCEPT !.chat = @ /\ ~b]
                  BY <2>3 DEF EnterInChat, Escape, Step
            <3>2. PICK t \in {EnterKey(tab), EscapeKey(tab), tab} :
                     \/ \E n : tab' = Submitted(t, n)
                     \/ \E b \in {FALSE, tab.chat} : tab' = [t EXCEPT !.chat = @ /\ ~b]
                  BY <3>1
            <3>3. t \in Tabs /\ Sessionless(t, tab)
                  BY <1>0, <1>000, <3>2, KeyTypes, HandlersStartNothing
            <3>4. tab'.session = t.session
                  BY <3>2, <3>3 DEF Submitted, StopVoice, Tabs
            <3>5. Sessionless(tab', tab)
                  BY <3>3, <3>4 DEF Sessionless
            <3>6. QED BY <1>0, <3>5
      <2>4. CASE TypeInChat
            <3>1. tab'.session = tab.session
                  BY <1>0, <2>4 DEF TypeInChat, Step, Tabs
            <3>2. QED BY <3>1 DEF ApplyStartsNoSession
      <2>5. CASE EscapeInInput
            <3> DEFINE k == EscapeKey(tab)
                       d == DisableEdit(k)
                       h == HideBar(d)
            <3>1. tab' = Badge([h EXCEPT !.st = "PICKING"], "hidden")
                  BY <2>5 DEF EscapeInInput, Step, LeaveInput
            <3>2. k \in Tabs /\ Sessionless(k, tab)
                  BY <1>0, KeyTypes, HandlersStartNothing
            <3> HIDE DEF k
            <3>3. d \in Tabs /\ d.session = k.session
                  <4>1. d \in Tabs
                        BY <3>2, HelperTypes
                  <4>2. d.session = k.session
                        BY <3>2 DEF DisableEdit, Tabs
                  <4>3. QED BY <4>1, <4>2
            <3> HIDE DEF d
            <3>4. h \in Tabs /\ h.session = d.session
                  BY <3>3, HideBarType, HideBarDoes DEF Hidden
            <3> HIDE DEF h
            <3>5. tab'.session = h.session
                  BY <3>1, <3>4 DEF Badge, Tabs
            <3>6. Sessionless(tab', tab)
                  BY <3>2, <3>3, <3>4, <3>5 DEF Sessionless
            <3>7. QED BY <1>0, <3>6
      <2>6. QED BY <1>5, <2>1, <2>2, <2>3, <2>4, <2>5 DEF Keys
<1>6. CASE Voice
      <2>1. CASE StartVoice \/ VoiceHears
            <3>1. tab'.session = tab.session
                  BY <1>0, <2>1 DEF StartVoice, VoiceHears, Step, Tabs
            <3>2. QED BY <3>1 DEF ApplyStartsNoSession
      <2>2. CASE VoiceEnds
            <3> DEFINE t == StopVoice(tab)
            <3>1. /\ t \in Tabs /\ t.session = tab.session
                  /\ t.applying = tab.applying
                  BY <1>0 DEF StopVoice, Tabs
            <3>2. \/ ~t.applying
                  \/ tab.voice = "create"
                  \/ \E n : tab' = Submitted(t, n)
                  \/ tab' = t
                  BY <2>2 DEF VoiceEnds, Go, CanGo, Step
            <3> HIDE DEF t
            <3>3. CASE \E n : tab' = Submitted(t, n)
                  <4>1. tab'.session = t.session
                        BY <3>1, <3>3 DEF Submitted, StopVoice, Tabs
                  <4>2. QED BY <3>1, <4>1 DEF ApplyStartsNoSession
            <3>4. QED BY <3>1, <3>2, <3>3 DEF ApplyStartsNoSession
      <2>3. QED BY <1>6, <2>1, <2>2 DEF Voice
<1>7. CASE Answers
      <2>1. CASE SteerFails \/ SteerEnds \/ FadeBar
            <3>1. tab'.session = tab.session
                  BY <1>0, <2>1 DEF SteerFails, SteerEnds, FadeBar, Step, Tabs
            <3>2. QED BY <3>1 DEF ApplyStartsNoSession
      <2>2. CASE SteerAnswered \/ DiscardFails
            BY <1>0, <1>000, <2>2 DEF SteerAnswered, DiscardFails
      <2>3. CASE AcceptFails \/ Complete
            <3>1. \/ tab' = UpdateBar([tab EXCEPT !.pending = 0, !.st = "CYCLING"],
                                      "cycling")
                  \/ tab' = UpdateBar([tab EXCEPT !.st = "CONFIRMED"], "confirmed")
                  \/ tab' = [tab EXCEPT !.pending = 0]
                  \/ tab' = tab
                  BY <2>3 DEF AcceptFails, Complete
            <3>2. tab'.session = tab.session
                  BY <1>0, <3>1 DEF UpdateBar, Tabs
            <3>3. QED BY <3>2 DEF ApplyStartsNoSession
      <2>4. CASE DiscardAnswered \/ Finish \/ SourceAnswered
            <3>1. tab' \in {CleanUp(tab), CleanUpAccepted(tab), Cycling(tab), tab}
                  BY <2>4 DEF DiscardAnswered, Finish, SourceAnswered
            <3>2. QED BY <1>0, <1>000, <3>1, HandlersStartNothing
      <2>5. QED BY <1>7, <2>1, <2>2, <2>3, <2>4 DEF Answers
<1>8. CASE Outside
      <2>1. CASE AgentWrites \/ Done
            BY <1>0, <1>000, <2>1 DEF AgentWrites, Done, Step
      <2>2. CASE VariantsMount
            <3>1. tab' \in {Cycling(tab), FinalizeInsert(Cycling(tab)), tab}
                  BY <2>2 DEF VariantsMount, Step
            <3>2. QED BY <1>0, <1>000, <3>1, HandlersStartNothing
      <2>3. CASE ErrorEvent
            <3> DEFINE h == HideBar(tab)
            <3>1. \/ tab' = UpdateBar([tab EXCEPT !.pending = 0, !.st = "CYCLING"],
                                      "cycling")
                  \/ tab' = Badge([h EXCEPT !.st = "PICKING"], "hidden")
                  BY <2>3 DEF ErrorEvent, Step
            <3>2. h \in Tabs /\ h.session = tab.session
                  BY <1>0, HideBarType, HideBarDoes DEF Hidden
            <3> HIDE DEF h
            <3>3. tab'.session = tab.session
                  BY <1>0, <3>1, <3>2 DEF UpdateBar, Badge, Tabs
            <3>4. QED BY <3>3 DEF ApplyStartsNoSession
      <2>4. CASE Connected
            <3>1. tab'.session = tab.session
                  BY <1>0, <2>4 DEF Connected, Step, Tabs
            <3>2. QED BY <3>1 DEF ApplyStartsNoSession
      <2>5. CASE ServerLost
            <3> DEFINE h == HideBar(tab)
            <3>1. tab' = HideOverlay([h EXCEPT !.watched = 0, !.held = FALSE,
                           !.sel = FALSE, !.st = IF tab.session = 0 THEN "IDLE" ELSE @])
                  BY <2>5 DEF ServerLost, Step
            <3>2. h \in Tabs /\ h.session = tab.session
                  BY <1>0, HideBarType, HideBarDoes DEF Hidden
            <3> HIDE DEF h
            <3>3. tab'.session = tab.session
                  BY <3>1, <3>2 DEF HideOverlay, Tabs
            <3>4. QED BY <3>3 DEF ApplyStartsNoSession
      <2>6. CASE ApplyStarts \/ ApplyEnds
            <3>1. PICK b \in BOOLEAN : tab' = Refresh([tab EXCEPT !.applying = b])
                  BY <2>6 DEF ApplyStarts, ApplyEnds, Step
            <3> DEFINE t == [tab EXCEPT !.applying = b]
            <3>2. t \in Tabs /\ t.session = tab.session
                  BY <1>0 DEF Tabs
            <3> HIDE DEF t
            <3>3. Sessionless(Refresh(t), t)
                  BY <3>2, HandlersStartNothing
            <3>4. Sessionless(tab', tab)
                  BY <3>1, <3>2, <3>3 DEF Sessionless, t
            <3>5. QED BY <1>0, <3>4
      <2>7. QED BY <1>8, <2>1, <2>2, <2>3, <2>4, <2>5, <2>6 DEF Outside
<1>9. QED BY <1>1, <1>2, <1>3, <1>4, <1>5, <1>6, <1>7, <1>8 DEF Next

(* No way out of a mode leaves behind what the mode put on the page, and    *)
(* no session starts while an Apply writes, but by voice.                  *)
THEOREM SessionsAreClean == Spec => SessionsComeAndGoClean
<1>1. TypeOK /\ IInv => NothingIsLeftBehind
      BY LeftBehind
<1>2. TypeOK /\ [Next]_vars => ApplyStartsNoSession
      BY ApplyIsAlone
<1>3. QED BY <1>1, <1>2, Invariance, PTL DEF Spec, SessionsComeAndGoClean
=============================================================================
