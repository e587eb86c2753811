--------------------------- MODULE LiveAnnotations ---------------------------
(***************************************************************************)
(* The drawing layer of the live overlay: while an element (or the         *)
(* placeholder of an insertion) is being configured, a press and release   *)
(* on it drops a pin whose note is typed beside it, a drag paints a        *)
(* stroke, pins are dragged, reopened and deleted, and Go (or Create)      *)
(* snapshots all of it, clears the layer and hands the snapshot to an      *)
(* asynchronous capture that finally posts the generate event.             *)
(*                                                                         *)
(* The code addresses pins by their position in annotState.comments.  Here *)
(* a pin also carries the name `id` the user would give it ("the one I     *)
(* pressed"), which no action reads: a note typed beside pin p is the      *)
(* value p, so a note on the wrong pin is visible.                         *)
(*                                                                         *)
(* One pointer (a mouse): a press and its release alternate.  Coordinates  *)
(* are left out, except whether a drag has passed DRAG_THRESHOLD.  Between *)
(* two presses within PIN_DBL_CLICK_MS (300 ms) there is time for the      *)
(* release of the first only: any other event lets the window pass.        *)
(***************************************************************************)
EXTENDS Integers, Sequences, FiniteSets, SequencesExt

CONSTANTS
    MaxMarks,   \* pins and strokes ever drawn
    MaxGoes     \* sessions started

ASSUME MarksAssumption == MaxMarks \in Nat /\ MaxGoes \in Nat \ {0}

VARIABLES
    mode,       \* state: "off", "configure", "text" (EDITING) or "session"
    kind,       \* configureKind
    active,     \* annotActive: the overlay is shown
    pins,       \* annotState.comments
    strokes,    \* annotState.strokes, each with its name
    pointer,    \* annotPointer
    editing,    \* annotEditing
    lastPress,  \* annotLastPinClick, 0 once its window is over
    resizing,   \* placeholderResizeDrag
    prompt,     \* the prompt field has text
    offered,    \* the Create button is enabled
    drawn,      \* marks drawn so far (their names)
    captures,   \* the captures under way
    element,    \* what the captures have done to the page's element
    sent,       \* the generate events posted
    shown       \* what the layer showed when each session was started

layer == <<active, pins, strokes, pointer, editing, lastPress, resizing>>
captureVars == <<captures, element, sent>>
annotationVars == <<mode, kind, layer, prompt, offered, drawn, captureVars,
                    shown>>

Nothing == [what |-> "nothing"]
Marks == 1..MaxMarks

Pin(id) == [id |-> id, text |-> 0]
NewMark(moved) == [what |-> "new", moved |-> moved]
Holding(i, id, slipped, moved) ==
    [what |-> "pin", idx |-> i, pressed |-> id, slipped |-> slipped,
     moved |-> moved]
NoteOf(i, original, typed) ==
    [what |-> "note", idx |-> i, original |-> original, typed |-> typed]

AnnotationsInit ==
    /\ mode = "off" /\ kind = "replace"
    /\ active = FALSE /\ pins = <<>> /\ strokes = {}
    /\ pointer = Nothing /\ editing = Nothing /\ lastPress = 0
    /\ resizing = FALSE /\ prompt = FALSE /\ offered = FALSE
    /\ drawn = 0 /\ captures = {} /\ sent = {} /\ shown = <<>>
    /\ element = [nodes |-> {}, position |-> "own"]

-----------------------------------------------------------------------------
(* Helpers of the layer.                                                   *)

\* finalizeEditingPin: the note of pin `editing.idx` is what its input holds;
\* a pin left without text goes away, and the pins after it move down.
Finalized(ps, ed) ==
    IF ed = Nothing THEN ps
    ELSE IF ed.typed # 0 THEN [ps EXCEPT ![ed.idx].text = ed.typed]
    ELSE RemoveAt(ps, ed.idx)

\* cancelEditingPin: back to the text before, or away with a new pin.
Cancelled(ps, ed) ==
    IF ed.original # 0 THEN [ps EXCEPT ![ed.idx].text = ed.original]
    ELSE RemoveAt(ps, ed.idx)

\* canCreateInsert: a prompt, a pin (even without a note yet) or a stroke.
CanCreateInsert(ps, ss, hasPrompt) == hasPrompt \/ ps # <<>> \/ ss # {}

\* syncInsertCreateButton: only after something was drawn or the prompt was
\* edited, never after a deletion.
SyncInsertCreateButton(ps, ss, hasPrompt) ==
    offered' = IF kind = "insert" THEN CanCreateInsert(ps, ss, hasPrompt)
               ELSE offered

ClearAnnotations ==
    /\ pins' = <<>> /\ strokes' = {} /\ pointer' = Nothing
    /\ editing' = Nothing /\ lastPress' = 0

\* hideAnnotOverlay alone: an open note is dropped, the marks stay.
HideAnnotOverlay ==
    active' = FALSE /\ resizing' = FALSE

Quietly == UNCHANGED <<mode, kind, prompt, offered, captureVars, shown>>

-----------------------------------------------------------------------------
(* The pointer.                                                            *)

CanPress == active /\ pointer = Nothing /\ ~resizing

\* The Clear chip, shown while anything is drawn.
PressClear ==
    /\ CanPress /\ (pins # <<>> \/ strokes # {})
    /\ ClearAnnotations
    /\ Quietly /\ UNCHANGED <<active, resizing, drawn>>

PressStroke(s) ==
    /\ CanPress /\ s \in strokes
    /\ strokes' = strokes \ {s} /\ lastPress' = 0
    /\ Quietly
    /\ UNCHANGED <<active, pins, pointer, editing, resizing, drawn>>

\* The pin deleted under its open note.
DoublePressKeepsNote(i) ==
    /\ CanPress /\ i \in DOMAIN pins /\ lastPress = i
    /\ pins' = RemoveAt(pins, i) /\ lastPress' = 0
    /\ Quietly
    /\ UNCHANGED <<active, strokes, pointer, editing, resizing, drawn>>

\* The second of two quick presses on one pin deletes it, an open note of
\* this pin included.
DoublePressPin(i) ==
    /\ CanPress /\ i \in DOMAIN pins /\ lastPress = i
    /\ pins' = RemoveAt(pins, i) /\ lastPress' = 0
    /\ editing' = IF editing # Nothing /\ editing.idx = i
                  THEN Nothing ELSE editing
    /\ Quietly /\ UNCHANGED <<active, strokes, pointer, resizing, drawn>>

\* A press on a pin commits the open note of another one first.  The place
\* of the pressed pin was read before: when the commit removes an emptied
\* pin below it, the place now holds the pin after, or none, and then the
\* handler throws before it takes hold of anything.
PressPin(i) ==
    /\ CanPress /\ i \in DOMAIN pins
    /\ lastPress' = i
    /\ IF editing # Nothing /\ editing.idx = i
       THEN UNCHANGED <<pins, pointer, editing>>
       ELSE LET left == Finalized(pins, editing) IN
            /\ pins' = left /\ editing' = Nothing
            /\ pointer' = IF i \in DOMAIN left
                          THEN Holding(i, pins[i].id,
                                 editing # Nothing /\ editing.idx < i
                                   /\ Len(left) < Len(pins), FALSE)
                          ELSE Nothing
    /\ Quietly /\ UNCHANGED <<active, strokes, resizing, drawn>>

\* A press on the empty surface commits an open note, or starts a mark.
PressSurface ==
    /\ CanPress
    /\ lastPress' = 0
    /\ IF editing # Nothing
       THEN /\ pins' = Finalized(pins, editing) /\ editing' = Nothing
            /\ UNCHANGED pointer
       ELSE /\ drawn < MaxMarks
            /\ pointer' = NewMark(FALSE) /\ UNCHANGED <<pins, editing>>
    /\ Quietly /\ UNCHANGED <<active, strokes, resizing, drawn>>

\* The edges of an insertion's placeholder are dragged to resize it.
PressEdge ==
    /\ CanPress /\ kind = "insert" /\ mode = "configure"
    /\ resizing' = TRUE /\ lastPress' = 0
    /\ Quietly
    /\ UNCHANGED <<active, pins, strokes, pointer, editing, drawn>>

Drag ==
    /\ active /\ pointer # Nothing /\ ~pointer.moved
    /\ pointer' = IF pointer.what = "pin" /\ pointer.idx \notin DOMAIN pins
                  THEN Nothing ELSE [pointer EXCEPT !.moved = TRUE]
    /\ lastPress' = 0
    /\ Quietly
    /\ UNCHANGED <<active, pins, strokes, editing, resizing, drawn>>

\* beginEditPin, which does nothing for a place that shows no pin.
BeginEditPin(ps, i) ==
    editing' = IF i \in DOMAIN ps
               THEN NoteOf(i, ps[i].text, ps[i].text) ELSE editing

ReleasePin ==
    /\ active /\ pointer.what = "pin"
    /\ pointer' = Nothing
    /\ IF pointer.moved
       THEN lastPress' = 0 /\ UNCHANGED editing
       ELSE BeginEditPin(pins, pointer.idx) /\ UNCHANGED lastPress
    /\ Quietly /\ UNCHANGED <<active, pins, strokes, resizing, drawn>>

ReleaseMark ==
    /\ active /\ pointer.what = "new"
    /\ pointer' = Nothing /\ drawn' = drawn + 1 /\ lastPress' = 0
    /\ LET mark == drawn + 1
           ps == IF pointer.moved THEN pins ELSE Append(pins, Pin(mark))
           ss == IF pointer.moved THEN strokes \cup {mark} ELSE strokes
       IN  /\ pins' = ps /\ strokes' = ss
           /\ IF pointer.moved THEN UNCHANGED editing
              ELSE BeginEditPin(ps, Len(ps))
           /\ SyncInsertCreateButton(ps, ss, prompt)
    /\ UNCHANGED <<mode, kind, prompt, captureVars, shown, active, resizing>>

ReleaseEdge ==
    /\ resizing
    /\ resizing' = FALSE
    /\ Quietly
    /\ UNCHANGED <<active, pins, strokes, pointer, editing, lastPress, drawn>>

-----------------------------------------------------------------------------
(* The note's input.                                                       *)

\* The user fills or empties the input beside a pin: what is typed is meant
\* for the pin that shows it.
Type ==
    /\ editing # Nothing /\ editing.idx \in DOMAIN pins
    /\ \E typed \in {0, pins[editing.idx].id} :
          editing' = [editing EXCEPT !.typed = typed]
    /\ lastPress' = 0
    /\ Quietly /\ UNCHANGED <<active, pins, strokes, pointer, resizing, drawn>>

\* Enter, or the input losing the focus.
FinalizeEditingPin ==
    /\ editing # Nothing
    /\ pins' = Finalized(pins, editing) /\ editing' = Nothing
    /\ lastPress' = 0
    /\ Quietly /\ UNCHANGED <<active, strokes, pointer, resizing, drawn>>

CancelEditingPin ==
    /\ editing # Nothing
    /\ pins' = Cancelled(pins, editing) /\ editing' = Nothing
    /\ lastPress' = 0
    /\ Quietly /\ UNCHANGED <<active, strokes, pointer, resizing, drawn>>

-----------------------------------------------------------------------------
(* The states around the layer.                                            *)

\* An element is picked, or the selection moves to another one, or a
\* placeholder is inserted: a clean layer and a new configure row.
Configure(k) ==
    /\ mode = "off" \/ (mode = "configure" /\ kind = "replace" /\ k = kind)
    /\ mode' = "configure" /\ kind' = k
    /\ active' = TRUE /\ ClearAnnotations
    /\ prompt' = FALSE /\ offered' = FALSE
    /\ UNCHANGED <<resizing, drawn, captureVars, shown>>

EditPrompt ==
    /\ mode = "configure"
    /\ prompt' = ~prompt
    /\ SyncInsertCreateButton(pins, strokes, ~prompt)
    /\ UNCHANGED <<mode, kind, layer, drawn, captureVars, shown>>

\* Escape, or a click elsewhere.
LeaveConfigure ==
    /\ mode = "configure"
    /\ mode' = "off" /\ kind' = "replace"
    /\ HideAnnotOverlay /\ ClearAnnotations
    /\ UNCHANGED <<prompt, offered, drawn, captureVars, shown>>

\* The Edit badge: its click takes the focus from an open note first, and
\* the release of a pointer precedes it.
EnterEditingMode ==
    /\ mode = "configure" /\ kind = "replace"
    /\ editing = Nothing /\ pointer = Nothing
    /\ mode' = "text"
    /\ HideAnnotOverlay
    /\ UNCHANGED <<kind, pins, strokes, pointer, editing, lastPress, prompt,
                   offered, drawn, captureVars, shown>>

\* Saved or cancelled: the layer comes back with its marks and a new row.
CancelEditing ==
    /\ mode = "text"
    /\ mode' = "configure" /\ active' = TRUE
    /\ prompt' = FALSE
    /\ UNCHANGED <<kind, pins, strokes, pointer, editing, lastPress, resizing,
                   offered, drawn, captureVars, shown>>

CancelEditingToPicking ==
    /\ mode = "text"
    /\ mode' = "off"
    /\ HideAnnotOverlay /\ ClearAnnotations
    /\ UNCHANGED <<kind, prompt, offered, drawn, captureVars, shown>>

\* The server is lost: the overlay is hidden with its marks, which the next
\* pick clears.
ServerLost ==
    /\ mode \in {"configure", "text"}
    /\ mode' = "off" /\ kind' = "replace"
    /\ HideAnnotOverlay /\ editing' = Nothing
    /\ UNCHANGED <<pins, strokes, pointer, lastPress, prompt, offered, drawn,
                   captureVars, shown>>

SessionEnds ==
    /\ mode = "session"
    /\ mode' = "off" /\ kind' = "replace"
    /\ UNCHANGED <<layer, prompt, offered, drawn, captureVars, shown>>

-----------------------------------------------------------------------------
(* Go, Create, and the capture.                                            *)

\* What the user sees: the notes beside their pins, the open one as typed;
\* an emptied note is no pin.
Displayed ==
    LET text(i) == IF editing # Nothing /\ editing.idx = i
                   THEN editing.typed ELSE pins[i].text
    IN  [notes |-> {<<pins[i].id, text(i)>> : i \in
                      {j \in DOMAIN pins : editing # Nothing /\ editing.idx = j
                                             => editing.typed # 0}},
         strokes |-> strokes]

Snapshot(ps, ss) ==
    [notes |-> {<<ps[i].id, ps[i].text>> : i \in DOMAIN ps}, strokes |-> ss]
HasAnnotations(snap) == snap.notes # {} \/ snap.strokes # {}

\* handleGo and handleInsertCreate: the open note is committed, then the
\* snapshot is taken by value, then the layer is cleared.
StartCapture ==
    /\ Len(shown) < MaxGoes
    /\ LET snap == Snapshot(Finalized(pins, editing), strokes) IN
       captures' = captures \cup
         {[session |-> Len(shown) + 1, snap |-> snap, stage |-> "fonts",
           saved |-> "none"]}
    /\ shown' = Append(shown, Displayed)
    /\ mode' = "session"
    /\ HideAnnotOverlay /\ ClearAnnotations
    /\ UNCHANGED <<kind, prompt, offered, drawn, element, sent>>

HandleGo == mode = "configure" /\ kind = "replace" /\ StartCapture

\* Create with nothing left to send only commits the open note.
HandleInsertCreate ==
    /\ mode = "configure" /\ kind = "insert" /\ offered
    /\ LET ps == Finalized(pins, editing) IN
       IF CanCreateInsert(ps, strokes, prompt) THEN StartCapture
       ELSE /\ pins' = ps /\ editing' = Nothing
            /\ Quietly
            /\ UNCHANGED <<active, strokes, pointer, lastPress, resizing,
                           drawn>>

InStage(c, stage) == c \in captures /\ c.stage = stage
Becoming(c, d) == captures' = (captures \ {c}) \cup {d}
Moves(c, stage) == Becoming(c, [c EXCEPT !.stage = stage])
Drop(c) == captures' = captures \ {c}
Picture(c, path) == [session |-> c.session, snap |-> c.snap, picture |-> path]

\* captureElementToBlob, once the fonts are ready: a static element becomes
\* relative for the time of the picture, and the marks are put into it.
Decorate(c) ==
    /\ InStage(c, "fonts")
    /\ IF HasAnnotations(c.snap)
       THEN /\ element' = [nodes |-> element.nodes \cup {c.session},
                           position |-> "relative"]
            /\ Becoming(c, [c EXCEPT !.stage = "shot",
                              !.saved = IF element.position = "own"
                                        THEN "own" ELSE "none"])
       ELSE Moves(c, "shot") /\ UNCHANGED element
    /\ UNCHANGED <<mode, kind, layer, prompt, offered, drawn, sent, shown>>

\* The finally block: whatever happened, the page's element is put back.
Undecorated(c) ==
    [nodes |-> element.nodes \ {c.session},
     position |-> IF c.saved = "none" THEN element.position ELSE c.saved]

\* The picture is taken, or could not be: only a picture with marks is
\* uploaded, anything else is posted at once, without it.
Shoot(c) ==
    /\ InStage(c, "shot")
    /\ element' = Undecorated(c)
    /\ \/ /\ HasAnnotations(c.snap)
          /\ Moves(c, "upload") /\ UNCHANGED sent
       \/ /\ Drop(c)
          /\ sent' = sent \cup {Picture(c, "none")}
    /\ UNCHANGED <<mode, kind, layer, prompt, offered, drawn, shown>>

\* The upload succeeds or fails: the event is posted either way.
Upload(c) ==
    /\ InStage(c, "upload")
    /\ \E path \in {"none", "uploaded"} : sent' = sent \cup {Picture(c, path)}
    /\ Drop(c)
    /\ UNCHANGED <<mode, kind, layer, prompt, offered, drawn, element, shown>>

-----------------------------------------------------------------------------
Pointing ==
    \/ PressClear \/ (\E s \in Marks : PressStroke(s))
    \/ \E i \in Marks : DoublePressPin(i)
    \/ \E i \in Marks : PressPin(i)
    \/ PressSurface \/ PressEdge \/ Drag
    \/ ReleasePin \/ ReleaseMark \/ ReleaseEdge
Typing == Type \/ FinalizeEditingPin \/ CancelEditingPin \/ EditPrompt
Surroundings ==
    \/ (\E k \in {"replace", "insert"} : Configure(k)) \/ LeaveConfigure
    \/ EnterEditingMode \/ CancelEditing \/ CancelEditingToPicking
    \/ ServerLost \/ SessionEnds
Capturing ==
    \/ HandleGo \/ HandleInsertCreate
    \/ \E c \in captures : Decorate(c)
    \/ \E c \in captures : Shoot(c)
    \/ \E c \in captures : Upload(c)

AnnotationsNext == Pointing \/ Typing \/ Surroundings \/ Capturing

-----------------------------------------------------------------------------
Notes == [id : Marks, text : 0..MaxMarks]

\* The type of the drawing layer and of the captures it starts.
AnnotationsTypeOK ==
    /\ mode \in {"off", "configure", "text", "session"}
    /\ kind \in {"replace", "insert"}
    /\ active \in BOOLEAN /\ resizing \in BOOLEAN /\ prompt \in BOOLEAN
    /\ offered \in BOOLEAN
    /\ drawn \in 0..MaxMarks /\ lastPress \in 0..MaxMarks
    /\ pins \in Seq(Notes) /\ Len(pins) <= drawn /\ strokes \subseteq Marks
    /\ pointer.what \in {"nothing", "new", "pin"}
    /\ editing.what \in {"nothing", "note"}
    /\ Len(shown) <= MaxGoes /\ Cardinality(captures) <= Len(shown)
    /\ element.position \in {"own", "relative"}

\* The places the layer remembers are those of the pins they were taken for:
\* an open note writes onto the pin beside which it was typed, and the pin
\* that is held is the one that was pressed, unless the press itself removed
\* an emptied pin below it.
PlacesStayTrue ==
    /\ \A i \in DOMAIN pins : pins[i].text \in {0, pins[i].id}
    /\ editing # Nothing =>
         /\ editing.idx \in DOMAIN pins
         /\ editing.typed \in {0, pins[editing.idx].id}
    /\ pointer.what = "pin" /\ ~pointer.slipped =>
         /\ pointer.idx \in DOMAIN pins
         /\ pins[pointer.idx].id = pointer.pressed

\* Every Go is posted exactly once, whatever the picture and its upload do,
\* with the notes and strokes the layer showed when it was pressed; and when
\* no picture is being taken the page's element is as the page made it.
SentIsWhatWasDrawn ==
    /\ \A s \in DOMAIN shown :
         Cardinality({c \in captures : c.session = s})
           + Cardinality({e \in sent : e.session = s}) = 1
    /\ \A e \in sent : e.snap = shown[e.session]
    /\ (\A c \in captures : c.stage # "shot") =>
          element = [nodes |-> {}, position |-> "own"]

\* An insertion that may be created is never kept from it: the Create button
\* is enabled whenever there is a prompt, a pin or a stroke.
CreateIsOffered ==
    mode = "configure" /\ kind = "insert"
       /\ CanCreateInsert(pins, strokes, prompt) => offered

\* The three together: what the user draws and writes is kept with its mark,
\* can be sent, and is what is sent.
MarksReachTheAgent == PlacesStayTrue /\ CreateIsOffered /\ SentIsWhatWasDrawn
=============================================================================
