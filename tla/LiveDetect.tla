------------------------------ MODULE LiveDetect ------------------------------
(***************************************************************************)
(* The anti-pattern detector injected into a page, and the Detect toggle   *)
(* of the live tab.  They talk through window.postMessage, one first-in    *)
(* first-out queue: the tab asks for a scan or a removal, the detector     *)
(* draws an overlay on every flawed element and answers with a count.      *)
(*                                                                         *)
(* A scan is synchronous, except for the contrast of text over images,     *)
(* which is sampled one text after the other across awaits; a text outside *)
(* the viewport is sampled when it scrolls in.  A generation number parts  *)
(* what still runs for an earlier scan from the current one.               *)
(*                                                                         *)
(* The detector serves one of three hosts: the live tab (contrast off), a  *)
(* browser extension's panel (external; contrast on, spotlight, hiding),   *)
(* and a script of the page that calls impeccableScanAsync.                *)
(***************************************************************************)
EXTENDS Integers, Sequences, FiniteSets, FiniteSetsExt

CONSTANTS
    Elements,       \* elements of the page, numbered in document order
    MaxScans,       \* scans asked for
    MaxCommands,    \* other commands of a host
    MaxChanges      \* edits and scrolls of the page, switches of Pick

ASSUME DetectAssumption ==
    Elements \subseteq Nat \ {0} /\ IsFiniteSet(Elements) /\ MaxScans \in Nat
      /\ MaxChanges \in Nat /\ MaxCommands \in Nat

VARIABLES
    host,       \* whom the detector serves: "tab", "panel" or "script"
    toggle,     \* the tab's variables
    mail,       \* the window's message queue
    detector,   \* the injected script's variables
    overlays,   \* the overlay of each element: what it names, 0 without one
    jobs,       \* contrast analyses under way
    waiting,    \* texts being sampled after they scrolled in
    web,        \* the page: which elements are flawed, faint, in view
    used        \* bounds: scans, other commands, and changes so far

detectVars == <<host, toggle, mail, detector, overlays, jobs, waiting, web,
                used>>

Kinds == {"rule", "contrast"}
NoGroups == [e \in Elements |-> {}]
Bare == [e \in Elements |-> {}]
Marked == {e \in Elements : overlays[e] # {}}

DetectInit ==
    /\ host \in {"tab", "panel", "script"}
    /\ toggle = [active |-> FALSE, loaded |-> FALSE, ready |-> FALSE,
                 wants |-> FALSE, current |-> 0, pending |-> 0, count |-> 0,
                 pick |-> FALSE, applying |-> FALSE, exited |-> FALSE]
    /\ mail = <<>>
    /\ detector = [here |-> host # "tab", generation |-> 0,
                   groups |-> NoGroups, pageLevel |-> FALSE, visual |-> FALSE,
                   rendered |-> FALSE, lazy |-> {}, told |-> {},
                   missed |-> {}, styled |-> TRUE, hidden |-> FALSE,
                   spot |-> 0, backdrop |-> FALSE, dimmed |-> {},
                   through |-> {}]
    /\ overlays = Bare /\ jobs = {} /\ waiting = {}
    /\ web \in [flawed : {{}, Elements}, inView : {{}, Elements},
                faint : IF host = "tab" THEN {{}} ELSE SUBSET Elements,
                pageLevel : {host = "tab"}]
    /\ used = [scans |-> 0, commands |-> 0, changes |-> 0]

Post(messages) == mail' = mail \o messages

-----------------------------------------------------------------------------
(* The detector.                                                           *)

\* clearOverlays: a new generation, and nothing left of the one before.
Cleared(d) ==
    [d EXCEPT !.generation = @ + 1, !.lazy = {}, !.told = {}, !.missed = {},
              !.groups = NoGroups, !.pageLevel = FALSE, !.rendered = FALSE,
              !.visual = FALSE, !.dimmed = {}, !.through = {}]

\* collectBrowserFindings, without overlays and the live tab's own elements.
Collected(d) ==
    [d EXCEPT !.groups = [e \in Elements |->
                             IF e \in web.flawed THEN {"rule"} ELSE {}],
              !.pageLevel = web.pageLevel]

Count(d) ==
    Cardinality({e \in Elements : d.groups[e] # {}})
      + (IF d.pageLevel THEN 1 ELSE 0)
Results(d, id) == [what |-> "results", id |-> id, count |-> Count(d)]

\* scan: everything the rules find is drawn and posted at once; the contrast
\* of the texts follows.
Job(d, how, id) ==
    [generation |-> d.generation, how |-> how, id |-> id, todo |-> Elements,
     failing |-> {}, outside |-> {}]
Scan(visual, id) ==
    LET d == [Collected(Cleared(detector)) EXCEPT !.rendered = TRUE,
                                                  !.visual = visual]
    IN  /\ detector' = d /\ overlays' = d.groups
        /\ mail' = Append(Tail(mail), Results(d, id))
        /\ jobs' = IF visual THEN jobs \cup {Job(d, "scan", id)} ELSE jobs

\* scanAsync draws nothing before all texts are sampled.
ScanAsync ==
    /\ host = "script" /\ used.scans < MaxScans
    /\ LET d == [Collected(Cleared(detector)) EXCEPT !.visual = TRUE] IN
       /\ detector' = d /\ overlays' = Bare
       /\ jobs' = jobs \cup {Job(d, "async", used.scans + 1)}
    /\ used' = [used EXCEPT !.scans = @ + 1]
    /\ UNCHANGED <<host, toggle, mail, waiting, web>>

\* analyzeVisualContrastCandidate: one text after the other, each as the page
\* is at that moment.
Analyze(job) ==
    /\ job.todo # {}
    /\ LET e == Min(job.todo)
           sampled == IF e \notin web.inView THEN
                        [job EXCEPT !.todo = @ \ {e}, !.outside = @ \cup {e}]
                      ELSE IF e \in web.faint THEN
                        [job EXCEPT !.todo = @ \ {e}, !.failing = @ \cup {e}]
                      ELSE [job EXCEPT !.todo = @ \ {e}]
       IN  jobs' = (jobs \ {job}) \cup {sampled}
    /\ UNCHANGED <<host, toggle, mail, detector, overlays, waiting, web, used>>

\* highlight replaces an element's overlay: the new one bears no class and
\* no style of the old.
Fresh(d, es) == [d EXCEPT !.dimmed = @ \ es, !.through = @ \ es]

\* addVisualContrastFindings after the last text, and what follows it.
JobEnds(job) ==
    /\ job.todo = {}
    /\ jobs' = jobs \ {job}
    /\ IF job.generation # detector.generation
       THEN UNCHANGED <<detector, overlays, mail>>
       ELSE LET d == [Fresh(detector, job.failing) EXCEPT
                        !.groups = [e \in Elements |->
                            IF e \in job.failing THEN @[e] \cup {"contrast"}
                            ELSE @[e]],
                        !.lazy = job.outside, !.told = {}, !.rendered = TRUE]
            IN  /\ detector' = d /\ overlays' = d.groups
                /\ Post(<<Results(d, job.id)>>)
    /\ UNCHANGED <<host, toggle, waiting, web, used>>

\* The lazy observer reports a text once when it scrolls in.  One that is
\* still being sampled for an earlier scan is passed over.
LazyFires(e) ==
    /\ e \in (detector.lazy \cap web.inView) \ detector.told
    /\ LET busy == \E w \in waiting : w.el = e IN
       /\ detector' =
            [detector EXCEPT !.told = @ \cup {e},
                             !.lazy = IF busy THEN @ ELSE @ \ {e},
                             !.missed = IF busy THEN @ \cup {e} ELSE @]
       /\ waiting' = IF busy THEN waiting
                     ELSE waiting \cup
                            {[el |-> e, generation |-> detector.generation]}
    /\ UNCHANGED <<host, toggle, mail, overlays, jobs, web, used>>

\* A text of an earlier scan marked after the page was cleared.
LazyResolvesAnyway(w) ==
    /\ w \in waiting
    /\ waiting' = waiting \ {w}
    /\ IF w.el \in web.inView \cap web.faint
          /\ "contrast" \notin detector.groups[w.el]
       THEN LET d == [Fresh(detector, {w.el}) EXCEPT
                        !.groups[w.el] = @ \cup {"contrast"}]
            IN  /\ detector' = d
                /\ overlays' = [overlays EXCEPT ![w.el] = d.groups[w.el]]
                /\ Post(<<Results(d, 0)>>)
       ELSE UNCHANGED <<detector, overlays, mail>>
    /\ UNCHANGED <<host, toggle, jobs, web, used>>

\* A text that has scrolled out again while it was sampled is not observed
\* any more.  (Only the tab reads the id of results, and it has no texts
\* sampled: theirs is left out.)
LazyResolves(w) ==
    /\ w \in waiting
    /\ waiting' = waiting \ {w}
    /\ IF w.generation # detector.generation
       THEN UNCHANGED <<detector, overlays, mail>>
       ELSE IF w.el \in web.inView \cap web.faint
               /\ "contrast" \notin detector.groups[w.el]
       THEN LET d == [Fresh(detector, {w.el}) EXCEPT
                        !.groups[w.el] = @ \cup {"contrast"}]
            IN  /\ detector' = d
                /\ overlays' = [overlays EXCEPT ![w.el] = d.groups[w.el]]
                /\ Post(<<Results(d, 0)>>)
       ELSE /\ detector' = IF w.el \in web.inView THEN detector
                           ELSE [detector EXCEPT !.missed = @ \cup {w.el}]
            /\ UNCHANGED <<overlays, mail>>
    /\ UNCHANGED <<host, toggle, jobs, web, used>>

\* remove: the style sheet goes too, and no scan brings it back.
RemoveOverlays ==
    /\ detector' = [Cleared(detector) EXCEPT !.styled = FALSE,
                      !.backdrop = FALSE, !.hidden = FALSE]
    /\ overlays' = Bare /\ mail' = Tail(mail) /\ UNCHANGED jobs

ToggleOverlays ==
    /\ detector' = [detector EXCEPT !.hidden = ~@]
    /\ mail' = Tail(mail) /\ UNCHANGED <<overlays, jobs>>

Highlight(e) ==
    /\ detector' = [detector EXCEPT !.spot = e, !.backdrop = TRUE,
                                    !.dimmed = Marked \ {e}]
    /\ mail' = Tail(mail) /\ UNCHANGED <<overlays, jobs>>

Unhighlight ==
    /\ detector' = [detector EXCEPT !.spot = 0, !.backdrop = FALSE,
                                    !.dimmed = {}]
    /\ mail' = Tail(mail) /\ UNCHANGED <<overlays, jobs>>

\* The detector's message handler; before the script has run there is none.
Obeys(m) ==
    IF ~detector.here THEN mail' = Tail(mail)
                           /\ UNCHANGED <<detector, overlays, jobs>>
    ELSE \/ m.what = "scan" /\ Scan(host = "panel", m.id)
         \/ m.what = "remove" /\ RemoveOverlays
         \/ m.what = "toggle-overlays" /\ ToggleOverlays
         \/ m.what = "highlight" /\ Highlight(m.id)
         \/ m.what = "unhighlight" /\ Unhighlight

Command ==
    /\ mail # <<>> /\ Head(mail).what \notin {"results", "ready"}
    /\ Obeys(Head(mail))
    /\ UNCHANGED <<host, toggle, waiting, web, used>>

-----------------------------------------------------------------------------
(* The tab.                                                                *)

\* updateGlobalBarState, as far as the overlays are concerned.
BarStateUpdated(t) ==
    detector' = [detector EXCEPT !.through = IF t.pick THEN Marked ELSE {}]

\* requestDetectScan: the newest scan is the one whose results count.
ScanRequested(t) ==
    [t EXCEPT !.current = used.scans + 1, !.pending = used.scans + 1]
ScanMessage == [what |-> "scan", id |-> used.scans + 1, count |-> 0]
RemoveMessage == [what |-> "remove", id |-> 0, count |-> 0]

CanUseBar == host = "tab" /\ ~toggle.applying /\ ~toggle.exited

DetectOn ==
    /\ CanUseBar /\ ~toggle.active /\ used.scans < MaxScans
    /\ LET t == [toggle EXCEPT !.active = TRUE] IN
       IF toggle.loaded /\ toggle.ready
       THEN /\ toggle' = ScanRequested(t) /\ Post(<<ScanMessage>>)
            /\ used' = [used EXCEPT !.scans = @ + 1]
       ELSE /\ toggle' = [t EXCEPT !.wants = TRUE, !.loaded = TRUE]
            /\ UNCHANGED <<mail, used>>
    /\ BarStateUpdated(toggle)
    /\ UNCHANGED <<host, overlays, jobs, waiting, web>>

DetectOff ==
    /\ CanUseBar /\ toggle.active /\ used.commands < MaxCommands
    /\ used' = [used EXCEPT !.commands = @ + 1]
    /\ toggle' = [toggle EXCEPT !.active = FALSE, !.current = 0, !.pending = 0,
                                !.count = 0]
    /\ Post(<<RemoveMessage>>) /\ BarStateUpdated(toggle)
    /\ UNCHANGED <<host, overlays, jobs, waiting, web>>

\* The script has arrived and run.
ScriptRuns ==
    /\ host = "tab" /\ toggle.loaded /\ ~detector.here
    /\ detector' = [detector EXCEPT !.here = TRUE]
    /\ Post(<<[what |-> "ready", id |-> 0, count |-> 0]>>)
    /\ UNCHANGED <<host, toggle, overlays, jobs, waiting, web, used>>

\* onDetectMessage.
Ready ==
    /\ mail # <<>> /\ Head(mail).what = "ready"
    /\ LET t == [toggle EXCEPT !.ready = TRUE] IN
       IF ~toggle.exited /\ toggle.wants /\ toggle.active
            /\ used.scans < MaxScans
       THEN /\ toggle' = ScanRequested([t EXCEPT !.wants = FALSE])
            /\ mail' = Append(Tail(mail), ScanMessage)
            /\ used' = [used EXCEPT !.scans = @ + 1]
       ELSE /\ toggle' = IF toggle.exited THEN toggle ELSE t
            /\ mail' = Tail(mail) /\ UNCHANGED used
    /\ UNCHANGED <<host, detector, overlays, jobs, waiting, web>>

Counted(t, m) == t.active /\ (t.current # 0 => m.id = t.current)
ResultsArrive ==
    /\ mail # <<>> /\ Head(mail).what = "results"
    /\ mail' = Tail(mail)
    /\ IF host = "tab" /\ ~toggle.exited /\ Counted(toggle, Head(mail))
       THEN /\ toggle' = [toggle EXCEPT !.count = Head(mail).count,
                                        !.pending = 0]
            /\ BarStateUpdated(toggle)
       ELSE UNCHANGED <<toggle, detector>>
    /\ UNCHANGED <<host, overlays, jobs, waiting, web, used>>

\* Pick or Insert is switched on or off.
TogglePicking ==
    /\ CanUseBar /\ used.changes < MaxChanges
    /\ toggle' = [toggle EXCEPT !.pick = ~@]
    /\ used' = [used EXCEPT !.changes = @ + 1]
    /\ BarStateUpdated([toggle EXCEPT !.pick = ~@])
    /\ UNCHANGED <<host, mail, overlays, jobs, waiting, web>>

\* A running Apply locks the toggles.
LockBar ==
    /\ host = "tab" /\ ~toggle.exited
    /\ toggle' = [toggle EXCEPT !.applying = ~@]
    /\ BarStateUpdated(toggle)
    /\ UNCHANGED <<host, mail, overlays, jobs, waiting, web, used>>

\* Live mode is left: nobody listens to the detector any more.
Teardown ==
    /\ host = "tab" /\ ~toggle.exited
    /\ toggle' = [toggle EXCEPT !.exited = TRUE]
    /\ Post(<<RemoveMessage>>)
    /\ UNCHANGED <<host, detector, overlays, jobs, waiting, web, used>>

-----------------------------------------------------------------------------
(* The extension's panel, and the page.                                    *)

PanelScans ==
    /\ host = "panel" /\ used.scans < MaxScans
    /\ Post(<<ScanMessage>>) /\ used' = [used EXCEPT !.scans = @ + 1]
    /\ UNCHANGED <<host, toggle, detector, overlays, jobs, waiting, web>>

PanelAsks ==
    /\ host = "panel" /\ used.commands < MaxCommands
    /\ \E m \in [what : {"remove", "toggle-overlays", "unhighlight"},
                 id : {0}, count : {0}]
              \cup [what : {"highlight"}, id : Elements, count : {0}] :
          Post(<<m>>)
    /\ used' = [used EXCEPT !.commands = @ + 1]
    /\ UNCHANGED <<host, toggle, detector, overlays, jobs, waiting, web>>

\* An element scrolls out of the viewport or into it, which only the contrast
\* of texts depends on.
Scroll(e) ==
    /\ host # "tab" /\ used.changes < MaxChanges
    /\ web' = [web EXCEPT !.inView = IF e \in @ THEN @ \ {e} ELSE @ \cup {e}]
    /\ detector' = [detector EXCEPT !.told = @ \ {e}]
    /\ used' = [used EXCEPT !.changes = @ + 1]
    /\ UNCHANGED <<host, toggle, mail, overlays, jobs, waiting>>

\* The page is edited: what the last scan said of it may no longer hold.
EditPage(e) ==
    /\ host = "tab" /\ used.changes < MaxChanges
    /\ web' = [web EXCEPT !.flawed = IF e \in @ THEN @ \ {e} ELSE @ \cup {e}]
    /\ used' = [used EXCEPT !.changes = @ + 1]
    /\ UNCHANGED <<host, toggle, mail, detector, overlays, jobs, waiting>>

-----------------------------------------------------------------------------
Detecting ==
    \/ Command \/ ScanAsync
    \/ (\E job \in jobs : Analyze(job)) \/ (\E job \in jobs : JobEnds(job))
    \/ (\E e \in Elements : LazyFires(e))
    \/ (\E w \in waiting : LazyResolves(w))
Toggling == DetectOn \/ DetectOff \/ ScriptRuns \/ Ready \/ ResultsArrive
            \/ TogglePicking \/ LockBar \/ Teardown
Outer == PanelScans \/ PanelAsks \/ (\E e \in Elements : Scroll(e))
         \/ (\E e \in Elements : EditPage(e))

DetectNext == Detecting \/ Toggling \/ Outer

-----------------------------------------------------------------------------
\* The type of the detector and of its hosts.
DetectTypeOK ==
    /\ host \in {"tab", "panel", "script"}
    /\ \A m \in 1..Len(mail) : mail[m].id \in Nat /\ mail[m].count \in Nat
    /\ overlays \in [Elements -> SUBSET Kinds]
    /\ detector.groups \in [Elements -> SUBSET Kinds]
    /\ detector.generation \in Nat
    /\ detector.lazy \cup detector.told \cup detector.missed
         \cup detector.dimmed \cup detector.through \subseteq Elements
    /\ \A job \in jobs : job.generation <= detector.generation
    /\ used.scans <= MaxScans

\* The overlays on the page are those of the last scan, all of them and with
\* everything it found on their element, whatever earlier scans still had to
\* say; and only these are dimmed, by a spotlight that is on.
OverlaysAreTheLastScans ==
    /\ overlays = IF detector.rendered THEN detector.groups ELSE Bare
    /\ detector.dimmed \subseteq Marked
    /\ detector.dimmed # {} => detector.backdrop /\ detector.spot # 0

\* When no message is under way, the badge shows what the overlays show; with
\* Detect off, or live mode left, nothing of the detector is on the page; and
\* while the user picks, no overlay takes his clicks.
BadgeTellsTheTruth ==
    host = "tab" /\ mail = <<>> /\ detector.here =>
      IF toggle.active /\ ~toggle.exited
      THEN /\ toggle.current # 0 =>
                toggle.pending = 0 /\ toggle.count = Count(detector)
           /\ toggle.pick => detector.styled \/ Marked \subseteq detector.through
      ELSE Marked = {} /\ ~detector.pageLevel /\ ~detector.hidden

\* Once a scan with contrast has run out, every faint text in the viewport is
\* marked, unless it left the viewport while it was being sampled or came
\* into it while an earlier scan was still sampling it.
VisibleTextIsChecked ==
    detector.rendered /\ detector.visual /\ jobs = {} /\ waiting = {}
      /\ detector.lazy \cap web.inView \subseteq detector.told =>
         \A e \in (web.faint \cap web.inView) \ detector.missed :
            "contrast" \in overlays[e]
=============================================================================
