------------------------------ MODULE LiveTuning ------------------------------
(***************************************************************************)
(* Choosing among the variants of a live session: the variants arrive in   *)
(* the page (at once, one by one, or from the source file when hot reload  *)
(* missed the tab), the user cycles through them with arrows and dots,     *)
(* turns the knobs a variant declares in the Tune popover, and accepts the *)
(* variant he sees with the values he sees.                                *)
(*                                                                         *)
(* Four copies of one fact are kept apart: what the page shows (`page`),   *)
(* what the tab believes (`tab`), what localStorage would bring back       *)
(* (tab.saved) and what the server last heard (`server`).  A variant has   *)
(* at most one knob, which is as its author wrote it ("plain"), at the     *)
(* declared default, or moved.                                             *)
(*                                                                         *)
(* Five steps of the code part the copies; each is named in `parted`, and  *)
(* the properties say what holds until one of them happened.               *)
(***************************************************************************)
EXTENDS Integers, FiniteSets

CONSTANTS
    MaxVariants,    \* expectedVariants
    Tunable,        \* the variants that declare parameters
    MaxMounts       \* times the framework renders the wrapper anew

ASSUME TuningAssumption ==
    /\ MaxVariants \in Nat \ {0} /\ Tunable \subseteq 1..MaxVariants
    /\ MaxMounts \in Nat

VARIABLES
    tab,        \* the variables of the script
    page,       \* the session's wrapper in the document
    server,     \* the last checkpoint the server has
    looked,     \* what the page showed when Accept was pressed
    parted      \* which of the parting steps have happened

tuningVars == <<tab, page, server, looked, parted>>

Variants == 1..MaxVariants
Knobs == {"plain", "default", "moved"}
NoValues == [variant |-> 0, knob |-> "default"]
At(v, k) == [variant |-> v, knob |-> k]
NoPanel == [variant |-> 0, knob |-> "default", mount |-> 0]
Unheard == [visible |-> 0, values |-> NoValues]

\* Go was pressed: the session waits for its variants.
TuningInit ==
    /\ tab = [st |-> "GENERATING", arrived |-> 0, visible |-> 0, saved |-> 0,
              values |-> NoValues, panel |-> NoPanel, open |-> FALSE,
              timer |-> FALSE, pending |-> NoValues, calling |-> FALSE,
              fetching |-> FALSE, applying |-> FALSE]
    /\ page = [mount |-> 0, count |-> 0, shown |-> 0,
               knobs |-> [v \in Variants |-> "plain"]]
    /\ server = Unheard /\ parted = {}
    /\ looked = [at |-> NoValues, remounted |-> FALSE]

-----------------------------------------------------------------------------
(* Helpers: both copies, the tab's and the page's, as one pair.            *)

Both == [t |-> tab, p |-> page]

\* getVisibleVariantEl and parseVariantParams.
HasParams(b) == b.t.visible \in 1..b.p.count /\ b.t.visible \in Tunable

\* applyParamDefaults and buildParamsPanel.
DefaultsApplied(b) ==
    LET v == b.t.visible IN
    [t |-> [b.t EXCEPT !.values = At(v, "default"),
                       !.panel = [variant |-> v, knob |-> "default",
                                  mount |-> b.p.mount]],
     p |-> [b.p EXCEPT !.knobs[v] = "default"]]

\* refreshParamsPanel.
Refreshed(b) ==
    IF b.t.st = "CYCLING" /\ HasParams(b) THEN DefaultsApplied(b)
    ELSE [b EXCEPT !.t.values = NoValues, !.t.open = FALSE]

\* showVariantInDOM, which leaves everything as it is without a wrapper.
Shown(b, v) ==
    Refreshed([b EXCEPT !.p.shown = IF v \in 1..b.p.count THEN v ELSE 0])

\* saveSession and queueCheckpoint.
Saved(b) == [b EXCEPT !.t.saved = b.t.visible]
Queued(b) == [b EXCEPT !.t.timer = TRUE]

\* What the source renders: the first variant is the visible one.
Rendered(n) ==
    [mount |-> page.mount + 1, count |-> n, shown |-> IF n = 0 THEN 0 ELSE 1,
     knobs |-> [v \in Variants |-> "plain"]]

SavedOr1(n) == IF tab.saved \in 1..n THEN tab.saved ELSE 1

Becomes(b, parting) ==
    /\ tab' = b.t /\ page' = b.p
    /\ parted' = parted \cup parting
    /\ UNCHANGED <<server, looked>>

\* The steps that bring some of the copies together again.
Rejoins(b, joined) ==
    /\ tab' = b.t /\ page' = b.p
    /\ parted' = parted \ joined
    /\ UNCHANGED <<server, looked>>
Unreported == {"dot", "reopened", "source", "lost"}

InSession == tab.st \in {"GENERATING", "CYCLING", "SAVING"}

-----------------------------------------------------------------------------
(* The variants come.                                                      *)

\* The observer: the count has grown.  Only the first arrival chooses what
\* to show; once all are there the session is being decided.
Observed(b, n) ==
    LET first == b.t.visible = 0
        v == IF first THEN SavedOr1(n) ELSE b.t.visible
        one == [b EXCEPT !.t.arrived = n, !.t.visible = v]
        two == IF first THEN Shown(one, v) ELSE one
        all == IF n = MaxVariants
               THEN Refreshed([two EXCEPT !.t.st = "CYCLING"]) ELSE two
    IN  Queued(Saved(all))

\* Hot reload patches the wrapper in place, or renders it anew as the source
\* has it.
Arrive(n) ==
    /\ tab.st = "GENERATING" /\ n \in (tab.arrived + 1)..MaxVariants
    /\ \/ LET patched == [page EXCEPT !.count = n,
                            !.shown = IF page.count = 0 THEN 1 ELSE @]
          IN  Becomes(Observed([t |-> tab, p |-> patched], n), {})
       \/ /\ page.mount < MaxMounts
          /\ Becomes(Observed([t |-> tab, p |-> Rendered(n)], n),
                     IF tab.visible \in {0, 1} THEN {} ELSE {"remount"})

\* The framework renders the wrapper anew with nothing new in it: the
\* observer has nothing to count, so nothing is shown or applied again.
Remount ==
    /\ InSession /\ page.count > 0 /\ page.mount < MaxMounts
    /\ Becomes([t |-> tab, p |-> Rendered(page.count)], {"remount"})

\* "done" before the variants reached this tab: fetch the source.
Done ==
    /\ tab.st = "GENERATING" /\ tab.arrived < MaxVariants /\ ~tab.fetching
    /\ Becomes([Both EXCEPT !.t.fetching = TRUE], {})

\* injectVariantsFromSource: the answer replaces the wrapper and puts the
\* session into cycling, whatever it was doing; the server is not told.
SourceInjected ==
    /\ tab.fetching /\ InSession /\ page.mount < MaxMounts
    /\ LET v == IF tab.visible > 0 THEN tab.visible ELSE SavedOr1(MaxVariants)
           b == [t |-> [tab EXCEPT !.fetching = FALSE, !.visible = v,
                                   !.arrived = MaxVariants],
                 p |-> Rendered(MaxVariants)]
           cycling == [Shown(b, v) EXCEPT !.t.st = "CYCLING"]
       IN  Becomes(Saved(Refreshed(cycling)), {"source"})

SourceFails ==
    /\ tab.fetching
    /\ Becomes([Both EXCEPT !.t.fetching = FALSE], {})

-----------------------------------------------------------------------------
(* The user chooses.                                                       *)

\* A choice that is shown and saved, and not reported.
CycleUnreported(next) ==
    /\ tab.st = "CYCLING" /\ ~tab.applying
    /\ next \in {tab.visible - 1, tab.visible + 1} \cap 1..tab.arrived
    /\ Rejoins(Saved(Shown([Both EXCEPT !.t.visible = next], next)),
               {"remount"} \cup Unreported)

\* cycleVariant, by arrow button or key.
CycleVariant(next) ==
    /\ tab.st = "CYCLING" /\ ~tab.applying
    /\ next \in {tab.visible - 1, tab.visible + 1} \cap 1..tab.arrived
    /\ Rejoins(Queued(Saved(Shown([Both EXCEPT !.t.visible = next], next))),
               {"remount"} \cup Unreported)

\* A dot: the variant is shown, and neither saved nor reported.
ClickDot(v) ==
    /\ tab.st = "CYCLING" /\ v \in 1..tab.arrived /\ v # tab.visible
    /\ LET b == Shown([Both EXCEPT !.t.visible = v], v) IN
       tab' = b.t /\ page' = b.p
    /\ parted' = (parted \ {"remount"}) \cup {"dot"}
    /\ UNCHANGED <<server, looked>>

\* openTunePopover builds the panel afresh, so it applies the defaults again
\* without a report.
OpenTunePopover ==
    /\ tab.st = "CYCLING" /\ ~tab.applying /\ ~tab.open /\ HasParams(Both)
    /\ Becomes([DefaultsApplied(Both) EXCEPT !.t.open = TRUE],
               IF tab.values = At(tab.visible, "default") THEN {}
               ELSE {"reopened"})

\* The chip again, or a click outside the panel and the bar.
CloseTunePopover ==
    /\ tab.open /\ (tab.st = "CYCLING" => ~tab.applying)
    /\ Becomes([Both EXCEPT !.t.open = FALSE], {})

\* A knob of the open panel writes the mirror, and the element it was built
\* for: one that a new wrapper has replaced is no longer in the page.  The
\* panel stays open while an accept is under way.
TurnKnob(k) ==
    /\ tab.open /\ InSession /\ k \in {"default", "moved"}
    /\ LET v == tab.panel.variant
           turned == [tab EXCEPT !.values = At(v, k), !.panel.knob = k]
           doc == IF tab.panel.mount = page.mount
                  THEN [page EXCEPT !.knobs[v] = k] ELSE page
       IN  Becomes(Queued([t |-> turned, p |-> doc]),
                   IF tab.st = "SAVING" THEN {"late knob"} ELSE {})

\* handleAccept takes the variant the page shows and the values of the
\* mirror.
Accept ==
    /\ tab.st = "CYCLING" /\ ~tab.applying /\ tab.arrived > 0
    /\ LET v == IF page.shown > 0 THEN page.shown ELSE tab.visible
       IN  tab' = [tab EXCEPT !.st = "SAVING", !.visible = v, !.calling = TRUE,
                              !.pending = At(v, tab.values.knob)]
    /\ looked' = [at |-> At(page.shown, IF page.shown \in Tunable
                                        THEN page.knobs[page.shown]
                                        ELSE "default"),
                  remounted |-> "remount" \in parted]
    /\ UNCHANGED <<page, server, parted>>

AcceptAnswered ==
    /\ tab.calling
    /\ Becomes([Both EXCEPT !.t.calling = FALSE], {})

AcceptFails ==
    /\ tab.calling
    /\ Becomes([Both EXCEPT !.t.calling = FALSE, !.t.st = "CYCLING",
                            !.t.pending = NoValues], {})

\* The source is written: after the confirmation the wrapper goes.
Complete ==
    /\ tab.pending # NoValues /\ ~tab.calling
    /\ Becomes([Both EXCEPT !.t.st = "OVER", !.t.open = FALSE,
                            !.t.timer = FALSE, !.t.fetching = FALSE], {})

-----------------------------------------------------------------------------
(* Around it.                                                              *)

\* The debounced checkpoint carries the state of the moment it is sent; a
\* failed one is not repeated.
CheckpointSent ==
    /\ tab.timer
    /\ tab' = [tab EXCEPT !.timer = FALSE]
    /\ \/ /\ server' = [visible |-> tab.visible, values |-> tab.values]
          /\ UNCHANGED parted
       \/ parted' = parted \cup {"lost"} /\ UNCHANGED server
    /\ UNCHANGED <<page, looked>>

\* resumeSession after a reload.
Reload ==
    /\ tab.st \in {"GENERATING", "CYCLING"} /\ page.mount < MaxMounts
    /\ LET n == page.count
           v == IF n = 0 THEN 0 ELSE SavedOr1(n)
           b == [t |-> [tab EXCEPT !.arrived = n, !.visible = v, !.st = "IDLE",
                          !.values = NoValues, !.panel = NoPanel,
                          !.open = FALSE, !.pending = NoValues,
                          !.calling = FALSE, !.fetching = FALSE,
                          !.applying = FALSE],
                 p |-> Rendered(n)]
           drawn == IF v > 0 THEN Shown(b, v) ELSE b
           resumed == [drawn EXCEPT
                         !.t.st = IF n = MaxVariants THEN "CYCLING"
                                  ELSE "GENERATING"]
       IN  /\ tab' = Queued(Saved(IF n = MaxVariants THEN Refreshed(resumed)
                                  ELSE resumed)).t
           /\ page' = IF n = MaxVariants THEN Refreshed(resumed).p
                      ELSE resumed.p
    /\ parted' = parted \ ({"remount"} \cup Unreported)
    /\ UNCHANGED <<server, looked>>

\* A running copy-edit Apply closes the popover and holds the controls.
ApplyStarts ==
    /\ ~tab.applying /\ InSession
    /\ Becomes([Both EXCEPT !.t.applying = TRUE, !.t.open = FALSE], {})
ApplyEnds ==
    /\ tab.applying
    /\ Becomes([Both EXCEPT !.t.applying = FALSE], {})

-----------------------------------------------------------------------------
Coming == (\E n \in Variants : Arrive(n)) \/ Remount \/ Done
          \/ SourceInjected \/ SourceFails
Choosing ==
    \/ (\E v \in Variants : CycleVariant(v))
    \/ (\E v \in Variants : ClickDot(v))
    \/ OpenTunePopover \/ CloseTunePopover
    \/ (\E k \in Knobs : TurnKnob(k))
    \/ Accept \/ AcceptAnswered \/ AcceptFails \/ Complete
Around == CheckpointSent \/ Reload \/ ApplyStarts \/ ApplyEnds

TuningNext == Coming \/ Choosing \/ Around

-----------------------------------------------------------------------------
\* The type of the session's choice.
TuningTypeOK ==
    /\ tab.st \in {"GENERATING", "CYCLING", "SAVING", "OVER"}
    /\ tab.arrived \in 0..MaxVariants /\ tab.visible \in 0..tab.arrived
    /\ tab.saved \in 0..MaxVariants /\ tab.values.knob \in Knobs
    /\ page.count = tab.arrived /\ page.shown \in 0..page.count
    /\ page.mount \in 0..MaxMounts /\ page.knobs \in [Variants -> Knobs]

Mirror == IF tab.visible \in Tunable
          THEN At(tab.visible, page.knobs[tab.visible]) ELSE NoValues

\* While the user decides, what the bar says, what the page shows, what the
\* mirror holds and what the open panel's knobs display are one and the same
\* variant and value, until the framework renders the wrapper anew.
TunedIsShown ==
    tab.st = "CYCLING" /\ "remount" \notin parted =>
      /\ tab.visible > 0 /\ page.shown = tab.visible
      /\ tab.values = Mirror
      /\ tab.open => /\ tab.panel.mount = page.mount
                     /\ At(tab.panel.variant, tab.panel.knob) = tab.values

\* The accepted variant is the one the page showed, even when the counter
\* was behind; its values are those shown, unless a new wrapper had replaced
\* the tuned one, and they stay those shown until a knob is moved after it.
AcceptedAsShown ==
    tab.pending # NoValues =>
      /\ tab.pending.variant = looked.at.variant
      /\ ~looked.remounted => tab.pending = looked.at
      /\ tab.st = "SAVING" /\ page.shown \in Tunable
           /\ parted \cap {"remount", "late knob"} = {} =>
             page.knobs[page.shown] = tab.pending.knob

\* Once no report is due, a crash of the tab loses no choice: the server and
\* localStorage hold the variant and the values the user sees, except after
\* a step that reports nothing.
ChoiceIsReported ==
    tab.st = "CYCLING" /\ ~tab.timer
      /\ parted \cap ({"remount"} \cup Unreported) = {} =>
         /\ server = [visible |-> tab.visible, values |-> tab.values]
         /\ tab.saved = tab.visible

\* The three together: the page, the tab, localStorage and the server hold one
\* choice, and that is the one that is accepted.
OneChoiceEverywhere == TunedIsShown /\ AcceptedAsShown /\ ChoiceIsReported
=============================================================================
