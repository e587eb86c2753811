----------------------------- MODULE MCLiveTools -----------------------------
(***************************************************************************)
(* The tools around a live session, and the detector's style engine, for   *)
(* TLC.  They share no state, so a behaviour is about one of them and      *)
(* leaves the others in their initial state; the design panel's reading    *)
(* and the watch on the agent share none either, and are two areas.        *)
(***************************************************************************)
EXTENDS LiveAnnotations, LiveTuning, LiveDetect, LiveDesign, StyleCascade

VARIABLE area

toolVars == <<annotationVars, tuningVars, detectVars, designVars, cascadeVars, area>>

Only(a) == area = a /\ UNCHANGED area

Init ==
    /\ area \in {"annotations", "tuning", "detector", "design", "agent", "cascade"}
    /\ AnnotationsInit
    /\ TuningInit
    /\ DetectInit
    /\ area # "detector" =>
         host = "tab" /\ web.flawed = {} /\ web.inView = {}
    /\ DesignInit
    /\ CascadeInit
    /\ area # "cascade" => css.subject = "sizes"

AnnotationsMove ==
    Only("annotations") /\ AnnotationsNext
      /\ UNCHANGED <<tuningVars, detectVars, designVars, cascadeVars>>
TuningMoves ==
    Only("tuning") /\ TuningNext
      /\ UNCHANGED <<annotationVars, detectVars, designVars, cascadeVars>>
DetectorMoves ==
    Only("detector") /\ DetectNext
      /\ UNCHANGED <<annotationVars, tuningVars, designVars, cascadeVars>>
DesignMoves ==
    Only("design") /\ Reading
      /\ UNCHANGED <<annotationVars, tuningVars, detectVars, cascadeVars>>
AgentMoves ==
    Only("agent") /\ Watching
      /\ UNCHANGED <<annotationVars, tuningVars, detectVars, cascadeVars>>
CascadeMoves ==
    Only("cascade") /\ CascadeNext
      /\ UNCHANGED <<annotationVars, tuningVars, detectVars, designVars>>

Next == \/ AnnotationsMove \/ TuningMoves \/ DetectorMoves
        \/ DesignMoves \/ AgentMoves \/ CascadeMoves
Spec == Init /\ [][Next]_toolVars

\* Each tool's state is of the types its module gives.
LiveToolsTypeOK ==
    /\ AnnotationsTypeOK /\ TuningTypeOK /\ DetectTypeOK
    /\ DesignTypeOK /\ CascadeTypeOK

\* What the bar and the page show beside a session is so: the overlays, the
\* badge and the marked texts are the last scan's, the design panel says what
\* its files say, and the agent's mark follows the agent.
PanelsTellTheTruth ==
    /\ OverlaysAreTheLastScans /\ BadgeTellsTheTruth /\ VisibleTextIsChecked
    /\ PanelMatchesTheFiles /\ MarkFollowsTheAgent
=============================================================================
