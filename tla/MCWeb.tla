-------------------------------- MODULE MCWeb --------------------------------
(***************************************************************************)
(* The pages of the web client for TLC.  A tab shows one page at a time    *)
(* and the models share no state, so a behaviour is about one of them *)
(* and leaves the others in one of their initial states.                   *)
(***************************************************************************)
EXTENDS Screens, WebWrites, ChatClient, WebSession, TodayFeed

VARIABLE area

webVars == <<screenVars, writeVars, chatClientVars, webSessionVars, todayVars, area>>

Only(a) == area = a /\ UNCHANGED area

Init ==
    /\ area \in {"screens", "writes", "chat", "session", "today", "feed"}
    /\ ScreenInit
    /\ area # "screens" =>
         /\ screen = "patents" /\ \A s \in Settings : stock[s] = 0
         /\ ask = [by |-> "all", pg |-> 1]
    /\ WriteInit
    /\ area # "writes" => page = "today"
    /\ ChatClientInit /\ SessionInit
    /\ TodayInit
    /\ area # "today" =>
         account.themes = 0 /\ account.watchlist = 0 /\ account.cards = {}
    /\ IF area = "feed" THEN FeedInit ELSE feed = Diversify(<<>>, <<>>)

ScreensMove ==
    Only("screens") /\ ScreenNext
      /\ UNCHANGED <<writeVars, chatClientVars, webSessionVars, todayVars>>
WritesMove ==
    Only("writes") /\ WriteNext
      /\ UNCHANGED <<screenVars, chatClientVars, webSessionVars, todayVars>>
ChatMoves ==
    Only("chat") /\ ChatClientNext
      /\ UNCHANGED <<screenVars, writeVars, webSessionVars, todayVars>>
SessionMoves ==
    Only("session") /\ SessionNext
      /\ UNCHANGED <<screenVars, writeVars, chatClientVars, todayVars>>
TodayMoves ==
    Only("today") /\ (TodayUser \/ TodayNet)
      /\ UNCHANGED <<screenVars, writeVars, chatClientVars, webSessionVars>>
FeedMoves ==
    Only("feed") /\ PlaceNext
      /\ UNCHANGED <<screenVars, writeVars, chatClientVars, webSessionVars>>

Next == ScreensMove \/ WritesMove \/ ChatMoves \/ SessionMoves \/ TodayMoves \/ FeedMoves
Spec == Init /\ [][Next]_webVars

\* Each page's state is of the types its module gives; a behaviour changes the
\* state of its own area only.
WebTypeOK ==
    /\ area = "screens" => ScreenTypeOK
    /\ area = "writes" => WriteTypeOK
    /\ area = "chat" => ChatClientTypeOK
    /\ area = "session" => SessionTypeOK
    /\ area \in {"today", "feed"} => TodayTypeOK

(***************************************************************************)
(* The properties of the pages, each in the behaviours of its own area: in *)
(* the others the page stays as it was mounted.                            *)
(***************************************************************************)
\* Every list and record of the application: what a page says of its rows is
\* true of the answer it has, and the page number it asks with belongs to the
\* request.
PagesTellTheTruth == area = "screens" => ViewsTellTheTruth /\ PagesStayInRange

\* What every handler that writes owes its page, for all of them: the page ends
\* up showing what the server has, a button is held by a call and by no more
\* than one, and neither the typing nor the estimate is replaced unseen.
PagesFollowTheirCalls ==
  area = "writes" =>
    QuietPagesAgree /\ BusyMeansCalling /\ OneCallAtATime /\ EditsSurvive /\ RunsAreEstimated

\* All that the Today page says is true: what it calls the last visit, whom it
\* welcomes, and the order of its cards, with the promises of diversify.
TodayIsTrue ==
  area \in {"today", "feed"} =>
    /\ LabelNamesAnEarlierLook
    /\ WelcomeIsForNewcomers
    /\ BriefingKeepsItsOrder
    /\ DiversifyKeepsItsRules
=============================================================================
