------------------------------- MODULE Screens -------------------------------
(***************************************************************************)
(* What the pages of the web application say.  A screen asks the API for   *)
(* something, through SWR's cache or a fetch of its own; its controls and  *)
(* its pager change what it asks; and it shows the first of its views      *)
(* whose condition holds: an error, a skeleton, "nothing found", the rows. *)
(* The cache, the flights and the retries are SWR's (a library); which     *)
(* views a screen has, in which order and under which condition, and what  *)
(* each control does to the request, are read from each page.              *)
(*                                                                         *)
(* A request is a setting of the controls and a page number; the answer is *)
(* abstracted to the number of pages the server has for that setting.      *)
(***************************************************************************)
EXTENDS Integers, Sequences, FiniteSets

CONSTANTS
  Settings,        \* the settings of a screen's controls
  MaxStock,        \* the pages the server has for a setting, at most
  MaxMoves,        \* how often the user touches the page
  MaxFailures,     \* how many requests fail
  MaxPolls         \* how often a page polls for what is not there yet

ASSUME ScreensAssumption ==
  /\ Settings # {} /\ "nothing" \notin Settings
  /\ MaxStock \in Nat \ {0} /\ MaxMoves \in Nat /\ MaxFailures \in Nat /\ MaxPolls \in Nat

(***************************************************************************)
(* The screens.  "shows" lists the views in the order the page tests them. *)
(* "resets" are the controls that go back to page 1, "strays" those that   *)
(* change the request and keep the page, "drops" those that return to the  *)
(* prompt.  "pager" is "none", "beside" the rows (it shows whatever the    *)
(* rows are), "within" them, or "local" (the page is cut from one answer). *)
(* "overruns": Next is disabled on the last page only, so a page past it   *)
(* can go on.  "url": the request is kept in the address.  "keeps": the    *)
(* previous rows stay until the next arrive.  "fails" is what a failing    *)
(* answer does: "throws" is an error SWR retries, "once" is an error no    *)
(* one retries, "swallows" reads it as an empty list, "junk" takes the     *)
(* error's body for the data.  "single" asks for one thing, and not        *)
(* finding it is an error.  "polls" asks again while there is nothing.     *)
(***************************************************************************)
Base == [shows |-> <<"rows">>, resets |-> {}, strays |-> {}, drops |-> {},
         pager |-> "none", overruns |-> FALSE, url |-> FALSE, keeps |-> FALSE,
         fails |-> "throws", single |-> FALSE, polls |-> FALSE]

PatentsAsk == [Base EXCEPT !.resets = {"sort", "filter", "clear"}, !.url = TRUE]
PatentsShow == [PatentsAsk EXCEPT !.shows = <<"error", "loading", "empty", "rows">>,
                                  !.pager = "beside", !.overruns = TRUE]

SearchAsk == [Base EXCEPT !.resets = {"submit", "openSaved"}, !.url = TRUE]
SearchNarrow == [SearchAsk EXCEPT !.drops = {"mode"},
                                  !.strays = {"status", "sort", "chip", "clearAll"}]
SearchPrompt == <<"prompt", "loading", "none", "rows">>
SearchShow == [SearchNarrow EXCEPT !.shows = SearchPrompt, !.pager = "within"]

OpportunityAsk == [Base EXCEPT !.url = TRUE, !.keeps = TRUE]
OpportunityNarrow ==
  [OpportunityAsk EXCEPT !.resets = {"tab", "sort"},
                         !.strays = {"tag", "risk", "confidence", "industry", "cpc", "score"}]
OpportunityShow == [OpportunityNarrow EXCEPT !.shows = <<"waiting", "none", "rows">>,
                                             !.pager = "within"]

CompaniesAsk == [Base EXCEPT !.resets = {"country", "sort", "count"}]
CompaniesShow == [CompaniesAsk EXCEPT !.shows = <<"loading", "none", "rows">>,
                                      !.pager = "beside", !.overruns = TRUE]
CompanyMapShow == [Base EXCEPT !.shows = <<"loading", "none", "rows">>]
CompanyShow == [Base EXCEPT !.shows = <<"loading", "gone", "rows">>, !.single = TRUE]

SavedPatentsShow == [Base EXCEPT !.shows = <<"loading", "none", "rows">>, !.pager = "local"]
FollowedShow == [Base EXCEPT !.shows = <<"loading", "none", "rows">>, !.fails = "swallows"]
SavedSearchesShow == [Base EXCEPT !.shows = <<"loading", "none", "rows">>]

TopicsShow == [Base EXCEPT !.shows = <<"loading", "none", "rows">>]
TopicCards == [Base EXCEPT !.shows = <<"blank", "rows">>]
TopicMatchesAsk == [Base EXCEPT !.resets = {"select"}, !.drops = {"close"}]
TopicMatchesShow ==
  [TopicMatchesAsk EXCEPT !.shows = <<"prompt", "loading", "none", "rows">>, !.pager = "within"]
TopicShow == [Base EXCEPT !.shows = <<"loading", "gone", "rows">>]
TopicPatentsShow == [Base EXCEPT !.shows = <<"none", "rows">>]

TrendsAsk == [Base EXCEPT !.resets = {"surface"}, !.url = TRUE]
TrendsShow == [TrendsAsk EXCEPT !.shows = <<"loading", "none", "rows">>]
ConvergenceShow == [Base EXCEPT !.shows = <<"loading", "none", "rows">>]
CliffsAsk == [Base EXCEPT !.resets = {"window"}, !.url = TRUE]
CliffsShow == [CliffsAsk EXCEPT !.shows = <<"loading", "none", "rows">>]
TrendShow == [Base EXCEPT !.shows = <<"loading", "missing", "rows">>, !.single = TRUE,
                          !.fails = "junk"]
TrendPatentsAsk == [Base EXCEPT !.url = TRUE]
TrendPatentsShow == [TrendPatentsAsk EXCEPT !.shows = <<"loading", "none", "rows">>,
                                            !.pager = "within"]
TrendExpiryShow == [Base EXCEPT !.shows = <<"loading", "none", "rows">>]
TrendAssigneesShow == [Base EXCEPT !.shows = <<"loading", "none", "rows">>]

ExpiryAsk == [Base EXCEPT !.url = TRUE]
ExpiryNarrow ==
  [ExpiryAsk EXCEPT !.resets = {"horizon", "days", "status", "confidence", "family", "sort"}]
ExpiryChips == [ExpiryNarrow EXCEPT !.resets = @ \cup {"chip", "clearAll"}]
ExpiryLists == <<"loading", "none", "rows">>
ExpirySections == [ExpiryChips EXCEPT !.shows = ExpiryLists]
ExpiryCliffs == [Base EXCEPT !.shows = <<"missing", "rows">>]

PatentShow == [Base EXCEPT !.shows = <<"loading", "missing", "rows">>, !.single = TRUE]
SimilarShow == [Base EXCEPT !.shows = <<"loading", "error", "none", "rows">>, !.single = TRUE]
SignalsShow == [Base EXCEPT !.shows = <<"loading", "failed", "rows">>, !.single = TRUE]
FiguresShow == [Base EXCEPT !.shows = <<"loading", "hidden", "rows">>]
SummaryShow == [Base EXCEPT !.shows = <<"loading", "generating", "rows">>, !.polls = TRUE]

TodayExpiring == [Base EXCEPT !.shows = <<"loading", "none", "rows">>]
TodayCompanies == [Base EXCEPT !.shows = <<"loading", "none", "rows">>]
TodayTopics == [Base EXCEPT !.shows = <<"blank", "rows">>]
TodayPlatform == [Base EXCEPT !.shows = <<"blank", "rows">>]

RunHistory == [Base EXCEPT !.shows = <<"none", "rows">>]
RunArtifacts == [Base EXCEPT !.shows = <<"loading", "none", "rows">>]
SourceHealth == [Base EXCEPT !.shows = <<"error", "loading", "silent", "rows">>]
SourceFetches == [Base EXCEPT !.shows = <<"loading", "none", "rows">>]
DataHealth == [Base EXCEPT !.shows = <<"loading", "error", "missing", "rows">>,
                           !.fails = "once"]
AdminTables == [Base EXCEPT !.shows = <<"silent", "rows">>]

Subscriptions == [Base EXCEPT !.shows = <<"pending", "empty", "rows">>]
BillingShow == [Base EXCEPT !.shows = <<"error", "pending", "rows">>]
PreferencesShow == [Base EXCEPT !.shows = <<"loading", "failed", "rows">>]
EmailShow == [Base EXCEPT !.shows = <<"pending", "rows">>]
WebhookShow == [Base EXCEPT !.shows = <<"pending", "rows">>]
WebhookAlerts == [Base EXCEPT !.shows = <<"none", "rows">>]

PublicTopic == [Base EXCEPT !.shows = <<"loading", "none", "rows">>, !.fails = "once"]
PublicCompany == [Base EXCEPT !.shows = <<"loading", "missing", "rows">>, !.fails = "once",
                              !.single = TRUE]
BlogList == [Base EXCEPT !.shows = <<"loading", "none", "rows">>, !.fails = "swallows"]
BlogPost == [Base EXCEPT !.shows = <<"loading", "missing", "rows">>, !.fails = "once",
                         !.single = TRUE]

Screens ==
  [patents |-> PatentsShow,
   search |-> SearchShow,
   opportunity |-> OpportunityShow,
   companies |-> CompaniesShow,
   companyMap |-> CompanyMapShow, company |-> CompanyShow,
   savedPatents |-> SavedPatentsShow, followed |-> FollowedShow,
   savedSearches |-> SavedSearchesShow,
   topics |-> TopicsShow, topicCards |-> TopicCards,
   topicMatches |-> TopicMatchesShow,
   topic |-> TopicShow, topicPatents |-> TopicPatentsShow,
   trends |-> TrendsShow, convergence |-> ConvergenceShow,
   cliffs |-> CliffsShow, trend |-> TrendShow,
   trendPatents |-> TrendPatentsShow,
   trendExpiry |-> TrendExpiryShow, trendAssignees |-> TrendAssigneesShow,
   expiry |-> ExpirySections, expiryCliffs |-> ExpiryCliffs,
   patent |-> PatentShow, similar |-> SimilarShow,
   signals |-> SignalsShow, figures |-> FiguresShow,
   summary |-> SummaryShow,
   todayExpiring |-> TodayExpiring, todayCompanies |-> TodayCompanies,
   todayTopics |-> TodayTopics, todayPlatform |-> TodayPlatform,
   runHistory |-> RunHistory, runArtifacts |-> RunArtifacts,
   sourceHealth |-> SourceHealth, sourceFetches |-> SourceFetches,
   dataHealth |-> DataHealth, adminTables |-> AdminTables,
   subscriptions |-> Subscriptions, billing |-> BillingShow,
   preferences |-> PreferencesShow, email |-> EmailShow,
   webhook |-> WebhookShow, webhookAlerts |-> WebhookAlerts,
   publicTopic |-> PublicTopic, publicCompany |-> PublicCompany,
   blogList |-> BlogList, blogPost |-> BlogPost]
-----------------------------------------------------------------------------
VARIABLES
  screen,      \* the screen that is mounted
  ask,         \* what it asks for: a setting and a page, or NoAsk
  stock,       \* the pages the server has for each setting
  shelf,       \* SWR's cache: the pages each request was answered with
  laggy,       \* the request whose rows keepPreviousData goes on showing
  broken,      \* the requests whose last answer was an error
  asking,      \* the requests under way
  moves, failures,
  polls,       \* how often the page has evaluated its polling interval
  swapped,     \* the server's stock changed
  strayed      \* a control changed the request and kept a later page

screenVars == <<screen, ask, stock, shelf, laggy, broken, asking, moves, failures, polls, swapped, strayed>>

Unanswered == -1
Junk == -2
NoAsk == [by |-> "nothing", pg |-> 1]
MaxPage == MaxStock + 1
Asks == [by: Settings, pg: 1..MaxPage]

S == Screens[screen]
Controls(s) == s.resets \cup s.strays \cup s.drops
\* A local pager cuts its pages from one answer.
KeyOf(q) == IF S.pager = "local" /\ q # NoAsk THEN [q EXCEPT !.pg = 1] ELSE q
Start == IF S.drops # {} THEN NoAsk ELSE [by |-> CHOOSE s \in Settings : TRUE, pg |-> 1]

ScreenTypeOK ==
  /\ screen \in DOMAIN Screens
  /\ ask \in Asks \cup {NoAsk} /\ laggy \in Asks \cup {NoAsk}
  /\ stock \in [Settings -> 0..MaxStock]
  /\ shelf \in [Asks -> {Unanswered, Junk} \cup 0..MaxStock]
  /\ broken \subseteq Asks /\ asking \subseteq Asks
  /\ moves \in 0..MaxMoves /\ failures \in 0..MaxFailures
  /\ polls \in 0..MaxPolls + 1 /\ swapped \in BOOLEAN /\ strayed \in BOOLEAN
-----------------------------------------------------------------------------
(***************************************************************************)
(* The views.                                                              *)
(***************************************************************************)
Asked == ask # NoAsk
Answered == Asked /\ shelf[KeyOf(ask)] # Unanswered
\* SWR's data: the answer, or with keepPreviousData the rows shown before.
Data == IF ~Answered THEN IF S.keeps THEN laggy ELSE NoAsk ELSE KeyOf(ask)
HasData == Data # NoAsk
Rows == HasData /\ (shelf[Data] = Junk \/ shelf[Data] >= Data.pg)
\* SWR's isLoading: under way and no answer yet.
IsLoading == Asked /\ ~Answered /\ KeyOf(ask) \in asking
IsBroken == Asked /\ KeyOf(ask) \in broken

Holds(view) ==
  CASE view = "prompt" -> ~Asked
    [] view = "error" -> IsBroken
    [] view = "loading" -> IsLoading
    [] view = "waiting" -> IsLoading /\ ~HasData
    [] view = "empty" -> HasData /\ ~Rows
    [] view \in {"pending", "missing", "silent"} -> ~HasData
    [] view \in {"none", "blank", "generating"} -> ~Rows
    [] view = "failed" -> IsBroken \/ ~HasData
    [] view \in {"gone", "hidden"} -> IsBroken \/ ~Rows
    [] OTHER -> TRUE

View == S.shows[CHOOSE i \in DOMAIN S.shows :
                  Holds(S.shows[i]) /\ \A j \in 1..i-1 : ~Holds(S.shows[j])]
Waits == View \in {"loading", "waiting", "pending", "generating"}
SaysNothing == View \in {"none", "empty", "missing", "gone"}
Crashed == View = "rows" /\ HasData /\ shelf[Data] = Junk

\* The pager, and the buttons on it.
PagerShown == CASE S.pager = "none" -> FALSE
                [] S.pager = "within" -> View = "rows" /\ HasData /\ shelf[Data] > 1
                [] OTHER -> HasData /\ shelf[Data] > 1
CanAlwaysGoBack == PagerShown
CanGoBack == PagerShown /\ ask.pg > 1
CanGoOn == PagerShown /\ IF S.overruns THEN ask.pg # shelf[Data] ELSE ask.pg < shelf[Data]
-----------------------------------------------------------------------------
ScreenInit ==
  /\ screen \in DOMAIN Screens
  /\ stock \in [Settings -> 0 .. IF S.pager = "none" THEN 1 ELSE MaxStock]
  /\ Controls(S) = {} => \A a, b \in Settings : stock[a] = stock[b]
  /\ ask = Start
  /\ shelf = [q \in Asks |-> Unanswered]
  /\ laggy = NoAsk /\ broken = {}
  /\ asking = IF ask = NoAsk THEN {} ELSE {ask}
  /\ moves = 0 /\ failures = 0 /\ polls = 0 /\ swapped = FALSE /\ strayed = FALSE

\* The page asks for q: SWR goes to the server unless that was answered
\* moments ago, and keepPreviousData holds on to the rows shown so far.
Ask(q) ==
  /\ moves < MaxMoves /\ moves' = moves + 1
  /\ ask' = q
  /\ laggy' = IF S.keeps THEN Data ELSE NoAsk
  /\ \/ asking' = asking \cup ({KeyOf(q)} \ {NoAsk})
     \/ q # NoAsk /\ shelf[KeyOf(q)] # Unanswered /\ UNCHANGED asking
  /\ UNCHANGED <<screen, stock, shelf, broken, failures, polls, swapped>>

\* The page number forgotten in a handler that changes the request.
ChooseOnThisPage ==
  /\ S.resets # {}
  /\ \E by \in Settings \ {ask.by} : Ask([by |-> by, pg |-> ask.pg])
  /\ strayed' = FALSE

\* A control that goes back to the first page: a new query, filter, sort, tab.
Choose ==
  /\ S.resets # {}
  /\ \E by \in Settings \ {ask.by} : Ask([by |-> by, pg |-> 1])
  /\ strayed' = FALSE

\* A control that changes the request and keeps the page number.
Narrow ==
  /\ S.strays # {} /\ Asked
  /\ \E by \in Settings \ {ask.by} : Ask([ask EXCEPT !.by = by])
  /\ strayed' = (ask.pg > 1)

\* A control that goes back to the prompt, or closes the list.
Drop ==
  /\ S.drops # {} /\ Asked
  /\ Ask(NoAsk)
  /\ strayed' = FALSE

Turn ==
  /\ \/ CanGoOn /\ ask.pg < MaxPage /\ Ask([ask EXCEPT !.pg = @ + 1])
     \/ CanGoBack /\ Ask([ask EXCEPT !.pg = @ - 1])
  \* The pager counts the pages of the rows it shows, which may be the last ones.
  /\ strayed' = (strayed \/ Data # KeyOf(ask))

\* The user reloads the tab: the cache is gone, and the address is what is
\* left of the request.
Reload ==
  /\ moves < MaxMoves /\ moves' = moves + 1
  /\ ask' = IF S.url THEN ask ELSE Start
  /\ shelf' = [q \in Asks |-> Unanswered]
  /\ laggy' = NoAsk /\ broken' = {}
  /\ asking' = {KeyOf(ask')} \ {NoAsk}
  /\ strayed' = (strayed /\ S.url) /\ polls' = 0
  /\ UNCHANGED <<screen, stock, failures, swapped>>

\* What an answer that is not one does to the page.
Fails(q) ==
  CASE S.fails \in {"throws", "once"} -> broken' = broken \cup {q} /\ UNCHANGED shelf
    [] S.fails = "swallows" -> shelf' = [shelf EXCEPT ![q] = 0] /\ broken' = broken \ {q}
    [] OTHER -> \/ shelf' = [shelf EXCEPT ![q] = Junk] /\ broken' = broken \ {q}
                \/ broken' = broken \cup {q} /\ UNCHANGED shelf

Arrive ==
  /\ \E q \in asking :
       /\ IF S.single /\ stock[q.by] = 0
            THEN Fails(q)
            ELSE /\ shelf' = [shelf EXCEPT ![q] = stock[q.by]]
                 /\ broken' = broken \ {q}
       /\ asking' = asking \ {q}
  /\ polls' = IF ~S.polls \/ stock[ask.by] > 0 THEN 0 ELSE polls
  /\ UNCHANGED <<screen, ask, stock, laggy, moves, failures, swapped, strayed>>

Fail ==
  /\ failures < MaxFailures /\ failures' = failures + 1
  /\ \E q \in asking : Fails(q) /\ asking' = asking \ {q}
  /\ UNCHANGED <<screen, ask, stock, laggy, moves, polls, swapped, strayed>>

\* SWR asks again after an error, for the request the page shows.
Retry ==
  /\ S.fails \in {"throws", "junk"} /\ IsBroken /\ KeyOf(ask) \notin asking
  /\ asking' = asking \cup {KeyOf(ask)}
  /\ UNCHANGED <<screen, ask, stock, shelf, laggy, broken, moves, failures, polls, swapped, strayed>>

\* Patents come and go while the page is open.
Restock ==
  /\ ~swapped /\ swapped' = TRUE
  /\ \E by \in Settings, n \in 0 .. (IF S.pager = "none" THEN 1 ELSE MaxStock) :
       n # stock[by] /\ stock' = [stock EXCEPT ![by] = n]
  /\ UNCHANGED <<screen, ask, shelf, laggy, broken, asking, moves, failures, polls, strayed>>

\* While the answer is null the page polls, at most MAX_POLL_FAILURES times;
\* a render evaluates the interval too, and counts.
Polling == S.polls /\ Answered /\ shelf[ask] = 0 /\ polls <= MaxPolls
Poll ==
  /\ Polling /\ ask \notin asking
  /\ polls' = polls + 1 /\ asking' = asking \cup {ask}
  /\ UNCHANGED <<screen, ask, stock, shelf, laggy, broken, moves, failures, swapped, strayed>>

Rerender ==
  /\ Polling /\ polls' = polls + 1
  /\ UNCHANGED <<screen, ask, stock, shelf, laggy, broken, asking, moves, failures, swapped, strayed>>

ScreenUser == Choose \/ Narrow \/ Drop \/ Turn \/ Reload
ScreenNet == Arrive \/ Fail \/ Retry \/ Poll \/ Rerender
ScreenNext == ScreenUser \/ ScreenNet \/ Restock

-----------------------------------------------------------------------------
(***************************************************************************)
(* Properties.                                                             *)
(***************************************************************************)
\* The pages whose view says there is nothing while the request failed.
DeniesOnErrors ==
  {"search", "opportunity", "companies", "companyMap", "company", "savedPatents", "followed",
   "savedSearches", "topics", "topicMatches", "topic", "topicPatents", "trends", "convergence",
   "cliffs", "trend", "trendPatents", "trendExpiry", "trendAssignees", "expiry", "expiryCliffs",
   "patent", "todayExpiring", "todayCompanies", "runHistory", "runArtifacts", "sourceFetches",
   "webhookAlerts", "publicTopic", "publicCompany", "blogList", "blogPost", "similar"}
\* The pages that say so before the first answer.
DeniesWhileLoading == {"opportunity", "topicPatents", "expiryCliffs", "runHistory", "webhookAlerts"}
\* The pages whose skeleton stands for a failure too.
WaitsOnErrors == {"subscriptions", "email", "webhook", "summary"}

Swallowed == S.fails = "swallows" /\ failures > 0

\* What the page says is true: it shows a skeleton while the request is under
\* way, says that there is nothing after an answer without rows, and shows the
\* rows of what it asks for, or of the request before while the next arrives.
\* The lists above name the pages that keep the skeleton on an error (account,
\* e-mail and webhook settings), that say "nothing" on an error (most lists
\* have no error view), and that say it before the first answer; an AI summary
\* is said to be under way after the page has stopped polling; and the trend
\* page takes the body of an error for a trend.
ViewsTellTheTruth ==
  /\ Waits => \/ KeyOf(ask) \in asking
              \/ IsBroken /\ screen \in WaitsOnErrors
              \/ S.polls
  /\ SaysNothing => \/ Answered /\ ~Rows /\ (shelf[KeyOf(ask)] = 0 => ~Swallowed)
                    \/ IsBroken /\ screen \in DeniesOnErrors
                    \/ Swallowed /\ screen \in DeniesOnErrors
                    \/ KeyOf(ask) \in asking /\ screen \in DeniesWhileLoading
  /\ View \in {"error", "failed"} => IsBroken
  /\ View = "rows" => \/ Data = KeyOf(ask)
                      \/ S.keeps /\ HasData /\ (IsBroken \/ KeyOf(ask) \in asking)
  /\ View \in {"silent", "blank", "hidden"} => ~Rows \/ IsBroken
  /\ Crashed => screen = "trend"

\* The page number belongs to the request: nobody is sent past the last page
\* by a control, unless the server's stock changed, a control of "strays" kept
\* the number, or the pager counted the rows of the request before.
PagesStayInRange ==
  Answered /\ shelf[KeyOf(ask)] >= 0 /\ ask.pg > 1 /\ ask.pg > shelf[KeyOf(ask)]
    => swapped \/ strayed
=============================================================================
