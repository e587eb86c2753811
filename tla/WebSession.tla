----------------------------- MODULE WebSession -----------------------------
(***************************************************************************)
(* Signing in and out of the web application, and the questions a new user *)
(* is asked.  The session is a cookie that all tabs of the browser share;  *)
(* who a tab believes is signed in is what /auth/me answered when its      *)
(* document was loaded.  A magic link is used once; the page it opens      *)
(* waits, asks whether the questions were answered, and loads the next     *)
(* page anew.  The middleware's list of public paths holds "/", which      *)
(* every path begins with: what sends a visitor to the sign-in page is the *)
(* layout of the application, from what the tab believes.                  *)
(***************************************************************************)
EXTENDS Integers

CONSTANTS
  Browsers,        \* the tabs
  Users,
  MaxLinks,        \* the magic links sent to each user
  MaxAnswers,      \* how often answers are changed
  MaxSteps,        \* the steps users take
  MaxSlips         \* how many calls fail

ASSUME WebSessionAssumption ==
  /\ Browsers # {} /\ "nobody" \notin Users
  /\ MaxLinks \in Nat /\ MaxAnswers \in Nat /\ MaxSteps \in Nat /\ MaxSlips \in Nat

VARIABLES
  cookie,      \* whose session the browser's cookie is
  links,       \* the links sent to each user and not used
  onboarded,   \* the users who went through the questions
  at,          \* the page each tab shows
  user,        \* who the tab believes is signed in
  checking,    \* /auth/me is under way: the tab shows "Loading"
  opened,      \* whose link the page "verify" opened
  told,        \* what it says: "verifying", "waiting", "almost", "failed"
  question,    \* the step of the questions: 1..4, 5 is "confirm"
  answering,   \* the call under way there: "none", "complete" or "confirm"
  typed,       \* the version of the answers on the screen
  sentAs,      \* the version sent with "complete"
  suggested,   \* the version the suggestions on the screen were made from
  steps, slips,
  moved,       \* the tabs whose cookie was changed behind their back
  hurried      \* the tabs that went back, or typed, while the answers were being sent

webSessionVars == <<cookie, links, onboarded, at, user, checking, opened, told, question, answering,
                    typed, sentAs, suggested, steps, slips, moved, hurried>>

SitePages == {"landing", "login", "verify", "onboarding", "app", "account"}
Anyone == Users \cup {"nobody"}

SessionTypeOK ==
  /\ cookie \in Anyone /\ links \in [Users -> 0..MaxLinks] /\ onboarded \subseteq Users
  /\ at \in [Browsers -> SitePages] /\ user \in [Browsers -> Anyone]
  /\ checking \in [Browsers -> BOOLEAN] /\ opened \in [Browsers -> Anyone]
  /\ told \in [Browsers -> {"verifying", "waiting", "almost", "failed"}]
  /\ question \in [Browsers -> 1..5] /\ answering \in [Browsers -> {"none", "complete", "confirm"}]
  /\ typed \in [Browsers -> 0..MaxAnswers] /\ sentAs \in [Browsers -> 0..MaxAnswers]
  /\ suggested \in [Browsers -> 0..MaxAnswers]
  /\ steps \in 0..MaxSteps /\ slips \in 0..MaxSlips
  /\ moved \subseteq Browsers /\ hurried \subseteq Browsers

SessionInit ==
  /\ cookie = "nobody" /\ links \in [Users -> 1..MaxLinks] /\ onboarded = {}
  /\ at = [b \in Browsers |-> "landing"] /\ user = [b \in Browsers |-> "nobody"]
  /\ checking = [b \in Browsers |-> FALSE] /\ opened = [b \in Browsers |-> "nobody"]
  /\ told = [b \in Browsers |-> "verifying"]
  /\ question = [b \in Browsers |-> 1] /\ answering = [b \in Browsers |-> "none"]
  /\ typed = [b \in Browsers |-> 0] /\ sentAs = [b \in Browsers |-> 0] /\ suggested = [b \in Browsers |-> 0]
  /\ steps = 0 /\ slips = 0 /\ moved = {} /\ hurried = {}
-----------------------------------------------------------------------------
Step == steps < MaxSteps /\ steps' = steps + 1
Slip == slips < MaxSlips /\ slips' = slips + 1

\* A document is loaded: AuthProvider is mounted and asks who is signed in, and
\* the wizard starts with its first question.
Loads(b, page) ==
  /\ at' = [at EXCEPT ![b] = page]
  /\ user' = [user EXCEPT ![b] = "nobody"] /\ checking' = [checking EXCEPT ![b] = TRUE]
  /\ question' = [question EXCEPT ![b] = 1] /\ answering' = [answering EXCEPT ![b] = "none"]
  /\ typed' = [typed EXCEPT ![b] = 0] /\ suggested' = [suggested EXCEPT ![b] = 0]
  /\ sentAs' = [sentAs EXCEPT ![b] = 0]
  /\ hurried' = hurried \ {b}

\* The user enters an address, or reloads: the landing page sends those with a
\* cookie on to the application, and the middleware lets all the rest through.
Landing == IF cookie # "nobody" THEN "app" ELSE "landing"
Visit(b) ==
  /\ Step
  /\ \E page \in {"landing", "app", "account", "onboarding", "login"} :
       Loads(b, IF page = "landing" THEN Landing ELSE page)
  /\ moved' = moved \ {b}
  /\ UNCHANGED <<cookie, links, onboarded, opened, told, slips>>

\* /auth/me: anything but a user is "not authenticated".
WhoAmI(b) ==
  /\ checking[b] /\ checking' = [checking EXCEPT ![b] = FALSE]
  /\ user' = [user EXCEPT ![b] = cookie]
  /\ moved' = moved \ {b}
  /\ UNCHANGED <<cookie, links, onboarded, at, opened, told, question, answering, typed, sentAs,
                 suggested, steps, slips, hurried>>

WhoAmIFails(b) ==
  /\ checking[b] /\ Slip /\ checking' = [checking EXCEPT ![b] = FALSE]
  /\ UNCHANGED <<cookie, links, onboarded, at, user, opened, told, question, answering, typed,
                 sentAs, suggested, steps, moved, hurried>>

\* The layout of the application, the account page and the wizard: those who are
\* not signed in are sent to the sign-in page, without loading a document.
Guarded == {"app", "account", "onboarding"}
Redirect(b) ==
  /\ at[b] \in Guarded /\ ~checking[b] /\ user[b] = "nobody"
  /\ at' = [at EXCEPT ![b] = "login"]
  /\ UNCHANGED <<cookie, links, onboarded, user, checking, opened, told, question, answering,
                 typed, sentAs, suggested, steps, slips, moved, hurried>>

\* A link is opened in a tab.  It may be one that was used before.
OpenLink(b) ==
  /\ Step
  /\ Loads(b, "verify")
  /\ \E u \in Users : opened' = [opened EXCEPT ![b] = u]
  /\ told' = [told EXCEPT ![b] = "verifying"]
  /\ UNCHANGED <<cookie, links, onboarded, slips, moved>>

\* The server takes the link and sets the cookie, and the page waits 300 ms.
Verify(b) ==
  LET u == opened[b] IN
  /\ at[b] = "verify" /\ told[b] = "verifying"
  /\ IF links[u] > 0
       THEN /\ links' = [links EXCEPT ![u] = @ - 1]
            /\ cookie' = u
            /\ told' = [told EXCEPT ![b] = "waiting"]
            /\ moved' = moved \cup (IF cookie = u THEN {} ELSE Browsers)
       ELSE /\ told' = [told EXCEPT ![b] = "failed"]
            /\ UNCHANGED <<links, cookie, moved>>
  /\ UNCHANGED <<onboarded, at, user, checking, opened, question, answering, typed, sentAs,
                 suggested, steps, slips, hurried>>

\* The answer is lost after the link was used, or the call never arrived.
VerifyFails(b) ==
  /\ at[b] = "verify" /\ told[b] = "verifying" /\ Slip
  /\ told' = [told EXCEPT ![b] = "failed"]
  /\ \/ /\ links[opened[b]] > 0 /\ links' = [links EXCEPT ![opened[b]] = @ - 1]
        /\ cookie' = opened[b]
        /\ moved' = moved \cup (IF cookie = opened[b] THEN {} ELSE Browsers)
     \/ UNCHANGED <<links, cookie, moved>>
  /\ UNCHANGED <<onboarded, at, user, checking, opened, question, answering, typed, sentAs,
                 suggested, steps, hurried>>

\* /onboarding/status, asked with the cookie of the moment.
Status(b) ==
  /\ at[b] = "verify" /\ told[b] = "waiting" /\ cookie # "nobody"
  /\ Loads(b, IF cookie \in onboarded THEN "app" ELSE "onboarding")
  /\ moved' = moved \ {b}
  /\ UNCHANGED <<cookie, links, onboarded, opened, told, steps, slips>>

StatusFails(b) ==
  /\ at[b] = "verify" /\ told[b] = "waiting"
  /\ IF cookie = "nobody" THEN UNCHANGED slips ELSE Slip
  /\ told' = [told EXCEPT ![b] = "almost"]
  /\ UNCHANGED <<cookie, links, onboarded, at, user, checking, opened, question, answering, typed,
                 sentAs, suggested, steps, moved, hurried>>

\* "Please try refreshing the page": the link is verified again.
Refresh(b) ==
  /\ at[b] = "verify" /\ told[b] \in {"almost", "failed"} /\ Step
  /\ Loads(b, "verify")
  /\ told' = [told EXCEPT ![b] = "verifying"]
  /\ UNCHANGED <<cookie, links, onboarded, opened, slips, moved>>

\* "Sign out" of the account page: whatever becomes of the call, the tab
\* forgets the user and goes to the landing page, which the middleware turns
\* into the application while there is a cookie.
SignOut(b) ==
  /\ at[b] = "account" /\ ~checking[b] /\ user[b] # "nobody" /\ Step
  /\ \/ /\ cookie' = "nobody" /\ UNCHANGED slips
        /\ moved' = moved \cup (IF cookie = "nobody" THEN {} ELSE Browsers \ {b})
     \/ Slip /\ UNCHANGED <<cookie, moved>>
  /\ user' = [user EXCEPT ![b] = "nobody"]
  /\ at' = [at EXCEPT ![b] = IF cookie' # "nobody" THEN "app" ELSE "landing"]
  /\ UNCHANGED <<links, onboarded, checking, opened, told, question, answering, typed, sentAs,
                 suggested, hurried>>

\* "Logout" of the menu goes to the sign-in page: the cookie is HttpOnly, so the
\* line that clears it does nothing, and the tab goes on knowing its user.
MenuLogout(b) ==
  /\ at[b] \in {"app", "account"} /\ ~checking[b] /\ user[b] # "nobody" /\ Step
  /\ at' = [at EXCEPT ![b] = "login"]
  /\ UNCHANGED <<cookie, links, onboarded, user, checking, opened, told, question, answering,
                 typed, sentAs, suggested, slips, moved, hurried>>

\* Links between the pages of the application keep the document.
Browse(b) ==
  /\ at[b] \in {"app", "account"} /\ ~checking[b] /\ user[b] # "nobody" /\ Step
  /\ \E page \in {"app", "account", "onboarding"} \ {at[b]} :
       /\ at' = [at EXCEPT ![b] = page]
       /\ question' = [question EXCEPT ![b] = 1] /\ answering' = [answering EXCEPT ![b] = "none"]
       /\ typed' = [typed EXCEPT ![b] = 0] /\ suggested' = [suggested EXCEPT ![b] = 0]
       /\ sentAs' = [sentAs EXCEPT ![b] = 0]
       /\ hurried' = hurried \ {b}
  /\ UNCHANGED <<cookie, links, onboarded, user, checking, opened, told, slips, moved>>

\* The cookie expires.
Expire ==
  /\ cookie # "nobody" /\ Slip
  /\ cookie' = "nobody" /\ moved' = Browsers
  /\ UNCHANGED <<links, onboarded, at, user, checking, opened, told, question, answering, typed,
                 sentAs, suggested, steps, hurried>>
-----------------------------------------------------------------------------
(***************************************************************************)
(* The questions.                                                          *)
(***************************************************************************)
Asking(b) == at[b] = "onboarding" /\ ~checking[b] /\ user[b] # "nobody"
wizardKeeps == <<cookie, links, at, user, checking, opened, told, moved>>

AnswerQuestion(b) ==
  /\ Asking(b) /\ question[b] \in 1..4 /\ typed[b] < MaxAnswers
  /\ typed' = [typed EXCEPT ![b] = @ + 1]
  /\ hurried' = IF answering[b] # "none" THEN hurried \cup {b} ELSE hurried
  /\ UNCHANGED <<wizardKeeps, onboarded, question, answering, sentAs, suggested, steps, slips>>

\* "Next": the first three steps want an answer; the others make a call.
NextQuestion(b) ==
  /\ Asking(b) /\ answering[b] = "none" /\ Step
  /\ question[b] < 4 => typed[b] > 0
  /\ question' = [question EXCEPT ![b] = IF @ < 4 THEN @ + 1 ELSE @]
  /\ answering' = [answering EXCEPT ![b] = CASE question[b] = 4 -> "complete"
                                             [] question[b] = 5 -> "confirm" [] OTHER -> "none"]
  /\ sentAs' = [sentAs EXCEPT ![b] = IF question[b] = 4 THEN typed[b] ELSE @]
  /\ hurried' = IF question[b] = 4 THEN hurried \ {b} ELSE hurried
  /\ UNCHANGED <<wizardKeeps, onboarded, typed, suggested, slips>>

\* Neither "Back" nor the fields are disabled while a call runs.
BackQuestion(b) ==
  /\ Asking(b) /\ question[b] > 1 /\ Step
  /\ question' = [question EXCEPT ![b] = @ - 1]
  /\ hurried' = IF answering[b] # "none" THEN hurried \cup {b} ELSE hurried
  /\ UNCHANGED <<wizardKeeps, onboarded, answering, typed, sentAs, suggested, slips>>

\* The suggestions arrive, wherever the user is by then.
Completed(b) ==
  /\ answering[b] = "complete" /\ cookie # "nobody"
  /\ answering' = [answering EXCEPT ![b] = "none"]
  /\ question' = [question EXCEPT ![b] = 5]
  /\ suggested' = [suggested EXCEPT ![b] = sentAs[b]]
  /\ UNCHANGED <<wizardKeeps, onboarded, typed, sentAs, steps, slips, hurried>>

Confirmed(b) ==
  /\ answering[b] = "confirm" /\ cookie # "nobody"
  /\ onboarded' = onboarded \cup {cookie}
  /\ answering' = [answering EXCEPT ![b] = "none"]
  /\ at' = [at EXCEPT ![b] = "app"]
  /\ UNCHANGED <<cookie, links, user, checking, opened, told, moved, question, typed, sentAs,
                 suggested, steps, slips, hurried>>

\* The error passed over on the way to the suggestions.
QuestionGoesOn(b) ==
  /\ answering[b] # "none"
  /\ IF cookie = "nobody" THEN UNCHANGED slips ELSE Slip
  /\ answering' = [answering EXCEPT ![b] = "none"]
  /\ question' = [question EXCEPT ![b] = 5]
  /\ UNCHANGED <<wizardKeeps, onboarded, typed, sentAs, suggested, steps, hurried>>

QuestionFails(b) ==
  /\ answering[b] # "none"
  /\ IF cookie = "nobody" THEN UNCHANGED slips ELSE Slip
  /\ answering' = [answering EXCEPT ![b] = "none"]
  /\ \/ UNCHANGED onboarded
     \/ answering[b] = "confirm" /\ cookie # "nobody" /\ onboarded' = onboarded \cup {cookie}
  /\ UNCHANGED <<wizardKeeps, question, typed, sentAs, suggested, steps, hurried>>

SessionUser == \E b \in Browsers :
  \/ Visit(b) \/ OpenLink(b) \/ Refresh(b) \/ SignOut(b) \/ MenuLogout(b) \/ Browse(b)
  \/ AnswerQuestion(b) \/ NextQuestion(b) \/ BackQuestion(b)
SessionNet == \/ Expire
              \/ \E b \in Browsers :
                   \/ WhoAmI(b) \/ WhoAmIFails(b) \/ Redirect(b) \/ Verify(b) \/ VerifyFails(b)
                   \/ Status(b) \/ StatusFails(b)
                   \/ Completed(b) \/ Confirmed(b) \/ QuestionFails(b)
SessionNext == SessionUser \/ SessionNet
-----------------------------------------------------------------------------
(***************************************************************************)
(* Properties.                                                             *)
(***************************************************************************)
\* The user whose name a page shows is the one the server takes its calls for,
\* unless the cookie was changed behind the tab's back: by a link opened, or a
\* sign-out, in another tab, by its own link before the page goes on, or because
\* it expired.
ShownUserIsTheirs ==
  \A b \in Browsers : user[b] # "nobody" => user[b] = cookie \/ b \in moved

\* Nobody with a session is sent to the sign-in page, but by the menu's "Logout",
\* or after a call failed, or when the session began after the tab had asked.
SentAwayOnlySignedOut ==
  \A b \in Browsers : Redirect(b) => cookie = "nobody" \/ b \in moved \/ slips > 0

\* What a user confirms was made from the answers on the screen, unless the user
\* went back, or changed them, while they were being sent.
ConfirmsTheAnswers ==
  \A b \in Browsers : question[b] = 5 => suggested[b] = typed[b] \/ b \in hurried

\* The three together, which are about who a tab speaks for: whose pages it
\* shows, whom it sends away, and whose answers it confirms.
TabsSpeakForTheirUser ==
  /\ ShownUserIsTheirs /\ ConfirmsTheAnswers
  /\ [][ShownUserIsTheirs' /\ ConfirmsTheAnswers' /\ SentAwayOnlySignedOut]_webSessionVars
=============================================================================
