----------------------------- MODULE WebProofs -----------------------------
(* What the pages of the web client promise, for any numbers of tabs,      *)
(* users, calls, failures and steps.                                       *)
EXTENDS MCWeb, FiniteSets, SequenceTheorems, FiniteSetTheorems, WellFoundedInduction, TLAPS
-----------------------------------------------------------------------------
(* Signing in and the questions.                                           *)

\* Whoever is not known to a tab that has asked has no session, or got it
\* behind the tab's back, or a call failed.
StrangersInv ==
  \A b \in Browsers :
    at[b] \in Guarded /\ ~checking[b] /\ user[b] = "nobody" =>
      cookie = "nobody" \/ b \in moved \/ slips > 0

\* A call of the questions is under way only where they are shown, and what it
\* sends is what the screen shows until the user goes back or types.
WizardInv ==
  \A b \in Browsers :
    /\ answering[b] # "none" => Asking(b)
    /\ answering[b] = "complete" => sentAs[b] = typed[b] \/ b \in hurried

SessionInv ==
  /\ SessionTypeOK /\ ShownUserIsTheirs /\ StrangersInv
  /\ WizardInv /\ ConfirmsTheAnswers
-----------------------------------------------------------------------------
\* The pages before anybody came.
LEMMA SessionStarts == SessionInit => SessionInv
<1> SUFFICES ASSUME SessionInit PROVE SessionInv
    OBVIOUS
<1>1. SessionTypeOK
      BY WebSessionAssumption DEF SessionInit, SessionTypeOK, SitePages, Anyone
<1>2. ShownUserIsTheirs /\ StrangersInv /\ WizardInv /\ ConfirmsTheAnswers
      BY DEF SessionInit, ShownUserIsTheirs, StrangersInv, WizardInv,
             ConfirmsTheAnswers, Guarded
<1>3. QED BY <1>1, <1>2 DEF SessionInv

\* A tab that loads a document knows nobody, asks, and has nothing typed.
LEMMA LoadsInv ==
  ASSUME SessionInv, NEW b \in Browsers, NEW p \in SitePages, Loads(b, p),
         cookie' = cookie, links' = links, onboarded' = onboarded,
         slips' = slips, steps' \in 0..MaxSteps,
         opened' \in [Browsers -> Anyone],
         told' \in [Browsers -> {"verifying", "waiting", "almost", "failed"}],
         moved' \in {moved, moved \ {b}}
  PROVE  SessionInv'
<1> USE DEF SessionInv, Loads
<1>1. SessionTypeOK'
      <2> USE DEF SessionTypeOK
      <2>1. cookie' \in Anyone /\ links' \in [Users -> 0..MaxLinks]
            /\ onboarded' \subseteq Users /\ slips' \in 0..MaxSlips
            OBVIOUS
      <2>2. at' \in [Browsers -> SitePages]
            OBVIOUS
      <2>3. user' \in [Browsers -> Anyone] /\ checking' \in [Browsers -> BOOLEAN]
            BY DEF Anyone
      <2>4. question' \in [Browsers -> 1..5]
            /\ answering' \in [Browsers -> {"none", "complete", "confirm"}]
            OBVIOUS
      <2>5. 0 \in 0..MaxAnswers
            BY WebSessionAssumption
      <2>6. typed' \in [Browsers -> 0..MaxAnswers]
            /\ sentAs' \in [Browsers -> 0..MaxAnswers]
            /\ suggested' \in [Browsers -> 0..MaxAnswers]
            BY <2>5
      <2>7. moved' \subseteq Browsers /\ hurried' \subseteq Browsers
            OBVIOUS
      <2>8. QED BY <2>1, <2>2, <2>3, <2>4, <2>6, <2>7
<1>2. ShownUserIsTheirs'
      BY <1>1 DEF ShownUserIsTheirs, SessionTypeOK
<1>3. StrangersInv'
      BY <1>1 DEF StrangersInv, SessionTypeOK
<1>4. WizardInv'
      BY <1>1 DEF WizardInv, SessionTypeOK, Asking
<1>5. ConfirmsTheAnswers'
      BY <1>1 DEF ConfirmsTheAnswers, SessionTypeOK
<1>6. QED BY <1>1, <1>2, <1>3, <1>4, <1>5

\* The cookie changes hands: every tab that is not told has it behind its back.
LEMMA CookieInv ==
  ASSUME SessionInv, NEW u \in Anyone, cookie' = u,
         moved' = moved \cup (IF cookie = u THEN {} ELSE Browsers),
         links' \in [Users -> 0..MaxLinks], slips' \in 0..MaxSlips, slips' >= slips,
         told' \in [Browsers -> {"verifying", "waiting", "almost", "failed"}],
         UNCHANGED <<onboarded, at, user, checking, opened, question, answering,
                     typed, sentAs, suggested, steps, hurried>>
  PROVE  SessionInv'
<1> USE DEF SessionInv
<1>1. SessionTypeOK'
      BY DEF SessionTypeOK
<1>2. ShownUserIsTheirs'
      BY DEF ShownUserIsTheirs
<1>3. StrangersInv'
      BY WebSessionAssumption DEF StrangersInv, SessionTypeOK
<1>4. WizardInv' /\ ConfirmsTheAnswers'
      BY DEF WizardInv, Asking, ConfirmsTheAnswers
<1>5. QED BY <1>1, <1>2, <1>3, <1>4

\* Whatever the user of a tab does keeps the invariant.
LEMMA SessionUserInv ==
  ASSUME SessionInv, NEW b \in Browsers,
         \/ Visit(b) \/ OpenLink(b) \/ Refresh(b) \/ SignOut(b) \/ MenuLogout(b) \/ Browse(b)
         \/ AnswerQuestion(b) \/ NextQuestion(b) \/ BackQuestion(b)
  PROVE  SessionInv'
<1>0. SessionInv
      OBVIOUS
<1>00. steps < MaxSteps /\ steps' = steps + 1 => steps' \in 0..MaxSteps
      BY WebSessionAssumption DEF SessionInv, SessionTypeOK
<1>000. slips < MaxSlips /\ slips' = slips + 1 => slips' \in 0..MaxSlips /\ slips' > 0
      BY WebSessionAssumption DEF SessionInv, SessionTypeOK
<1>1. CASE Visit(b)
      <2>1. PICK p \in SitePages : Loads(b, p)
            BY <1>1 DEF Visit, Landing, SitePages
      <2>2. QED BY <1>00, <1>1, <2>1, LoadsInv DEF Visit, Step, SessionInv, SessionTypeOK
<1>2. CASE OpenLink(b)
      <2>1. "verify" \in SitePages /\ Loads(b, "verify")
            BY <1>2 DEF OpenLink, SitePages
      <2>2. opened' \in [Browsers -> Anyone]
            BY <1>2 DEF OpenLink, SessionInv, SessionTypeOK, Anyone
      <2>3. told' \in [Browsers -> {"verifying", "waiting", "almost", "failed"}]
            BY <1>2 DEF OpenLink, SessionInv, SessionTypeOK
      <2>4. QED BY <1>00, <1>2, <2>1, <2>2, <2>3, LoadsInv DEF OpenLink, Step
<1>3. CASE Refresh(b)
      <2>1. "verify" \in SitePages /\ Loads(b, "verify")
            BY <1>3 DEF Refresh, SitePages
      <2>2. opened' \in [Browsers -> Anyone]
            BY <1>3 DEF Refresh, SessionInv, SessionTypeOK
      <2>3. told' \in [Browsers -> {"verifying", "waiting", "almost", "failed"}]
            BY <1>3 DEF Refresh, SessionInv, SessionTypeOK
      <2>4. QED BY <1>00, <1>3, <2>1, <2>2, <2>3, LoadsInv DEF Refresh, Step
<1>4. CASE SignOut(b)
      <2> USE DEF SessionInv
      <2>1. SessionTypeOK'
            BY <1>00, <1>000, <1>4 DEF SignOut, Step, Slip, SessionTypeOK, SitePages, Anyone
      <2>2. ShownUserIsTheirs'
            BY <1>4 DEF SignOut, ShownUserIsTheirs, SessionTypeOK
      <2>3. StrangersInv'
            BY <1>000, <1>4 DEF SignOut, Slip, StrangersInv, SessionTypeOK, Guarded
      <2>4. answering[b] = "none"
            BY <1>4 DEF SignOut, WizardInv, Asking, SessionTypeOK
      <2>5. WizardInv' /\ ConfirmsTheAnswers'
            BY <1>4, <2>4 DEF SignOut, WizardInv, Asking, ConfirmsTheAnswers, SessionTypeOK
      <2>6. QED BY <2>1, <2>2, <2>3, <2>5
<1>5. CASE MenuLogout(b)
      <2> USE DEF SessionInv
      <2>1. SessionTypeOK'
            BY <1>00, <1>5 DEF MenuLogout, Step, SessionTypeOK, SitePages
      <2>2. ShownUserIsTheirs' /\ StrangersInv'
            BY <1>5 DEF MenuLogout, ShownUserIsTheirs, StrangersInv, SessionTypeOK, Guarded
      <2>3. WizardInv' /\ ConfirmsTheAnswers'
            BY <1>5 DEF MenuLogout, WizardInv, Asking, ConfirmsTheAnswers, SessionTypeOK
      <2>4. QED BY <2>1, <2>2, <2>3
<1>6. CASE Browse(b)
      <2> USE DEF SessionInv
      <2>1. SessionTypeOK'
            BY <1>00, <1>6, WebSessionAssumption DEF Browse, Step, SessionTypeOK, SitePages
      <2>2. ShownUserIsTheirs' /\ StrangersInv'
            BY <1>6 DEF Browse, ShownUserIsTheirs, StrangersInv, SessionTypeOK
      <2>3. WizardInv' /\ ConfirmsTheAnswers'
            BY <1>6 DEF Browse, WizardInv, Asking, ConfirmsTheAnswers, SessionTypeOK
      <2>4. QED BY <2>1, <2>2, <2>3
<1>7. CASE AnswerQuestion(b)
      <2> USE DEF SessionInv, wizardKeeps
      <2>1. SessionTypeOK'
            BY <1>7, WebSessionAssumption DEF AnswerQuestion, SessionTypeOK
      <2>2. ShownUserIsTheirs' /\ StrangersInv'
            BY <1>7 DEF AnswerQuestion, ShownUserIsTheirs, StrangersInv
      <2>3. WizardInv' /\ ConfirmsTheAnswers'
            BY <1>7 DEF AnswerQuestion, WizardInv, Asking, ConfirmsTheAnswers, SessionTypeOK
      <2>4. QED BY <2>1, <2>2, <2>3
<1>8. CASE NextQuestion(b)
      <2> USE DEF SessionInv, wizardKeeps
      <2>1. SessionTypeOK'
            BY <1>00, <1>8 DEF NextQuestion, Step, SessionTypeOK
      <2>2. ShownUserIsTheirs' /\ StrangersInv'
            BY <1>8 DEF NextQuestion, ShownUserIsTheirs, StrangersInv
      <2>3. WizardInv' /\ ConfirmsTheAnswers'
            BY <1>8 DEF NextQuestion, WizardInv, Asking, ConfirmsTheAnswers, SessionTypeOK
      <2>4. QED BY <2>1, <2>2, <2>3
<1>9. CASE BackQuestion(b)
      <2> USE DEF SessionInv, wizardKeeps
      <2>1. SessionTypeOK'
            BY <1>00, <1>9 DEF BackQuestion, Step, SessionTypeOK
      <2>2. ShownUserIsTheirs' /\ StrangersInv'
            BY <1>9 DEF BackQuestion, ShownUserIsTheirs, StrangersInv
      <2>3. WizardInv' /\ ConfirmsTheAnswers'
            BY <1>9 DEF BackQuestion, WizardInv, Asking, ConfirmsTheAnswers, SessionTypeOK
      <2>4. QED BY <2>1, <2>2, <2>3
<1>10. QED BY <1>1, <1>2, <1>3, <1>4, <1>5, <1>6, <1>7, <1>8, <1>9

\* The server's answers keep the invariant.
LEMMA SessionNetInv ==
  ASSUME SessionInv, NEW b \in Browsers,
         \/ WhoAmI(b) \/ WhoAmIFails(b) \/ Redirect(b) \/ Verify(b) \/ VerifyFails(b)
         \/ Status(b) \/ StatusFails(b)
         \/ Completed(b) \/ Confirmed(b) \/ QuestionFails(b)
  PROVE  SessionInv'
<1>0. SessionInv
      OBVIOUS
<1>00. slips < MaxSlips /\ slips' = slips + 1 =>
         slips' \in 0..MaxSlips /\ slips' > 0 /\ slips' >= slips
      BY WebSessionAssumption DEF SessionInv, SessionTypeOK
<1>1. CASE WhoAmI(b)
      <2> USE DEF SessionInv
      <2>1. SessionTypeOK'
            BY <1>1 DEF WhoAmI, SessionTypeOK
      <2>2. ShownUserIsTheirs' /\ StrangersInv'
            BY <1>1 DEF WhoAmI, ShownUserIsTheirs, StrangersInv, SessionTypeOK
      <2>3. WizardInv' /\ ConfirmsTheAnswers'
            BY <1>1 DEF WhoAmI, WizardInv, Asking, ConfirmsTheAnswers, SessionTypeOK
      <2>4. QED BY <2>1, <2>2, <2>3
<1>2. CASE WhoAmIFails(b)
      <2> USE DEF SessionInv
      <2>1. SessionTypeOK'
            BY <1>00, <1>2 DEF WhoAmIFails, Slip, SessionTypeOK
      <2>2. ShownUserIsTheirs' /\ StrangersInv'
            BY <1>00, <1>2 DEF WhoAmIFails, Slip, ShownUserIsTheirs, StrangersInv, SessionTypeOK
      <2>3. WizardInv' /\ ConfirmsTheAnswers'
            BY <1>2 DEF WhoAmIFails, WizardInv, Asking, ConfirmsTheAnswers, SessionTypeOK
      <2>4. QED BY <2>1, <2>2, <2>3
<1>3. CASE Redirect(b)
      <2> USE DEF SessionInv
      <2>1. SessionTypeOK'
            BY <1>3 DEF Redirect, SessionTypeOK, SitePages
      <2>2. ShownUserIsTheirs' /\ StrangersInv'
            BY <1>3 DEF Redirect, ShownUserIsTheirs, StrangersInv, SessionTypeOK, Guarded
      <2>3. WizardInv' /\ ConfirmsTheAnswers'
            BY <1>3 DEF Redirect, WizardInv, Asking, ConfirmsTheAnswers, SessionTypeOK
      <2>4. QED BY <2>1, <2>2, <2>3
<1>4. CASE Verify(b) \/ VerifyFails(b)
      <2>1. PICK s \in {"waiting", "failed"} : told' = [told EXCEPT ![b] = s]
            BY <1>4 DEF Verify, VerifyFails
      <2>2. told' \in [Browsers -> {"verifying", "waiting", "almost", "failed"}]
            BY <2>1 DEF SessionInv, SessionTypeOK
      <2>3. slips' \in 0..MaxSlips /\ slips' >= slips
            BY <1>00, <1>4 DEF Verify, VerifyFails, Slip, SessionInv, SessionTypeOK
      <2>4. CASE UNCHANGED <<links, cookie, moved>>
            <3>1. /\ cookie \in Anyone /\ cookie' = cookie /\ moved' = moved \cup {}
                  /\ links' \in [Users -> 0..MaxLinks]
                  BY <2>4 DEF SessionInv, SessionTypeOK
            <3>2. QED BY <1>0, <1>4, <2>2, <2>3, <3>1, CookieInv DEF Verify, VerifyFails
      <2>5. CASE /\ links[opened[b]] > 0
                 /\ links' = [links EXCEPT ![opened[b]] = @ - 1]
                 /\ cookie' = opened[b]
                 /\ moved' = moved \cup (IF cookie = opened[b] THEN {} ELSE Browsers)
            <3>1. opened[b] \in Anyone
                  BY DEF SessionInv, SessionTypeOK
            <3> DEFINE u == opened[b]
            <3>2. links' \in [Users -> 0..MaxLinks]
                  <4>1. ASSUME NEW v \in Users, v # u PROVE links'[v] = links[v]
                        BY <2>5, <4>1 DEF SessionInv, SessionTypeOK
                  <4>2. ASSUME u \in Users PROVE links'[u] = links[u] - 1
                        BY <2>5, <4>2 DEF SessionInv, SessionTypeOK
                  <4>3. links' = [v \in Users |-> links'[v]]
                        BY <2>5 DEF SessionInv, SessionTypeOK
                  <4>4. ASSUME NEW v \in Users PROVE links'[v] \in 0..MaxLinks
                        BY <2>5, <4>1, <4>2, WebSessionAssumption
                        DEF SessionInv, SessionTypeOK
                  <4>5. QED BY <4>3, <4>4
            <3>3. QED BY <1>0, <1>4, <2>2, <2>3, <2>5, <3>1, <3>2, CookieInv
                      DEF Verify, VerifyFails
      <2>6. QED BY <1>4, <2>4, <2>5 DEF Verify, VerifyFails
<1>5. CASE Status(b)
      <2>1. PICK p \in {"app", "onboarding"} : Loads(b, p)
            BY <1>5 DEF Status
      <2>2. p \in SitePages
            BY DEF SitePages
      <2>3. QED BY <1>5, <2>1, <2>2, LoadsInv DEF Status, SessionInv, SessionTypeOK
<1>6. CASE StatusFails(b)
      <2>1. told' \in [Browsers -> {"verifying", "waiting", "almost", "failed"}]
            BY <1>6 DEF StatusFails, SessionInv, SessionTypeOK
      <2>2. slips' \in 0..MaxSlips /\ slips' >= slips
            BY <1>00, <1>6 DEF StatusFails, Slip, SessionInv, SessionTypeOK
      <2>3. /\ cookie \in Anyone /\ cookie' = cookie /\ moved' = moved \cup {}
            /\ links' \in [Users -> 0..MaxLinks]
            BY <1>6 DEF StatusFails, SessionInv, SessionTypeOK
      <2>4. QED BY <1>0, <1>6, <2>1, <2>2, <2>3, CookieInv DEF StatusFails
<1>7. CASE Completed(b)
      <2> USE DEF SessionInv, wizardKeeps
      <2>1. SessionTypeOK'
            BY <1>7 DEF Completed, SessionTypeOK
      <2>2. ShownUserIsTheirs' /\ StrangersInv'
            BY <1>7 DEF Completed, ShownUserIsTheirs, StrangersInv
      <2>3. WizardInv' /\ ConfirmsTheAnswers'
            BY <1>7 DEF Completed, WizardInv, Asking, ConfirmsTheAnswers, SessionTypeOK
      <2>4. QED BY <2>1, <2>2, <2>3
<1>8. CASE Confirmed(b)
      <2> USE DEF SessionInv
      <2>1. SessionTypeOK'
            BY <1>8 DEF Confirmed, SessionTypeOK, SitePages, Anyone
      <2>2. user[b] # "nobody"
            BY <1>8 DEF Confirmed, WizardInv, Asking
      <2>3. ShownUserIsTheirs' /\ StrangersInv'
            BY <1>8, <2>2 DEF Confirmed, ShownUserIsTheirs, StrangersInv, SessionTypeOK
      <2>4. WizardInv' /\ ConfirmsTheAnswers'
            BY <1>8 DEF Confirmed, WizardInv, Asking, ConfirmsTheAnswers, SessionTypeOK
      <2>5. QED BY <2>1, <2>3, <2>4
<1>9. CASE QuestionFails(b)
      <2> USE DEF SessionInv, wizardKeeps
      <2>1. SessionTypeOK'
            BY <1>00, <1>9 DEF QuestionFails, Slip, SessionTypeOK, Anyone
      <2>2. slips' >= slips /\ slips \in Nat /\ slips' \in Nat
            BY <1>00, <1>9 DEF QuestionFails, Slip, SessionTypeOK
      <2>3. ShownUserIsTheirs' /\ StrangersInv'
            BY <1>9, <2>2 DEF QuestionFails, ShownUserIsTheirs, StrangersInv
      <2>4. WizardInv' /\ ConfirmsTheAnswers'
            BY <1>9 DEF QuestionFails, WizardInv, Asking, ConfirmsTheAnswers, SessionTypeOK
      <2>5. QED BY <2>1, <2>3, <2>4
<1>10. QED BY <1>1, <1>2, <1>3, <1>4, <1>5, <1>6, <1>7, <1>8, <1>9

\* So does every step of the browser, and one that stutters.
LEMMA SessionSteps == SessionInv /\ [SessionNext]_webSessionVars => SessionInv'
<1> SUFFICES ASSUME SessionInv, [SessionNext]_webSessionVars PROVE SessionInv'
    OBVIOUS
<1>1. CASE SessionUser
      BY <1>1, SessionUserInv DEF SessionUser
<1>2. CASE Expire
      <2>1. /\ "nobody" \in Anyone /\ cookie' = "nobody"
            /\ moved' = moved \cup (IF cookie = "nobody" THEN {} ELSE Browsers)
            /\ links' \in [Users -> 0..MaxLinks]
            /\ told' \in [Browsers -> {"verifying", "waiting", "almost", "failed"}]
            BY <1>2 DEF Expire, Anyone, SessionInv, SessionTypeOK
      <2>2. slips' \in 0..MaxSlips /\ slips' >= slips
            BY <1>2, WebSessionAssumption DEF Expire, Slip, SessionInv, SessionTypeOK
      <2>3. QED BY <1>2, <2>1, <2>2, CookieInv DEF Expire
<1>3. CASE \E b \in Browsers :
             \/ WhoAmI(b) \/ WhoAmIFails(b) \/ Redirect(b) \/ Verify(b) \/ VerifyFails(b)
             \/ Status(b) \/ StatusFails(b)
             \/ Completed(b) \/ Confirmed(b) \/ QuestionFails(b)
      BY <1>3, SessionNetInv
<1>4. CASE UNCHANGED webSessionVars
      BY <1>4 DEF webSessionVars, SessionInv, SessionTypeOK, ShownUserIsTheirs,
                  StrangersInv, WizardInv, Asking, ConfirmsTheAnswers
<1>5. QED BY <1>1, <1>2, <1>3, <1>4 DEF SessionNext, SessionNet

\* A tab that sends somebody away has no session to know of.
LEMMA SentAway == SessionInv => SentAwayOnlySignedOut
  BY DEF SessionInv, StrangersInv, SentAwayOnlySignedOut, Redirect
-----------------------------------------------------------------------------
(* The pages side by side.                                                 *)

\* A tab shows the pages of the user the server knows, sends nobody with a
\* session away, and confirms the answers on the screen: AuthProvider, the
\* layouts, the verify page and the wizard.
THEOREM SpeaksForTheUser == Spec => TabsSpeakForTheirUser
<1>1. Init => SessionInv
      BY SessionStarts DEF Init
<1>2. [Next]_webVars => [SessionNext]_webSessionVars
      BY DEF Next, webVars, ScreensMove, WritesMove, ChatMoves, SessionMoves,
             TodayMoves, FeedMoves
<1>3. SessionInv /\ [Next]_webVars => SessionInv'
      BY <1>2, SessionSteps
<1>4. SessionInv => ShownUserIsTheirs /\ ConfirmsTheAnswers /\ SentAwayOnlySignedOut
      BY SentAway DEF SessionInv
<1>5. QED BY <1>1, <1>3, <1>4, PTL DEF Spec, TabsSpeakForTheirUser
-----------------------------------------------------------------------------
(* The chat.                                                               *)

\* How often the page of a tab was mounted before the one it has, or had last.
Age(b) == IF Here(b) THEN mount[b] ELSE -1 - mount[b]

\* The questions of messages.
TurnsOf(ms) == {ms[k].turn : k \in DOMAIN ms}

\* A turn, and the turns that heard of their conversation.
ChatTurn == [tab: Tabs, mount: 0..MaxTrips, conv: {NoConv} \cup Convs, step: TurnSteps]
Named == {i \in DOMAIN turn : turn[i].step # "sent"}

\* The types, with no turn of a later mount, and no more conversations than
\* turns that heard of theirs.
TurnTypes ==
  /\ turn \in Seq(ChatTurn) /\ Len(turn) <= MaxTurns
  /\ known \in Nat /\ known <= Cardinality(Named)
  /\ \A i \in DOMAIN turn : turn[i].conv <= known /\ turn[i].mount <= Age(turn[i].tab)
  /\ crossed \subseteq DOMAIN turn
  /\ stream \in [Tabs -> Nat] /\ \A b \in Tabs : stream[b] \in {0} \cup DOMAIN turn

\* What the suggestions' timers hold is a conversation the server has made.
LateTypes ==
  /\ late \in [Tabs -> Seq({NoConv} \cup Convs)]
  /\ \A b \in Tabs : \A k \in DOMAIN late[b] : late[b][k] <= known

\* What the tabs hold, each page's mounts counted by the trips.
Composers == {"", "text", "suggestion"}
TabTypes ==
  /\ trips \in 0..MaxTrips
  /\ mount \in [Tabs -> Int]
  /\ \A b \in Tabs : -trips <= mount[b] /\ mount[b] <= trips
  /\ streaming \in [Tabs -> BOOLEAN] /\ LateTypes
  /\ composer \in [Tabs -> Composers]

\* What is shown and stored.
ShownTypes ==
  /\ shown \in [Tabs -> {NoConv} \cup Convs]
  /\ messages \in [Tabs -> Seq(Message)] /\ stored \in [Convs -> Seq(Message)]
  /\ shared \subseteq Convs

\* The list has the conversations something is stored of, and all that is shown
\* or in an address is known.
ListInv ==
  /\ listed \subseteq 1..known
  /\ sidebar \in [Tabs -> SUBSET listed]
  /\ address \in [Tabs -> {NoConv} \cup listed]
  /\ \A b \in Tabs : shown[b] <= known
  /\ \A c \in Convs : stored[c] # <<>> <=> c \in listed

\* The one running turn of a page is that whose controller it holds, and the last
\* message of the conversation shown, unless it crossed over.
TurnsInv ==
  \A i \in DOMAIN turn :
    Running(i) /\ Seen(i) =>
      LET b == turn[i].tab IN
      /\ stream[b] = i
      /\ \/ i \in crossed
         \/ messages[b] # <<>> /\ Last(messages[b]).turn = i /\ shown[b] = turn[i].conv

\* Answers, shown and stored, are their own or crossed over.
OwnAnswers(ms) ==
  \A k \in DOMAIN ms :
    ms[k].turn \in DOMAIN turn /\ ms[k].from \subseteq {ms[k].turn} \cup crossed
SourcesInv ==
  /\ \A b \in Tabs : OwnAnswers(messages[b])
  /\ \A c \in Convs : OwnAnswers(stored[c])

\* Unless an answer crossed over, what is shown and stored under a conversation
\* is that conversation's or of none, and a turn that may still get one is shown
\* by the page that asked it, and stored nowhere.
Unsent(i) == turn[i].step = "sent" /\ turn[i].conv = NoConv
PlacesInv ==
  crossed = {} =>
    /\ \A b \in Tabs : \A i \in TurnsOf(messages[b]) :
         /\ turn[i].conv \in {shown[b], NoConv}
         /\ Unsent(i) => turn[i].tab = b /\ Seen(i)
    /\ \A c \in Convs : \A i \in TurnsOf(stored[c]) :
         turn[i].conv \in {c, NoConv} /\ ~Unsent(i)

\* A conversation no two tabs have shown is shown by one, which has all that is
\* stored of it unless an answer crossed over.
CoverInv ==
  \A b \in Tabs : \A c \in Convs :
    shown[b] = c /\ c \notin shared =>
      /\ \A a \in Tabs \ {b} : shown[a] # c
      /\ crossed = {} => TurnsOf(stored[c]) \subseteq TurnsOf(messages[b])

ChatTypes == TurnTypes /\ TabTypes /\ ShownTypes /\ ListInv
ChatInv == ChatTypes /\ TurnsInv /\ SourcesInv /\ PlacesInv /\ CoverInv
-----------------------------------------------------------------------------
\* Messages of the same questions.
LEMMA SameTurns ==
  ASSUME NEW ms, NEW ns, DOMAIN ns = DOMAIN ms,
         \A k \in DOMAIN ms : ns[k].turn = ms[k].turn
  PROVE  TurnsOf(ns) = TurnsOf(ms)
<1>1. TurnsOf(ns) \subseteq TurnsOf(ms)
      BY DEF TurnsOf
<1>2. TurnsOf(ms) \subseteq TurnsOf(ns)
      BY DEF TurnsOf
<1>3. QED BY <1>1, <1>2

\* The timers as they were, and one more or one less of a tab's.
LEMMA LateStays ==
  ASSUME LateTypes, known \in Nat, known' \in Nat, known' >= known, late' = late
  PROVE  LateTypes'
<1>1. \A b \in Tabs : \A k \in DOMAIN late[b] : late[b][k] \in Int
      BY DEF LateTypes, NoConv, Convs
<1>2. QED BY <1>1 DEF LateTypes
LEMMA LateSame == LateTypes /\ UNCHANGED <<known, late>> => LateTypes'
BY DEF LateTypes
LEMMA LateChanges ==
  ASSUME LateTypes, known' = known, NEW b \in Tabs, NEW q \in Seq({NoConv} \cup Convs),
         \A k \in DOMAIN q : q[k] <= known,
         late' = [late EXCEPT ![b] = q]
  PROVE  LateTypes'
<1>1. \A a \in Tabs : late'[a] = (IF a = b THEN q ELSE late[a])
      BY DEF LateTypes
<1>2. late' \in [Tabs -> Seq({NoConv} \cup Convs)]
      BY DEF LateTypes
<1>3. \A a \in Tabs : \A k \in DOMAIN late'[a] : late'[a][k] <= known'
      BY <1>1 DEF LateTypes
<1>4. QED BY <1>2, <1>3 DEF LateTypes
LEMMA LateQueues ==
  ASSUME LateTypes, NEW b \in Tabs, NEW c \in {NoConv} \cup Convs, c <= known
  PROVE  /\ Append(late[b], c) \in Seq({NoConv} \cup Convs)
         /\ \A k \in DOMAIN Append(late[b], c) : Append(late[b], c)[k] <= known
         /\ late[b] # <<>> =>
              /\ Head(late[b]) \in {NoConv} \cup Convs /\ Head(late[b]) <= known
              /\ Tail(late[b]) \in Seq({NoConv} \cup Convs)
              /\ \A k \in DOMAIN Tail(late[b]) : Tail(late[b])[k] <= known
<1> DEFINE Names == {NoConv} \cup Convs
<1>1. PICK q : q = late[b]
      OBVIOUS
<1>2. q \in Seq(Names) /\ \A k \in DOMAIN q : q[k] <= known
      BY <1>1 DEF LateTypes
<1> HIDE DEF Names
<1>3. c \in Names
      BY DEF Names
<1>4. /\ Append(q, c) \in Seq(Names)
      /\ \A k \in DOMAIN Append(q, c) : Append(q, c)[k] <= known
      <2>1. /\ Append(q, c) \in Seq(Names) /\ Len(Append(q, c)) = Len(q) + 1
            /\ \A k \in 1..Len(q) : Append(q, c)[k] = q[k]
            /\ Append(q, c)[Len(q) + 1] = c
            BY <1>2, <1>3, AppendProperties
      <2>2. DOMAIN Append(q, c) = 1..(Len(q) + 1) /\ DOMAIN q = 1..Len(q) /\ Len(q) \in Nat
            BY <1>2, <2>1
      <2>3. QED BY <1>2, <2>1, <2>2
<1>5. q # <<>> =>
        /\ Head(q) \in Names /\ Head(q) <= known
        /\ Tail(q) \in Seq(Names) /\ \A k \in DOMAIN Tail(q) : Tail(q)[k] <= known
      <2> SUFFICES ASSUME q # <<>>
                   PROVE  /\ Head(q) \in Names /\ Head(q) <= known
                          /\ Tail(q) \in Seq(Names)
                          /\ \A k \in DOMAIN Tail(q) : Tail(q)[k] <= known
          OBVIOUS
      <2>1. /\ Head(q) \in Names /\ Tail(q) \in Seq(Names) /\ Len(Tail(q)) = Len(q) - 1
            /\ \A k \in 1..Len(Tail(q)) : Tail(q)[k] = q[k + 1]
            /\ Head(q) = q[1]
            BY <1>2, HeadTailProperties
      <2>2. Len(q) \in Nat \ {0} /\ DOMAIN q = 1..Len(q) /\ DOMAIN Tail(q) = 1..(Len(q) - 1)
            BY <1>2, <2>1
      <2>3. QED BY <1>2, <2>1, <2>2
<1>6. QED BY <1>1, <1>4, <1>5 DEF Names

\* The same messages, with e for the last; e, with the tokens of the turns i
\* for what m was; and what the messages are that i added to.
WithLast(ms, e) == Front(ms) \o <<e>>
Longer(m, e, i) == e \in Message /\ e.turn = m.turn /\ e.from = m.from \cup i
Adds(ms, ns, i) ==
  /\ ns \in Seq(Message) /\ Len(ns) = Len(ms)
  /\ \A k \in DOMAIN ms : /\ ns[k].turn = ms[k].turn
                          /\ k = Len(ms) => ns[k].from = ms[k].from \cup i
                          /\ k # Len(ms) => ns[k].from = ms[k].from

\* updateLastAssistant changes no question, and the answer of the last only.
LEMMA LastBecomesDoes ==
  ASSUME NEW ms \in Seq(Message), NEW i, NEW e, NEW ns,
         ms = <<>> => ns = ms, ms # <<>> => Longer(Last(ms), e, i) /\ ns = WithLast(ms, e)
  PROVE  Adds(ms, ns, i)
<1>1. CASE ms = <<>>
      BY <1>1 DEF Adds
<1>2. CASE ms # <<>>
      <2>1. Longer(ms[Len(ms)], e, i) /\ e \in Message /\ ns = WithLast(ms, e)
            BY <1>2 DEF Last, Longer
      <2>2. Len(ms) \in Nat /\ Len(ms) >= 1 /\ DOMAIN ms = 1..Len(ms)
            BY <1>2
      <2>3. PICK f : f = SubSeq(ms, 1, Len(ms) - 1)
            OBVIOUS
      <2>4. PICK g : g = <<e>>
            OBVIOUS
      <2>5. f \in Seq(Message) /\ Len(f) = Len(ms) - 1 /\ \A k \in 1..Len(ms) - 1 : f[k] = ms[k]
            <3>1. 1 \in Int /\ Len(ms) - 1 \in Int /\ \A k \in 1..Len(ms) - 1 : ms[k] \in Message
                  BY <2>2
            <3>2. /\ SubSeq(ms, 1, Len(ms) - 1) \in Seq(Message)
                  /\ Len(SubSeq(ms, 1, Len(ms) - 1)) =
                       IF 1 <= Len(ms) - 1 THEN Len(ms) - 1 - 1 + 1 ELSE 0
                  /\ \A k \in 1..Len(ms) - 1 - 1 + 1 :
                       SubSeq(ms, 1, Len(ms) - 1)[k] = ms[1 + k - 1]
                  BY <3>1, SubSeqProperties
            <3>3. \A k \in 1..Len(ms) - 1 : k \in 1..Len(ms) - 1 - 1 + 1 /\ 1 + k - 1 = k
                  BY <2>2
            <3>4. Len(f) = Len(ms) - 1
                  BY <2>2, <2>3, <3>2
            <3>5. QED BY <2>3, <3>2, <3>3, <3>4
      <2>6. g \in Seq(Message) /\ Len(g) = 1 /\ g[1] = e
            BY <2>1, <2>4
      <2>7. ns = f \o g
            BY <2>1, <2>3, <2>4 DEF Front, WithLast
      <2>8. /\ f \o g \in Seq(Message) /\ Len(f \o g) = Len(f) + Len(g)
            /\ \A k \in 1..Len(f) + Len(g) :
                 (f \o g)[k] = IF k <= Len(f) THEN f[k] ELSE g[k - Len(f)]
            BY <2>5, <2>6, ConcatProperties
      <2>9. Len(f) = Len(ms) - 1 /\ Len(f) + Len(g) = Len(ms)
            BY <2>2, <2>5, <2>6
      <2>10. ns \in Seq(Message) /\ Len(ns) = Len(ms)
            BY <2>7, <2>8, <2>9
      <2>11. ASSUME NEW k \in 1..Len(ms), k = Len(ms) PROVE ns[k] = e
            <3>1. ~(k <= Len(f)) /\ k - Len(f) = 1
                  BY <2>2, <2>9, <2>11
            <3>2. QED BY <2>6, <2>7, <2>8, <2>9, <2>11, <3>1
      <2>12. ASSUME NEW k \in 1..Len(ms), k # Len(ms) PROVE ns[k] = ms[k]
            <3>1. k <= Len(f) /\ k \in 1..Len(ms) - 1
                  <4>1. Len(f) = Len(ms) - 1 /\ Len(ms) \in Nat /\ Len(ms) >= 1
                        BY <2>2, <2>9
                  <4>2. QED BY <2>12, <4>1
            <3>2. QED BY <2>5, <2>7, <2>8, <2>9, <2>12, <3>1
      <2>13. \A k \in DOMAIN ms : /\ ns[k].turn = ms[k].turn
                                  /\ k = Len(ms) => ns[k].from = ms[k].from \cup i
                                  /\ k # Len(ms) => ns[k].from = ms[k].from
            BY <2>1, <2>2, <2>11, <2>12 DEF Longer
      <2>14. QED BY <2>10, <2>13 DEF Adds
<1>3. QED BY <1>1, <1>2

\* The stream before is aborted: none runs on that the tab holds.
LEMMA AbortDoes ==
  ASSUME TurnTypes, NEW b \in Tabs
  PROVE  LET ts == Abort(b, turn) IN
         /\ ts \in Seq(ChatTurn) /\ Len(ts) = Len(turn)
         /\ \A i \in DOMAIN turn :
              \/ ts[i] = turn[i] /\ (i = stream[b] => ~Running(i))
              \/ i = stream[b] /\ ts[i] = [turn[i] EXCEPT !.step = "aborted"]
<1> DEFINE s == stream[b]
           e == [turn[s] EXCEPT !.step = "aborted"]
<1>1. CASE Abort(b, turn) = turn /\ ~(s # 0 /\ turn[s].step \in {"sent", "open"})
      BY <1>1 DEF TurnTypes, Running
<1>2. CASE s # 0 /\ turn[s].step \in {"sent", "open"}
      <2>1. s \in 1..Len(turn) /\ turn[s] \in ChatTurn
            BY <1>2 DEF TurnTypes
      <2>2. e \in ChatTurn
            BY <2>1 DEF ChatTurn, TurnSteps
      <2>3. Abort(b, turn) = [turn EXCEPT ![s] = e]
            BY <1>2, <2>1 DEF Abort
      <2> HIDE DEF e
      <2>4. /\ [turn EXCEPT ![s] = e] \in Seq(ChatTurn)
            /\ Len([turn EXCEPT ![s] = e]) = Len(turn)
            /\ \A j \in 1..Len(turn) : [turn EXCEPT ![s] = e][j] = IF j = s THEN e ELSE turn[j]
            BY <2>1, <2>2, ExceptSeq DEF TurnTypes
      <2>5. \A i \in DOMAIN turn : (i # s => [turn EXCEPT ![s] = e][i] = turn[i]) /\ (i = s => [turn EXCEPT ![s] = e][i] = e)
            BY <2>4 DEF TurnTypes
      <2>6. QED BY <2>3, <2>4, <2>5 DEF e
<1>3. QED BY <1>1, <1>2 DEF Abort

\* A tab that shows messages which are its own, and all that is stored of their
\* conversation, leaves what is shown and stored as it should be.
LEMMA ShowsKeeps ==
  ASSUME ChatInv, NEW b \in Tabs, NEW c \in {NoConv} \cup Convs, NEW ms \in Seq(Message),
         Shows(b, c, ms), mount' = mount,
         known' \in Nat, known' >= known, c <= known',
         address' \in [Tabs -> {NoConv} \cup listed],
         DOMAIN turn \subseteq DOMAIN turn', crossed \subseteq crossed',
         \A k \in DOMAIN ms :
           ms[k].turn \in DOMAIN turn' /\ ms[k].from \subseteq {ms[k].turn} \cup crossed',
         c \in Convs /\ c \notin shared' /\ crossed = {} => TurnsOf(stored[c]) \subseteq TurnsOf(ms),
         crossed' = {} => \A i \in TurnsOf(ms) :
           /\ turn'[i].conv \in {c, NoConv}
           /\ Unsent(i)' => c = NoConv /\ turn'[i].tab = b /\ Seen(i)',
         crossed' = {} => \A i \in DOMAIN turn :
           /\ turn'[i].tab = turn[i].tab /\ turn'[i].mount = turn[i].mount
           /\ Unsent(i)' => Unsent(i)
           /\ turn'[i].conv = turn[i].conv \/ (Unsent(i) /\ turn[i].tab = b)
  PROVE  /\ ShownTypes' /\ ListInv' /\ SourcesInv' /\ PlacesInv' /\ CoverInv'
         /\ StoredIsKept
<1> USE DEF ChatInv, ChatTypes
<1>0. NoConv \notin Convs /\ Convs \subseteq Int /\ NoConv \in Int /\ known \in Int /\ known' \in Int
      BY ChatClientAssumption DEF NoConv, Convs, TurnTypes
<1>1. /\ shown' = [shown EXCEPT ![b] = c] /\ messages' = [messages EXCEPT ![b] = ms]
      /\ shared' = shared \cup {d \in Convs : d = c /\ \E a \in Tabs \ {b} : shown[a] = c}
      BY DEF Shows
<1>2. /\ \A a \in Tabs : shown'[a] = (IF a = b THEN c ELSE shown[a])
      /\ \A a \in Tabs : messages'[a] = (IF a = b THEN ms ELSE messages[a])
      BY <1>1 DEF ShownTypes
<1>3. /\ stored' \in [Convs -> Seq(Message)]
      /\ \A d \in Convs : stored'[d] = IF d = c /\ ms # <<>> THEN ms ELSE stored[d]
      BY <1>0 DEF Shows, ShownTypes
<1>4. ShownTypes'
      BY <1>1, <1>3 DEF ShownTypes
<1>5. ListInv'
      <2>1. listed' = listed \/ (c # NoConv /\ listed' = listed \cup {c})
            BY DEF Shows
      <2>2. listed \subseteq listed' /\ listed' \subseteq 1..known'
            <3>1. listed \subseteq 1..known /\ 1..known \subseteq 1..known'
                  BY <1>0 DEF ListInv
            <3>2. c # NoConv => c \in 1..known'
                  BY <1>0, ChatClientAssumption DEF Convs
            <3>3. QED BY <2>1, <3>1, <3>2
      <2>3. sidebar' \in [Tabs -> SUBSET listed']
            BY <2>2 DEF Shows, ListInv
      <2>4. \A a \in Tabs : shown'[a] <= known'
            <3>1. \A a \in Tabs : shown[a] \in Int /\ shown[a] <= known
                  BY <1>0 DEF ListInv, ShownTypes
            <3>2. QED BY <1>0, <1>2, <3>1
      <2>5. \A d \in Convs : stored'[d] # <<>> <=> d \in listed'
            BY <1>3, <2>2 DEF ListInv, Shows, NoConv, Convs
      <2>6. QED BY <2>2, <2>3, <2>4, <2>5 DEF ListInv
<1>6. SourcesInv'
      BY <1>2, <1>3 DEF SourcesInv, OwnAnswers
<1>7. /\ \A a \in Tabs : TurnsOf(messages[a]) \subseteq DOMAIN turn
      /\ \A d \in Convs : TurnsOf(stored[d]) \subseteq DOMAIN turn
      BY DEF SourcesInv, OwnAnswers, TurnsOf
<1>8. PlacesInv'
      <2> SUFFICES ASSUME crossed' = {} PROVE PlacesInv!2'
          BY DEF PlacesInv
      <2>1. crossed = {}
            OBVIOUS
      <2>2. ASSUME NEW a \in Tabs, NEW i \in TurnsOf(messages'[a])
            PROVE  /\ turn'[i].conv \in {shown'[a], NoConv}
                   /\ Unsent(i)' => turn'[i].tab = a /\ Seen(i)'
            <3>1. CASE a = b
                  BY <1>2, <2>2, <3>1
            <3>2. CASE a # b
                  BY <1>2, <1>7, <2>1, <2>2, <3>2 DEF PlacesInv, Seen
            <3>3. QED BY <3>1, <3>2
      <2>3. ASSUME NEW d \in Convs, NEW i \in TurnsOf(stored'[d])
            PROVE  turn'[i].conv \in {d, NoConv} /\ ~Unsent(i)'
            <3>1. CASE d = c /\ ms # <<>>
                  BY <1>3, <2>3, <3>1 DEF NoConv, Convs
            <3>2. CASE ~(d = c /\ ms # <<>>)
                  BY <1>3, <1>7, <2>1, <2>3, <3>2 DEF PlacesInv
            <3>3. QED BY <3>1, <3>2
      <2>4. QED BY <2>2, <2>3
<1>9. c \in Convs => (c \in shared' \/ \A a \in Tabs \ {b} : shown[a] # c)
      BY <1>1
<1>10. CoverInv'
      <2> SUFFICES ASSUME NEW a \in Tabs, NEW d \in Convs, shown'[a] = d, d \notin shared'
                   PROVE  /\ \A o \in Tabs \ {a} : shown'[o] # d
                          /\ crossed' = {} => TurnsOf(stored'[d]) \subseteq TurnsOf(messages'[a])
          BY DEF CoverInv
      <2>1. d \notin shared
            BY <1>1
      <2>2. CASE a = b
            <3>1. d = c /\ messages'[a] = ms
                  BY <1>2, <2>2
            <3>2. CASE ms = <<>>
                  BY <1>2, <1>3, <1>9, <2>2, <3>1, <3>2
            <3>3. CASE ms # <<>>
                  BY <1>2, <1>3, <1>9, <2>2, <3>1, <3>3
            <3>4. QED BY <3>2, <3>3
      <2>3. CASE a # b
            <3>1. d # c /\ shown[a] = d /\ messages'[a] = messages[a] /\ stored'[d] = stored[d]
                  BY <1>2, <1>3, <1>9, <2>3
            <3>2. QED BY <1>2, <2>1, <2>3, <3>1 DEF CoverInv
      <2>4. QED BY <2>2, <2>3
<1>11. StoredIsKept
      <2> SUFFICES ASSUME NEW d \in Convs, NEW k \in DOMAIN stored[d], d \notin shared', crossed = {}
                   PROVE  \E j \in DOMAIN stored'[d] : stored'[d][j].turn = stored[d][k].turn
          BY DEF StoredIsKept
      <2>1. CASE d = c /\ ms # <<>>
            <3>1. stored[d][k].turn \in TurnsOf(stored[c])
                  BY <2>1 DEF TurnsOf
            <3>2. stored[d][k].turn \in TurnsOf(ms) /\ stored'[d] = ms
                  BY <1>3, <2>1, <3>1
            <3>3. QED BY <3>2 DEF TurnsOf
      <2>2. CASE ~(d = c /\ ms # <<>>)
            BY <1>3, <2>2
      <2>3. QED BY <2>1, <2>2
<1>12. QED BY <1>4, <1>5, <1>6, <1>8, <1>10, <1>11

\* What is shown and stored stays as it is.
LEMMA QuietKeeps ==
  ASSUME ChatInv, UNCHANGED <<shown, messages, stored, listed, sidebar, shared, mount, address>>,
         crossed' = crossed, known' \in Nat, known' >= known, DOMAIN turn' = DOMAIN turn,
         \A i \in DOMAIN turn :
           /\ turn'[i].tab = turn[i].tab /\ turn'[i].mount = turn[i].mount
           /\ Unsent(i)' => Unsent(i)
           /\ turn'[i].conv = turn[i].conv \/ (Unsent(i) /\ ~Seen(i))
  PROVE  /\ ShownTypes' /\ ListInv' /\ SourcesInv' /\ PlacesInv' /\ CoverInv'
         /\ StoredIsKept
<1> USE DEF ChatInv, ChatTypes
<1>1. ShownTypes'
      BY DEF ShownTypes
<1>2. ListInv'
      <2>1. known \in Int /\ known' \in Int /\ Convs \subseteq Int /\ NoConv \in Int
            BY DEF TurnTypes, Convs, NoConv
      <2>2. listed \subseteq 1..known /\ 1..known \subseteq 1..known'
            BY <2>1 DEF ListInv
      <2>3. \A a \in Tabs : shown[a] \in Int /\ shown[a] <= known
            BY <2>1 DEF ListInv, ShownTypes
      <2>4. QED BY <2>1, <2>2, <2>3 DEF ListInv
<1>3. SourcesInv'
      BY DEF SourcesInv, OwnAnswers
<1>4. /\ \A a \in Tabs : TurnsOf(messages[a]) \subseteq DOMAIN turn
      /\ \A d \in Convs : TurnsOf(stored[d]) \subseteq DOMAIN turn
      BY DEF SourcesInv, OwnAnswers, TurnsOf
<1>5. PlacesInv'
      BY <1>4 DEF PlacesInv, Seen
<1>6. CoverInv'
      BY DEF CoverInv
<1>7. StoredIsKept
      BY DEF StoredIsKept
<1>8. QED BY <1>1, <1>2, <1>3, <1>5, <1>6, <1>7
-----------------------------------------------------------------------------
\* Turns that hear of their conversation are counted.
LEMMA NamedGrows ==
  ASSUME TurnTypes, turn' \in Seq(ChatTurn), Len(turn') >= Len(turn),
         \A i \in DOMAIN turn : turn[i].step # "sent" => turn'[i].step # "sent"
  PROVE  /\ Cardinality(Named) \in Nat /\ Cardinality(Named') \in Nat
         /\ Cardinality(Named) <= Cardinality(Named')
         /\ Cardinality(Named') <= Len(turn')
         /\ \A i \in Named' \ Named : Cardinality(Named) + 1 <= Cardinality(Named')
<1>1. /\ DOMAIN turn = 1..Len(turn) /\ DOMAIN turn' = 1..Len(turn')
      /\ Len(turn) \in Nat /\ Len(turn') \in Nat
      BY DEF TurnTypes
<1>2. IsFiniteSet(1..Len(turn')) /\ Cardinality(1..Len(turn')) = Len(turn')
      <2>1. 1 \in Int /\ Len(turn') \in Int
            BY <1>1
      <2>2. /\ IsFiniteSet(1..Len(turn'))
            /\ Cardinality(1..Len(turn')) = IF 1 > Len(turn') THEN 0 ELSE Len(turn') - 1 + 1
            BY <2>1, FS_Interval
      <2>3. QED BY <1>1, <2>2
<1>3. Named \subseteq Named' /\ Named' \subseteq 1..Len(turn')
      BY <1>1 DEF Named
<1>4. IsFiniteSet(Named') /\ Cardinality(Named') <= Len(turn')
      BY <1>2, <1>3, FS_Subset
<1>5. IsFiniteSet(Named) /\ Cardinality(Named) <= Cardinality(Named')
      BY <1>3, <1>4, FS_Subset
<1>6. Cardinality(Named) \in Nat /\ Cardinality(Named') \in Nat
      BY <1>4, <1>5, FS_CardinalityType
<1>7. ASSUME NEW i \in Named' \ Named PROVE Cardinality(Named) + 1 <= Cardinality(Named')
      <2>1. Cardinality(Named \cup {i}) = Cardinality(Named) + 1
            BY <1>5, <1>7, FS_AddElement
      <2>2. Cardinality(Named \cup {i}) <= Cardinality(Named')
            BY <1>3, <1>4, <1>7, FS_Subset
      <2>3. QED BY <2>1, <2>2
<1>8. QED BY <1>4, <1>5, <1>6, <1>7

\* No page has been left more often than users went away.
LEMMA MountDoes ==
  ASSUME TabTypes, NEW b \in Tabs
  PROVE  /\ mount[b] \in Int /\ Age(b) \in 0..MaxTrips
         /\ Here(b) => mount[b] \in 0..MaxTrips /\ Age(b) = mount[b]
         /\ ~Here(b) => mount[b] = -1 - Age(b) /\ Age(b) < trips
<1>1. /\ MaxTrips \in Nat /\ trips \in Int /\ trips >= 0 /\ trips <= MaxTrips
      <2>1. trips \in 0..MaxTrips
            BY Zenon DEF TabTypes
      <2>2. QED BY <2>1, ChatClientAssumption
<1>2. mount[b] \in Int /\ -trips <= mount[b] /\ mount[b] <= trips
      BY DEF TabTypes
<1>3. QED BY <1>1, <1>2 DEF Age, Here

\* A question goes out: the turn before it in the tab is aborted, and the new
\* one is of the conversation that is shown, or crosses over.
LEMMA SendKeeps ==
  ASSUME ChatInv, NEW b \in Tabs, Here(b), NEW to \in {NoConv} \cup Convs, to <= known,
         SendMessage(b, to), LateTypes',
         crossed' = IF to = shown[b] THEN crossed ELSE crossed \cup {Len(turn) + 1},
         UNCHANGED <<known, address, mount, trips>>
  PROVE  ChatInv' /\ StoredIsKept
<1> USE DEF ChatInv, ChatTypes
<1> DEFINE i == Len(turn) + 1
           ts == Abort(b, turn)
           n == [tab |-> b, mount |-> mount[b], conv |-> to, step |-> "sent"]
           m == [turn |-> i, from |-> {}, cursor |-> TRUE]
           ms == Append(messages[b], m)
<1> HIDE DEF n, m, ts, ms
<1>0. crossed \subseteq crossed' /\ crossed' \subseteq crossed \cup {i}
      OBVIOUS
<1>1. /\ turn \in Seq(ChatTurn) /\ Len(turn) \in Nat /\ i \in 1..MaxTurns
      /\ DOMAIN turn = 1..Len(turn)
      <2>1. /\ turn \in Seq(ChatTurn) /\ Len(turn) \in Nat /\ DOMAIN turn = 1..Len(turn)
            BY DEF TurnTypes
      <2>2. i <= MaxTurns
            BY DEF SendMessage
      <2>3. QED BY <2>1, <2>2, ChatClientAssumption
<1>2. /\ ts \in Seq(ChatTurn) /\ Len(ts) = Len(turn)
      /\ \A j \in DOMAIN turn :
           \/ ts[j] = turn[j] /\ (j = stream[b] => ~Running(j))
           \/ j = stream[b] /\ ts[j] = [turn[j] EXCEPT !.step = "aborted"]
      BY AbortDoes DEF ts
<1>3. n \in ChatTurn
      <2>1. mount[b] \in 0..MaxTrips
            BY MountDoes
      <2>2. QED BY <2>1 DEF n, ChatTurn, ShownTypes, TurnSteps
<1>4. m \in Message
      BY <1>1 DEF m, Message
<1>5. turn' = Append(ts, n)
      BY DEF SendMessage, n, ts
<1>6. /\ turn' \in Seq(ChatTurn) /\ Len(turn') = i /\ turn'[i] = n
      /\ \A j \in DOMAIN turn : turn'[j] = ts[j]
      BY <1>1, <1>2, <1>3, <1>5, AppendProperties
<1>7. DOMAIN turn' = DOMAIN turn \cup {i} /\ i \notin DOMAIN turn
      BY <1>1, <1>6
<1>8. \A j \in DOMAIN turn :
        /\ turn'[j].tab = turn[j].tab /\ turn'[j].mount = turn[j].mount
        /\ turn'[j].conv = turn[j].conv
        /\ Running(j)' => turn'[j] = turn[j] /\ j # stream[b]
        /\ turn[j].step # "sent" => turn'[j].step # "sent"
      <2> SUFFICES ASSUME NEW j \in DOMAIN turn
                   PROVE  /\ turn'[j].tab = turn[j].tab /\ turn'[j].mount = turn[j].mount
                          /\ turn'[j].conv = turn[j].conv
                          /\ Running(j)' => turn'[j] = turn[j] /\ j # stream[b]
                          /\ turn[j].step # "sent" => turn'[j].step # "sent"
          OBVIOUS
      <2>1. turn[j] \in ChatTurn
            BY <1>1
      <2>2. CASE turn'[j] = turn[j] /\ (j = stream[b] => ~Running(j))
            BY <2>2 DEF Running
      <2>3. CASE turn'[j] = [turn[j] EXCEPT !.step = "aborted"]
            BY <2>1, <2>3 DEF ChatTurn, Running
      <2>4. QED BY <1>2, <1>6, <2>2, <2>3
<1>9. messages[b] \in Seq(Message)
      BY DEF ShownTypes
<1>10. /\ ms \in Seq(Message) /\ ms # <<>> /\ Len(ms) = Len(messages[b]) + 1
       /\ \A k \in 1..Len(messages[b]) : ms[k] = messages[b][k]
       /\ ms[Len(messages[b]) + 1] = m
      BY <1>4, <1>9, AppendProperties DEF ms
<1>11. /\ DOMAIN ms = DOMAIN messages[b] \cup {Len(ms)} /\ Last(ms) = m
       /\ \A k \in DOMAIN messages[b] : ms[k] = messages[b][k]
      <2>1. /\ DOMAIN messages[b] = 1..Len(messages[b]) /\ Len(messages[b]) \in Nat
            /\ DOMAIN ms = 1..Len(ms)
            BY <1>9, <1>10
      <2>2. QED BY <1>10, <2>1 DEF Last
<1>12. Shows(b, shown[b], ms)
      BY DEF SendMessage, m, ms
<1>13. TurnTypes'
      <2>1. /\ Cardinality(Named) \in Nat /\ Cardinality(Named') \in Nat
            /\ Cardinality(Named) <= Cardinality(Named')
            BY <1>1, <1>6, <1>8, NamedGrows
      <2>2. known' \in Nat /\ known' <= Cardinality(Named')
            BY <2>1 DEF TurnTypes
      <2>3. \A j \in DOMAIN turn' : turn'[j].conv <= known' /\ turn'[j].mount <= Age(turn[j].tab)'
            <3>1. \A a \in Tabs : Age(a)' = Age(a)
                  BY DEF Age, Here
            <3>2. \A j \in DOMAIN turn : turn[j] \in ChatTurn
                  BY <1>1
            <3>3. \A j \in DOMAIN turn : turn[j].tab \in Tabs
                  BY <3>2 DEF ChatTurn
            <3>4. n.conv <= known /\ n.mount <= Age(b) /\ n.tab = b
                  BY MountDoes DEF n
            <3>5. TAKE j \in DOMAIN turn'
            <3>6. CASE j = i
                  BY <1>6, <3>1, <3>4, <3>6
            <3>7. CASE j \in DOMAIN turn
                  BY <1>8, <3>1, <3>3, <3>7 DEF TurnTypes
            <3>8. QED BY <1>7, <3>6, <3>7
      <2>4. stream' = [stream EXCEPT ![b] = i]
            BY DEF SendMessage
      <2>5. stream' \in [Tabs -> Nat] /\ \A a \in Tabs : stream'[a] \in {0} \cup DOMAIN turn'
            <3>1. i \in Nat /\ i \in DOMAIN turn'
                  BY <1>1, <1>7
            <3>2. QED BY <1>7, <2>4, <3>1 DEF TurnTypes
      <2>6. crossed' \subseteq DOMAIN turn'
            BY <1>0, <1>7 DEF TurnTypes
      <2>7. QED BY <1>1, <1>6, <1>7, <2>2, <2>3, <2>5, <2>6 DEF TurnTypes
<1>14. TabTypes'
      <2>1. composer' = [composer EXCEPT ![b] = ""] /\ "" \in Composers
            BY DEF SendMessage, Composers
      <2>2. composer' \in [Tabs -> Composers]
            BY <2>1 DEF TabTypes
      <2>3. QED BY <2>2 DEF TabTypes, SendMessage
<1>15. TurnsInv'
      <2> SUFFICES ASSUME NEW j \in DOMAIN turn', Running(j)', Seen(j)'
                   PROVE  /\ stream'[turn'[j].tab] = j
                          /\ \/ j \in crossed'
                             \/ /\ messages'[turn'[j].tab] # <<>>
                                /\ Last(messages'[turn'[j].tab]).turn = j
                                /\ shown'[turn'[j].tab] = turn'[j].conv
          BY DEF TurnsInv
      <2>1. /\ stream' = [stream EXCEPT ![b] = i]
            /\ messages' = [messages EXCEPT ![b] = ms] /\ shown' = [shown EXCEPT ![b] = shown[b]]
            BY <1>12 DEF SendMessage, Shows
      <2>2. CASE j = i
            <3>1. CASE to = shown[b]
                  BY <1>6, <1>10, <1>11, <2>1, <2>2, <3>1 DEF n, m, TurnTypes, ShownTypes
            <3>2. CASE to # shown[b]
                  BY <1>6, <2>1, <2>2, <3>2 DEF n, TurnTypes
            <3>3. QED BY <3>1, <3>2
      <2>3. CASE j \in DOMAIN turn
            <3>1. turn'[j] = turn[j] /\ j # stream[b] /\ Running(j) /\ Seen(j) /\ turn[j].tab \in Tabs
                  <4>1. turn[j] \in ChatTurn
                        BY <1>1, <2>3
                  <4>2. QED BY <1>8, <2>3, <4>1 DEF Running, Seen, ChatTurn
            <3>2. turn[j].tab # b
                  BY <2>3, <3>1 DEF TurnsInv
            <3>3. QED BY <1>0, <2>1, <2>3, <3>1, <3>2 DEF TurnsInv, TurnTypes, ShownTypes
      <2>4. QED BY <1>7, <2>2, <2>3
<1>16. ASSUME NEW k \in DOMAIN ms
       PROVE  ms[k].turn \in DOMAIN turn' /\ ms[k].from \subseteq {ms[k].turn} \cup crossed'
      <2>1. CASE k = Len(ms)
            <3>1. ms[k] = m
                  BY <1>11, <2>1 DEF Last
            <3>2. QED BY <1>7, <3>1 DEF m
      <2>2. CASE k # Len(ms)
            BY <1>0, <1>7, <1>11, <1>16, <2>2 DEF SourcesInv, OwnAnswers
      <2>3. QED BY <2>1, <2>2
<1>17. TurnsOf(ms) = TurnsOf(messages[b]) \cup {i}
      <2>1. ms[Len(ms)] = m /\ m.turn = i
            BY <1>11 DEF Last, m
      <2>2. QED BY <1>11, <2>1 DEF TurnsOf
<1>18. shown[b] \in Convs /\ shown[b] \notin shared' /\ crossed = {} =>
         TurnsOf(stored[shown[b]]) \subseteq TurnsOf(ms)
      BY <1>12, <1>17 DEF CoverInv, Shows
<1>19. ASSUME crossed' = {}, NEW j \in TurnsOf(ms)
       PROVE  /\ turn'[j].conv \in {shown[b], NoConv}
              /\ Unsent(j)' => shown[b] = NoConv /\ turn'[j].tab = b /\ Seen(j)'
      <2>0. to = shown[b] /\ crossed = {}
            BY <1>0, <1>19
      <2>1. CASE j = i
            BY <1>6, <2>0, <2>1 DEF n, Unsent, Seen
      <2>2. CASE j \in TurnsOf(messages[b])
            <3>1. j \in DOMAIN turn
                  BY <2>2 DEF SourcesInv, OwnAnswers, TurnsOf
            <3>2. turn[j].conv \in {shown[b], NoConv} /\ (Unsent(j) => turn[j].tab = b /\ Seen(j))
                  BY <2>0, <2>2 DEF PlacesInv
            <3>3. ~Unsent(j)'
                  <4>1. SUFFICES ASSUME Unsent(j)' PROVE FALSE
                        OBVIOUS
                  <4>2. turn'[j] = turn[j] /\ j # stream[b] /\ Unsent(j) /\ Running(j)
                        BY <1>8, <3>1, <4>1 DEF Unsent, Running
                  <4>3. QED BY <3>1, <3>2, <4>2 DEF TurnsInv
            <3>4. QED BY <1>8, <3>1, <3>2, <3>3
      <2>3. QED BY <1>17, <1>19, <2>1, <2>2
<1>20. \A j \in DOMAIN turn : Unsent(j)' => Unsent(j)
      BY <1>8 DEF Unsent, Running
<1>21. /\ shown[b] \in {NoConv} \cup Convs /\ shown[b] <= known
       /\ known' \in Nat /\ known' >= known /\ known' = known
       /\ address' \in [Tabs -> {NoConv} \cup listed]
      BY DEF ShownTypes, ListInv, TurnTypes
<1>22. /\ ShownTypes' /\ ListInv' /\ SourcesInv' /\ PlacesInv' /\ CoverInv'
       /\ StoredIsKept
      <2>1. /\ ms \in Seq(Message) /\ DOMAIN turn \subseteq DOMAIN turn'
            /\ mount' = mount /\ crossed \subseteq crossed'
            BY <1>0, <1>7, <1>10
      <2>2. \A j \in DOMAIN turn :
              /\ turn'[j].tab = turn[j].tab /\ turn'[j].mount = turn[j].mount
              /\ Unsent(j)' => Unsent(j)
              /\ turn'[j].conv = turn[j].conv \/ (Unsent(j) /\ turn[j].tab = b)
            BY <1>8, <1>20
      <2>3. crossed' = {} => \A j \in TurnsOf(ms) :
              /\ turn'[j].conv \in {shown[b], NoConv}
              /\ Unsent(j)' => shown[b] = NoConv /\ turn'[j].tab = b /\ Seen(j)'
            BY <1>19
      <2>4. crossed' = {} => \A j \in DOMAIN turn :
              /\ turn'[j].tab = turn[j].tab /\ turn'[j].mount = turn[j].mount
              /\ Unsent(j)' => Unsent(j)
              /\ turn'[j].conv = turn[j].conv \/ (Unsent(j) /\ turn[j].tab = b)
            BY <2>2
      <2>5. QED BY <1>12, <1>16, <1>18, <1>21, <2>1, <2>3, <2>4, ShowsKeeps
<1>23. QED BY <1>13, <1>14, <1>15, <1>22

\* No turn comes, and those there are stay where they were asked.
LEMMA TurnsStay ==
  ASSUME TurnTypes, turn' \in Seq(ChatTurn), Len(turn') = Len(turn),
         \A j \in DOMAIN turn :
           /\ turn'[j].tab = turn[j].tab /\ turn'[j].mount = turn[j].mount
           /\ turn'[j].conv = turn[j].conv \/ turn'[j].conv <= known'
           /\ turn[j].step # "sent" => turn'[j].step # "sent",
         known' = known \/ (known' = known + 1 /\ Named' \ Named # {}),
         \A a \in Tabs : Age(a) \in Int /\ Age(a)' \in Int /\ Age(a)' >= Age(a),
         crossed' \subseteq DOMAIN turn,
         stream' \in [Tabs -> Nat], \A a \in Tabs : stream'[a] \in {0} \cup DOMAIN turn
  PROVE  /\ TurnTypes' /\ DOMAIN turn' = DOMAIN turn
         /\ known' \in Nat /\ known' >= known /\ known' <= MaxTurns
<1>1. /\ DOMAIN turn' = DOMAIN turn /\ Len(turn) \in Nat /\ Len(turn') >= Len(turn)
      /\ turn \in Seq(ChatTurn) /\ known \in Nat
      BY DEF TurnTypes
<1>2. /\ Cardinality(Named) \in Nat /\ Cardinality(Named') \in Nat
      /\ Cardinality(Named) <= Cardinality(Named')
      /\ Cardinality(Named') <= Len(turn')
      /\ \A i \in Named' \ Named : Cardinality(Named) + 1 <= Cardinality(Named')
      BY <1>1, NamedGrows
<1>3. known' \in Nat /\ known' >= known /\ known' <= Cardinality(Named')
      BY <1>1, <1>2 DEF TurnTypes
<1>4. known' <= MaxTurns
      BY <1>1, <1>2, <1>3, ChatClientAssumption DEF TurnTypes
<1>5. ASSUME NEW j \in DOMAIN turn
      PROVE  turn'[j].conv <= known' /\ turn'[j].mount <= Age(turn[j].tab)'
      <2>1. turn[j] \in ChatTurn
            BY <1>1, <1>5
      <2>2. turn[j].tab \in Tabs /\ turn[j].conv \in Int /\ turn[j].mount \in Int
            BY <2>1 DEF ChatTurn, Convs, NoConv
      <2>3. turn[j].conv <= known /\ turn[j].mount <= Age(turn[j].tab)
            BY <1>5 DEF TurnTypes
      <2>4. QED BY <1>1, <1>3, <1>5, <2>2, <2>3
<1>6. QED BY <1>1, <1>3, <1>4, <1>5 DEF TurnTypes

\* A turn that waits for its conversation has one to get.
LEMMA OneIsLeft ==
  ASSUME TurnTypes, NEW i \in DOMAIN turn, turn[i].step = "sent"
  PROVE  known + 1 <= MaxTurns
<1>1. DOMAIN turn = 1..Len(turn) /\ Len(turn) \in Nat /\ Len(turn) <= MaxTurns
      BY DEF TurnTypes
<1>2. IsFiniteSet(1..Len(turn)) /\ Cardinality(1..Len(turn)) = Len(turn)
      <2>1. 1 \in Int /\ Len(turn) \in Int
            BY <1>1
      <2>2. /\ IsFiniteSet(1..Len(turn))
            /\ Cardinality(1..Len(turn)) = IF 1 > Len(turn) THEN 0 ELSE Len(turn) - 1 + 1
            BY <2>1, FS_Interval
      <2>3. QED BY <1>1, <2>2
<1>3. Named \subseteq 1..Len(turn) /\ i \in 1..Len(turn) /\ i \notin Named
      BY <1>1 DEF Named
<1>4. IsFiniteSet(Named)
      BY <1>2, <1>3, FS_Subset
<1>5. Cardinality(Named \cup {i}) = Cardinality(Named) + 1 /\ Cardinality(Named) \in Nat
      BY <1>3, <1>4, FS_AddElement, FS_CardinalityType
<1>6. Cardinality(Named \cup {i}) <= Len(turn)
      BY <1>2, <1>3, FS_Subset
<1>7. QED BY <1>1, <1>5, <1>6, ChatClientAssumption DEF TurnTypes

\* Only the turn whose stream the tab holds runs there.
LEMMA OneRuns ==
  ASSUME ChatInv, NEW i \in DOMAIN turn, Running(i), Seen(i),
         NEW j \in DOMAIN turn, Running(j), Seen(j), turn[j].tab = turn[i].tab
  PROVE  j = i
BY DEF ChatInv, TurnsInv

\* The first event of an answer: the conversation it names is the one shown.
LEMMA MetaKeeps ==
  ASSUME ChatInv, NEW i \in DOMAIN turn, Meta(i)
  PROVE  ChatInv' /\ StoredIsKept
<1> USE DEF ChatInv, ChatTypes
<1> DEFINE b == turn[i].tab
           c == IF turn[i].conv = NoConv THEN known + 1 ELSE turn[i].conv
           e == [turn[i] EXCEPT !.step = "open", !.conv = c]
<1>1. /\ turn[i] \in ChatTurn /\ b \in Tabs /\ turn[i].conv \in {NoConv} \cup Convs
      /\ turn \in Seq(ChatTurn) /\ DOMAIN turn = 1..Len(turn)
      <2>1. turn \in Seq(ChatTurn) /\ turn[i] \in ChatTurn
            BY DEF TurnTypes
      <2>2. QED BY <2>1 DEF ChatTurn
<1>2. /\ turn[i].step = "sent" /\ turn' = [turn EXCEPT ![i] = e]
      /\ known' = (IF turn[i].conv = NoConv THEN c ELSE known)
      /\ UNCHANGED <<streaming, stream, address, mount, composer, late, trips, crossed>>
      BY DEF Meta
<1>3. /\ e.tab = b /\ e.mount = turn[i].mount /\ e.conv = c /\ e.step = "open"
      BY <1>1 DEF ChatTurn
<1>4. known \in Nat /\ turn[i].conv <= known /\ turn[i].conv \in Nat
      BY <1>1 DEF TurnTypes, NoConv, Convs
<1> HIDE DEF c, e
<1>5. /\ DOMAIN turn' = DOMAIN turn
      /\ \A j \in DOMAIN turn : turn'[j] = IF j = i THEN e ELSE turn[j]
      BY <1>1, <1>2
<1>6. c \in Nat /\ c <= known + 1 /\ c # NoConv /\ known' \in {known, known + 1} /\ c <= known'
      BY <1>2, <1>4 DEF c, NoConv
<1>7. e \in ChatTurn /\ c \in Convs
      <2>1. known + 1 \in Convs
            BY <1>2, <1>4, OneIsLeft DEF Convs
      <2>2. c \in Convs
            BY <1>1, <2>1 DEF c
      <2>3. QED BY <1>1, <2>2 DEF e, ChatTurn, TurnSteps
<1>8. turn' \in Seq(ChatTurn) /\ Len(turn') = Len(turn)
      BY <1>1, <1>2, <1>7, ExceptSeq
<1>9. known' = known \/ (known' = known + 1 /\ Named' \ Named # {})
      <2>1. i \in Named' /\ i \notin Named
            BY <1>2, <1>3, <1>5 DEF Named
      <2>2. QED BY <1>6, <2>1
<1>10. \A a \in Tabs : Age(a) \in Int /\ Age(a)' = Age(a)
      BY <1>2, MountDoes DEF Age, Here
<1>11. \A j \in DOMAIN turn :
        /\ turn'[j].tab = turn[j].tab /\ turn'[j].mount = turn[j].mount
        /\ turn'[j].conv = turn[j].conv \/ turn'[j].conv <= known'
        /\ turn[j].step # "sent" => turn'[j].step # "sent"
      BY <1>3, <1>5, <1>6
<1>12. /\ TurnTypes' /\ DOMAIN turn' = DOMAIN turn
       /\ known' \in Nat /\ known' >= known
      <2>1. crossed' \subseteq DOMAIN turn /\ stream' \in [Tabs -> Nat]
            /\ \A a \in Tabs : stream'[a] \in {0} \cup DOMAIN turn
            BY <1>2 DEF TurnTypes
      <2>2. QED BY <1>8, <1>9, <1>10, <1>11, <2>1, TurnsStay
<1>13. TabTypes'
      <2>1. LateTypes'
            BY <1>2, <1>12, LateStays DEF TabTypes, TurnTypes
      <2>2. QED BY <1>2, <2>1 DEF TabTypes
<1>14. \A j \in DOMAIN turn : j # i => (Running(j)' <=> Running(j)) /\ (Seen(j)' <=> Seen(j))
                                       /\ (Unsent(j)' <=> Unsent(j))
      BY <1>2, <1>5 DEF Running, Seen, Unsent
<1>15. Running(i) /\ ~Unsent(i)' /\ (Seen(i)' <=> Seen(i))
      BY <1>2, <1>3, <1>5 DEF Running, Seen, Unsent
<1>16. CASE Seen(i)
      <2>1. Shows(b, c, messages[b])
            BY <1>16 DEF Meta, c
      <2>2. /\ \A a \in Tabs : shown'[a] = (IF a = b THEN c ELSE shown[a])
            /\ messages' = messages
            BY <2>1 DEF Shows, ShownTypes
      <2>3. \A j \in DOMAIN turn : j # i /\ Running(j) /\ Seen(j) => turn[j].tab # b
            BY <1>15, <1>16, OneRuns
      <2>4. TurnsInv'
            <3> SUFFICES ASSUME NEW j \in DOMAIN turn, Running(j)', Seen(j)'
                         PROVE  /\ stream'[turn'[j].tab] = j
                                /\ \/ j \in crossed'
                                   \/ /\ messages'[turn'[j].tab] # <<>>
                                      /\ Last(messages'[turn'[j].tab]).turn = j
                                      /\ shown'[turn'[j].tab] = turn'[j].conv
                BY <1>12 DEF TurnsInv
            <3>1. CASE j = i
                  BY <1>1, <1>2, <1>3, <1>5, <1>15, <1>16, <2>2, <3>1 DEF TurnsInv
            <3>2. CASE j # i
                  <4>1. turn[j] \in ChatTurn /\ turn[j].tab \in Tabs
                        <5>1. turn[j] \in ChatTurn
                              BY <1>1
                        <5>2. QED BY <5>1 DEF ChatTurn
                  <4>2. turn[j].tab # b /\ Running(j) /\ Seen(j) /\ turn'[j] = turn[j]
                        BY <1>5, <1>14, <2>3, <3>2
                  <4>3. QED BY <1>2, <2>2, <4>1, <4>2 DEF TurnsInv
            <3>3. QED BY <3>1, <3>2
      <2>5. crossed = {} => shown[b] = turn[i].conv
            BY <1>15, <1>16 DEF TurnsInv
      <2>6. c \in Convs /\ c \notin shared' /\ crossed = {} =>
              TurnsOf(stored[c]) \subseteq TurnsOf(messages[b])
            <3> SUFFICES ASSUME c \notin shared', crossed = {}
                         PROVE  TurnsOf(stored[c]) \subseteq TurnsOf(messages[b])
                OBVIOUS
            <3>1. CASE turn[i].conv = NoConv
                  <4>1. c \notin 1..known
                        BY <1>4, <3>1 DEF c
                  <4>2. stored[c] = <<>>
                        BY <1>7, <4>1 DEF ListInv
                  <4>3. QED BY <4>2 DEF TurnsOf
            <3>2. CASE turn[i].conv # NoConv
                  <4>1. shown[b] = c /\ c \notin shared
                        BY <2>1, <2>5, <3>2 DEF c, Shows
                  <4>2. QED BY <1>1, <1>7, <4>1 DEF CoverInv
            <3>3. QED BY <3>1, <3>2
      <2>7. ASSUME crossed' = {}, NEW j \in TurnsOf(messages[b])
            PROVE  /\ turn'[j].conv \in {c, NoConv}
                   /\ Unsent(j)' => c = NoConv /\ turn'[j].tab = b /\ Seen(j)'
            <3>1. j \in DOMAIN turn
                  BY <1>1, <2>7 DEF SourcesInv, OwnAnswers, TurnsOf
            <3>2. CASE j = i
                  BY <1>3, <1>5, <1>15, <3>1, <3>2
            <3>3. CASE j # i
                  <4>1. /\ turn[j].conv \in {shown[b], NoConv}
                        /\ Unsent(j) => turn[j].tab = b /\ Seen(j)
                        BY <1>1, <1>2, <2>7 DEF PlacesInv
                  <4>2. shown[b] \in {c, NoConv}
                        BY <1>2, <2>5, <2>7 DEF c
                  <4>3. ~Unsent(j)
                        BY <2>3, <3>1, <3>3, <4>1 DEF Unsent, Running
                  <4>4. QED BY <1>5, <1>14, <3>1, <3>3, <4>1, <4>2, <4>3
            <3>4. QED BY <3>2, <3>3
      <2>8. \A k \in DOMAIN messages[b] :
              /\ messages[b][k].turn \in DOMAIN turn'
              /\ messages[b][k].from \subseteq {messages[b][k].turn} \cup crossed'
            BY <1>1, <1>2, <1>12 DEF SourcesInv, OwnAnswers
      <2>9. \A j \in DOMAIN turn :
              /\ turn'[j].tab = turn[j].tab /\ turn'[j].mount = turn[j].mount
              /\ Unsent(j)' => Unsent(j)
              /\ turn'[j].conv = turn[j].conv \/ (Unsent(j) /\ turn[j].tab = b)
            BY <1>2, <1>3, <1>5, <1>11, <1>14, <1>15 DEF c, Unsent
      <2>10. messages[b] \in Seq(Message) /\ address' \in [Tabs -> {NoConv} \cup listed]
            BY <1>1, <1>2 DEF ShownTypes, ListInv
      <2>11. /\ ShownTypes' /\ ListInv' /\ SourcesInv' /\ PlacesInv' /\ CoverInv'
             /\ StoredIsKept
            BY <1>1, <1>2, <1>6, <1>7, <1>12, <2>1, <2>6, <2>7, <2>8, <2>9, <2>10, ShowsKeeps
      <2>12. QED BY <1>12, <1>13, <2>4, <2>11
<1>17. CASE ~Seen(i)
      <2>1. UNCHANGED <<shown, messages, stored, listed, sidebar, shared>>
            BY <1>17 DEF Meta
      <2>2. \A j \in DOMAIN turn :
              /\ turn'[j].tab = turn[j].tab /\ turn'[j].mount = turn[j].mount
              /\ Unsent(j)' => Unsent(j)
              /\ turn'[j].conv = turn[j].conv \/ (Unsent(j) /\ ~Seen(j))
            BY <1>2, <1>3, <1>5, <1>11, <1>14, <1>15, <1>17 DEF c, Unsent
      <2>3. TurnsInv'
            <3> SUFFICES ASSUME NEW j \in DOMAIN turn, Running(j)', Seen(j)'
                         PROVE  /\ stream'[turn'[j].tab] = j
                                /\ \/ j \in crossed'
                                   \/ /\ messages'[turn'[j].tab] # <<>>
                                      /\ Last(messages'[turn'[j].tab]).turn = j
                                      /\ shown'[turn'[j].tab] = turn'[j].conv
                BY <1>12 DEF TurnsInv
            <3>1. j # i
                  BY <1>15, <1>17
            <3>2. QED BY <1>2, <1>5, <1>14, <2>1, <3>1 DEF TurnsInv
      <2>4. /\ ShownTypes' /\ ListInv' /\ SourcesInv' /\ PlacesInv' /\ CoverInv'
            /\ StoredIsKept
            BY <1>2, <1>12, <2>1, <2>2, QuietKeeps
      <2>5. QED BY <1>12, <1>13, <2>3, <2>4
<1>18. QED BY <1>16, <1>17

\* Turns come to an end where they are, and what is shown stays.
LEMMA EndsKeep ==
  ASSUME ChatInv, TabTypes', turn' \in Seq(ChatTurn), Len(turn') = Len(turn),
         \A j \in DOMAIN turn :
           \/ turn'[j] = turn[j]
           \/ /\ turn'[j].step \notin {"sent", "open"}
              /\ turn'[j].tab = turn[j].tab /\ turn'[j].mount = turn[j].mount
              /\ turn'[j].conv = turn[j].conv,
         UNCHANGED <<known, shown, messages, stream, address, mount, sidebar, stored,
                     listed, crossed, shared>>
  PROVE  ChatInv' /\ StoredIsKept
<1> USE DEF ChatInv, ChatTypes
<1>1. \A a \in Tabs : Age(a) \in Int /\ Age(a)' = Age(a)
      BY MountDoes DEF Age, Here
<1>2. \A j \in DOMAIN turn :
        /\ turn'[j].tab = turn[j].tab /\ turn'[j].mount = turn[j].mount
        /\ turn'[j].conv = turn[j].conv
        /\ turn[j].step # "sent" => turn'[j].step # "sent"
      OBVIOUS
<1>3. TurnTypes' /\ DOMAIN turn' = DOMAIN turn /\ known' \in Nat /\ known' >= known
      <2>1. crossed' \subseteq DOMAIN turn /\ stream' \in [Tabs -> Nat]
            /\ \A a \in Tabs : stream'[a] \in {0} \cup DOMAIN turn
            BY DEF TurnTypes
      <2>2. TurnTypes
            OBVIOUS
      <2>3. QED BY <1>1, <1>2, <2>1, <2>2, TurnsStay
<1>4. \A j \in DOMAIN turn :
        /\ Running(j)' => Running(j) /\ turn'[j] = turn[j]
        /\ Unsent(j)' => Unsent(j)
        /\ Seen(j)' <=> Seen(j)
      BY <1>2 DEF Running, Unsent, Seen
<1>5. TurnsInv'
      BY <1>3, <1>4 DEF TurnsInv
<1>6. /\ ShownTypes' /\ ListInv' /\ SourcesInv' /\ PlacesInv' /\ CoverInv'
      /\ StoredIsKept
      <2>1. crossed' = crossed /\ UNCHANGED <<shown, messages, stored, listed, sidebar, shared, mount, address>>
            OBVIOUS
      <2>2. QED BY <1>2, <1>3, <1>4, <2>1, QuietKeeps
<1>7. QED BY <1>3, <1>5, <1>6

\* What an open turn adds to the last message is its own, or crossed over.
LEMMA AnswerKeeps ==
  ASSUME ChatInv, NEW i \in DOMAIN turn, turn[i].step = "open", Seen(i),
         NEW from \in {{}, {i}}, NEW ns, Adds(messages[turn[i].tab], ns, from),
         Shows(turn[i].tab, shown[turn[i].tab], ns),
         TabTypes', turn' \in Seq(ChatTurn), Len(turn') = Len(turn),
         \A j \in DOMAIN turn :
           \/ turn'[j] = turn[j]
           \/ /\ turn'[j].step \notin {"sent", "open"}
              /\ turn'[j].tab = turn[j].tab /\ turn'[j].mount = turn[j].mount
              /\ turn'[j].conv = turn[j].conv,
         UNCHANGED <<known, stream, address, mount, crossed>>
  PROVE  ChatInv' /\ StoredIsKept
<1> USE DEF ChatInv, ChatTypes
<1> DEFINE b == turn[i].tab
<1>1. \A a \in Tabs : Age(a) \in Int /\ Age(a)' = Age(a)
      BY MountDoes DEF Age, Here
<1>2. \A j \in DOMAIN turn :
        /\ turn'[j].tab = turn[j].tab /\ turn'[j].mount = turn[j].mount
        /\ turn'[j].conv = turn[j].conv
        /\ turn[j].step # "sent" => turn'[j].step # "sent"
      OBVIOUS
<1>3. TurnTypes' /\ DOMAIN turn' = DOMAIN turn /\ known' \in Nat /\ known' >= known
      <2>1. crossed' \subseteq DOMAIN turn /\ stream' \in [Tabs -> Nat]
            /\ \A a \in Tabs : stream'[a] \in {0} \cup DOMAIN turn
            BY DEF TurnTypes
      <2>2. TurnTypes
            OBVIOUS
      <2>3. QED BY <1>1, <1>2, <2>1, <2>2, TurnsStay
<1>4. \A j \in DOMAIN turn :
        /\ Running(j)' => Running(j) /\ turn'[j] = turn[j]
        /\ Unsent(j)' => Unsent(j)
        /\ Seen(j)' <=> Seen(j)
      BY <1>2 DEF Running, Unsent, Seen
<1>5. \A j \in DOMAIN turn : turn[j].tab \in Tabs
      <2>1. \A j \in DOMAIN turn : turn[j] \in ChatTurn
            BY DEF TurnTypes
      <2>2. QED BY <2>1 DEF ChatTurn
<1>6. messages[b] \in Seq(Message)
      BY <1>5 DEF ShownTypes
<1>7. /\ ns \in Seq(Message) /\ Len(ns) = Len(messages[b])
      /\ \A k \in DOMAIN messages[b] :
           /\ ns[k].turn = messages[b][k].turn
           /\ k = Len(ns) => ns[k].from = messages[b][k].from \cup from
           /\ k # Len(ns) => ns[k].from = messages[b][k].from
      BY DEF Adds
<1>8. DOMAIN ns = DOMAIN messages[b] /\ TurnsOf(ns) = TurnsOf(messages[b])
      <2>1. DOMAIN ns = DOMAIN messages[b]
            BY <1>6, <1>7
      <2>2. QED BY <1>7, <2>1, SameTurns
<1>9. Running(i) /\ stream[b] = i /\ (i \in crossed \/ Last(messages[b]).turn = i)
      BY DEF TurnsInv, Running
<1>10. Shows(b, shown[b], ns)
      OBVIOUS
<1>11. /\ \A a \in Tabs : shown'[a] = shown[a]
       /\ \A a \in Tabs : messages'[a] = (IF a = b THEN ns ELSE messages[a])
      BY <1>10 DEF Shows, ShownTypes
<1>12. messages[b] # <<>> => ns # <<>> /\ Last(ns).turn = Last(messages[b]).turn
      <2>1. messages[b] # <<>> => Len(ns) \in DOMAIN messages[b]
            BY <1>6, <1>7
      <2>2. messages[b] # <<>> => ns # <<>>
            BY <1>6, <1>7
      <2>3. QED BY <1>7, <2>1, <2>2 DEF Last
<1>13. TurnsInv'
      BY <1>3, <1>4, <1>5, <1>11, <1>12 DEF TurnsInv
<1>14. \A k \in DOMAIN ns :
         ns[k].turn \in DOMAIN turn' /\ ns[k].from \subseteq {ns[k].turn} \cup crossed'
      <2>1. TAKE k \in DOMAIN ns
      <2>2. /\ messages[b][k].turn \in DOMAIN turn
            /\ messages[b][k].from \subseteq {messages[b][k].turn} \cup crossed
            BY <1>5, <1>8 DEF SourcesInv, OwnAnswers
      <2>3. QED BY <1>3, <1>7, <1>8, <1>9, <2>2 DEF Last
<1>15. shown[b] \in Convs /\ shown[b] \notin shared' /\ crossed = {} =>
         TurnsOf(stored[shown[b]]) \subseteq TurnsOf(ns)
      BY <1>5, <1>8, <1>10 DEF CoverInv, Shows
<1>16. ASSUME crossed' = {}, NEW j \in TurnsOf(ns)
       PROVE  /\ turn'[j].conv \in {shown[b], NoConv}
              /\ Unsent(j)' => shown[b] = NoConv /\ turn'[j].tab = b /\ Seen(j)'
      <2>1. j \in DOMAIN turn
            <3>1. j \in TurnsOf(messages[b]) /\ b \in Tabs
                  BY <1>5, <1>8, <1>16
            <3>2. QED BY <3>1 DEF SourcesInv, OwnAnswers, TurnsOf
      <2>2. /\ turn[j].conv \in {shown[b], NoConv}
            /\ Unsent(j) => turn[j].tab = b /\ Seen(j)
            BY <1>5, <1>8, <1>16 DEF PlacesInv
      <2>3. ~Unsent(j)
            BY <1>9, <2>1, <2>2, OneRuns DEF Unsent, Running
      <2>4. QED BY <1>2, <1>4, <2>1, <2>2, <2>3
<1>17. shown[b] \in {NoConv} \cup Convs /\ shown[b] <= known' /\ address' \in [Tabs -> {NoConv} \cup listed]
      BY <1>5 DEF ShownTypes, ListInv
<1>18. /\ ShownTypes' /\ ListInv' /\ SourcesInv' /\ PlacesInv' /\ CoverInv'
       /\ StoredIsKept
      BY <1>2, <1>3, <1>4, <1>5, <1>7, <1>10, <1>14, <1>15, <1>16, <1>17, ShowsKeeps
<1>19. QED BY <1>3, <1>13, <1>18

\* A page is left, with nobody to see its answer, or mounted, with nothing of
\* the mount before it running in it.
LEMMA LeaveKeeps ==
  ASSUME ChatInv, NEW b \in Tabs, LeaveChat(b)
  PROVE  ChatInv' /\ StoredIsKept
<1> USE DEF ChatInv, ChatTypes
<1>1. /\ Here(b) /\ mount' = [mount EXCEPT ![b] = -1 - mount[b]]
      /\ trips < MaxTrips /\ trips' = trips + 1
      /\ shown' = [shown EXCEPT ![b] = NoConv] /\ messages' = [messages EXCEPT ![b] = <<>>]
      /\ late' = [late EXCEPT ![b] = <<>>]
      /\ UNCHANGED <<turn, known, streaming, stream, address, composer, sidebar, stored, listed,
                     crossed, shared>>
      BY DEF LeaveChat, Trip
<1>2. /\ \A a \in Tabs : mount'[a] = (IF a = b THEN -1 - mount[b] ELSE mount[a])
      /\ \A a \in Tabs : shown'[a] = (IF a = b THEN NoConv ELSE shown[a])
      /\ \A a \in Tabs : messages'[a] = (IF a = b THEN <<>> ELSE messages[a])
      BY <1>1 DEF TabTypes, ShownTypes
<1>3. /\ trips \in Nat /\ trips' \in 0..MaxTrips /\ trips' = trips + 1
      /\ \A a \in Tabs : mount[a] \in Int /\ -trips <= mount[a] /\ mount[a] <= trips
      /\ mount[b] >= 0
      <2>1. trips \in 0..MaxTrips
            BY Zenon DEF TabTypes
      <2>2. QED BY <1>1, <2>1, ChatClientAssumption DEF TabTypes, Here
<1>4. \A a \in Tabs : mount'[a] \in Int /\ -trips' <= mount'[a] /\ mount'[a] <= trips'
      BY <1>2, <1>3
<1>5. TabTypes'
      <2>1. LateTypes'
            <3>1. <<>> \in Seq({NoConv} \cup Convs) /\ DOMAIN <<>> = {}
                  OBVIOUS
            <3>2. LateTypes
                  BY DEF TabTypes
            <3>3. QED BY <1>1, <3>1, <3>2, LateChanges
      <2>2. QED BY <1>1, <1>3, <1>4, <2>1 DEF TabTypes
<1>6. \A a \in Tabs : Age(a)' = Age(a)
      BY <1>2, <1>3 DEF Age, Here
<1>7. \A i \in DOMAIN turn : turn[i] \in ChatTurn /\ turn[i].tab \in Tabs /\ turn[i].mount \in Nat
      <2>1. \A i \in DOMAIN turn : turn[i] \in ChatTurn
            BY DEF TurnTypes
      <2>2. QED BY <2>1 DEF ChatTurn
<1>8. TurnTypes'
      BY <1>1, <1>6, <1>7 DEF TurnTypes, Named
<1>9. ShownTypes'
      <2>1. <<>> \in Seq(Message)
            OBVIOUS
      <2>2. QED BY <1>1, <2>1 DEF ShownTypes
<1>10. ListInv'
      <2>1. NoConv <= known
            BY DEF TurnTypes, NoConv
      <2>2. QED BY <1>1, <1>2, <2>1 DEF ListInv
<1>11. \A i \in DOMAIN turn : Seen(i)' <=> (Seen(i) /\ turn[i].tab # b)
      BY <1>1, <1>2, <1>3, <1>7 DEF Seen
<1>12. TurnsInv'
      BY <1>1, <1>2, <1>7, <1>11 DEF TurnsInv, Running
<1>13. SourcesInv'
      BY <1>1, <1>2 DEF SourcesInv, OwnAnswers
<1>14. PlacesInv'
      <2> SUFFICES ASSUME crossed = {} PROVE PlacesInv!2'
          BY <1>1 DEF PlacesInv
      <2>1. ASSUME NEW a \in Tabs, NEW i \in TurnsOf(messages'[a])
            PROVE  /\ turn'[i].conv \in {shown'[a], NoConv}
                   /\ Unsent(i)' => turn'[i].tab = a /\ Seen(i)'
            <3>1. a # b
                  BY <1>2, <2>1 DEF TurnsOf
            <3>2. i \in TurnsOf(messages[a])
                  BY <1>2, <2>1, <3>1
            <3>3. i \in DOMAIN turn
                  BY <3>2 DEF SourcesInv, OwnAnswers, TurnsOf
            <3>4. QED BY <1>1, <1>2, <1>11, <3>1, <3>2, <3>3 DEF PlacesInv, Unsent
      <2>2. ASSUME NEW d \in Convs, NEW i \in TurnsOf(stored'[d])
            PROVE  turn'[i].conv \in {d, NoConv} /\ ~Unsent(i)'
            BY <1>1, <2>2 DEF PlacesInv, Unsent
      <2>3. QED BY <2>1, <2>2
<1>15. NoConv \notin Convs
      BY DEF NoConv, Convs
<1>16. CoverInv'
      BY <1>1, <1>2, <1>15 DEF CoverInv
<1>17. StoredIsKept
      BY <1>1 DEF StoredIsKept
<1>18. QED BY <1>5, <1>8, <1>9, <1>10, <1>12, <1>13, <1>14, <1>16, <1>17

\* What the page shows when it is mounted is what is stored.
LEMMA EnterKeeps ==
  ASSUME ChatInv, NEW b \in Tabs, EnterChat(b)
  PROVE  ChatInv' /\ StoredIsKept
<1> USE DEF ChatInv, ChatTypes
<1>1. PICK c \in {NoConv, address[b]} :
         /\ address' = [address EXCEPT ![b] = c]
         /\ shown' = [shown EXCEPT ![b] = c]
         /\ messages' = [messages EXCEPT ![b] = IF c = NoConv THEN <<>> ELSE stored[c]]
         /\ shared' = shared \cup {d \in Convs : d = c /\ \E a \in Tabs \ {b} : shown[a] = c}
      BY DEF EnterChat
<1> DEFINE ms == IF c = NoConv THEN <<>> ELSE stored[c]
<1>2. /\ ~Here(b) /\ mount' = [mount EXCEPT ![b] = -mount[b]]
      /\ streaming' = [streaming EXCEPT ![b] = FALSE] /\ stream' = [stream EXCEPT ![b] = 0]
      /\ sidebar' = [sidebar EXCEPT ![b] = listed]
      /\ UNCHANGED <<turn, known, late, stored, listed, trips, crossed>>
      BY DEF EnterChat
<1>3. NoConv \notin Convs /\ listed \subseteq 1..known /\ known \in Nat
      BY DEF NoConv, Convs, ListInv, TurnTypes
<1>4. known <= MaxTurns
      <2>1. /\ turn \in Seq(ChatTurn) /\ Len(turn) \in Nat /\ Len(turn) <= MaxTurns
            BY DEF TurnTypes
      <2>2. /\ Cardinality(Named) \in Nat /\ Cardinality(Named) <= Len(turn)
            <3>1. \A i \in DOMAIN turn : turn[i].step # "sent" => turn'[i].step # "sent"
                  BY <1>2
            <3>2. turn' = turn /\ TurnTypes
                  BY <1>2
            <3>3. QED BY <2>1, <3>1, <3>2, NamedGrows DEF Named
      <2>3. QED BY <1>3, <2>1, <2>2, ChatClientAssumption DEF TurnTypes
<1>5. c \in {NoConv} \cup listed /\ c \in {NoConv} \cup Convs /\ c <= known
      <2>1. address[b] \in {NoConv} \cup listed
            BY DEF ListInv
      <2>2. listed \subseteq Convs
            BY <1>3, <1>4, ChatClientAssumption DEF Convs
      <2>3. QED BY <1>3, <2>1, <2>2 DEF NoConv
<1>6. ms \in Seq(Message)
      BY <1>5 DEF ShownTypes
<1>7. /\ \A a \in Tabs : mount'[a] = (IF a = b THEN -mount[b] ELSE mount[a])
      /\ \A a \in Tabs : shown'[a] = (IF a = b THEN c ELSE shown[a])
      /\ \A a \in Tabs : messages'[a] = (IF a = b THEN ms ELSE messages[a])
      /\ \A a \in Tabs : stream'[a] = (IF a = b THEN 0 ELSE stream[a])
      BY <1>1, <1>2 DEF TabTypes, ShownTypes, TurnTypes
<1> HIDE DEF ms
<1>8. mount[b] \in Int /\ Age(b) \in Int /\ mount[b] = -1 - Age(b)
      BY <1>2, MountDoes
<1>9. Age(b)' = Age(b) + 1 /\ mount'[b] = Age(b) + 1 /\ \A a \in Tabs \ {b} : Age(a)' = Age(a)
      BY <1>2, <1>7, <1>8 DEF Age, Here
<1>10. TabTypes'
      <2>1. trips' \in 0..MaxTrips
            BY <1>2, Zenon DEF TabTypes
      <2>2. \A a \in Tabs : -trips' <= mount'[a] /\ mount'[a] <= trips' /\ mount'[a] \in Int
            <3>1. trips \in Int /\ \A a \in Tabs : mount[a] \in Int /\ -trips <= mount[a] /\ mount[a] <= trips
                  BY <1>2, <2>1 DEF TabTypes
            <3>2. QED BY <1>2, <1>7, <3>1
      <2>3. mount' \in [Tabs -> Int]
            BY <1>2, <1>8 DEF TabTypes
      <2>4. composer' = [composer EXCEPT ![b] = ""] /\ "" \in Composers
            BY DEF EnterChat, Composers
      <2>5. composer' \in [Tabs -> Composers]
            BY <2>4 DEF TabTypes
      <2>6. LateTypes'
            BY <1>2, LateSame DEF TabTypes
      <2>7. QED BY <1>2, <2>1, <2>2, <2>3, <2>5, <2>6 DEF TabTypes
<1>11. \A i \in DOMAIN turn : /\ turn[i] \in ChatTurn /\ turn[i].tab \in Tabs /\ turn[i].mount \in Nat
                             /\ turn[i].mount <= Age(turn[i].tab)
      <2>1. \A i \in DOMAIN turn : turn[i] \in ChatTurn
            BY DEF TurnTypes
      <2>2. QED BY <2>1 DEF ChatTurn, TurnTypes
<1>12. TurnTypes'
      <2>1. \A i \in DOMAIN turn : turn[i].mount <= Age(turn[i].tab)'
            <3>1. TAKE i \in DOMAIN turn
            <3>2. CASE turn[i].tab = b
                  BY <1>2, <1>8, <1>9, <1>11, <3>2
            <3>3. CASE turn[i].tab # b
                  BY <1>2, <1>8, <1>9, <1>11, <3>3
            <3>4. QED BY <3>2, <3>3
      <2>2. stream' \in [Tabs -> Nat] /\ \A a \in Tabs : stream'[a] \in {0} \cup DOMAIN turn
            BY <1>2, <1>7 DEF TurnTypes
      <2>3. QED BY <1>2, <2>1, <2>2 DEF TurnTypes, Named
<1>13. ShownTypes'
      BY <1>1, <1>2, <1>5, <1>6 DEF ShownTypes, ms
<1>14. ListInv'
      BY <1>1, <1>2, <1>5, <1>7 DEF ListInv
<1>15. \A i \in DOMAIN turn : Seen(i)' <=> (Seen(i) /\ turn[i].tab # b)
      <2>1. TAKE i \in DOMAIN turn
      <2>2. CASE turn[i].tab = b
            <3>1. ~Seen(i)
                  BY <1>2, <1>11, <2>2 DEF Seen, Here
            <3>2. ~Seen(i)'
                  BY <1>2, <1>8, <1>9, <1>11, <2>2 DEF Seen
            <3>3. QED BY <2>2, <3>1, <3>2
      <2>3. CASE turn[i].tab # b
            BY <1>2, <1>7, <1>11, <2>3 DEF Seen
      <2>4. QED BY <2>2, <2>3
<1>16. TurnsInv'
      BY <1>2, <1>7, <1>11, <1>15 DEF TurnsInv, Running
<1>17. SourcesInv'
      <2>1. OwnAnswers(ms)
            BY <1>5 DEF SourcesInv, OwnAnswers, ms
      <2>2. QED BY <1>2, <1>7, <2>1 DEF SourcesInv, OwnAnswers
<1>18. PlacesInv'
      <2> SUFFICES ASSUME crossed = {} PROVE PlacesInv!2'
          BY <1>2 DEF PlacesInv
      <2>1. ASSUME NEW a \in Tabs, NEW i \in TurnsOf(messages'[a])
            PROVE  /\ turn'[i].conv \in {shown'[a], NoConv}
                   /\ Unsent(i)' => turn'[i].tab = a /\ Seen(i)'
            <3>1. CASE a = b
                  <4>1. c \in Convs /\ ms = stored[c]
                        BY <1>5, <1>7, <2>1, <3>1 DEF ms, TurnsOf
                  <4>2. QED BY <1>2, <1>7, <2>1, <3>1, <4>1 DEF PlacesInv, Unsent
            <3>2. CASE a # b
                  <4>1. i \in TurnsOf(messages[a])
                        BY <1>7, <2>1, <3>2
                  <4>2. i \in DOMAIN turn
                        BY <4>1 DEF SourcesInv, OwnAnswers, TurnsOf
                  <4>3. QED BY <1>2, <1>7, <1>15, <3>2, <4>1, <4>2 DEF PlacesInv, Unsent
            <3>3. QED BY <3>1, <3>2
      <2>2. ASSUME NEW d \in Convs, NEW i \in TurnsOf(stored'[d])
            PROVE  turn'[i].conv \in {d, NoConv} /\ ~Unsent(i)'
            BY <1>2, <2>2 DEF PlacesInv, Unsent
      <2>3. QED BY <2>1, <2>2
<1>19. CoverInv'
      <2> SUFFICES ASSUME NEW a \in Tabs, NEW d \in Convs, shown'[a] = d, d \notin shared'
                   PROVE  /\ \A o \in Tabs \ {a} : shown'[o] # d
                          /\ crossed' = {} => TurnsOf(stored'[d]) \subseteq TurnsOf(messages'[a])
          BY DEF CoverInv
      <2>1. d \notin shared
            BY <1>1
      <2>2. c = d => \A o \in Tabs \ {b} : shown[o] # d
            BY <1>1
      <2>3. CASE a = b
            BY <1>2, <1>3, <1>7, <2>2, <2>3 DEF ms
      <2>4. CASE a # b
            BY <1>2, <1>7, <2>1, <2>2, <2>4 DEF CoverInv
      <2>5. QED BY <2>3, <2>4
<1>20. StoredIsKept
      BY <1>2 DEF StoredIsKept
<1>21. QED BY <1>10, <1>12, <1>13, <1>14, <1>16, <1>17, <1>18, <1>19, <1>20

\* Another conversation is opened, or a new one begun: what is shown then is
\* what is stored of it, or what was on the screen.
LEMMA NewChatKeeps ==
  ASSUME ChatInv, NEW b \in Tabs, NewChat(b)
  PROVE  ChatInv' /\ StoredIsKept
<1> USE DEF ChatInv, ChatTypes
<1>1. /\ turn' = Abort(b, turn) /\ Shows(b, NoConv, <<>>)
      /\ trips < MaxTrips /\ trips' = trips + 1
      /\ streaming' = [streaming EXCEPT ![b] = FALSE]
      /\ address' = [address EXCEPT ![b] = NoConv]
      /\ UNCHANGED <<known, stream, mount, composer, late, crossed>>
      BY DEF NewChat, Trip
<1>2. /\ turn' \in Seq(ChatTurn) /\ Len(turn') = Len(turn)
      /\ \A j \in DOMAIN turn :
           \/ turn'[j] = turn[j] /\ (j = stream[b] => ~Running(j))
           \/ j = stream[b] /\ turn'[j] = [turn[j] EXCEPT !.step = "aborted"]
      BY <1>1, AbortDoes
<1>3. ASSUME NEW j \in DOMAIN turn
      PROVE  /\ turn'[j].tab = turn[j].tab /\ turn'[j].mount = turn[j].mount
             /\ turn'[j].conv = turn[j].conv /\ turn[j].tab \in Tabs
             /\ Running(j)' => turn'[j] = turn[j] /\ j # stream[b] /\ Running(j)
             /\ turn[j].step # "sent" => turn'[j].step # "sent"
      <2>1. turn[j] \in ChatTurn
            BY <1>3 DEF TurnTypes
      <2>2. CASE turn'[j] = turn[j] /\ (j = stream[b] => ~Running(j))
            BY <2>1, <2>2 DEF Running, ChatTurn
      <2>3. CASE turn'[j] = [turn[j] EXCEPT !.step = "aborted"]
            BY <2>1, <2>3 DEF ChatTurn, Running
      <2>4. QED BY <1>2, <1>3, <2>2, <2>3
<1>4. \A a \in Tabs : Age(a) \in Int /\ Age(a)' = Age(a)
      BY <1>1, MountDoes DEF Age, Here
<1>5. TurnTypes' /\ DOMAIN turn' = DOMAIN turn /\ known' \in Nat /\ known' >= known
      <2>1. crossed' \subseteq DOMAIN turn /\ stream' \in [Tabs -> Nat]
            /\ \A a \in Tabs : stream'[a] \in {0} \cup DOMAIN turn
            BY <1>1 DEF TurnTypes
      <2>2. QED BY <1>1, <1>2, <1>3, <1>4, <2>1, TurnsStay
<1>6. TabTypes'
      <2>1. trips \in 0..MaxTrips
            BY Zenon DEF TabTypes
      <2>2. /\ trips' \in 0..MaxTrips
            /\ \A a \in Tabs : -trips' <= mount'[a] /\ mount'[a] <= trips'
            BY <1>1, <2>1, ChatClientAssumption DEF TabTypes
      <2>3. LateTypes'
            BY <1>1, LateSame DEF TabTypes
      <2>4. QED BY <1>1, <2>2, <2>3 DEF TabTypes
<1>7. /\ \A a \in Tabs : shown'[a] = (IF a = b THEN NoConv ELSE shown[a])
      /\ \A a \in Tabs : messages'[a] = (IF a = b THEN <<>> ELSE messages[a])
      BY <1>1 DEF Shows, ShownTypes
<1>8. TurnsInv'
      <2> SUFFICES ASSUME NEW j \in DOMAIN turn, Running(j)', Seen(j)'
                   PROVE  /\ stream'[turn'[j].tab] = j
                          /\ \/ j \in crossed'
                             \/ /\ messages'[turn'[j].tab] # <<>>
                                /\ Last(messages'[turn'[j].tab]).turn = j
                                /\ shown'[turn'[j].tab] = turn'[j].conv
          BY <1>5 DEF TurnsInv
      <2>1. turn'[j] = turn[j] /\ j # stream[b] /\ Running(j) /\ Seen(j) /\ turn[j].tab \in Tabs
            BY <1>1, <1>3 DEF Seen
      <2>2. turn[j].tab # b
            BY <2>1 DEF TurnsInv
      <2>3. QED BY <1>1, <1>7, <2>1, <2>2 DEF TurnsInv
<1>9. \A j \in DOMAIN turn : Unsent(j)' => Unsent(j)
      BY <1>3 DEF Unsent, Running
<1>10. \A k \in DOMAIN <<>> : FALSE
      OBVIOUS
<1>11. TurnsOf(<<>>) = {} /\ <<>> \in Seq(Message)
      BY DEF TurnsOf
<1>12. /\ NoConv \in {NoConv} \cup Convs /\ NoConv \notin Convs /\ NoConv <= known'
       /\ address' \in [Tabs -> {NoConv} \cup listed]
      BY <1>1, <1>5 DEF NoConv, Convs, ListInv
<1>13. /\ ShownTypes' /\ ListInv' /\ SourcesInv' /\ PlacesInv' /\ CoverInv'
       /\ StoredIsKept
      <2>1. PICK ms \in Seq(Message) : ms = <<>> /\ TurnsOf(ms) = {}
            BY <1>11
      <2>2. Shows(b, NoConv, ms) /\ \A k \in DOMAIN ms : FALSE
            BY <1>1, <2>1
      <2>3. QED BY <1>1, <1>3, <1>5, <1>9, <1>12, <2>1, <2>2, ShowsKeeps
<1>14. QED BY <1>5, <1>6, <1>8, <1>13

\* What is opened from the list is what is stored of it, and it is stored anew.
LEMMA OpenKeeps ==
  ASSUME ChatInv, NEW b \in Tabs, Open(b)
  PROVE  ChatInv' /\ StoredIsKept
<1> USE DEF ChatInv, ChatTypes
<1>1. /\ trips < MaxTrips /\ trips' = trips + 1
      /\ crossed' = crossed \cup UnderWay(b)
      /\ UNCHANGED <<turn, known, streaming, stream, mount, composer, late>>
      BY DEF Open, Trip
<1>2. PICK c \in sidebar[b] : Load(b, c)
      BY DEF Open
<1>3. PICK ms : ms = IF stored[c] # <<>> THEN stored[c] ELSE messages[b]
      OBVIOUS
<1>4. address' = [address EXCEPT ![b] = c] /\ Shows(b, c, ms)
      BY <1>2, <1>3 DEF Load
<1>5. /\ turn \in Seq(ChatTurn) /\ Len(turn) \in Nat /\ Len(turn) <= MaxTurns /\ known \in Nat
      /\ known <= Cardinality(Named)
      BY DEF TurnTypes
<1>6. known <= MaxTurns
      <2>1. \A i \in DOMAIN turn : turn[i].step # "sent" => turn'[i].step # "sent"
            BY <1>1
      <2>2. turn' = turn /\ TurnTypes
            BY <1>1
      <2>3. /\ Cardinality(Named) \in Nat /\ Cardinality(Named) <= Len(turn)
            BY <1>5, <2>1, <2>2, NamedGrows DEF Named
      <2>4. QED BY <1>5, <2>3, ChatClientAssumption
<1>7. c \in listed /\ c \in Convs /\ c <= known
      <2>1. c \in listed /\ listed \subseteq 1..known
            BY <1>2 DEF ListInv
      <2>2. QED BY <1>5, <1>6, <2>1, ChatClientAssumption DEF Convs
<1>8. ms \in Seq(Message)
      BY <1>3, <1>7 DEF ShownTypes
<1>9. TurnTypes'
      <2>1. \A a \in Tabs : Age(a)' = Age(a)
            BY <1>1 DEF Age, Here
      <2>2. \A i \in DOMAIN turn : turn[i].tab \in Tabs
            <3>1. \A i \in DOMAIN turn : turn[i] \in ChatTurn
                  BY <1>5
            <3>2. QED BY <3>1 DEF ChatTurn
      <2>3. UnderWay(b) \subseteq DOMAIN turn
            BY DEF UnderWay
      <2>4. Named' = Named
            BY <1>1 DEF Named
      <2>5. QED BY <1>1, <2>1, <2>2, <2>3, <2>4 DEF TurnTypes
<1>10. TabTypes'
      <2>1. trips \in 0..MaxTrips
            BY Zenon DEF TabTypes
      <2>2. /\ trips' \in 0..MaxTrips
            /\ \A a \in Tabs : -trips' <= mount'[a] /\ mount'[a] <= trips'
            BY <1>1, <2>1, ChatClientAssumption DEF TabTypes
      <2>3. LateTypes'
            BY <1>1, LateSame DEF TabTypes
      <2>4. QED BY <1>1, <2>2, <2>3 DEF TabTypes
<1>11. /\ \A a \in Tabs : shown'[a] = (IF a = b THEN c ELSE shown[a])
       /\ \A a \in Tabs : messages'[a] = (IF a = b THEN ms ELSE messages[a])
      BY <1>4 DEF Shows, ShownTypes
<1>12. \A i \in DOMAIN turn : Running(i)' = Running(i) /\ Seen(i)' = Seen(i) /\ Unsent(i)' = Unsent(i)
      BY <1>1 DEF Running, Seen, Unsent
<1>13. \A i \in DOMAIN turn : Running(i) /\ Seen(i) /\ turn[i].tab = b => i \in crossed'
      BY <1>1 DEF UnderWay
<1>14. TurnsInv'
      <2> SUFFICES ASSUME NEW j \in DOMAIN turn, Running(j), Seen(j)
                   PROVE  /\ stream[turn[j].tab] = j
                          /\ \/ j \in crossed'
                             \/ /\ messages'[turn[j].tab] # <<>>
                                /\ Last(messages'[turn[j].tab]).turn = j
                                /\ shown'[turn[j].tab] = turn[j].conv
          BY <1>1, <1>12 DEF TurnsInv
      <2>1. stream[turn[j].tab] = j
            BY DEF TurnsInv
      <2>2. CASE turn[j].tab = b
            BY <1>13, <2>1, <2>2
      <2>3. CASE turn[j].tab # b
            <3>1. turn[j].tab \in Tabs
                  <4>1. turn[j] \in ChatTurn
                        BY <1>5
                  <4>2. QED BY <4>1 DEF ChatTurn
            <3>2. QED BY <1>1, <1>11, <2>3, <3>1 DEF TurnsInv
      <2>4. QED BY <2>2, <2>3
<1>15. \A k \in DOMAIN ms :
         ms[k].turn \in DOMAIN turn' /\ ms[k].from \subseteq {ms[k].turn} \cup crossed'
      BY <1>1, <1>3, <1>7 DEF SourcesInv, OwnAnswers
<1>16. stored[c] # <<>> /\ ms = stored[c]
      BY <1>3, <1>7 DEF ListInv
<1>17. ASSUME crossed' = {}, NEW j \in TurnsOf(ms)
       PROVE  /\ turn'[j].conv \in {c, NoConv}
              /\ Unsent(j)' => c = NoConv /\ turn'[j].tab = b /\ Seen(j)'
      <2>1. j \in DOMAIN turn
            BY <1>1, <1>15, <1>17 DEF TurnsOf
      <2>2. turn[j].conv \in {c, NoConv} /\ ~Unsent(j)
            BY <1>1, <1>7, <1>16, <1>17 DEF PlacesInv
      <2>3. QED BY <1>1, <1>12, <2>1, <2>2
<1>18. /\ ShownTypes' /\ ListInv' /\ SourcesInv' /\ PlacesInv' /\ CoverInv'
       /\ StoredIsKept
      <2>1. address' \in [Tabs -> {NoConv} \cup listed]
            BY <1>4, <1>7 DEF ListInv
      <2>2. \A j \in DOMAIN turn :
              /\ turn'[j].tab = turn[j].tab /\ turn'[j].mount = turn[j].mount
              /\ Unsent(j)' => Unsent(j)
              /\ turn'[j].conv = turn[j].conv
            BY <1>1, <1>12
      <2>3. known' = known /\ known' \in Nat /\ known' >= known /\ mount' = mount
            /\ turn' = turn /\ crossed \subseteq crossed'
            BY <1>1, <1>5
      <2>4. QED BY <1>4, <1>7, <1>8, <1>15, <1>16, <1>17, <2>1, <2>2, <2>3, ShowsKeeps
<1>19. QED BY <1>9, <1>10, <1>14, <1>18

\* A turn takes its next step.
LEMMA StepDoes ==
  ASSUME turn \in Seq(ChatTurn), NEW i \in DOMAIN turn, NEW s \in TurnSteps,
         turn' = [turn EXCEPT ![i].step = s]
  PROVE  /\ turn' \in Seq(ChatTurn) /\ Len(turn') = Len(turn)
         /\ \A j \in DOMAIN turn :
              /\ j # i => turn'[j] = turn[j]
              /\ turn'[j].tab = turn[j].tab /\ turn'[j].mount = turn[j].mount
              /\ turn'[j].conv = turn[j].conv
         /\ turn'[i].step = s
<1> DEFINE e == [turn[i] EXCEPT !.step = s]
<1>1. /\ turn[i] \in ChatTurn /\ i \in 1..Len(turn) /\ DOMAIN turn = 1..Len(turn)
      OBVIOUS
<1>2. /\ e \in ChatTurn /\ e.step = s /\ e.tab = turn[i].tab /\ e.mount = turn[i].mount
      /\ e.conv = turn[i].conv
      BY <1>1 DEF ChatTurn
<1>3. turn' = [turn EXCEPT ![i] = e]
      OBVIOUS
<1> HIDE DEF e
<1>4. /\ [turn EXCEPT ![i] = e] \in Seq(ChatTurn)
      /\ Len([turn EXCEPT ![i] = e]) = Len(turn)
      /\ \A j \in 1..Len(turn) : [turn EXCEPT ![i] = e][j] = IF j = i THEN e ELSE turn[j]
      BY <1>1, <1>2, ExceptSeq
<1>5. QED BY <1>1, <1>2, <1>3, <1>4

\* An open turn adds what it has to the last message.
LEMMA AddsKeeps ==
  ASSUME ChatInv, NEW i \in DOMAIN turn, turn[i].step = "open", Seen(i),
         NEW from \in {{}, {i}}, NEW e, NEW ns,
         messages[turn[i].tab] = <<>> => ns = messages[turn[i].tab],
         messages[turn[i].tab] # <<>> =>
           /\ Longer(Last(messages[turn[i].tab]), e, from)
           /\ ns = WithLast(messages[turn[i].tab], e),
         Shows(turn[i].tab, shown[turn[i].tab], ns),
         TabTypes', turn' \in Seq(ChatTurn), Len(turn') = Len(turn),
         \A j \in DOMAIN turn :
           \/ turn'[j] = turn[j]
           \/ /\ turn'[j].step \notin {"sent", "open"}
              /\ turn'[j].tab = turn[j].tab /\ turn'[j].mount = turn[j].mount
              /\ turn'[j].conv = turn[j].conv,
         UNCHANGED <<known, stream, address, mount, crossed>>
  PROVE  ChatInv' /\ StoredIsKept
<1>1. messages[turn[i].tab] \in Seq(Message)
      <2>1. ChatInv /\ turn \in Seq(ChatTurn)
            BY DEF ChatInv, ChatTypes, TurnTypes
      <2>2. turn[i] \in ChatTurn
            BY <2>1
      <2>3. QED BY <2>1, <2>2 DEF ChatTurn, ChatInv, ChatTypes, ShownTypes
<1>2. Adds(messages[turn[i].tab], ns, from)
      BY <1>1, LastBecomesDoes
<1>3. QED BY <1>2, AnswerKeeps

\* Everything the tabs and the server do keeps the chat's invariant, and what
\* is stored.
LEMMA ChatSteps ==
  ASSUME ChatInv, [ChatClientNext]_chatClientVars
  PROVE  ChatInv' /\ StoredIsKept
<1>1. ChatInv /\ TurnTypes /\ TabTypes /\ ShownTypes
      BY DEF ChatInv, ChatTypes
<1>2. /\ turn \in Seq(ChatTurn) /\ \A i \in DOMAIN turn : turn[i] \in ChatTurn
      BY <1>1 DEF TurnTypes
<1>3. ASSUME NEW b \in Tabs, Compose(b) \/ Suggest(b)
      PROVE  ChatInv' /\ StoredIsKept
      <2>1. "text" \in Composers /\ "suggestion" \in Composers
            BY DEF Composers
      <2>2. composer' \in [Tabs -> Composers]
            BY <1>1, <1>3, <2>1 DEF TabTypes, Compose, Suggest
      <2>3. UNCHANGED <<turn, known, shown, messages, streaming, stream, address, mount, sidebar,
                        stored, listed, trips, crossed, shared>>
            BY <1>3 DEF Compose, Suggest
      <2>4. LateTypes'
            <3>1. LateTypes /\ known' = known
                  BY <1>1, <2>3 DEF TabTypes
            <3>2. CASE late' = late
                  BY <2>3, <3>1, <3>2, LateSame
            <3>3. CASE late' = [late EXCEPT ![b] = Append(late[b], shown[b])]
                  <4>1. shown[b] \in {NoConv} \cup Convs /\ shown[b] <= known
                        BY <1>1 DEF ChatInv, ChatTypes, ShownTypes, ListInv
                  <4>2. PICK q : q = Append(late[b], shown[b])
                        OBVIOUS
                  <4>3. /\ q \in Seq({NoConv} \cup Convs)
                        /\ \A k \in DOMAIN q : q[k] <= known
                        BY <3>1, <4>1, <4>2, LateQueues
                  <4>4. QED BY <3>1, <3>3, <4>2, <4>3, LateChanges
            <3>4. late' = late \/ late' = [late EXCEPT ![b] = Append(late[b], shown[b])]
                  <4>1. [late EXCEPT ![b] = late[b]] = late
                        BY <3>1 DEF LateTypes
                  <4>2. CASE Suggest(b)
                        BY <4>1, <4>2 DEF Suggest
                  <4>3. CASE Compose(b)
                        BY <4>3 DEF Compose
                  <4>4. QED BY <1>3, <4>2, <4>3
            <3>5. QED BY <3>2, <3>3, <3>4
      <2>5. TabTypes'
            BY <1>1, <2>2, <2>3, <2>4 DEF TabTypes
      <2>6. turn' \in Seq(ChatTurn) /\ Len(turn') = Len(turn)
            BY <1>2, <2>3
      <2>7. QED BY <1>1, <2>3, <2>5, <2>6, EndsKeep
<1>4. ASSUME NEW b \in Tabs, Send(b) \/ SuggestionFires(b)
      PROVE  ChatInv' /\ StoredIsKept
      <2>1. LateTypes /\ shown[b] \in {NoConv} \cup Convs /\ shown[b] <= known
            BY <1>1 DEF ChatInv, ChatTypes, TabTypes, ShownTypes, ListInv
      <2>2. CASE Send(b)
            <3>1. /\ Here(b) /\ SendMessage(b, shown[b]) /\ crossed' = crossed
                  /\ UNCHANGED <<known, address, mount, trips, late>>
                  BY <2>2 DEF Send
            <3>2. LateTypes'
                  BY <2>1, <3>1, LateSame
            <3>3. QED BY <1>1, <2>1, <3>1, <3>2, SendKeeps
      <2>3. CASE SuggestionFires(b)
            <3>1. /\ late[b] # <<>> /\ Here(b)
                  /\ late' = [late EXCEPT ![b] = Tail(late[b])]
                  /\ SendMessage(b, Head(late[b]))
                  /\ crossed' = IF Head(late[b]) = shown[b] THEN crossed
                                ELSE crossed \cup {Len(turn) + 1}
                  /\ UNCHANGED <<known, address, mount, trips>>
                  BY <2>3 DEF SuggestionFires
            <3>2. PICK c, q : c = Head(late[b]) /\ q = Tail(late[b])
                  OBVIOUS
            <3>3. /\ c \in {NoConv} \cup Convs /\ c <= known
                  /\ q \in Seq({NoConv} \cup Convs) /\ \A k \in DOMAIN q : q[k] <= known
                  BY <2>1, <3>1, <3>2, LateQueues
            <3>4. LateTypes'
                  BY <2>1, <3>1, <3>2, <3>3, LateChanges
            <3>5. QED BY <1>1, <3>1, <3>2, <3>3, <3>4, SendKeeps
      <2>4. QED BY <1>4, <2>2, <2>3
<1>5. ASSUME NEW i \in DOMAIN turn, Token(i)
      PROVE  ChatInv' /\ StoredIsKept
      <2> DEFINE b == turn[i].tab
                 e == [Last(messages[b]) EXCEPT !.from = @ \cup {i},
                                               !.cursor = Last(messages[b]).cursor]
      <2>1. /\ turn[i].step = "open" /\ Seen(i) /\ messages[b] # <<>>
            /\ Shows(b, shown[b], LastBecomes(messages[b], {i}, Last(messages[b]).cursor))
            /\ UNCHANGED <<turn, known, streaming, stream, address, mount, composer, late, trips,
                           crossed>>
            BY <1>5 DEF Token
      <2>2. LastBecomes(messages[b], {i}, Last(messages[b]).cursor)
              = IF messages[b] = <<>> THEN messages[b] ELSE WithLast(messages[b], e)
            BY DEF LastBecomes, WithLast
      <2>3. Longer(Last(messages[b]), e, {i})
            <3>1. turn[i] \in ChatTurn
                  BY <1>2, <1>5
            <3>2. b \in Tabs
                  BY <3>1 DEF ChatTurn
            <3>3. messages[b] \in Seq(Message)
                  BY <1>1, <3>2 DEF ShownTypes
            <3>4. Last(messages[b]) \in Message
                  BY <2>1, <3>3 DEF Last
            <3>5. i \in 1..MaxTurns
                  BY <1>1, <1>5, ChatClientAssumption DEF TurnTypes
            <3>6. QED BY <3>4, <3>5 DEF Message, Longer
      <2> HIDE DEF e
      <2>4. PICK ns : ns = WithLast(messages[b], e) /\ Shows(b, shown[b], ns)
            BY <2>1, <2>2
      <2>5. TabTypes' /\ turn' \in Seq(ChatTurn) /\ Len(turn') = Len(turn) /\ turn' = turn
            BY <1>1, <1>2, <2>1, LateSame DEF TabTypes
      <2>6. UNCHANGED <<known, stream, address, mount, crossed>> /\ {i} \in {{}, {i}}
            BY <2>1
      <2>7. QED BY <1>1, <1>5, <2>1, <2>3, <2>4, <2>5, <2>6, AddsKeeps
<1>6. ASSUME NEW i \in DOMAIN turn, Done(i)
      PROVE  ChatInv' /\ StoredIsKept
      <2> DEFINE b == turn[i].tab
                 e == [Last(messages[b]) EXCEPT !.from = @ \cup {}, !.cursor = FALSE]
      <2>1. /\ turn[i].step = "open"
            /\ turn' = [turn EXCEPT ![i].step = "ended"]
            /\ UNCHANGED <<known, stream, address, mount, composer, late, trips, crossed>>
            BY <1>6 DEF Done
      <2>2. "ended" \in TurnSteps /\ "ended" \notin {"sent", "open"}
            BY DEF TurnSteps
      <2>3. /\ turn' \in Seq(ChatTurn) /\ Len(turn') = Len(turn)
            /\ \A j \in DOMAIN turn :
                 \/ turn'[j] = turn[j]
                 \/ /\ turn'[j].step \notin {"sent", "open"}
                    /\ turn'[j].tab = turn[j].tab /\ turn'[j].mount = turn[j].mount
                    /\ turn'[j].conv = turn[j].conv
            BY <1>2, <1>6, <2>1, <2>2, StepDoes
      <2>4. TabTypes'
            BY <1>1, <1>6, <2>1, LateSame DEF Done, TabTypes
      <2>5. CASE ~Seen(i)
            BY <1>1, <1>6, <2>1, <2>3, <2>4, <2>5, EndsKeep DEF Done
      <2>6. CASE Seen(i)
            <3>1. Shows(b, shown[b], LastBecomes(messages[b], {}, FALSE))
                  BY <1>6, <2>6 DEF Done
            <3>2. LastBecomes(messages[b], {}, FALSE)
                    = IF messages[b] = <<>> THEN messages[b] ELSE WithLast(messages[b], e)
                  BY DEF LastBecomes, WithLast
            <3>3. messages[b] # <<>> => Longer(Last(messages[b]), e, {})
                  <4>1. turn[i] \in ChatTurn
                        BY <1>2, <1>6
                  <4>2. b \in Tabs
                        BY <4>1 DEF ChatTurn
                  <4>3. messages[b] \in Seq(Message)
                        BY <1>1, <4>2 DEF ShownTypes
                  <4>4. messages[b] # <<>> => Last(messages[b]) \in Message
                        BY <4>3 DEF Last
                  <4>5. QED BY <4>4 DEF Message, Longer
            <3> HIDE DEF e
            <3>4. PICK ns : /\ messages[b] = <<>> => ns = messages[b]
                            /\ messages[b] # <<>> => ns = WithLast(messages[b], e)
                            /\ Shows(b, shown[b], ns)
                  BY <3>1, <3>2
            <3>5. QED BY <1>1, <1>6, <2>1, <2>3, <2>4, <2>6, <3>3, <3>4, AddsKeeps
      <2>7. QED BY <2>5, <2>6
<1>7. ASSUME NEW i \in DOMAIN turn, SendFails(i)
      PROVE  ChatInv' /\ StoredIsKept
      <2>1. PICK s \in {"refused", "failed"} : turn' = [turn EXCEPT ![i].step = s]
            BY <1>7 DEF SendFails
      <2>2. s \in TurnSteps /\ s \notin {"sent", "open"}
            BY <2>1 DEF TurnSteps
      <2>3. /\ turn' \in Seq(ChatTurn) /\ Len(turn') = Len(turn)
            /\ \A j \in DOMAIN turn :
                 \/ turn'[j] = turn[j]
                 \/ /\ turn'[j].step \notin {"sent", "open"}
                    /\ turn'[j].tab = turn[j].tab /\ turn'[j].mount = turn[j].mount
                    /\ turn'[j].conv = turn[j].conv
            BY <1>2, <1>7, <2>1, <2>2, StepDoes
      <2>4. UNCHANGED <<known, shown, messages, stream, address, mount, composer, late, sidebar, stored,
                        listed, trips, crossed, shared>>
            BY <1>7 DEF SendFails
      <2>5. TabTypes'
            BY <1>1, <1>7, <2>4, LateSame DEF SendFails, TabTypes
      <2>6. QED BY <1>1, <2>3, <2>4, <2>5, EndsKeep
<1>8. CASE UNCHANGED chatClientVars
      <2>1. UNCHANGED <<turn, known, shown, messages, stream, address, mount, composer, streaming,
                        late, sidebar, stored, listed, trips, crossed, shared>>
            BY <1>8 DEF chatClientVars
      <2>2. TabTypes' /\ turn' \in Seq(ChatTurn) /\ Len(turn') = Len(turn)
            BY <1>1, <1>2, <2>1, LateSame DEF TabTypes
      <2>3. QED BY <1>1, <2>1, <2>2, EndsKeep
<1>9. QED BY <1>1, <1>3, <1>4, <1>5, <1>6, <1>7, <1>8, MetaKeeps, NewChatKeeps, OpenKeeps,
             LeaveKeeps, EnterKeeps DEF ChatClientNext, ChatUser, ChatNet

\* The chat before anything was asked.
LEMMA ChatStarts == ChatClientInit => ChatInv
<1> SUFFICES ASSUME ChatClientInit PROVE ChatInv
    OBVIOUS
<1>0. /\ turn = <<>> /\ known = 0
      /\ shown = [b \in Tabs |-> NoConv] /\ messages = [b \in Tabs |-> <<>>]
      /\ streaming = [b \in Tabs |-> FALSE] /\ stream = [b \in Tabs |-> 0]
      /\ address = [b \in Tabs |-> NoConv] /\ mount = [b \in Tabs |-> 0]
      /\ late = [b \in Tabs |-> <<>>]
      /\ sidebar = [b \in Tabs |-> {}] /\ stored = [c \in Convs |-> <<>>] /\ listed = {}
      /\ trips = 0 /\ crossed = {} /\ shared = {}
      BY Zenon DEF ChatClientInit
<1>00. composer \in [Tabs -> Composers]
      BY DEF ChatClientInit, Composers
<1> HIDE DEF ChatClientInit
<1>1. TurnTypes
      <2>1. <<>> \in Seq(ChatTurn) /\ Len(<<>>) = 0 /\ DOMAIN <<>> = {}
            OBVIOUS
      <2>2. Named = {}
            BY <1>0, <2>1 DEF Named
      <2>3. QED BY <1>0, <2>1, <2>2, FS_EmptySet, ChatClientAssumption DEF TurnTypes
<1>2. TabTypes
      <2>1. <<>> \in Seq({NoConv} \cup Convs) /\ DOMAIN <<>> = {}
            OBVIOUS
      <2>2. LateTypes
            BY <1>0, <2>1 DEF LateTypes
      <2>3. QED BY <1>0, <1>00, <2>2, ChatClientAssumption DEF TabTypes
<1>3. ShownTypes
      <2>1. <<>> \in Seq(Message)
            OBVIOUS
      <2>2. QED BY <1>0, <2>1 DEF ShownTypes
<1>4. ListInv
      BY <1>0 DEF ListInv, NoConv
<1>5. TurnsInv /\ SourcesInv /\ PlacesInv
      BY <1>0 DEF TurnsInv, SourcesInv, OwnAnswers, PlacesInv, TurnsOf
<1>6. CoverInv
      BY <1>0 DEF CoverInv, NoConv, Convs
<1>7. QED BY <1>1, <1>2, <1>3, <1>4, <1>5, <1>6 DEF ChatInv, ChatTypes

\* The invariant says what is promised of the storage.
LEMMA ChatBelongs == ChatInv => StoredBelongs
BY DEF ChatInv, SourcesInv, OwnAnswers, PlacesInv, TurnsOf, StoredBelongs
-----------------------------------------------------------------------------
\* What the browser stores under a conversation is that conversation's, each
\* answer its own, and no turn of it is forgotten again: unless the user opened
\* another conversation under a running answer, or two tabs showed the same.
THEOREM ChatStaysKept == Spec => ChatIsKept
<1>1. Init => ChatInv
      BY ChatStarts DEF Init
<1>2. ChatInv /\ [Next]_webVars => ChatInv' /\ [StoredBelongs' /\ StoredIsKept]_chatClientVars
      <2> SUFFICES ASSUME ChatInv, [Next]_webVars
                   PROVE  ChatInv' /\ [StoredBelongs' /\ StoredIsKept]_chatClientVars
          OBVIOUS
      <2>1. ChatClientNext \/ UNCHANGED chatClientVars
            BY DEF Next, webVars, ScreensMove, WritesMove, ChatMoves, SessionMoves, TodayMoves,
                   FeedMoves
      <2>2. ChatInv' /\ StoredIsKept
            BY <2>1, ChatSteps
      <2>3. StoredBelongs'
            BY <2>2, ChatBelongs, PTL
      <2>4. QED BY <2>2, <2>3
<1>3. ChatInv => StoredBelongs
      BY ChatBelongs
<1>4. QED BY <1>1, <1>2, <1>3, PTL DEF Spec, ChatIsKept
-----------------------------------------------------------------------------
(* The handlers that write.                                                *)

\* What every handler's record has: a text's button is held by a flag, only
\* today's page and the sources' leave their key alone, and a flag that a failure
\* alone gives back is of a page that success leaves.
Sound(p, op) ==
  /\ op.guard \in {"none", "flag", "item", "both"} /\ op.leaves \in BOOLEAN
  /\ op.frees \in {"always", "failure", "success"}
  /\ op.then \in {"fetch", "local", "state", "nothing"}
  /\ op.then \in {"local", "state"} => op.guard \in {"flag", "both"}
  /\ op.then = "nothing" => p \in {"today", "sources"}
  /\ op.writes = "nothing" => op.then = "fetch"
  /\ op.frees = "failure" => op.leaves
  /\ op.frees = "success" => p = "email"
  /\ op.guard = "item" => op.frees = "always"

SoundOp(p, o) ==
  /\ Sound(p, Pages[p][o])
  /\ Pages[p][o].then \in {"local", "state"} =>
       \A q \in DOMAIN Pages[p] : Pages[p][q].writes = Pages[p][o].writes => q = o

\* Every handler is sound in this sense.
LEMMA OpsAreSound == \A p \in DOMAIN Pages : \A o \in DOMAIN Pages[p] : SoundOp(p, o)
<1>1. DOMAIN Pages = {
        "today", "search", "watchlist", "themes", "company", "trend", "expiry",
        "patent", "post", "signals", "runs", "sources", "admin", "account", "billing",
        "preferences", "email", "webhooks", "topic"}
      BY DEF Pages
<1>2. \A o \in DOMAIN Pages["today"] : SoundOp("today", o)
      <2>1. /\ Sound("today", MarkSeen) /\ MarkSeen.then = "nothing" /\ MarkSeen.writes = "state"
            BY DEF Sound, Op, MarkSeen
      <2>2. QED BY <2>1 DEF Pages, SoundOp
<1>3. \A o \in DOMAIN Pages["search"] : SoundOp("search", o)
      <2>1. /\ Sound("search", SaveSearch) /\ SaveSearch.then = "fetch" /\ SaveSearch.writes = "searches"
            /\ Sound("search", DeleteSaved) /\ DeleteSaved.then = "fetch" /\ DeleteSaved.writes = "searches"
            /\ Sound("search", ToggleSave) /\ ToggleSave.then = "fetch" /\ ToggleSave.writes = "watchlist"
            BY DEF Sound, Op, SaveSearch, DeleteSaved, ToggleSave
      <2>2. QED BY <2>1 DEF Pages, SoundOp
<1>4. \A o \in DOMAIN Pages["watchlist"] : SoundOp("watchlist", o)
      <2>1. /\ Sound("watchlist", RemovePatent) /\ RemovePatent.then = "fetch" /\ RemovePatent.writes = "watchlist"
            /\ Sound("watchlist", RemoveSearch) /\ RemoveSearch.then = "fetch" /\ RemoveSearch.writes = "searches"
            BY DEF Sound, Op, RemovePatent, RemoveSearch
      <2>2. QED BY <2>1 DEF Pages, SoundOp
<1>5. \A o \in DOMAIN Pages["themes"] : SoundOp("themes", o)
      <2>1. /\ Sound("themes", CreateTopic) /\ CreateTopic.then = "fetch" /\ CreateTopic.writes = "themes"
            /\ Sound("themes", DeleteTopic) /\ DeleteTopic.then = "fetch" /\ DeleteTopic.writes = "themes"
            /\ Sound("themes", FollowTopic) /\ FollowTopic.then = "fetch" /\ FollowTopic.writes = "themes"
            /\ Sound("themes", UnfollowTopic) /\ UnfollowTopic.then = "fetch" /\ UnfollowTopic.writes = "themes"
            /\ Sound("themes", StartTopic) /\ StartTopic.then = "fetch" /\ StartTopic.writes = "themes"
            BY DEF Sound, Op, CreateTopic, DeleteTopic, FollowTopic, UnfollowTopic, StartTopic
      <2>2. QED BY <2>1 DEF Pages, SoundOp
<1>6. \A o \in DOMAIN Pages["company"] : SoundOp("company", o)
      <2>1. /\ Sound("company", FollowCompany) /\ FollowCompany.then = "fetch" /\ FollowCompany.writes = "follow"
            BY DEF Sound, Op, FollowCompany
      <2>2. QED BY <2>1 DEF Pages, SoundOp
<1>7. \A o \in DOMAIN Pages["trend"] : SoundOp("trend", o)
      <2>1. /\ Sound("trend", TrendNarrative) /\ TrendNarrative.then = "local" /\ TrendNarrative.writes = "narrative"
            BY DEF Sound, Op, TrendNarrative
      <2>2. QED BY <2>1 DEF Pages, SoundOp
<1>8. \A o \in DOMAIN Pages["expiry"] : SoundOp("expiry", o)
      <2>1. /\ Sound("expiry", RadarSave) /\ RadarSave.then = "fetch" /\ RadarSave.writes = "watchlist"
            /\ Sound("expiry", Export) /\ Export.then = "fetch" /\ Export.writes = "nothing"
            BY DEF Sound, Op, RadarSave, Export
      <2>2. QED BY <2>1 DEF Pages, SoundOp
<1>9. \A o \in DOMAIN Pages["patent"] : SoundOp("patent", o)
      <2>1. /\ Sound("patent", WhyNow) /\ WhyNow.then = "state" /\ WhyNow.writes = "whyNow"
            /\ Sound("patent", Narrative) /\ Narrative.then = "state" /\ Narrative.writes = "opportunity"
            /\ Sound("patent", TrendSnapshot) /\ TrendSnapshot.then = "state" /\ TrendSnapshot.writes = "snapshot"
            /\ Sound("patent", Assignee) /\ Assignee.then = "state" /\ Assignee.writes = "assignee"
            /\ Sound("patent", WatchPatent) /\ WatchPatent.then = "fetch" /\ WatchPatent.writes = "watching"
            BY DEF Sound, Op, WhyNow, Narrative, TrendSnapshot, Assignee, WatchPatent
      <2>2. QED BY <2>1 DEF Pages, SoundOp
<1>10. \A o \in DOMAIN Pages["post"] : SoundOp("post", o)
      <2>1. /\ Sound("post", LinkedIn) /\ LinkedIn.then = "state" /\ LinkedIn.writes = "post"
            BY DEF Sound, Op, LinkedIn
      <2>2. QED BY <2>1 DEF Pages, SoundOp
<1>11. \A o \in DOMAIN Pages["signals"] : SoundOp("signals", o)
      <2>1. /\ Sound("signals", UsageStory) /\ UsageStory.then = "state" /\ UsageStory.writes = "story"
            BY DEF Sound, Op, UsageStory
      <2>2. QED BY <2>1 DEF Pages, SoundOp
<1>12. \A o \in DOMAIN Pages["runs"] : SoundOp("runs", o)
      <2>1. /\ Sound("runs", Estimate) /\ Estimate.then = "fetch" /\ Estimate.writes = "nothing"
            /\ Sound("runs", Run) /\ Run.then = "fetch" /\ Run.writes = "history"
            BY DEF Sound, Op, Estimate, Run
      <2>2. QED BY <2>1 DEF Pages, SoundOp
<1>13. \A o \in DOMAIN Pages["sources"] : SoundOp("sources", o)
      <2>1. /\ Sound("sources", RetryIngest) /\ RetryIngest.then = "nothing" /\ RetryIngest.writes = "fetches"
            BY DEF Sound, Op, RetryIngest
      <2>2. QED BY <2>1 DEF Pages, SoundOp
<1>14. \A o \in DOMAIN Pages["admin"] : SoundOp("admin", o)
      <2>1. /\ Sound("admin", OverrideTier) /\ OverrideTier.then = "fetch" /\ OverrideTier.writes = "users"
            BY DEF Sound, Op, OverrideTier
      <2>2. QED BY <2>1 DEF Pages, SoundOp
<1>15. \A o \in DOMAIN Pages["account"] : SoundOp("account", o)
      <2>1. /\ Sound("account", PauseSub) /\ PauseSub.then = "fetch" /\ PauseSub.writes = "subs"
            /\ Sound("account", SwitchSub) /\ SwitchSub.then = "fetch" /\ SwitchSub.writes = "subs"
            /\ Sound("account", DeleteSub) /\ DeleteSub.then = "fetch" /\ DeleteSub.writes = "subs"
            /\ Sound("account", DeleteAccount) /\ DeleteAccount.then = "fetch" /\ DeleteAccount.writes = "nothing"
            BY DEF Sound, Op, PauseSub, SwitchSub, DeleteSub, DeleteAccount
      <2>2. QED BY <2>1 DEF Pages, SoundOp
<1>16. \A o \in DOMAIN Pages["billing"] : SoundOp("billing", o)
      <2>1. /\ Sound("billing", Checkout) /\ Checkout.then = "fetch" /\ Checkout.writes = "nothing"
            /\ Sound("billing", Portal) /\ Portal.then = "fetch" /\ Portal.writes = "nothing"
            BY DEF Sound, Op, Checkout, Portal
      <2>2. QED BY <2>1 DEF Pages, SoundOp
<1>17. \A o \in DOMAIN Pages["preferences"] : SoundOp("preferences", o)
      <2>1. /\ Sound("preferences", SavePreferences) /\ SavePreferences.then = "local" /\ SavePreferences.writes = "preferences"
            BY DEF Sound, Op, SavePreferences
      <2>2. QED BY <2>1 DEF Pages, SoundOp
<1>18. \A o \in DOMAIN Pages["email"] : SoundOp("email", o)
      <2>1. /\ Sound("email", ToggleEmail) /\ ToggleEmail.then = "local" /\ ToggleEmail.writes = "email"
            BY DEF Sound, Op, ToggleEmail
      <2>2. QED BY <2>1 DEF Pages, SoundOp
<1>19. \A o \in DOMAIN Pages["webhooks"] : SoundOp("webhooks", o)
      <2>1. /\ Sound("webhooks", SaveWebhook) /\ SaveWebhook.then = "fetch" /\ SaveWebhook.writes = "webhook"
            /\ Sound("webhooks", TestWebhook) /\ TestWebhook.then = "fetch" /\ TestWebhook.writes = "nothing"
            BY DEF Sound, Op, SaveWebhook, TestWebhook
      <2>2. QED BY <2>1 DEF Pages, SoundOp
<1>20. \A o \in DOMAIN Pages["topic"] : SoundOp("topic", o)
      <2>1. /\ Sound("topic", Subscribe) /\ Subscribe.then = "fetch" /\ Subscribe.writes = "subs"
            /\ Sound("topic", PauseTopicSub) /\ PauseTopicSub.then = "fetch" /\ PauseTopicSub.writes = "subs"
            /\ Sound("topic", SwitchTopicSub) /\ SwitchTopicSub.then = "fetch" /\ SwitchTopicSub.writes = "subs"
            /\ Sound("topic", LeaveTopicSub) /\ LeaveTopicSub.then = "fetch" /\ LeaveTopicSub.writes = "subs"
            BY DEF Sound, Op, Subscribe, PauseTopicSub, SwitchTopicSub, LeaveTopicSub
      <2>2. QED BY <2>1 DEF Pages, SoundOp
<1>21. QED BY <1>1, <1>2, <1>3, <1>4, <1>5, <1>6, <1>7, <1>8, <1>9, <1>10, <1>11, <1>12, <1>13, <1>14, <1>15, <1>16, <1>17, <1>18, <1>19, <1>20
-----------------------------------------------------------------------------
\* A call that was made, and the operation that made it.
Call == [op: used, item: Items, visit: 0..MaxVisits, step: Steps, wrote: Nat]
By(i) == Ops[call[i].op]
Texts == {"state", "local"}

\* The types, with the calls of the page as it is or was.
CallTypes ==
  /\ page \in DOMAIN Pages /\ used \subseteq DOMAIN Pages[page]
  /\ here \in BOOLEAN /\ visits \in 0..MaxVisits
  /\ call \in Seq(Call) /\ Len(call) <= Bound
  /\ \A i \in DOMAIN call : /\ call[i].visit <= visits
                            /\ By(i).guard # "item" => call[i].item = 1
  /\ busy \in [used -> {Free} \cup Items]
  /\ \A o \in used : Ops[o].guard = "none" => busy[o] = Free
PageTypes ==
  /\ outside \in 0..MaxOutside /\ typing \in 0..MaxTyping
  /\ form \in {"blank", "synced", "edited"} /\ estimate \in {"none", "fits", "stale"}
  /\ past \subseteq Marks

\* The versions: what is cached or fetched is no newer than what the server has,
\* and a fetch under way began with no older one than is cached.  The server
\* has as many versions as were written.
Committed == {i \in DOMAIN call : call[i].step \notin {"sent", "refused"}}
VersionsInv ==
  /\ srv \in [Resources -> Nat]
  /\ cache \in [Resources -> {None} \cup Nat] /\ since \in [Resources -> {None} \cup Nat]
  /\ \A r \in Resources :
       /\ cache[r] <= srv[r] /\ since[r] <= srv[r]
       /\ since[r] # None => cache[r] <= since[r]
       /\ \A i \in DOMAIN call : By(i).writes = r => call[i].wrote <= srv[r]
       /\ srv[r] <= Cardinality(Committed) + outside

\* A version nobody else wrote is of a call, and of one that was committed.
WrittenInv ==
  /\ \A i \in DOMAIN call : call[i].step = "sent" \/ By(i).writes = "nothing" => call[i].wrote = 0
  /\ outside = 0 => \A r \in Resources : \A v \in 1..srv[r] : \E i \in DOMAIN call : call[i].wrote = v

\* A call under way holds its button, until another item's takes the flag.
HeldInv ==
  \A i \in InFlight : call[i].visit = visits =>
    /\ By(i).guard \in {"flag", "both"} => busy[call[i].op] # Free
    /\ By(i).guard = "item" /\ "stepped" \notin past => busy[call[i].op] = call[i].item

\* What is edited was there, and what is stale was typed over.
FormInv ==
  /\ form = "edited" => \A r \in Resources : cache[r] # None
  /\ estimate = "stale" \/ "typedSince" \in past => typing > 0

\* The exceptions of QuietPagesAgree, and what holds without them: texts are
\* those of the last write, and the page has what the server has, or a fetch
\* that will bring it, or a call that will start one or bring it itself.
Excused(r) ==
  \/ "failed" \in past \/ outside > 0 \/ page \in {"today", "sources"}
  \/ \E i \in DOMAIN call : call[i].visit # visits /\ By(i).then \in Texts /\ By(i).writes = r
Owed(r) == \E i \in DOMAIN call : call[i].step = "done" /\ By(i).writes = r
LastText(r) ==
  \A i \in DOMAIN call :
    call[i].step = "done" /\ By(i).writes = r /\ By(i).then \in Texts => call[i].wrote = srv[r]
Brought(r) ==
  \/ Owed(r) \/ since[r] = srv[r] \/ (since[r] = None /\ cache[r] = srv[r])
  \/ /\ ~here
     /\ \/ since[r] = None
        \/ \E i \in DOMAIN call : By(i).writes = r /\ By(i).then \in Texts
QuietInv == \A r \in Resources : ~Excused(r) => LastText(r) /\ Brought(r)

\* The form and what happened to it.
FormsInv == PageTypes /\ FormInv /\ EditsSurvive /\ RunsAreEstimated

WritesInv ==
  /\ CallTypes /\ HeldInv /\ BusyMeansCalling /\ OneCallAtATime
  /\ VersionsInv /\ WrittenInv /\ QuietInv /\ FormsInv
-----------------------------------------------------------------------------
\* The operations of the page are among those, and so are the calls'.
LEMMA CallsOps ==
  ASSUME CallTypes
  PROVE  /\ \A o \in used : SoundOp(page, o) /\ o \in DOMAIN Ops
         /\ \A i \in DOMAIN call : call[i] \in Call /\ call[i].op \in used /\ call[i].item \in Items
                                   /\ call[i].visit \in 0..visits /\ call[i].step \in Steps
                                   /\ call[i].wrote \in Nat
         /\ DOMAIN call = 1..Len(call) /\ Len(call) \in Nat
<1>1. \A o \in used : SoundOp(page, o) /\ o \in DOMAIN Ops
      BY OpsAreSound DEF CallTypes, Ops
<1>2. call \in Seq(Call) /\ visits \in 0..MaxVisits /\ \A i \in DOMAIN call : call[i].visit <= visits
      BY DEF CallTypes
<1>3. DOMAIN call = 1..Len(call) /\ Len(call) \in Nat
      BY <1>2
<1>4. ASSUME NEW i \in DOMAIN call
      PROVE  /\ call[i] \in Call /\ call[i].op \in used /\ call[i].item \in Items
             /\ call[i].visit \in 0..visits /\ call[i].step \in Steps /\ call[i].wrote \in Nat
      <2>1. call[i] \in Call
            BY <1>2, <1>4
      <2>2. /\ call[i].op \in used /\ call[i].item \in Items /\ call[i].visit \in 0..MaxVisits
            /\ call[i].step \in Steps /\ call[i].wrote \in Nat
            BY <2>1 DEF Call
      <2>3. QED BY <1>2, <1>4, <2>1, <2>2, WritesAssumption
<1>5. QED BY <1>1, <1>3, <1>4

\* What a call's operation may be.
LEMMA CallsSound ==
  ASSUME CallTypes, NEW i \in DOMAIN call
  PROVE  /\ By(i).guard \in {"none", "flag", "item", "both"} /\ By(i).leaves \in BOOLEAN
         /\ By(i).frees \in {"always", "failure", "success"}
         /\ By(i).then \in {"fetch", "local", "state", "nothing"}
         /\ By(i).then \in Texts => By(i).guard \in {"flag", "both"}
         /\ By(i).then = "nothing" => page \in {"today", "sources"}
         /\ By(i).writes = "nothing" => By(i).then = "fetch"
         /\ By(i).frees = "failure" => By(i).leaves
         /\ By(i).frees = "success" => page = "email"
         /\ By(i).guard = "item" => By(i).frees = "always"
         /\ By(i).writes # "nothing" => By(i).writes \in Resources
         /\ By(i).then \in Texts =>
              \A j \in DOMAIN call : By(j).writes = By(i).writes => call[j].op = call[i].op
<1>1. call[i].op \in used /\ SoundOp(page, call[i].op)
      BY CallsOps
<1>2. Sound(page, By(i))
      BY <1>1 DEF SoundOp, By, Ops
<1>3. By(i).writes # "nothing" => By(i).writes \in Resources
      BY <1>1 DEF By, Resources
<1>4. ASSUME By(i).then \in Texts, NEW j \in DOMAIN call, By(j).writes = By(i).writes
      PROVE  call[j].op = call[i].op
      <2>1. call[j].op \in DOMAIN Pages[page]
            BY CallsOps DEF Ops
      <2>2. QED BY <1>1, <1>4, <2>1 DEF SoundOp, By, Ops, Texts
<1>5. QED BY <1>2, <1>3, <1>4 DEF Sound, Texts

\* A call takes a step: nothing else of it changes but what it wrote.
LEMMA CallMoves ==
  ASSUME CallTypes, NEW i \in DOMAIN call, NEW s \in Steps, NEW w \in Nat, used' = used,
         call' = [call EXCEPT ![i].step = s, ![i].wrote = w]
  PROVE  /\ call' \in Seq(Call) /\ Len(call') = Len(call) /\ DOMAIN call' = DOMAIN call
         /\ \A j \in DOMAIN call : /\ call'[j].op = call[j].op /\ call'[j].item = call[j].item
                                   /\ call'[j].visit = call[j].visit
                                   /\ j # i => call'[j] = call[j]
         /\ call'[i].step = s /\ call'[i].wrote = w
<1> DEFINE e == [call[i] EXCEPT !.step = s, !.wrote = w]
<1>1. call \in Seq(Call) /\ i \in 1..Len(call) /\ call[i] \in Call /\ DOMAIN call = 1..Len(call)
      BY CallsOps DEF CallTypes
<1>2. e \in Call /\ e.op = call[i].op /\ e.item = call[i].item /\ e.visit = call[i].visit
      /\ e.step = s /\ e.wrote = w
      BY <1>1 DEF Call
<1>3. call' = [call EXCEPT ![i] = e]
      BY <1>1
<1> HIDE DEF e
<1>4. /\ [call EXCEPT ![i] = e] \in Seq(Call) /\ Len([call EXCEPT ![i] = e]) = Len(call)
      /\ \A j \in 1..Len(call) : [call EXCEPT ![i] = e][j] = IF j = i THEN e ELSE call[j]
      BY <1>1, <1>2, ExceptSeq
<1>5. call' \in Seq(Call) /\ Len(call') = Len(call)
      BY <1>3, <1>4
<1>6. DOMAIN call' = DOMAIN call
      BY <1>1, <1>5
<1>7. QED BY <1>1, <1>2, <1>3, <1>4, <1>5, <1>6

\* A call is appended.
LEMMA CallComes ==
  ASSUME CallTypes, NEW e \in Call, call' = Append(call, e), used' = used
  PROVE  /\ call' \in Seq(Call) /\ Len(call') = Len(call) + 1
         /\ DOMAIN call' = DOMAIN call \cup {Len(call) + 1} /\ Len(call) + 1 \notin DOMAIN call
         /\ \A j \in DOMAIN call : call'[j] = call[j]
         /\ call'[Len(call) + 1] = e
<1>1. call \in Seq(Call) /\ DOMAIN call = 1..Len(call) /\ Len(call) \in Nat
      BY CallsOps DEF CallTypes
<1>2. /\ Append(call, e) \in Seq(Call) /\ Len(Append(call, e)) = Len(call) + 1
      /\ \A j \in 1..Len(call) : Append(call, e)[j] = call[j]
      /\ Append(call, e)[Len(call) + 1] = e
      BY <1>1, AppendProperties
<1>3. call' \in Seq(Call) /\ Len(call') = Len(call) + 1
      BY <1>2
<1>4. DOMAIN call' = 1..Len(call) + 1
      BY <1>1, <1>3
<1>5. DOMAIN call' = DOMAIN call \cup {Len(call) + 1} /\ Len(call) + 1 \notin DOMAIN call
      BY <1>1, <1>4
<1>6. QED BY <1>1, <1>2, <1>3, <1>5

\* The exceptions are for good.
LEMMA ExcusesStay ==
  ASSUME CallTypes, page' = page, visits' \in Nat, visits' >= visits, DOMAIN call \subseteq DOMAIN call',
         \A j \in DOMAIN call : call'[j].op = call[j].op /\ call'[j].visit = call[j].visit,
         "failed" \in past => "failed" \in past', outside > 0 => outside' > 0, NEW r, Excused(r)
  PROVE  Excused(r)'
<1>1. \A j \in DOMAIN call : By(j)' = By(j)
      BY DEF By, Ops
<1>2. \A j \in DOMAIN call : call[j].visit # visits => call'[j].visit # visits'
      <2>1. \A j \in DOMAIN call : call[j].visit \in 0..visits
            BY CallsOps
      <2>2. visits \in Nat
            BY WritesAssumption DEF CallTypes
      <2>3. QED BY <2>1, <2>2
<1>3. QED BY <1>1, <1>2 DEF Excused
-----------------------------------------------------------------------------
(* The buttons.                                                            *)
ButtonsInv == CallTypes /\ HeldInv /\ BusyMeansCalling /\ OneCallAtATime

\* Nothing is clicked, and no call comes to its end.
LEMMA ButtonsStay ==
  ASSUME ButtonsInv, page' = page, used' = used, visits' = visits, busy' = busy,
         here' \in BOOLEAN, here' => here, call' \in Seq(Call), Len(call') = Len(call),
         \A j \in DOMAIN call : /\ call'[j].op = call[j].op /\ call'[j].item = call[j].item
                                /\ call'[j].visit = call[j].visit,
         InFlight' = InFlight, "stepped" \in past => "stepped" \in past',
         "failed" \in past => "failed" \in past'
  PROVE  ButtonsInv'
<1> USE DEF ButtonsInv
<1>1. DOMAIN call' = DOMAIN call
      BY CallsOps
<1>2. \A j \in DOMAIN call : By(j)' = By(j)
      BY DEF By, Ops
<1>3. Bound' = Bound /\ Call' = Call
      BY DEF Bound, Ops, Call
<1>4. CallTypes'
      <2>1. \A j \in DOMAIN call' : /\ call'[j].visit <= visits'
                                    /\ By(j)'.guard # "item" => call'[j].item = 1
            BY <1>1, <1>2 DEF CallTypes
      <2>2. \A o \in used' : Ops'[o].guard = "none" => busy'[o] = Free
            BY DEF CallTypes, Ops
      <2>3. call' \in Seq(Call') /\ Len(call') <= Bound'
            BY <1>3 DEF CallTypes
      <2>4. QED BY <2>1, <2>2, <2>3 DEF CallTypes
<1>5. InFlight \subseteq DOMAIN call
      BY DEF InFlight
<1>6. HeldInv'
      BY <1>2, <1>5 DEF HeldInv
<1>7. BusyMeansCalling'
      BY <1>5 DEF BusyMeansCalling
<1>8. OneCallAtATime'
      BY <1>2, <1>5 DEF OneCallAtATime, By
<1>9. QED BY <1>4, <1>6, <1>7, <1>8

\* A call comes to its end: its button is free, or another item's call let it go.
LEMMA ButtonsFreed ==
  ASSUME ButtonsInv, page' = page, used' = used, visits' = visits, NEW i \in InFlight,
         NEW s \in {"answered", "refused", "lost"}, NEW on \in {"success", "failure"},
         Write(i, s), Frees(i, on), StepsOn(i) \subseteq past',
         "stepped" \in past => "stepped" \in past', "failed" \in past => "failed" \in past',
         on = "failure" => "failed" \in past' /\ here' = here,
         on = "success" => here' = (here /\ ~(By(i).leaves /\ call[i].visit = visits))
  PROVE  ButtonsInv'
<1> USE DEF ButtonsInv
<1>1. i \in DOMAIN call /\ InFlight \subseteq DOMAIN call /\ s \in Steps
      BY DEF InFlight, Steps
<1>2. call[i].wrote \in Nat /\ call' = [call EXCEPT ![i].step = s, ![i].wrote = call[i].wrote]
      BY <1>1, CallsOps DEF Write, CallTypes
<1>3. /\ call' \in Seq(Call) /\ Len(call') = Len(call) /\ DOMAIN call' = DOMAIN call
      /\ \A j \in DOMAIN call : /\ call'[j].op = call[j].op /\ call'[j].item = call[j].item
                                /\ call'[j].visit = call[j].visit
                                /\ j # i => call'[j] = call[j]
      /\ call'[i].step = s
      BY <1>1, <1>2, CallMoves
<1>4. InFlight' = InFlight \ {i}
      BY <1>1, <1>3 DEF InFlight
<1>5. \A j \in DOMAIN call : By(j)' = By(j)
      BY <1>3 DEF By, Ops
<1>6. Bound' = Bound /\ Call' = Call
      BY DEF Bound, Ops, Call
<1>7. /\ call[i].op \in used
      /\ busy' \in [used -> {Free} \cup Items]
      /\ \A o \in used : busy'[o] = busy[o] \/ (busy'[o] = Free /\ o = call[i].op /\ call[i].visit = visits)
      BY <1>1, CallsOps DEF Frees, CallTypes
<1>8. CallTypes'
      <2>1. here' \in BOOLEAN /\ visits' \in 0..MaxVisits /\ Len(call') <= Bound'
            BY <1>3, <1>6 DEF CallTypes
      <2>2. \A j \in DOMAIN call' : /\ call'[j].visit <= visits'
                                    /\ By(j)'.guard # "item" => call'[j].item = 1
            BY <1>3, <1>5 DEF CallTypes
      <2>3. \A o \in used' : Ops'[o].guard = "none" => busy'[o] = Free
            BY <1>7 DEF CallTypes, Ops
      <2>4. call' \in Seq(Call')
            BY <1>3, <1>6
      <2>5. QED BY <1>7, <2>1, <2>2, <2>3, <2>4 DEF CallTypes
<1>9. ASSUME NEW j \in InFlight \ {i}, call[j].visit = visits
      PROVE  /\ By(j).guard \in {"flag", "both"} => busy'[call[j].op] # Free
             /\ By(j).guard = "item" /\ "stepped" \notin past' => busy'[call[j].op] = call[j].item
      <2>1. j \in DOMAIN call /\ call[j].op \in used
            BY <1>1, <1>9, CallsOps
      <2>2. CASE call[j].op = call[i].op /\ call[i].visit = visits
            <3>1. By(j).guard = By(i).guard
                  BY <2>2 DEF By
            <3>2. By(j).guard # "item" => call[j].item = call[i].item
                  BY <1>1, <2>1, <3>1 DEF CallTypes
            <3>3. By(j).guard \notin {"flag", "both"}
                  BY <1>9, <2>2, <3>2 DEF OneCallAtATime, By
            <3>4. By(j).guard = "item" => "stepped" \in past'
                  <4>1. CASE call[j].item = call[i].item
                        BY <1>9, <2>2, <4>1 DEF OneCallAtATime, By
                  <4>2. CASE call[j].item # call[i].item
                        BY <1>9, <2>2, <4>2 DEF StepsOn
                  <4>3. QED BY <4>1, <4>2
            <3>5. QED BY <3>3, <3>4
      <2>3. CASE ~(call[j].op = call[i].op /\ call[i].visit = visits)
            BY <1>7, <1>9, <2>1, <2>3 DEF HeldInv
      <2>4. QED BY <2>2, <2>3
<1>10. HeldInv'
      BY <1>1, <1>3, <1>4, <1>5, <1>9 DEF HeldInv
<1>11. ASSUME here', NEW o \in used, busy'[o] # Free
       PROVE  \/ \E j \in InFlight' : call'[j].op = o /\ call'[j].visit = visits
              \/ page = "email" /\ "failed" \in past'
      <2>1. here /\ busy[o] # Free /\ busy'[o] = busy[o]
            BY <1>7, <1>11
      <2>2. CASE page = "email" /\ "failed" \in past
            BY <2>2
      <2>3. CASE \E j \in InFlight \ {i} : call[j].op = o /\ call[j].visit = visits
            BY <1>1, <1>3, <1>4, <2>3
      <2>4. CASE call[i].op = o /\ call[i].visit = visits
            <3>1. /\ By(i).guard \in {"none", "flag", "item", "both"} /\ By(i).leaves \in BOOLEAN
                  /\ By(i).frees \in {"always", "failure", "success"}
                  /\ By(i).frees = "failure" => By(i).leaves
                  /\ By(i).frees = "success" => page = "email"
                  BY <1>1, CallsSound
            <3>2. ~(By(i).guard # "none" /\ By(i).frees \in {"always", on})
                  <4>1. SUFFICES ASSUME By(i).guard # "none", By(i).frees \in {"always", on} PROVE FALSE
                        OBVIOUS
                  <4>2. busy' = [busy EXCEPT ![call[i].op] = Free]
                        BY <2>4, <4>1 DEF Frees, By
                  <4>3. QED BY <1>7, <1>11, <2>4, <4>2 DEF CallTypes
            <3>3. By(i).guard # "none"
                  BY <1>1, <2>1, <2>4, CallsOps DEF By, CallTypes
            <3>4. QED BY <1>11, <2>4, <3>1, <3>2, <3>3
      <2>5. QED BY <1>11, <2>1, <2>2, <2>3, <2>4 DEF BusyMeansCalling
<1>12. BusyMeansCalling'
      BY <1>11 DEF BusyMeansCalling
<1>13. OneCallAtATime'
      <2>1. \A j \in InFlight' : j \in InFlight /\ j \in DOMAIN call /\ call'[j] = call[j] /\ By(j)' = By(j)
            BY <1>1, <1>3, <1>4, <1>5
      <2>2. QED BY <2>1 DEF OneCallAtATime, By
<1>14. QED BY <1>8, <1>10, <1>12, <1>13

\* A click takes a button that nothing holds, or one item's for another.
LEMMA ButtonsClicked ==
  ASSUME ButtonsInv, page' = page, used' = used, visits' = visits, here' = here, here,
         NEW o \in used, NEW item \in Items, ~Held(o, item), Ops[o].guard # "item" => item = 1,
         Len(call) < Bound,
         call' = Append(call, [op |-> o, item |-> item, visit |-> visits, step |-> "sent", wrote |-> 0]),
         busy' = (IF Ops[o].guard = "none" THEN busy ELSE [busy EXCEPT ![o] = item]),
         "failed" \in past => "failed" \in past', "stepped" \in past => "stepped" \in past',
         Ops[o].guard = "item" /\ busy[o] # Free => "stepped" \in past'
  PROVE  ButtonsInv'
<1> USE DEF ButtonsInv
<1> DEFINE e == [op |-> o, item |-> item, visit |-> visits, step |-> "sent", wrote |-> 0]
<1>0. PICK n : n = Len(call) + 1
      OBVIOUS
<1>1. e \in Call /\ e.op = o /\ e.item = item /\ e.visit = visits /\ e.step = "sent"
      BY DEF Call, CallTypes, Steps
<1>2. call' = Append(call, e)
      OBVIOUS
<1> HIDE DEF e
<1>3. /\ call' \in Seq(Call) /\ Len(call') = n
      /\ DOMAIN call' = DOMAIN call \cup {n} /\ n \notin DOMAIN call
      /\ \A j \in DOMAIN call : call'[j] = call[j]
      /\ call'[n] = e
      BY <1>0, <1>1, <1>2, CallComes
<1>4. InFlight' = InFlight \cup {n} /\ InFlight \subseteq DOMAIN call
      BY <1>1, <1>3 DEF InFlight
<1>5. (\A j \in DOMAIN call : By(j)' = By(j)) /\ By(n)' = Ops[o]
      BY <1>1, <1>3 DEF By, Ops
<1>6. Bound' = Bound /\ Call' = Call /\ n <= Bound
      <2>1. Bound' = Bound /\ Call' = Call
            BY DEF Bound, Ops, Call
      <2>2. Bound \in Nat /\ Len(call) \in Nat
            BY WritesAssumption, CallsOps DEF Bound
      <2>3. QED BY <1>0, <2>1, <2>2
<1>7. /\ busy' \in [used -> {Free} \cup Items] /\ item # Free
      /\ Ops[o].guard # "none" => busy'[o] = item
      /\ \A p \in used : p # o => busy'[p] = busy[p]
      /\ \A p \in used : Ops[p].guard = "none" => busy'[p] = Free
      BY DEF CallTypes, Items, Free
<1>8. CallTypes'
      <2>1. \A j \in DOMAIN call' : /\ call'[j].visit <= visits'
                                    /\ By(j)'.guard # "item" => call'[j].item = 1
            BY <1>1, <1>3, <1>5, WritesAssumption DEF CallTypes
      <2>2. \A p \in used' : Ops'[p].guard = "none" => busy'[p] = Free
            BY <1>7 DEF Ops
      <2>3. call' \in Seq(Call') /\ Len(call') <= Bound'
            BY <1>3, <1>6
      <2>4. QED BY <1>7, <2>1, <2>2, <2>3 DEF CallTypes
<1>9. Ops[o].guard \in {"flag", "both"} => busy[o] = Free
      BY DEF Held
<1>10. Ops[o].guard = "item" => busy[o] # item
      BY DEF Held
<1>11. ASSUME NEW j \in InFlight, call[j].visit = visits, call[j].op = o
       PROVE  /\ Ops[o].guard \notin {"flag", "both"}
              /\ Ops[o].guard = "item" => "stepped" \in past'
       <2>1. By(j) = Ops[o] /\ j \in DOMAIN call
             BY <1>4, <1>11 DEF By
       <2>2. call[j].item \in Items
             BY <2>1, CallsOps
       <2>3. QED BY <1>9, <1>11, <2>1, <2>2 DEF HeldInv, Items, Free
<1>12. ASSUME NEW j \in InFlight', call'[j].visit = visits
       PROVE  /\ By(j)'.guard \in {"flag", "both"} => busy'[call'[j].op] # Free
              /\ By(j)'.guard = "item" /\ "stepped" \notin past' => busy'[call'[j].op] = call'[j].item
       <2>1. CASE j = n
             BY <1>1, <1>3, <1>5, <1>7, <2>1
       <2>2. CASE j \in InFlight
             <3>1. j \in DOMAIN call /\ call'[j] = call[j] /\ By(j)' = By(j) /\ call[j].op \in used
                   BY <1>3, <1>4, <1>5, <2>2, CallsOps
             <3>2. CASE call[j].op = o
                   BY <1>11, <1>12, <2>2, <3>1, <3>2 DEF By
             <3>3. CASE call[j].op # o
                   BY <1>7, <1>12, <2>2, <3>1, <3>3 DEF HeldInv
             <3>4. QED BY <3>2, <3>3
       <2>3. QED BY <1>4, <1>12, <2>1, <2>2
<1>13. HeldInv'
       BY <1>12 DEF HeldInv
<1>14. ASSUME NEW p \in used, busy'[p] # Free
       PROVE  \/ \E j \in InFlight' : call'[j].op = p /\ call'[j].visit = visits
              \/ page = "email" /\ "failed" \in past'
       <2>1. CASE p = o
             BY <1>1, <1>3, <1>4, <2>1
       <2>2. CASE p # o
             <3>1. busy[p] # Free
                   BY <1>7, <1>14, <2>2
             <3>2. \/ \E j \in InFlight : call[j].op = p /\ call[j].visit = visits
                   \/ page = "email" /\ "failed" \in past
                   BY <3>1 DEF BusyMeansCalling
             <3>3. QED BY <1>3, <1>4, <3>2
       <2>3. QED BY <2>1, <2>2
<1>15. BusyMeansCalling'
       BY <1>14 DEF BusyMeansCalling
<1>16. ASSUME NEW j \in InFlight, call[j].op = o, call[j].item = item
       PROVE  \/ Ops[o].guard = "none" \/ call[j].visit # visits
              \/ Ops[o].guard = "item" /\ "stepped" \in past'
       <2>1. Ops[o].guard \in {"none", "flag", "item", "both"}
             BY <1>4, <1>16, CallsSound DEF By
       <2>2. QED BY <1>11, <1>16, <2>1
<1>17. OneCallAtATime'
       <2>1. \A j \in InFlight : call'[j] = call[j] /\ By(j)' = By(j)
             BY <1>3, <1>4, <1>5
       <2>2. ASSUME NEW j \in InFlight', NEW k \in InFlight', j # k, call'[j].op = call'[k].op,
                    call'[j].item = call'[k].item
             PROVE  \/ By(j)'.guard = "none" \/ call'[j].visit # call'[k].visit
                    \/ By(j)'.guard = "item" /\ "stepped" \in past'
             <3>1. CASE j \in InFlight /\ k \in InFlight
                   <4>1. call[j].op = call[k].op /\ call[j].item = call[k].item
                         BY <2>1, <2>2, <3>1
                   <4>2. \/ By(j).guard = "none" \/ call[j].visit # call[k].visit
                         \/ By(j).guard = "item" /\ "stepped" \in past
                         BY <2>2, <3>1, <4>1 DEF OneCallAtATime, By
                   <4>3. QED BY <2>1, <3>1, <4>2
             <3>2. CASE j = n /\ k \in InFlight
                   BY <1>1, <1>3, <1>5, <1>16, <2>1, <2>2, <3>2
             <3>3. CASE k = n /\ j \in InFlight
                   <4>1. call[j].op = o /\ call[j].item = item /\ call'[k].visit = visits
                         BY <1>1, <1>3, <2>1, <2>2, <3>3
                   <4>2. call'[j] = call[j] /\ By(j)' = By(j) /\ By(j) = Ops[o]
                         BY <2>1, <3>3, <4>1 DEF By
                   <4>3. QED BY <1>16, <3>3, <4>1, <4>2
             <3>4. QED BY <1>4, <2>2, <3>1, <3>2, <3>3
       <2>3. QED BY <2>2 DEF OneCallAtATime, By
<1>18. QED BY <1>8, <1>13, <1>15, <1>17

\* The page is mounted anew: its buttons are free, and no call is of its visit.
LEMMA ButtonsReturn ==
  ASSUME ButtonsInv, page' = page, used' = used, visits < MaxVisits, visits' = visits + 1, here' = TRUE,
         busy' = [o \in used |-> Free], call' = call, "stepped" \in past => "stepped" \in past'
  PROVE  ButtonsInv'
<1> USE DEF ButtonsInv
<1>1. \A j \in DOMAIN call : By(j)' = By(j)
      BY DEF By, Ops
<1>2. Bound' = Bound /\ Call' = Call
      BY DEF Bound, Ops, Call
<1>3. visits' \in 0..MaxVisits /\ \A j \in DOMAIN call : call[j].visit <= visits' /\ call[j].visit # visits'
      <2>1. visits \in 0..MaxVisits /\ \A j \in DOMAIN call : call[j].visit \in 0..visits
            BY CallsOps DEF CallTypes
      <2>2. QED BY <2>1, WritesAssumption
<1>4. CallTypes'
      <2>1. \A o \in used' : busy'[o] = Free
            OBVIOUS
      <2>2. QED BY <1>1, <1>2, <1>3, <2>1 DEF CallTypes
<1>5. InFlight' = InFlight /\ InFlight \subseteq DOMAIN call
      BY DEF InFlight
<1>6. HeldInv' /\ BusyMeansCalling'
      BY <1>3, <1>5 DEF HeldInv, BusyMeansCalling
<1>7. OneCallAtATime'
      BY <1>1, <1>5 DEF OneCallAtATime, By
<1>8. QED BY <1>4, <1>6, <1>7
-----------------------------------------------------------------------------
(* The versions.                                                           *)

\* Committed calls are counted, and there are no more than calls.
LEMMA CommittedGrows ==
  ASSUME call \in Seq(Call), call' \in Seq(Call'), Len(call') >= Len(call),
         \A i \in DOMAIN call : call[i].step \notin {"sent", "refused"} => call'[i].step \notin {"sent", "refused"}
  PROVE  /\ Cardinality(Committed) \in Nat /\ Cardinality(Committed') \in Nat
         /\ Cardinality(Committed) <= Cardinality(Committed')
         /\ Cardinality(Committed') <= Len(call')
         /\ \A i \in Committed' \ Committed : Cardinality(Committed) + 1 <= Cardinality(Committed')
<1>1. /\ DOMAIN call = 1..Len(call) /\ DOMAIN call' = 1..Len(call')
      /\ Len(call) \in Nat /\ Len(call') \in Nat
      OBVIOUS
<1>2. IsFiniteSet(1..Len(call')) /\ Cardinality(1..Len(call')) = Len(call')
      <2>1. 1 \in Int /\ Len(call') \in Int
            BY <1>1
      <2>2. /\ IsFiniteSet(1..Len(call'))
            /\ Cardinality(1..Len(call')) = IF 1 > Len(call') THEN 0 ELSE Len(call') - 1 + 1
            BY <2>1, FS_Interval
      <2>3. QED BY <1>1, <2>2
<1>3. Committed \subseteq Committed' /\ Committed' \subseteq 1..Len(call')
      BY <1>1 DEF Committed
<1>4. IsFiniteSet(Committed') /\ Cardinality(Committed') <= Len(call')
      BY <1>2, <1>3, FS_Subset
<1>5. IsFiniteSet(Committed) /\ Cardinality(Committed) <= Cardinality(Committed')
      BY <1>3, <1>4, FS_Subset
<1>6. Cardinality(Committed) \in Nat /\ Cardinality(Committed') \in Nat
      BY <1>4, <1>5, FS_CardinalityType
<1>7. ASSUME NEW i \in Committed' \ Committed PROVE Cardinality(Committed) + 1 <= Cardinality(Committed')
      <2>1. Cardinality(Committed \cup {i}) = Cardinality(Committed) + 1
            BY <1>5, <1>7, FS_AddElement
      <2>2. Cardinality(Committed \cup {i}) <= Cardinality(Committed')
            BY <1>3, <1>4, <1>7, FS_Subset
      <2>3. QED BY <2>1, <2>2
<1>8. QED BY <1>4, <1>5, <1>6, <1>7

\* The server's versions stay, and what is cached and fetched is among them.
LEMMA VersionsStay ==
  ASSUME CallTypes, VersionsInv, WrittenInv, outside \in Nat, page' = page, used' = used,
         srv' = srv, outside' = outside,
         cache' \in [Resources -> {None} \cup Nat], since' \in [Resources -> {None} \cup Nat],
         \A r \in Resources : /\ cache'[r] <= srv[r] /\ since'[r] <= srv[r]
                              /\ since'[r] # None => cache'[r] <= since'[r],
         call' \in Seq(Call), Len(call') >= Len(call),
         \A j \in DOMAIN call : /\ call'[j].op = call[j].op /\ call'[j].wrote = call[j].wrote
                                /\ call'[j].step = "sent" => call[j].step = "sent"
                                /\ call[j].step \notin {"sent", "refused"} =>
                                     call'[j].step \notin {"sent", "refused"},
         \A j \in DOMAIN call' \ DOMAIN call : call'[j].wrote = 0
  PROVE  VersionsInv' /\ WrittenInv'
<1>1. Resources' = Resources /\ Call' = Call
      BY DEF Resources, Ops, Call
<1>2. call \in Seq(Call) /\ call' \in Seq(Call')
      BY <1>1 DEF CallTypes
<1>3. /\ Cardinality(Committed) \in Nat /\ Cardinality(Committed') \in Nat
      /\ Cardinality(Committed) <= Cardinality(Committed')
      BY <1>2, CommittedGrows
<1>4. \A j \in DOMAIN call : By(j)' = By(j)
      BY DEF By, Ops
<1>5. DOMAIN call \subseteq DOMAIN call'
      <2>1. DOMAIN call = 1..Len(call) /\ DOMAIN call' = 1..Len(call') /\ Len(call) \in Nat /\ Len(call') \in Nat
            BY <1>2
      <2>2. QED BY <2>1
<1>6. ASSUME NEW r \in Resources
      PROVE  /\ \A i \in DOMAIN call' : By(i)'.writes = r => call'[i].wrote <= srv[r]
             /\ srv[r] <= Cardinality(Committed') + outside
      <2>1. srv[r] \in Nat /\ srv[r] <= Cardinality(Committed) + outside
            BY <1>6 DEF VersionsInv
      <2>2. srv[r] <= Cardinality(Committed') + outside
            BY <1>3, <2>1
      <2>3. ASSUME NEW i \in DOMAIN call', By(i)'.writes = r PROVE call'[i].wrote <= srv[r]
            <3>1. CASE i \in DOMAIN call
                  <4>1. By(i).writes = r /\ call'[i].wrote = call[i].wrote
                        BY <1>4, <2>3, <3>1
                  <4>2. call[i].wrote <= srv[r]
                        BY <1>6, <3>1, <4>1 DEF VersionsInv
                  <4>3. QED BY <4>1, <4>2
            <3>2. CASE i \notin DOMAIN call
                  <4>1. call'[i].wrote = 0
                        BY <2>3, <3>2
                  <4>2. QED BY <2>1, <4>1
            <3>3. QED BY <3>1, <3>2
      <2>4. QED BY <2>2, <2>3
<1>7. VersionsInv'
      BY <1>1, <1>6 DEF VersionsInv
<1>8. WrittenInv'
      <2>1. ASSUME NEW j \in DOMAIN call', call'[j].step = "sent" \/ By(j)'.writes = "nothing"
            PROVE  call'[j].wrote = 0
            BY <1>4, <2>1 DEF WrittenInv
      <2>2. ASSUME outside = 0, NEW r \in Resources, NEW v \in 1..srv[r]
            PROVE  \E j \in DOMAIN call' : call'[j].wrote = v
            <3>1. PICK j \in DOMAIN call : call[j].wrote = v
                  BY <2>2 DEF WrittenInv
            <3>2. QED BY <1>5, <3>1
      <2>3. QED BY <1>1, <2>1, <2>2 DEF WrittenInv
<1>9. QED BY <1>7, <1>8

\* The server does what a call asks for.
LEMMA VersionsCommitted ==
  ASSUME CallTypes, VersionsInv, WrittenInv, outside \in Nat, page' = page, used' = used,
         outside' = outside, cache' = cache, since' = since,
         NEW i \in DOMAIN call, call[i].step = "sent", NEW r, r = By(i).writes,
         IF r = "nothing"
           THEN UNCHANGED srv /\ Write(i, "done")
           ELSE /\ srv' = [srv EXCEPT ![r] = @ + 1]
                /\ call' = [call EXCEPT ![i].step = "done", ![i].wrote = srv[r] + 1]
  PROVE  VersionsInv' /\ WrittenInv'
<1>1. Resources' = Resources /\ Call' = Call
      BY DEF Resources, Ops, Call
<1>2. r = "nothing" \/ r \in Resources
      BY CallsSound
<1>3. PICK w \in Nat : /\ call' = [call EXCEPT ![i].step = "done", ![i].wrote = w]
                       /\ r # "nothing" => w = srv[r] + 1
                       /\ r = "nothing" => w = call[i].wrote
      <2>1. CASE r = "nothing"
            BY <2>1, CallsOps DEF Write, CallTypes
      <2>2. CASE r # "nothing"
            <3>1. srv[r] + 1 \in Nat
                  BY <1>2, <2>2 DEF VersionsInv
            <3>2. QED BY <2>2, <3>1
      <2>3. QED BY <2>1, <2>2
<1>4. /\ call' \in Seq(Call) /\ Len(call') = Len(call) /\ DOMAIN call' = DOMAIN call
      /\ \A j \in DOMAIN call : /\ call'[j].op = call[j].op /\ call'[j].item = call[j].item
                                /\ call'[j].visit = call[j].visit
                                /\ j # i => call'[j] = call[j]
      /\ call'[i].step = "done" /\ call'[i].wrote = w
      BY <1>3, CallMoves DEF Steps
<1>5. \A j \in DOMAIN call : By(j)' = By(j)
      BY <1>4 DEF By, Ops
<1>6. CASE r = "nothing"
      <2>1. \A j \in DOMAIN call : /\ call'[j].wrote = call[j].wrote
                                   /\ call'[j].step = "sent" => call[j].step = "sent"
                                   /\ call[j].step \notin {"sent", "refused"} =>
                                        call'[j].step \notin {"sent", "refused"}
            BY <1>3, <1>4, <1>6
      <2>2. /\ cache' \in [Resources -> {None} \cup Nat] /\ since' \in [Resources -> {None} \cup Nat]
            /\ \A q \in Resources : /\ cache'[q] <= srv[q] /\ since'[q] <= srv[q]
                                    /\ since'[q] # None => cache'[q] <= since'[q]
            BY DEF VersionsInv
      <2>3. Len(call') >= Len(call) /\ srv' = srv
            BY <1>4, <1>6, CallsOps
      <2>4. QED BY <1>4, <2>1, <2>2, <2>3, VersionsStay
<1>7. CASE r \in Resources /\ r # "nothing"
      <2>1. srv' = [srv EXCEPT ![r] = @ + 1] /\ srv \in [Resources -> Nat]
            BY <1>7 DEF VersionsInv
      <2>2. /\ srv' \in [Resources -> Nat] /\ srv'[r] = srv[r] + 1
            /\ \A q \in Resources : srv'[q] >= srv[q] /\ (q # r => srv'[q] = srv[q])
            BY <1>7, <2>1
      <2>3. /\ Cardinality(Committed) \in Nat /\ Cardinality(Committed') \in Nat
            /\ Cardinality(Committed) <= Cardinality(Committed')
            /\ Cardinality(Committed) + 1 <= Cardinality(Committed')
            <3>1. call \in Seq(Call) /\ call' \in Seq(Call') /\ Len(call') >= Len(call)
                  BY <1>1, <1>4, CallsOps DEF CallTypes
            <3>2. i \in Committed' \ Committed
                  BY <1>4 DEF Committed
            <3>3. \A j \in DOMAIN call : call[j].step \notin {"sent", "refused"} =>
                                           call'[j].step \notin {"sent", "refused"}
                  BY <1>4
            <3>4. QED BY <3>1, <3>2, <3>3, CommittedGrows
      <2>4. ASSUME NEW q \in Resources
            PROVE  /\ cache[q] <= srv'[q] /\ since[q] <= srv'[q]
                   /\ since[q] # None => cache[q] <= since[q]
                   /\ \A j \in DOMAIN call' : By(j)'.writes = q => call'[j].wrote <= srv'[q]
                   /\ srv'[q] <= Cardinality(Committed') + outside
            <3>1. /\ cache[q] \in Int /\ since[q] \in Int /\ srv[q] \in Nat /\ srv'[q] \in Nat /\ srv'[q] >= srv[q]
                  /\ cache[q] <= srv[q] /\ since[q] <= srv[q] /\ (since[q] # None => cache[q] <= since[q])
                  /\ srv[q] <= Cardinality(Committed) + outside
                  BY <2>2, <2>4 DEF VersionsInv, None
            <3>2. cache[q] <= srv'[q] /\ since[q] <= srv'[q]
                  BY <3>1
            <3>3. srv'[q] <= Cardinality(Committed') + outside
                  BY <2>2, <2>3, <3>1
            <3>4. ASSUME NEW j \in DOMAIN call', By(j)'.writes = q PROVE call'[j].wrote <= srv'[q]
                  <4>1. CASE j = i
                        BY <1>3, <1>4, <1>5, <1>7, <2>2, <3>1, <3>4, <4>1
                  <4>2. CASE j # i
                        <5>1. j \in DOMAIN call /\ call'[j] = call[j] /\ By(j).writes = q
                              BY <1>4, <1>5, <3>4, <4>2
                        <5>2. call[j].wrote <= srv[q] /\ call[j].wrote \in Nat
                              BY <2>4, <5>1, CallsOps DEF VersionsInv
                        <5>3. QED BY <3>1, <5>1, <5>2
                  <4>3. QED BY <4>1, <4>2
            <3>5. QED BY <3>1, <3>2, <3>3, <3>4
      <2>5. VersionsInv'
            BY <1>1, <2>2, <2>4 DEF VersionsInv
      <2>6. ASSUME outside = 0, NEW q \in Resources, NEW v \in 1..srv'[q]
            PROVE  \E j \in DOMAIN call' : call'[j].wrote = v
            <3>1. CASE q = r /\ v = srv[r] + 1
                  BY <1>3, <1>4, <1>7, <3>1
            <3>2. CASE v \in 1..srv[q]
                  <4>1. PICK j \in DOMAIN call : call[j].wrote = v
                        BY <2>6, <3>2 DEF WrittenInv
                  <4>2. j # i
                        <5>1. call[i].wrote = 0 /\ v \in Int /\ v # 0
                              BY <1>7, <2>2, <2>6 DEF WrittenInv
                        <5>2. QED BY <4>1, <5>1
                  <4>3. QED BY <1>4, <4>1, <4>2
            <3>3. QED BY <1>7, <2>1, <2>2, <2>6, <3>1, <3>2
      <2>7. WrittenInv'
            <3>1. ASSUME NEW j \in DOMAIN call', call'[j].step = "sent" \/ By(j)'.writes = "nothing"
                  PROVE  call'[j].wrote = 0
                  <4>1. j # i
                        BY <1>4, <1>5, <1>7, <3>1
                  <4>2. j \in DOMAIN call /\ call'[j] = call[j] /\ By(j)' = By(j)
                        BY <1>4, <1>5, <4>1
                  <4>3. QED BY <3>1, <4>2 DEF WrittenInv
            <3>2. QED BY <1>1, <2>6, <3>1 DEF WrittenInv
      <2>8. QED BY <2>5, <2>7
<1>8. QED BY <1>2, <1>6, <1>7

\* Somebody else writes.
LEMMA VersionsElsewhere ==
  ASSUME CallTypes, VersionsInv, WrittenInv, outside \in Nat, page' = page, used' = used, call' = call,
         outside' = outside + 1, cache' = cache, since' = since,
         NEW r \in Resources, srv' = [srv EXCEPT ![r] = @ + 1]
  PROVE  VersionsInv' /\ WrittenInv'
<1>1. Resources' = Resources /\ Committed' = Committed
      BY DEF Resources, Ops, Committed
<1>2. \A j \in DOMAIN call : By(j)' = By(j) /\ call[j].wrote \in Nat
      BY CallsOps DEF By, Ops
<1>3. /\ srv \in [Resources -> Nat] /\ srv' \in [Resources -> Nat]
      /\ \A q \in Resources : srv'[q] \in {srv[q], srv[q] + 1}
      BY DEF VersionsInv
<1>4. Cardinality(Committed) \in Nat
      <2>1. call \in Seq(Call) /\ call' \in Seq(Call') /\ Len(call') >= Len(call)
            BY CallsOps DEF CallTypes, Call, Ops
      <2>2. QED BY <2>1, CommittedGrows
<1>5. ASSUME NEW q \in Resources
      PROVE  /\ cache[q] <= srv'[q] /\ since[q] <= srv'[q]
             /\ since[q] # None => cache[q] <= since[q]
             /\ \A j \in DOMAIN call : By(j).writes = q => call[j].wrote <= srv'[q]
             /\ srv'[q] <= Cardinality(Committed) + outside'
      <2>1. /\ cache[q] \in Int /\ since[q] \in Int /\ srv[q] \in Nat /\ srv'[q] \in {srv[q], srv[q] + 1}
            /\ cache[q] <= srv[q] /\ since[q] <= srv[q] /\ (since[q] # None => cache[q] <= since[q])
            /\ srv[q] <= Cardinality(Committed) + outside
            BY <1>3, <1>5 DEF VersionsInv, None
      <2>2. \A j \in DOMAIN call : By(j).writes = q => call[j].wrote <= srv[q]
            BY <1>5 DEF VersionsInv
      <2>3. \A j \in DOMAIN call : By(j).writes = q => call[j].wrote <= srv'[q]
            BY <1>2, <2>1, <2>2
      <2>4. QED BY <1>4, <2>1, <2>3
<1>6. VersionsInv'
      BY <1>1, <1>2, <1>3, <1>5 DEF VersionsInv
<1>7. WrittenInv'
      BY <1>2 DEF WrittenInv
<1>8. QED BY <1>6, <1>7
-----------------------------------------------------------------------------
(* The page has what the server has, or will.                              *)

\* What is not excused later was not before, and its texts are of this visit.
LEMMA NotExcused ==
  ASSUME CallTypes, page' = page, visits' \in Nat, visits' >= visits, DOMAIN call \subseteq DOMAIN call',
         \A j \in DOMAIN call : call'[j].op = call[j].op /\ call'[j].visit = call[j].visit,
         "failed" \in past => "failed" \in past', outside > 0 => outside' > 0, NEW r, ~Excused(r)'
  PROVE  /\ ~Excused(r) /\ page \notin {"today", "sources"}
         /\ \A j \in DOMAIN call : By(j).then \in Texts /\ By(j).writes = r => call'[j].visit = visits'
<1>1. \A j \in DOMAIN call : By(j)' = By(j)
      BY DEF By, Ops
<1>2. ~Excused(r)
      BY ExcusesStay
<1>3. QED BY <1>1, <1>2 DEF Excused

\* A step in which no call is answered, committed or failed, and nothing is written.
LEMMA QuietStays ==
  ASSUME CallTypes, VersionsInv, QuietInv, page' = page, used' = used, visits' = visits, srv' = srv,
         cache' = cache, since' = since, here' => here, outside' = outside, "failed" \in past => "failed" \in past',
         DOMAIN call \subseteq DOMAIN call', \A j \in DOMAIN call : call'[j] = call[j],
         \A j \in DOMAIN call' \ DOMAIN call : call'[j].step = "sent"
  PROVE  QuietInv'
<1>1. Resources' = Resources
      BY DEF Resources, Ops
<1>2. \A j \in DOMAIN call : By(j)' = By(j)
      BY DEF By, Ops
<1>3. ASSUME NEW r \in Resources, ~Excused(r)' PROVE LastText(r)' /\ Brought(r)'
      <2>1. ~Excused(r)
            <3>1. visits \in Nat
                  BY WritesAssumption DEF CallTypes
            <3>2. QED BY <1>3, <3>1, NotExcused
      <2>2. LastText(r) /\ Brought(r)
            BY <1>3, <2>1 DEF QuietInv
      <2>3. LastText(r)'
            BY <1>2, <2>2 DEF LastText
      <2>4. Owed(r) => Owed(r)'
            BY <1>2 DEF Owed
      <2>5. (\E i \in DOMAIN call : By(i).writes = r /\ By(i).then \in Texts) =>
            (\E i \in DOMAIN call' : By(i)'.writes = r /\ By(i)'.then \in Texts)
            BY <1>2
      <2>6. Brought(r)'
            BY <2>2, <2>4, <2>5 DEF Brought
      <2>7. QED BY <2>3, <2>6
<1>4. QED BY <1>1, <1>3 DEF QuietInv

\* The server does what a call asks for: that call is owed a fetch.
LEMMA QuietCommits ==
  ASSUME CallTypes, VersionsInv, QuietInv, OneCallAtATime, page' = page, used' = used, visits' = visits,
         cache' = cache, since' = since, here' = here, outside' = outside, past' = past,
         NEW i \in DOMAIN call, call[i].step = "sent", NEW r, r = By(i).writes,
         IF r = "nothing"
           THEN UNCHANGED srv /\ Write(i, "done")
           ELSE /\ srv' = [srv EXCEPT ![r] = @ + 1]
                /\ call' = [call EXCEPT ![i].step = "done", ![i].wrote = srv[r] + 1]
  PROVE  QuietInv'
<1>1. Resources' = Resources
      BY DEF Resources, Ops
<1>2. r = "nothing" \/ r \in Resources
      BY CallsSound
<1>3. srv \in [Resources -> Nat]
      BY DEF VersionsInv
<1>4. PICK w \in Nat : /\ call' = [call EXCEPT ![i].step = "done", ![i].wrote = w]
                       /\ r # "nothing" => w = srv[r] + 1
                       /\ r = "nothing" => w = call[i].wrote
      <2>1. CASE r = "nothing"
            BY <2>1, CallsOps DEF Write, CallTypes
      <2>2. CASE r # "nothing"
            <3>1. srv[r] + 1 \in Nat
                  BY <1>2, <1>3, <2>2
            <3>2. QED BY <2>2, <3>1
      <2>3. QED BY <2>1, <2>2
<1>5. /\ DOMAIN call' = DOMAIN call
      /\ \A j \in DOMAIN call : /\ call'[j].op = call[j].op /\ call'[j].item = call[j].item
                                /\ call'[j].visit = call[j].visit
                                /\ j # i => call'[j] = call[j]
      /\ call'[i].step = "done" /\ call'[i].wrote = w
      BY <1>4, CallMoves DEF Steps
<1>6. \A j \in DOMAIN call : By(j)' = By(j)
      BY <1>5 DEF By, Ops
<1>7. /\ r = "nothing" => srv' = srv
      /\ r # "nothing" => srv'[r] = srv[r] + 1 /\ \A q \in Resources : q # r => srv'[q] = srv[q]
      BY <1>2, <1>3
<1>8. "nothing" \notin Resources
      BY DEF Resources
<1>9. ASSUME NEW q \in Resources, ~Excused(q)' PROVE LastText(q)' /\ Brought(q)'
      <2>1. ~Excused(q) /\ \A j \in DOMAIN call : By(j).then \in Texts /\ By(j).writes = q => call[j].visit = visits
            <3>1. visits \in Nat
                  BY WritesAssumption DEF CallTypes
            <3>2. QED BY <1>5, <1>9, <3>1, NotExcused
      <2>2. LastText(q) /\ Brought(q)
            BY <1>9, <2>1 DEF QuietInv
      <2>3. CASE q = r
            <3>1. Owed(q)'
                  BY <1>5, <1>6, <2>3 DEF Owed
            <3>2. ASSUME NEW j \in DOMAIN call, call[j].step = "done", By(j).writes = q, By(j).then \in Texts
                  PROVE  FALSE
                  <4>1. /\ call[i].op = call[j].op /\ By(j).guard \in {"flag", "both"}
                        /\ By(i).then \in Texts /\ By(i) = By(j)
                        BY <2>3, <3>2, CallsSound DEF By
                  <4>2. call[i].item = 1 /\ call[j].item = 1
                        BY <3>2, <4>1 DEF CallTypes
                  <4>3. i \in InFlight /\ j \in InFlight /\ i # j
                        BY <3>2 DEF InFlight
                  <4>4. call[i].visit = visits /\ call[j].visit = visits
                        BY <2>1, <2>3, <3>2, <4>1
                  <4>5. QED BY <4>1, <4>2, <4>3, <4>4 DEF OneCallAtATime, By
            <3>3. LastText(q)'
                  <4>1. ASSUME NEW j \in DOMAIN call', call'[j].step = "done", By(j)'.writes = q, By(j)'.then \in Texts
                        PROVE  call'[j].wrote = srv'[q]
                        <5>1. CASE j = i
                              BY <1>4, <1>5, <1>7, <1>8, <2>3, <5>1
                        <5>2. CASE j # i
                              BY <1>5, <1>6, <3>2, <4>1, <5>2
                        <5>3. QED BY <5>1, <5>2
                  <4>2. QED BY <4>1 DEF LastText
            <3>4. QED BY <3>1, <3>3 DEF Brought
      <2>4. CASE q # r
            <3>1. srv'[q] = srv[q]
                  BY <1>7, <2>4
            <3>2. \A j \in DOMAIN call : By(j).writes = q => call'[j] = call[j]
                  BY <1>5, <2>4
            <3>3. LastText(q)'
                  BY <1>5, <1>6, <2>2, <3>1, <3>2 DEF LastText
            <3>4. Owed(q) => Owed(q)'
                  BY <1>5, <1>6, <3>2 DEF Owed
            <3>5. (\E k \in DOMAIN call : By(k).writes = q /\ By(k).then \in Texts) =>
                  (\E k \in DOMAIN call' : By(k)'.writes = q /\ By(k)'.then \in Texts)
                  BY <1>5, <1>6
            <3>6. Brought(q)'
                  BY <2>2, <3>1, <3>4, <3>5 DEF Brought
            <3>7. QED BY <3>3, <3>6
      <2>5. QED BY <2>3, <2>4
<1>10. QED BY <1>1, <1>9 DEF QuietInv

\* A call is answered: its key is fetched again, or its text is shown.
LEMMA QuietAnswers ==
  ASSUME CallTypes, VersionsInv, QuietInv, page' = page, used' = used, visits' = visits, srv' = srv,
         outside' = outside, "failed" \in past => "failed" \in past',
         NEW i \in DOMAIN call, call[i].step = "done", Write(i, "answered"), NEW r, r = By(i).writes,
         here' = (here /\ ~(By(i).leaves /\ call[i].visit = visits)),
         r = "nothing" \/ By(i).then = "nothing" => cache' = cache /\ since' = since,
         r # "nothing" /\ By(i).then = "local" => /\ cache' = [cache EXCEPT ![r] = call[i].wrote]
                                                 /\ since' = [since EXCEPT ![r] = None],
         r # "nothing" /\ By(i).then = "state" =>
           IF here /\ call[i].visit = visits
             THEN /\ cache' = [cache EXCEPT ![r] = call[i].wrote]
                  /\ since' = [since EXCEPT ![r] = None]
             ELSE cache' = cache /\ since' = since,
         r # "nothing" /\ By(i).then = "fetch" =>
           cache' = cache /\ since' = [since EXCEPT ![r] = IF here THEN srv[r] ELSE None]
  PROVE  QuietInv'
<1>1. Resources' = Resources /\ "nothing" \notin Resources
      BY DEF Resources, Ops
<1>2. /\ r = "nothing" \/ r \in Resources
      /\ By(i).then \in {"fetch", "local", "state", "nothing"}
      /\ By(i).then = "nothing" => page \in {"today", "sources"}
      /\ call[i].wrote \in Nat
      BY CallsSound, CallsOps
<1>3. call' = [call EXCEPT ![i].step = "answered", ![i].wrote = call[i].wrote]
      BY <1>2, CallsOps DEF Write, CallTypes
<1>4. /\ DOMAIN call' = DOMAIN call
      /\ \A j \in DOMAIN call : /\ call'[j].op = call[j].op /\ call'[j].visit = call[j].visit
                                /\ j # i => call'[j] = call[j]
      /\ call'[i].step = "answered"
      BY <1>2, <1>3, CallMoves DEF Steps
<1>5. \A j \in DOMAIN call : By(j)' = By(j)
      BY <1>4 DEF By, Ops
<1>6. cache \in [Resources -> {None} \cup Nat] /\ since \in [Resources -> {None} \cup Nat]
      BY DEF VersionsInv
<1>7. \A q \in Resources : q # r => cache'[q] = cache[q] /\ since'[q] = since[q]
      <2>1. CASE r = "nothing" \/ By(i).then = "nothing"
            BY <2>1
      <2>2. CASE r # "nothing" /\ By(i).then = "local"
            BY <2>2, <1>6
      <2>3. CASE r # "nothing" /\ By(i).then = "state"
            BY <2>3, <1>6
      <2>4. CASE r # "nothing" /\ By(i).then = "fetch"
            BY <2>4, <1>6
      <2>5. QED BY <1>2, <2>1, <2>2, <2>3, <2>4
<1>8. here' => here
      OBVIOUS
<1>9. ASSUME NEW q \in Resources, ~Excused(q)' PROVE LastText(q)' /\ Brought(q)'
      <2>1. /\ ~Excused(q) /\ page \notin {"today", "sources"}
            /\ \A j \in DOMAIN call : By(j).then \in Texts /\ By(j).writes = q => call[j].visit = visits
            <3>1. visits \in Nat
                  BY WritesAssumption DEF CallTypes
            <3>2. QED BY <1>4, <1>9, <3>1, NotExcused
      <2>2. LastText(q) /\ Brought(q)
            BY <1>9, <2>1 DEF QuietInv
      <2>3. LastText(q)'
            BY <1>4, <1>5, <2>2 DEF LastText
      <2>4. (\E k \in DOMAIN call : By(k).writes = q /\ By(k).then \in Texts) =>
            (\E k \in DOMAIN call' : By(k)'.writes = q /\ By(k)'.then \in Texts)
            BY <1>4, <1>5
      <2>5. CASE q = r
            <3>1. By(i).then \in Texts => call[i].wrote = srv[r] /\ call[i].visit = visits
                  BY <2>1, <2>2, <2>5 DEF LastText
            <3>2. By(i).then # "nothing" /\ r # "nothing"
                  BY <1>1, <1>2, <2>1, <2>5
            <3>3. CASE By(i).then = "local"
                  <4>1. cache' = [cache EXCEPT ![r] = call[i].wrote] /\ since' = [since EXCEPT ![r] = None]
                        BY <3>2, <3>3
                  <4>2. cache'[q] = srv[q] /\ since'[q] = None
                        BY <1>6, <2>5, <3>1, <3>3, <4>1 DEF Texts
                  <4>3. QED BY <2>3, <4>2 DEF Brought
            <3>4. CASE By(i).then = "state"
                  <4>1. CASE here
                        <5>1. cache' = [cache EXCEPT ![r] = call[i].wrote] /\ since' = [since EXCEPT ![r] = None]
                              BY <3>1, <3>2, <3>4, <4>1 DEF Texts
                        <5>2. cache'[q] = srv[q] /\ since'[q] = None
                              BY <1>6, <2>5, <3>1, <3>4, <5>1 DEF Texts
                        <5>3. QED BY <2>3, <5>2 DEF Brought
                  <4>2. CASE ~here
                        <5>1. \E k \in DOMAIN call' : By(k)'.writes = q /\ By(k)'.then \in Texts
                              BY <2>4, <2>5, <3>4 DEF Texts
                        <5>2. QED BY <1>8, <2>3, <4>2, <5>1 DEF Brought
                  <4>3. QED BY <4>1, <4>2
            <3>5. CASE By(i).then = "fetch"
                  <4>1. since' = [since EXCEPT ![r] = IF here THEN srv[r] ELSE None]
                        BY <3>2, <3>5
                  <4>2. CASE here
                        <5>1. since'[q] = srv[q]
                              BY <1>6, <2>5, <4>1, <4>2
                        <5>2. QED BY <2>3, <5>1 DEF Brought
                  <4>3. CASE ~here
                        <5>1. since'[q] = None
                              BY <1>6, <2>5, <4>1, <4>3
                        <5>2. QED BY <1>8, <2>3, <4>3, <5>1 DEF Brought
                  <4>4. QED BY <4>2, <4>3
            <3>6. QED BY <1>2, <3>2, <3>3, <3>4, <3>5
      <2>6. CASE q # r
            <3>1. cache'[q] = cache[q] /\ since'[q] = since[q]
                  BY <1>7, <2>6
            <3>2. Owed(q) => Owed(q)'
                  BY <1>4, <1>5, <2>6 DEF Owed
            <3>3. Brought(q)'
                  BY <1>8, <2>2, <2>4, <3>1, <3>2 DEF Brought
            <3>4. QED BY <2>3, <3>3
      <2>7. QED BY <2>5, <2>6
<1>10. QED BY <1>1, <1>9 DEF QuietInv

\* A fetch is answered: what it began with is what it brings, if that is the last.
LEMMA QuietFetches ==
  ASSUME CallTypes, VersionsInv, QuietInv, page' = page, used' = used, visits' = visits, srv' = srv,
         here' = here, call' = call, outside' = outside, "failed" \in past => "failed" \in past',
         NEW r \in Resources, NEW v \in since[r]..srv[r], since[r] # None,
         cache' = [cache EXCEPT ![r] = v], since' = [since EXCEPT ![r] = None]
  PROVE  QuietInv'
<1>1. Resources' = Resources
      BY DEF Resources, Ops
<1>2. \A j \in DOMAIN call : By(j)' = By(j)
      BY DEF By, Ops
<1>3. ASSUME NEW q \in Resources, ~Excused(q)' PROVE LastText(q)' /\ Brought(q)'
      <2>1. ~Excused(q)
            <3>1. visits \in Nat
                  BY WritesAssumption DEF CallTypes
            <3>2. QED BY <1>3, <3>1, NotExcused
      <2>2. LastText(q) /\ Brought(q)
            BY <1>3, <2>1 DEF QuietInv
      <2>3. LastText(q)' /\ (Owed(q) => Owed(q)')
            BY <1>2, <2>2 DEF LastText, Owed
      <2>4. (\E k \in DOMAIN call : By(k).writes = q /\ By(k).then \in Texts) =>
            (\E k \in DOMAIN call' : By(k)'.writes = q /\ By(k)'.then \in Texts)
            BY <1>2
      <2>5. /\ q # r => cache'[q] = cache[q] /\ since'[q] = since[q]
            /\ cache'[r] = v /\ since'[r] = None
            BY DEF VersionsInv
      <2>6. since[r] = srv[r] => v = srv[r]
            <3>1. since[r] \in Int /\ srv[r] \in Int
                  BY DEF VersionsInv, None
            <3>2. QED BY <3>1
      <2>7. Brought(q)'
            BY <2>2, <2>3, <2>4, <2>5, <2>6 DEF Brought
      <2>8. QED BY <2>3, <2>7
<1>4. QED BY <1>1, <1>3 DEF QuietInv

\* A fetch begins with what the server has.
LEMMA QuietRefocuses ==
  ASSUME CallTypes, VersionsInv, QuietInv, page' = page, used' = used, visits' = visits, srv' = srv,
         here' = here, call' = call, outside' = outside, past' = past, cache' = cache,
         NEW r \in Resources, since' = [since EXCEPT ![r] = srv[r]]
  PROVE  QuietInv'
<1>1. Resources' = Resources
      BY DEF Resources, Ops
<1>2. \A j \in DOMAIN call : By(j)' = By(j)
      BY DEF By, Ops
<1>3. ASSUME NEW q \in Resources, ~Excused(q)' PROVE LastText(q)' /\ Brought(q)'
      <2>1. ~Excused(q)
            <3>1. visits \in Nat
                  BY WritesAssumption DEF CallTypes
            <3>2. QED BY <1>3, <3>1, NotExcused
      <2>2. LastText(q) /\ Brought(q)
            BY <1>3, <2>1 DEF QuietInv
      <2>3. LastText(q)' /\ (Owed(q) => Owed(q)')
            BY <1>2, <2>2 DEF LastText, Owed
      <2>4. (\E k \in DOMAIN call : By(k).writes = q /\ By(k).then \in Texts) =>
            (\E k \in DOMAIN call' : By(k)'.writes = q /\ By(k)'.then \in Texts)
            BY <1>2
      <2>5. (q # r => since'[q] = since[q]) /\ since'[r] = srv[r]
            BY DEF VersionsInv
      <2>6. Brought(q)'
            BY <2>2, <2>3, <2>4, <2>5 DEF Brought
      <2>7. QED BY <2>3, <2>6
<1>4. QED BY <1>1, <1>3 DEF QuietInv

\* The page is mounted anew: it fetches, and the texts of the visit before are excused.
LEMMA QuietReturns ==
  ASSUME CallTypes, VersionsInv, QuietInv, page' = page, used' = used, visits' = visits + 1, srv' = srv,
         here' = TRUE, call' = call, outside' = outside, "failed" \in past => "failed" \in past', cache' = cache,
         since' = [r \in Resources |-> IF since[r] # None THEN since[r] ELSE srv[r]]
  PROVE  QuietInv'
<1>1. Resources' = Resources
      BY DEF Resources, Ops
<1>2. \A j \in DOMAIN call : By(j)' = By(j)
      BY DEF By, Ops
<1>3. visits \in Nat /\ visits' \in Nat /\ visits' >= visits
      BY WritesAssumption DEF CallTypes
<1>4. ASSUME NEW q \in Resources, ~Excused(q)' PROVE LastText(q)' /\ Brought(q)'
      <2>1. /\ ~Excused(q)
            /\ \A j \in DOMAIN call : By(j).then \in Texts /\ By(j).writes = q => call'[j].visit = visits'
            BY <1>3, <1>4, NotExcused
      <2>2. \A j \in DOMAIN call : call'[j].visit # visits'
            <3>1. \A j \in DOMAIN call : call[j].visit \in 0..visits
                  BY CallsOps
            <3>2. QED BY <1>3, <3>1
      <2>3. LastText(q) /\ Brought(q)
            BY <1>4, <2>1 DEF QuietInv
      <2>4. LastText(q)' /\ (Owed(q) => Owed(q)')
            BY <1>2, <2>3 DEF LastText, Owed
      <2>5. ~\E k \in DOMAIN call : By(k).writes = q /\ By(k).then \in Texts
            BY <2>1, <2>2
      <2>6. since'[q] = IF since[q] # None THEN since[q] ELSE srv[q]
            BY <1>4
      <2>7. Brought(q)'
            BY <2>3, <2>4, <2>5, <2>6 DEF Brought
      <2>8. QED BY <2>4, <2>7
<1>5. QED BY <1>1, <1>4 DEF QuietInv

\* A call that failed and a write from elsewhere excuse the page.
LEMMA QuietExcused ==
  ASSUME "failed" \in past' \/ outside' > 0
  PROVE  QuietInv'
BY DEF QuietInv, Excused
-----------------------------------------------------------------------------
(* The actions.                                                            *)

\* A step that touches neither the form nor what it was made from.
LEMMA FormsStay ==
  ASSUME WritesInv, page' = page, used' = used, cache' = cache, outside' = outside, typing' = typing,
         form' = form, estimate' = estimate, past' = past
  PROVE  FormsInv'
<1>1. Resources' = Resources
      BY DEF Resources, Ops
<1>2. QED BY <1>1 DEF WritesInv, FormsInv, PageTypes, FormInv, EditsSurvive, RunsAreEstimated

\* The steps of a call.
LEMMA ClickKeeps ==
  ASSUME WritesInv, Click
  PROVE  WritesInv'
<1>1. /\ page' = page /\ used' = used /\ here' = here /\ visits' = visits /\ srv' = srv /\ cache' = cache
      /\ since' = since /\ outside' = outside /\ form' = form /\ typing' = typing /\ Len(call) < Bound
      BY DEF Click
<1>2. PICK o \in used, item \in Items :
       /\ CanClick(o, item)
       /\ Ops[o].guard # "item" => item = 1
       /\ call' = Append(call, [op |-> o, item |-> item, visit |-> visits, step |-> "sent", wrote |-> 0])
       /\ busy' = (IF Ops[o].guard = "none" THEN busy ELSE [busy EXCEPT ![o] = item])
       /\ estimate' = (IF page = "runs" /\ o = "estimate" THEN "none" ELSE estimate)
       /\ past' = (past \ {"typedSince"}) \cup
            (IF FormOf(page) = "mount" /\ o = "save" /\ form = "blank" THEN {"wiped"} ELSE {}) \cup
            (IF page = "runs" /\ o = "run" /\ estimate = "stale" THEN {"surprised"} ELSE {}) \cup
            (IF Ops[o].guard = "item" /\ busy[o] # Free THEN {"stepped"} ELSE {})
      BY DEF Click
<1>3. /\ past' \subseteq past \cup {"wiped", "surprised", "stepped"}
      /\ past \ {"typedSince"} \subseteq past'
      /\ "surprised" \in past' => "surprised" \in past \/ estimate = "stale"
      /\ Ops[o].guard = "item" /\ busy[o] # Free => "stepped" \in past'
      BY <1>2
<1>4. estimate' \in {"none", estimate}
      BY <1>2
<1>5. here /\ ~Held(o, item)
      BY <1>2 DEF CanClick
<1>6. ButtonsInv'
      <2>1. ButtonsInv
            BY DEF WritesInv, ButtonsInv
      <2>2. /\ "failed" \in past => "failed" \in past'
            /\ "stepped" \in past => "stepped" \in past'
            BY <1>3
      <2>3. QED BY <1>1, <1>2, <1>3, <1>5, <2>1, <2>2, ButtonsClicked
<1>7. PICK n, e : /\ call' = Append(call, e) /\ e \in Call /\ e.step = "sent" /\ e.wrote = 0
                  /\ n = Len(call) + 1
      <2>1. [op |-> o, item |-> item, visit |-> visits, step |-> "sent", wrote |-> 0] \in Call
            BY DEF Call, WritesInv, CallTypes, Steps
      <2>2. QED BY <1>2, <2>1
<1>8. /\ call' \in Seq(Call) /\ Len(call') = n
      /\ DOMAIN call' = DOMAIN call \cup {n} /\ n \notin DOMAIN call
      /\ \A j \in DOMAIN call : call'[j] = call[j]
      /\ call'[n] = e
      BY <1>1, <1>7, CallComes DEF WritesInv
<1>9. VersionsInv' /\ WrittenInv'
      <2>1. CallTypes /\ VersionsInv /\ WrittenInv /\ outside \in Nat
            BY WritesAssumption DEF WritesInv, FormsInv, PageTypes
      <2>2. /\ cache' \in [Resources -> {None} \cup Nat] /\ since' \in [Resources -> {None} \cup Nat]
            /\ \A r \in Resources : /\ cache'[r] <= srv[r] /\ since'[r] <= srv[r]
                                    /\ since'[r] # None => cache'[r] <= since'[r]
            BY <1>1, <2>1 DEF VersionsInv
      <2>3. Len(call) \in Nat /\ Len(call') >= Len(call)
            BY <1>7, <1>8, <2>1, CallsOps
      <2>4. \A j \in DOMAIN call' \ DOMAIN call : call'[j].wrote = 0
            BY <1>7, <1>8
      <2>5. QED BY <1>1, <1>8, <2>1, <2>2, <2>3, <2>4, VersionsStay
<1>10. QuietInv'
      <2>1. CallTypes /\ VersionsInv /\ QuietInv
            BY DEF WritesInv
      <2>2. \A j \in DOMAIN call' \ DOMAIN call : call'[j].step = "sent"
            BY <1>7, <1>8
      <2>3. "failed" \in past => "failed" \in past'
            BY <1>3
      <2>4. QED BY <1>1, <1>8, <2>1, <2>2, <2>3, QuietStays
<1>11. FormsInv'
      <2>1. Resources' = Resources
            BY <1>1 DEF Resources, Ops
      <2>2. QED BY <1>1, <1>3, <1>4, <2>1
                DEF WritesInv, FormsInv, PageTypes, FormInv, EditsSurvive, RunsAreEstimated, Marks
<1>12. QED BY <1>6, <1>9, <1>10, <1>11 DEF WritesInv, ButtonsInv

\* The server does what a call asks.
LEMMA CommitKeeps ==
  ASSUME WritesInv, Commit
  PROVE  WritesInv'
<1>1. /\ page' = page /\ used' = used /\ here' = here /\ visits' = visits /\ cache' = cache /\ since' = since
      /\ busy' = busy /\ outside' = outside /\ form' = form /\ estimate' = estimate /\ typing' = typing
      /\ past' = past
      BY DEF Commit
<1>2. PICK i \in DOMAIN call :
        /\ call[i].step = "sent"
        /\ IF By(i).writes = "nothing"
             THEN UNCHANGED srv /\ Write(i, "done")
             ELSE /\ srv' = [srv EXCEPT ![By(i).writes] = @ + 1]
                  /\ call' = [call EXCEPT ![i].step = "done", ![i].wrote = srv[By(i).writes] + 1]
      BY DEF Commit, By
<1>3. PICK r : r = By(i).writes
      OBVIOUS
<1>4. IF r = "nothing"
        THEN UNCHANGED srv /\ Write(i, "done")
        ELSE /\ srv' = [srv EXCEPT ![r] = @ + 1]
             /\ call' = [call EXCEPT ![i].step = "done", ![i].wrote = srv[r] + 1]
      BY <1>2, <1>3
<1>5. /\ CallTypes /\ VersionsInv /\ WrittenInv /\ QuietInv /\ OneCallAtATime /\ ButtonsInv
      /\ outside \in Nat
      BY WritesAssumption DEF WritesInv, FormsInv, PageTypes, ButtonsInv
<1>6. VersionsInv' /\ WrittenInv'
      BY <1>1, <1>2, <1>3, <1>4, <1>5, VersionsCommitted
<1>7. QuietInv'
      BY <1>1, <1>2, <1>3, <1>4, <1>5, QuietCommits
<1>8. PICK w \in Nat : /\ call' = [call EXCEPT ![i].step = "done", ![i].wrote = w]
                       /\ r = "nothing" => w = call[i].wrote
      <2>1. CASE r = "nothing"
            BY <1>4, <1>5, <2>1, CallsOps DEF Write, CallTypes
      <2>2. CASE r # "nothing"
            <3>1. r \in Resources
                  BY <1>3, <1>5, <2>2, CallsSound
            <3>2. srv[r] + 1 \in Nat
                  BY <1>5, <3>1 DEF VersionsInv
            <3>3. QED BY <1>4, <2>2, <3>2
      <2>3. QED BY <2>1, <2>2
<1>9. /\ call' \in Seq(Call) /\ Len(call') = Len(call) /\ DOMAIN call' = DOMAIN call
      /\ \A j \in DOMAIN call : /\ call'[j].op = call[j].op /\ call'[j].item = call[j].item
                                /\ call'[j].visit = call[j].visit
                                /\ j # i => call'[j] = call[j]
      /\ call'[i].step = "done"
      BY <1>1, <1>5, <1>8, CallMoves DEF Steps
<1>10. InFlight' = InFlight
      BY <1>2, <1>9 DEF InFlight
<1>11. here \in BOOLEAN
      BY <1>5 DEF CallTypes
<1>12. ButtonsInv'
      BY <1>1, <1>5, <1>9, <1>10, <1>11, ButtonsStay
<1>13. FormsInv'
      BY <1>1, FormsStay
<1>14. QED BY <1>6, <1>7, <1>12, <1>13 DEF WritesInv, ButtonsInv

\* A call that ends changes no version and no other call.
LEMMA CallEnds ==
  ASSUME WritesInv, page' = page, used' = used, srv' = srv, outside' = outside, NEW i \in InFlight,
         NEW s \in {"answered", "refused", "lost"}, Write(i, s), s = "refused" => call[i].step = "sent",
         cache' \in [Resources -> {None} \cup Nat], since' \in [Resources -> {None} \cup Nat],
         \A r \in Resources : /\ cache'[r] <= srv[r] /\ since'[r] <= srv[r]
                              /\ since'[r] # None => cache'[r] <= since'[r]
  PROVE  VersionsInv' /\ WrittenInv'
<1>1. CallTypes /\ VersionsInv /\ WrittenInv /\ outside \in Nat
      BY WritesAssumption DEF WritesInv, FormsInv, PageTypes
<1>2. i \in DOMAIN call /\ s \in Steps
      BY DEF InFlight, Steps
<1>3. call[i].wrote \in Nat /\ call' = [call EXCEPT ![i].step = s, ![i].wrote = call[i].wrote]
      BY <1>1, <1>2, CallsOps DEF Write, CallTypes
<1>4. /\ call' \in Seq(Call) /\ Len(call') = Len(call) /\ DOMAIN call' = DOMAIN call
      /\ \A j \in DOMAIN call : /\ call'[j].op = call[j].op /\ (j # i => call'[j] = call[j])
      /\ call'[i].step = s /\ call'[i].wrote = call[i].wrote
      BY <1>1, <1>2, <1>3, CallMoves
<1>5. Len(call') >= Len(call)
      BY <1>1, <1>4, CallsOps
<1>6. \A j \in DOMAIN call : /\ call'[j].op = call[j].op /\ call'[j].wrote = call[j].wrote
                             /\ call'[j].step = "sent" => call[j].step = "sent"
                             /\ call[j].step \notin {"sent", "refused"} =>
                                  call'[j].step \notin {"sent", "refused"}
      BY <1>4
<1>7. QED BY <1>1, <1>4, <1>5, <1>6, VersionsStay

\* A call that fails gives its button back.
LEMMA FailureKeeps ==
  ASSUME WritesInv, CallFails
  PROVE  WritesInv'
<1>1. /\ page' = page /\ used' = used /\ here' = here /\ visits' = visits /\ srv' = srv /\ cache' = cache
      /\ since' = since /\ outside' = outside /\ form' = form /\ estimate' = estimate /\ typing' = typing
      BY DEF CallFails
<1>2. PICK i \in InFlight :
        /\ Write(i, IF call[i].step = "sent" THEN "refused" ELSE "lost")
        /\ Frees(i, "failure") /\ past' = past \cup {"failed"} \cup StepsOn(i)
      BY DEF CallFails
<1>3. PICK s : s = IF call[i].step = "sent" THEN "refused" ELSE "lost"
      OBVIOUS
<1>4. Write(i, s) /\ s \in {"answered", "refused", "lost"} /\ (s = "refused" => call[i].step = "sent")
      BY <1>2, <1>3
<1>5. StepsOn(i) \subseteq {"stepped"}
      BY DEF StepsOn
<1>6. ButtonsInv'
      <2>1. ButtonsInv
            BY DEF WritesInv, ButtonsInv
      <2>2. /\ StepsOn(i) \subseteq past' /\ "failed" \in past'
            /\ "stepped" \in past => "stepped" \in past'
            BY <1>2
      <2>3. QED BY <1>1, <1>2, <1>4, <2>1, <2>2, ButtonsFreed
<1>7. VersionsInv' /\ WrittenInv'
      <2>1. /\ cache' \in [Resources -> {None} \cup Nat] /\ since' \in [Resources -> {None} \cup Nat]
            /\ \A r \in Resources : /\ cache'[r] <= srv[r] /\ since'[r] <= srv[r]
                                    /\ since'[r] # None => cache'[r] <= since'[r]
            BY <1>1 DEF WritesInv, VersionsInv
      <2>2. QED BY <1>1, <1>2, <1>4, <2>1, CallEnds
<1>8. QuietInv'
      BY <1>2, QuietExcused
<1>9. FormsInv'
      <2>1. Resources' = Resources
            BY <1>1 DEF Resources, Ops
      <2>2. past' \subseteq past \cup {"failed", "stepped"} /\ past \subseteq past'
            BY <1>2, <1>5
      <2>3. QED BY <1>1, <2>1, <2>2
                DEF WritesInv, FormsInv, PageTypes, FormInv, EditsSurvive, RunsAreEstimated, Marks
<1>10. QED BY <1>6, <1>7, <1>8, <1>9 DEF WritesInv, ButtonsInv

\* A call that is answered.
LEMMA AnsweredKeeps ==
  ASSUME WritesInv, Answer
  PROVE  WritesInv'
<1>1. /\ page' = page /\ used' = used /\ visits' = visits /\ srv' = srv /\ outside' = outside
      /\ typing' = typing
      BY DEF Answer
<1>2. PICK i \in DOMAIN call :
        /\ call[i].step = "done" /\ Write(i, "answered") /\ Frees(i, "success")
        /\ here' = (here /\ ~(By(i).leaves /\ call[i].visit = visits))
        /\ CASE By(i).writes = "nothing" \/ By(i).then = "nothing" ->
                  UNCHANGED <<cache, since, form>> /\ past' = past \cup StepsOn(i)
             [] By(i).then = "local" ->
                  /\ cache' = [cache EXCEPT ![By(i).writes] = call[i].wrote]
                  /\ since' = [since EXCEPT ![By(i).writes] = None]
                  /\ form' = (IF here /\ FormOf(page) = "effect" THEN "synced" ELSE form)
                  /\ past' = past \cup StepsOn(i) \cup
                       (IF FormOf(page) = "effect" /\ "typedSince" \in past THEN {"overtaken"} ELSE {})
             [] By(i).then = "state" ->
                  /\ IF here /\ call[i].visit = visits
                       THEN /\ cache' = [cache EXCEPT ![By(i).writes] = call[i].wrote]
                            /\ since' = [since EXCEPT ![By(i).writes] = None]
                       ELSE UNCHANGED <<cache, since>>
                  /\ UNCHANGED form /\ past' = past \cup StepsOn(i)
             [] OTHER ->
                  /\ since' = [since EXCEPT ![By(i).writes] = IF here THEN srv[By(i).writes] ELSE None]
                  /\ form' = (IF FormOf(page) = "mount" /\ call[i].op = "save" THEN "synced" ELSE form)
                  /\ UNCHANGED cache /\ past' = past \cup StepsOn(i)
        /\ estimate' = CASE page # "runs" \/ call[i].visit # visits -> estimate
                         [] call[i].op = "run" -> "none"
                         [] OTHER -> IF "typedSince" \in past THEN "stale" ELSE "fits"
      BY DEF Answer, By
<1>3. PICK r, then : r = By(i).writes /\ then = By(i).then
      OBVIOUS
<1>4. /\ CallTypes /\ VersionsInv /\ QuietInv /\ ButtonsInv
      /\ i \in InFlight /\ StepsOn(i) \subseteq {"stepped"}
      BY <1>2 DEF WritesInv, ButtonsInv, InFlight, StepsOn
<1>5. /\ r = "nothing" \/ r \in Resources
      /\ then \in {"fetch", "local", "state", "nothing"}
      /\ r = "nothing" => then = "fetch"
      /\ call[i].wrote \in Nat
      BY <1>3, <1>4, CallsSound, CallsOps
<1>6. /\ r = "nothing" \/ then = "nothing" =>
           cache' = cache /\ since' = since /\ form' = form /\ past' = past \cup StepsOn(i)
      /\ r # "nothing" /\ then = "local" =>
           /\ cache' = [cache EXCEPT ![r] = call[i].wrote] /\ since' = [since EXCEPT ![r] = None]
           /\ form' \in {form, "synced"}
           /\ past' \subseteq past \cup StepsOn(i) \cup {"overtaken"} /\ past \cup StepsOn(i) \subseteq past'
      /\ r # "nothing" /\ then = "state" =>
           /\ IF here /\ call[i].visit = visits
                THEN cache' = [cache EXCEPT ![r] = call[i].wrote] /\ since' = [since EXCEPT ![r] = None]
                ELSE cache' = cache /\ since' = since
           /\ form' = form /\ past' = past \cup StepsOn(i)
      /\ r # "nothing" /\ then = "fetch" =>
           /\ cache' = cache /\ since' = [since EXCEPT ![r] = IF here THEN srv[r] ELSE None]
           /\ form' \in {form, "synced"} /\ past' = past \cup StepsOn(i)
      <2>1. CASE r = "nothing" \/ then = "nothing"
            BY <1>2, <1>3, <1>5, <2>1
      <2>2. CASE r # "nothing" /\ then = "local"
            BY <1>2, <1>3, <2>2
      <2>3. CASE r # "nothing" /\ then = "state"
            BY <1>2, <1>3, <2>3
      <2>4. CASE r # "nothing" /\ then = "fetch"
            BY <1>2, <1>3, <2>4
      <2>5. QED BY <1>5, <2>1, <2>2, <2>3, <2>4
<1>7. /\ form' \in {form, "synced"} /\ past \cup StepsOn(i) \subseteq past'
      /\ past' \subseteq past \cup {"stepped", "overtaken"}
      BY <1>4, <1>5, <1>6
<1>8. estimate' \in {estimate, "none", "fits"} \/ (estimate' = "stale" /\ "typedSince" \in past)
      BY <1>2
<1>9. ButtonsInv'
      <2>1. /\ StepsOn(i) \subseteq past'
            /\ "stepped" \in past => "stepped" \in past'
            /\ "failed" \in past => "failed" \in past'
            BY <1>7
      <2>2. QED BY <1>1, <1>2, <1>4, <2>1, ButtonsFreed
<1>10. QuietInv'
      <2>1. "failed" \in past => "failed" \in past'
            BY <1>7
      <2>2. /\ r = "nothing" \/ By(i).then = "nothing" => cache' = cache /\ since' = since
            /\ r # "nothing" /\ By(i).then = "local" => /\ cache' = [cache EXCEPT ![r] = call[i].wrote]
                                                      /\ since' = [since EXCEPT ![r] = None]
            /\ r # "nothing" /\ By(i).then = "state" =>
                IF here /\ call[i].visit = visits
                  THEN /\ cache' = [cache EXCEPT ![r] = call[i].wrote]
                       /\ since' = [since EXCEPT ![r] = None]
                  ELSE cache' = cache /\ since' = since
            /\ r # "nothing" /\ By(i).then = "fetch" =>
                cache' = cache /\ since' = [since EXCEPT ![r] = IF here THEN srv[r] ELSE None]
            BY <1>3, <1>6
      <2>3. r = By(i).writes /\ here' = (here /\ ~(By(i).leaves /\ call[i].visit = visits))
            BY <1>2, <1>3
      <2>4. call[i].step = "done" /\ Write(i, "answered")
            BY <1>2
      <2>5. QED BY <1>1, <1>4, <2>1, <2>2, <2>3, <2>4, QuietAnswers
<1>11. /\ cache' \in [Resources -> {None} \cup Nat] /\ since' \in [Resources -> {None} \cup Nat]
       /\ \A q \in Resources : /\ cache'[q] <= srv[q] /\ since'[q] <= srv[q]
                               /\ since'[q] # None => cache'[q] <= since'[q]
                               /\ cache[q] # None => cache'[q] # None
       <2>1. /\ cache \in [Resources -> {None} \cup Nat] /\ since \in [Resources -> {None} \cup Nat]
             /\ srv \in [Resources -> Nat]
             /\ \A q \in Resources : /\ cache[q] <= srv[q] /\ since[q] <= srv[q]
                                     /\ since[q] # None => cache[q] <= since[q]
             BY <1>4 DEF VersionsInv
       <2>2. CASE cache' = cache /\ since' = since
             BY <2>1, <2>2
       <2>3. CASE /\ r \in Resources
                  /\ cache' = [cache EXCEPT ![r] = call[i].wrote] /\ since' = [since EXCEPT ![r] = None]
             <3>1. call[i].wrote <= srv[r]
                   BY <1>3, <1>4, <2>3 DEF VersionsInv
             <3>2. ASSUME NEW q \in Resources
                   PROVE  /\ cache'[q] <= srv[q] /\ since'[q] <= srv[q]
                          /\ since'[q] # None => cache'[q] <= since'[q]
                          /\ cache[q] # None => cache'[q] # None
                   <4>1. CASE q = r
                         <5>1. cache'[q] = call[i].wrote /\ since'[q] = None /\ srv[q] \in Nat
                               BY <2>1, <2>3, <4>1
                         <5>2. QED BY <1>5, <3>1, <4>1, <5>1 DEF None
                   <4>2. CASE q # r
                         <5>1. cache'[q] = cache[q] /\ since'[q] = since[q]
                               BY <2>1, <2>3, <4>2
                         <5>2. QED BY <2>1, <5>1
                   <4>3. QED BY <4>1, <4>2
             <3>3. /\ cache' \in [Resources -> {None} \cup Nat] /\ since' \in [Resources -> {None} \cup Nat]
                   BY <1>5, <2>1, <2>3
             <3>4. QED BY <3>2, <3>3
       <2>4. CASE /\ r \in Resources /\ cache' = cache
                  /\ since' = [since EXCEPT ![r] = IF here THEN srv[r] ELSE None]
             <3>1. ASSUME NEW q \in Resources
                   PROVE  since'[q] <= srv[q] /\ (since'[q] # None => cache'[q] <= since'[q])
                   <4>1. since'[q] \in {since[q], srv[q], None} /\ srv[q] \in Nat
                         BY <2>1, <2>4
                   <4>2. QED BY <2>1, <2>4, <4>1 DEF None
             <3>2. since' \in [Resources -> {None} \cup Nat]
                   <4>1. (IF here THEN srv[r] ELSE None) \in {None} \cup Nat
                         BY <2>1, <2>4
                   <4>2. QED BY <2>1, <2>4, <4>1
             <3>3. QED BY <2>1, <2>4, <3>1, <3>2
       <2>5. QED BY <1>5, <1>6, <2>2, <2>3, <2>4
<1>12. VersionsInv' /\ WrittenInv'
       BY <1>1, <1>2, <1>4, <1>11, CallEnds
<1>13. FormsInv'
       <2>1. Resources' = Resources
             BY <1>1 DEF Resources, Ops
       <2>2. FormInv'
             <3>1. form' = "edited" => \A q \in Resources : cache'[q] # None
                   BY <1>7, <1>11 DEF WritesInv, FormsInv, FormInv
             <3>2. estimate' = "stale" \/ "typedSince" \in past' => typing > 0
                   BY <1>7, <1>8 DEF WritesInv, FormsInv, FormInv
             <3>3. QED BY <1>1, <2>1, <3>1, <3>2 DEF FormInv
       <2>3. PageTypes'
             BY <1>1, <1>7, <1>8 DEF WritesInv, FormsInv, PageTypes, Marks
       <2>4. EditsSurvive' /\ RunsAreEstimated'
             BY <1>1, <1>7 DEF WritesInv, FormsInv, EditsSurvive, RunsAreEstimated
       <2>5. QED BY <2>2, <2>3, <2>4 DEF FormsInv
<1>14. QED BY <1>9, <1>10, <1>12, <1>13 DEF WritesInv, ButtonsInv

\* A page fetches what the server has.
LEMMA FetchKeeps ==
  ASSUME WritesInv, FetchArrives
  PROVE  WritesInv'
<1>1. /\ page' = page /\ used' = used /\ here' = here /\ visits' = visits /\ srv' = srv /\ call' = call
      /\ busy' = busy /\ outside' = outside /\ estimate' = estimate /\ typing' = typing
      BY DEF FetchArrives
<1>2. PICK r \in Resources : /\ since[r] # None /\ \E v \in since[r]..srv[r] : Reaches(r, v)
                             /\ since' = [since EXCEPT ![r] = None]
      BY DEF FetchArrives
<1>3. PICK v \in since[r]..srv[r] : Reaches(r, v)
      BY <1>2
<1>4. /\ CallTypes /\ VersionsInv /\ WrittenInv /\ QuietInv /\ ButtonsInv /\ outside \in Nat
      BY WritesAssumption DEF WritesInv, FormsInv, PageTypes, ButtonsInv
<1>5. /\ cache \in [Resources -> {None} \cup Nat] /\ since \in [Resources -> {None} \cup Nat]
      /\ srv \in [Resources -> Nat]
      /\ \A q \in Resources : /\ cache[q] <= srv[q] /\ since[q] <= srv[q]
                              /\ since[q] # None => cache[q] <= since[q]
      BY <1>4 DEF VersionsInv
<1>6. v \in Nat /\ v <= srv[r] /\ cache[r] <= v /\ v # None
      BY <1>2, <1>5 DEF None
<1>7. cache' = [cache EXCEPT ![r] = v]
      BY <1>3 DEF Reaches
<1>8. /\ form' \in {form, "synced"} /\ past \subseteq past'
      /\ past' \subseteq past \cup {"overtaken", "overwrote"}
      /\ "overwrote" \in past' /\ "overwrote" \notin past =>
           form = "edited" /\ v # cache[r] /\ \A i \in DOMAIN call : call[i].wrote # v
      BY <1>3 DEF Reaches
<1>9. ButtonsInv'
      <2>1. /\ InFlight' = InFlight
            /\ "failed" \in past => "failed" \in past'
            /\ "stepped" \in past => "stepped" \in past'
            BY <1>1, <1>8 DEF InFlight
      <2>2. call' \in Seq(Call) /\ here' \in BOOLEAN
            BY <1>1, <1>4 DEF CallTypes
      <2>3. QED BY <1>1, <1>4, <2>1, <2>2, ButtonsStay
<1>10. /\ cache' \in [Resources -> {None} \cup Nat] /\ since' \in [Resources -> {None} \cup Nat]
       /\ \A q \in Resources : /\ cache'[q] <= srv[q] /\ since'[q] <= srv[q]
                               /\ since'[q] # None => cache'[q] <= since'[q]
                               /\ cache[q] # None => cache'[q] # None
       <2>1. \A q \in Resources : /\ q = r => cache'[q] = v /\ since'[q] = None
                                  /\ q # r => cache'[q] = cache[q] /\ since'[q] = since[q]
             BY <1>2, <1>5, <1>7
       <2>2. None <= srv[r]
             BY <1>5 DEF None
       <2>3. ASSUME NEW q \in Resources
             PROVE  /\ cache'[q] <= srv[q] /\ since'[q] <= srv[q]
                    /\ since'[q] # None => cache'[q] <= since'[q]
                    /\ cache[q] # None => cache'[q] # None
             BY <1>5, <1>6, <2>1, <2>2
       <2>4. cache' \in [Resources -> {None} \cup Nat] /\ since' \in [Resources -> {None} \cup Nat]
             BY <1>2, <1>5, <1>6, <1>7
       <2>5. QED BY <2>3, <2>4
<1>11. VersionsInv' /\ WrittenInv'
       <2>1. call' \in Seq(Call) /\ Len(call') >= Len(call)
             BY <1>1, <1>4, CallsOps DEF CallTypes
       <2>2. QED BY <1>1, <1>4, <1>10, <2>1, VersionsStay
<1>12. QuietInv'
       <2>1. "failed" \in past => "failed" \in past'
             BY <1>8
       <2>2. QED BY <1>1, <1>2, <1>4, <1>7, <2>1, QuietFetches
<1>13. FormsInv'
       <2>1. Resources' = Resources
             BY <1>1 DEF Resources, Ops
       <2>2. "overwrote" \in past' /\ "overwrote" \notin past => outside > 0
             <3>1. SUFFICES ASSUME form = "edited", v # cache[r], \A i \in DOMAIN call : call[i].wrote # v, outside = 0
                            PROVE  FALSE
                   BY <1>4, <1>8
             <3>2. cache[r] # None
                   BY <3>1 DEF WritesInv, FormsInv, FormInv
             <3>3. v \in 1..srv[r]
                   BY <1>5, <1>6, <3>1, <3>2 DEF None
             <3>4. QED BY <1>4, <3>1, <3>3 DEF WrittenInv
       <2>3. FormInv'
             BY <1>1, <1>8, <1>10, <2>1 DEF WritesInv, FormsInv, FormInv
       <2>4. PageTypes'
             BY <1>1, <1>8 DEF WritesInv, FormsInv, PageTypes, Marks
       <2>5. EditsSurvive' /\ RunsAreEstimated'
             BY <1>1, <1>8, <2>2 DEF WritesInv, FormsInv, EditsSurvive, RunsAreEstimated
       <2>6. QED BY <2>3, <2>4, <2>5 DEF FormsInv
<1>14. QED BY <1>9, <1>11, <1>12, <1>13 DEF WritesInv, ButtonsInv

\* A tab gets the focus and fetches again.
LEMMA RefocusKeeps ==
  ASSUME WritesInv, Refocus
  PROVE  WritesInv'
<1>1. /\ page' = page /\ used' = used /\ here' = here /\ visits' = visits /\ srv' = srv /\ cache' = cache
      /\ call' = call /\ busy' = busy /\ outside' = outside /\ form' = form /\ estimate' = estimate
      /\ typing' = typing /\ past' = past
      BY DEF Refocus
<1>2. PICK r \in Resources : since' = [since EXCEPT ![r] = srv[r]]
      BY DEF Refocus
<1>3. /\ CallTypes /\ VersionsInv /\ WrittenInv /\ QuietInv /\ ButtonsInv /\ outside \in Nat
      BY WritesAssumption DEF WritesInv, FormsInv, PageTypes, ButtonsInv
<1>4. ButtonsInv'
      <2>1. call' \in Seq(Call) /\ here' \in BOOLEAN /\ InFlight' = InFlight
            BY <1>1, <1>3 DEF CallTypes, InFlight
      <2>2. QED BY <1>1, <1>3, <2>1, ButtonsStay
<1>5. /\ cache' \in [Resources -> {None} \cup Nat] /\ since' \in [Resources -> {None} \cup Nat]
      /\ \A q \in Resources : /\ cache'[q] <= srv[q] /\ since'[q] <= srv[q]
                              /\ since'[q] # None => cache'[q] <= since'[q]
      <2>1. /\ cache \in [Resources -> {None} \cup Nat] /\ since \in [Resources -> {None} \cup Nat]
            /\ srv \in [Resources -> Nat]
            /\ \A q \in Resources : /\ cache[q] <= srv[q] /\ since[q] <= srv[q]
                                    /\ since[q] # None => cache[q] <= since[q]
            BY <1>3 DEF VersionsInv
      <2>2. \A q \in Resources : since'[q] \in {since[q], srv[q]}
            BY <1>2, <2>1
      <2>3. since' \in [Resources -> {None} \cup Nat]
            BY <1>2, <2>1
      <2>4. ASSUME NEW q \in Resources
            PROVE  since'[q] <= srv[q] /\ (since'[q] # None => cache'[q] <= since'[q])
            <3>1. (since'[q] = since[q] \/ since'[q] = srv[q]) /\ cache'[q] = cache[q] /\ srv[q] \in Nat
                  BY <1>1, <2>1, <2>2
            <3>2. QED BY <2>1, <3>1
      <2>5. QED BY <1>1, <2>1, <2>3, <2>4
<1>6. VersionsInv' /\ WrittenInv'
      <2>1. call' \in Seq(Call) /\ Len(call') >= Len(call)
            BY <1>1, <1>3, CallsOps DEF CallTypes
      <2>2. QED BY <1>1, <1>3, <1>5, <2>1, VersionsStay
<1>7. QuietInv'
      BY <1>1, <1>2, <1>3, QuietRefocuses
<1>8. FormsInv'
      BY <1>1, FormsStay
<1>9. QED BY <1>4, <1>6, <1>7, <1>8 DEF WritesInv, ButtonsInv

\* Somebody else writes.
LEMMA ElsewhereKeeps ==
  ASSUME WritesInv, Elsewhere
  PROVE  WritesInv'
<1>1. /\ page' = page /\ used' = used /\ here' = here /\ visits' = visits /\ cache' = cache /\ since' = since
      /\ call' = call /\ busy' = busy /\ form' = form /\ estimate' = estimate /\ typing' = typing
      /\ past' = past /\ outside' = outside + 1 /\ outside < MaxOutside
      BY DEF Elsewhere
<1>2. PICK r \in Resources : srv' = [srv EXCEPT ![r] = @ + 1]
      BY DEF Elsewhere
<1>3. /\ CallTypes /\ VersionsInv /\ WrittenInv /\ ButtonsInv /\ outside \in Nat
      BY WritesAssumption DEF WritesInv, FormsInv, PageTypes, ButtonsInv
<1>4. ButtonsInv'
      <2>1. call' \in Seq(Call) /\ here' \in BOOLEAN /\ InFlight' = InFlight
            BY <1>1, <1>3 DEF CallTypes, InFlight
      <2>2. QED BY <1>1, <1>3, <2>1, ButtonsStay
<1>5. VersionsInv' /\ WrittenInv'
      BY <1>1, <1>2, <1>3, VersionsElsewhere
<1>6. outside' > 0
      BY <1>1, <1>3
<1>7. QuietInv'
      BY <1>6, QuietExcused
<1>8. FormsInv'
      <2>1. Resources' = Resources
            BY <1>1 DEF Resources, Ops
      <2>2. outside' \in 0..MaxOutside
            BY <1>1, <1>3, WritesAssumption
      <2>3. FormInv' /\ PageTypes' /\ RunsAreEstimated'
            BY <1>1, <2>1, <2>2 DEF WritesInv, FormsInv, PageTypes, FormInv, RunsAreEstimated
      <2>4. QED BY <1>6, <2>3 DEF FormsInv, EditsSurvive
<1>9. QED BY <1>4, <1>5, <1>7, <1>8 DEF WritesInv, ButtonsInv

\* The steps of the user that make no call.
LEMMA SameCalls ==
  ASSUME WritesInv, page' = page, used' = used, srv' = srv, call' = call, outside' = outside,
         cache' = cache, since' = since
  PROVE  VersionsInv' /\ WrittenInv' /\ InFlight' = InFlight /\ call' \in Seq(Call)
<1>1. CallTypes /\ VersionsInv /\ WrittenInv /\ outside \in Nat
      BY WritesAssumption DEF WritesInv, FormsInv, PageTypes
<1>2. call' \in Seq(Call) /\ Len(call') >= Len(call)
      BY <1>1, CallsOps DEF CallTypes
<1>3. /\ cache' \in [Resources -> {None} \cup Nat] /\ since' \in [Resources -> {None} \cup Nat]
      /\ \A q \in Resources : /\ cache'[q] <= srv[q] /\ since'[q] <= srv[q]
                              /\ since'[q] # None => cache'[q] <= since'[q]
      BY <1>1 DEF VersionsInv
<1>4. QED BY <1>1, <1>2, <1>3, VersionsStay DEF InFlight

\* The user types.
LEMMA TypeKeeps ==
  ASSUME WritesInv, Type
  PROVE  WritesInv'
<1>1. /\ page' = page /\ used' = used /\ here' = here /\ visits' = visits /\ srv' = srv /\ cache' = cache
      /\ since' = since /\ call' = call /\ busy' = busy /\ outside' = outside
      /\ typing < MaxTyping /\ typing' = typing + 1
      /\ \A r \in Resources : cache[r] # None
      BY DEF Type
<1>2. /\ form' = "edited" /\ estimate' \in {estimate, "stale"}
      /\ past \subseteq past' /\ past' \subseteq past \cup {"typedSince"}
      BY DEF Type
<1>3. CallTypes /\ VersionsInv /\ QuietInv /\ ButtonsInv
      BY DEF WritesInv, ButtonsInv
<1>4. VersionsInv' /\ WrittenInv' /\ InFlight' = InFlight /\ call' \in Seq(Call)
      BY <1>1, SameCalls
<1>5. ButtonsInv'
      <2>1. /\ here' \in BOOLEAN
            /\ "failed" \in past => "failed" \in past'
            /\ "stepped" \in past => "stepped" \in past'
            BY <1>1, <1>2, <1>3 DEF CallTypes
      <2>2. QED BY <1>1, <1>3, <1>4, <2>1, ButtonsStay
<1>6. QuietInv'
      <2>1. "failed" \in past => "failed" \in past'
            BY <1>2
      <2>2. QED BY <1>1, <1>3, <2>1, QuietStays
<1>7. FormsInv'
      <2>1. Resources' = Resources
            BY <1>1 DEF Resources, Ops
      <2>2. typing' \in 0..MaxTyping /\ typing' > 0
            BY <1>1, WritesAssumption DEF WritesInv, FormsInv, PageTypes
      <2>3. FormInv'
            BY <1>1, <2>1, <2>2 DEF FormInv
      <2>4. PageTypes'
            BY <1>1, <1>2, <2>2 DEF WritesInv, FormsInv, PageTypes, Marks
      <2>5. EditsSurvive' /\ RunsAreEstimated'
            BY <1>1, <1>2, <2>2 DEF WritesInv, FormsInv, EditsSurvive, RunsAreEstimated
      <2>6. QED BY <2>3, <2>4, <2>5 DEF FormsInv
<1>8. QED BY <1>4, <1>5, <1>6, <1>7 DEF WritesInv, ButtonsInv

\* The user leaves the page.
LEMMA AwayKeeps ==
  ASSUME WritesInv, Leave \/ UNCHANGED writeVars
  PROVE  WritesInv'
<1>1. /\ page' = page /\ used' = used /\ visits' = visits /\ srv' = srv /\ cache' = cache
      /\ since' = since /\ call' = call /\ busy' = busy /\ outside' = outside /\ form' = form
      /\ estimate' = estimate /\ typing' = typing /\ past' = past
      BY DEF Leave, writeVars
<1>2. CallTypes /\ VersionsInv /\ QuietInv /\ ButtonsInv
      BY DEF WritesInv, ButtonsInv
<1>3. here' \in BOOLEAN /\ (here' => here)
      <2>1. here \in BOOLEAN
            BY <1>2 DEF CallTypes
      <2>2. CASE Leave
            BY <2>2 DEF Leave
      <2>3. CASE UNCHANGED writeVars
            BY <2>1, <2>3 DEF writeVars
      <2>4. QED BY <2>2, <2>3
<1>4. VersionsInv' /\ WrittenInv' /\ InFlight' = InFlight /\ call' \in Seq(Call)
      BY <1>1, SameCalls
<1>5. ButtonsInv'
      BY <1>1, <1>2, <1>3, <1>4, ButtonsStay
<1>6. QuietInv'
      BY <1>1, <1>2, <1>3, QuietStays
<1>7. FormsInv'
      BY <1>1, FormsStay
<1>8. QED BY <1>4, <1>5, <1>6, <1>7 DEF WritesInv, ButtonsInv

\* The user comes back to the page.
LEMMA ReturnKeeps ==
  ASSUME WritesInv, Return
  PROVE  WritesInv'
<1>1. /\ page' = page /\ used' = used /\ srv' = srv /\ cache' = cache /\ call' = call /\ outside' = outside
      /\ typing' = typing /\ visits < MaxVisits /\ visits' = visits + 1 /\ here' = TRUE
      /\ busy' = [o \in used |-> Free] /\ estimate' = "none" /\ past' = past \ {"typedSince"}
      /\ since' = [r \in Resources |-> IF since[r] # None THEN since[r] ELSE srv[r]]
      BY DEF Return
<1>2. form' \in {"blank", "synced"}
      BY DEF Return, FormAtMount
<1>3. /\ CallTypes /\ VersionsInv /\ WrittenInv /\ QuietInv /\ ButtonsInv /\ outside \in Nat
      BY WritesAssumption DEF WritesInv, FormsInv, PageTypes, ButtonsInv
<1>4. /\ "failed" \in past => "failed" \in past'
      /\ "stepped" \in past => "stepped" \in past'
      BY <1>1
<1>5. ButtonsInv'
      BY <1>1, <1>3, <1>4, ButtonsReturn
<1>6. VersionsInv' /\ WrittenInv'
      <2>1. /\ cache \in [Resources -> {None} \cup Nat] /\ since \in [Resources -> {None} \cup Nat]
            /\ srv \in [Resources -> Nat]
            /\ \A q \in Resources : /\ cache[q] <= srv[q] /\ since[q] <= srv[q]
                                    /\ since[q] # None => cache[q] <= since[q]
            BY <1>3 DEF VersionsInv
      <2>2. \A q \in Resources : since'[q] = since[q] \/ since'[q] = srv[q]
            BY <1>1
      <2>3. \A q \in Resources : (IF since[q] # None THEN since[q] ELSE srv[q]) \in {None} \cup Nat
            BY <2>1
      <2>4. since' \in [Resources -> {None} \cup Nat]
            BY <1>1, <2>3
      <2>5. ASSUME NEW q \in Resources
            PROVE  since'[q] <= srv[q] /\ (since'[q] # None => cache'[q] <= since'[q])
            <3>1. cache'[q] = cache[q] /\ srv[q] \in Nat
                  BY <1>1, <2>1
            <3>2. QED BY <2>1, <2>2, <3>1
      <2>6. call' \in Seq(Call) /\ Len(call') >= Len(call)
            BY <1>1, <1>3, CallsOps DEF CallTypes
      <2>7. \A q \in Resources : cache'[q] <= srv[q]
            BY <1>1, <2>1
      <2>8. cache' \in [Resources -> {None} \cup Nat]
            BY <1>1, <2>1
      <2>9. QED BY <1>1, <1>3, <2>4, <2>5, <2>6, <2>7, <2>8, VersionsStay
<1>7. QuietInv'
      BY <1>1, <1>3, <1>4, QuietReturns
<1>8. FormsInv'
      <2>1. Resources' = Resources
            BY <1>1 DEF Resources, Ops
      <2>2. FormInv' /\ PageTypes'
            BY <1>1, <1>2, <2>1 DEF WritesInv, FormsInv, PageTypes, FormInv
      <2>3. EditsSurvive' /\ RunsAreEstimated'
            BY <1>1 DEF WritesInv, FormsInv, EditsSurvive, RunsAreEstimated
      <2>4. QED BY <2>2, <2>3 DEF FormsInv
<1>9. QED BY <1>5, <1>6, <1>7, <1>8 DEF WritesInv, ButtonsInv

\* The pages that write, opened.
LEMMA WritesStart ==
  ASSUME WriteInit
  PROVE  WritesInv
<1>1. /\ page \in DOMAIN Pages /\ here = TRUE /\ visits = 0
      /\ srv = [r \in Resources |-> 0] /\ cache = [r \in Resources |-> None]
      /\ since = [r \in Resources |-> 0] /\ call = <<>> /\ busy = [o \in used |-> Free]
      /\ outside = 0 /\ estimate = "none" /\ typing = 0 /\ past = {}
      BY DEF WriteInit
<1>2. used \subseteq DOMAIN Pages[page]
      BY DEF WriteInit
<1>3. form \in {"blank", "synced"}
      BY DEF WriteInit, FormAtMount
<1>4. DOMAIN call = {} /\ Len(call) = 0 /\ call \in Seq(Call)
      BY <1>1
<1>5. CallTypes
      <2>1. Bound \in Nat
            BY WritesAssumption DEF Bound
      <2>2. 0 \in 0..MaxVisits
            BY WritesAssumption
      <2>3. Len(call) <= Bound
            BY <1>4, <2>1
      <2>4. busy \in [used -> {Free} \cup Items] /\ \A o \in used : busy[o] = Free
            BY <1>1
      <2>5. here \in BOOLEAN /\ visits \in 0..MaxVisits
            BY <1>1, <2>2
      <2>6. QED BY <1>1, <1>2, <1>4, <2>3, <2>4, <2>5 DEF CallTypes
<1>6. InFlight = {} /\ Committed = {}
      BY <1>4 DEF InFlight, Committed
<1>7. HeldInv /\ OneCallAtATime
      BY <1>6 DEF HeldInv, OneCallAtATime
<1>8. BusyMeansCalling
      BY <1>1 DEF BusyMeansCalling
<1>9. VersionsInv
      <2>1. Cardinality(Committed) = 0
            BY <1>6, FS_EmptySet
      <2>2. QED BY <1>1, <1>4, <2>1 DEF VersionsInv, None
<1>10. WrittenInv
      BY <1>1, <1>4 DEF WrittenInv
<1>11. QuietInv
      <2>1. \A r \in Resources : LastText(r) /\ Brought(r)
            BY <1>1, <1>4 DEF LastText, Brought
      <2>2. QED BY <2>1 DEF QuietInv
<1>12. FormsInv
      <2>1. 0 \in 0..MaxOutside /\ 0 \in 0..MaxTyping
            BY WritesAssumption
      <2>2. QED BY <1>1, <1>3, <2>1
                DEF FormsInv, PageTypes, FormInv, EditsSurvive, RunsAreEstimated, Marks
<1>13. QED BY <1>5, <1>7, <1>8, <1>9, <1>10, <1>11, <1>12 DEF WritesInv

\* Whatever happens to a page that writes.
LEMMA WritesKeep ==
  ASSUME WritesInv, WriteNext \/ UNCHANGED writeVars
  PROVE  WritesInv'
<1>1. \/ Click \/ Type \/ Return \/ Commit \/ Answer \/ CallFails \/ FetchArrives \/ Refocus
      \/ Elsewhere \/ (Leave \/ UNCHANGED writeVars)
      BY DEF WriteNext, WriteUser, WriteNet
<1>2. QED BY <1>1, ClickKeeps, TypeKeeps, ReturnKeeps, CommitKeeps, AnsweredKeeps, FailureKeeps,
             FetchKeeps, RefocusKeeps, ElsewhereKeeps, AwayKeeps

\* A quiet page owes nothing: it has what the server has, or fetches it.
LEMMA QuietMeansAgreeing ==
  ASSUME WritesInv
  PROVE  QuietPagesAgree
<1>1. ASSUME here, InFlight = {}, NEW r \in Resources, ~Excused(r)
      PROVE  since[r] # None \/ cache[r] = srv[r]
      <2>1. Brought(r) /\ srv[r] \in Nat
            BY <1>1 DEF WritesInv, QuietInv, VersionsInv
      <2>2. ~Owed(r)
            BY <1>1 DEF Owed, InFlight
      <2>3. since[r] = srv[r] \/ cache[r] = srv[r]
            BY <1>1, <2>1, <2>2 DEF Brought
      <2>4. QED BY <2>1, <2>3 DEF None
<1>2. QED BY <1>1 DEF QuietPagesAgree, Excused, By, Texts

\* The types of a page's state: there are no more versions than writes.
LEMMA WritesAreTyped ==
  ASSUME WritesInv
  PROVE  WriteTypeOK
<1>1. CallTypes /\ VersionsInv /\ PageTypes
      BY DEF WritesInv, FormsInv
<1>2. Bound \in Nat /\ Bound <= MaxCalls + 1
      BY WritesAssumption DEF Bound
<1>3. Len(call) \in Nat /\ Len(call) <= MaxCalls + 1
      <2>1. Len(call) \in Nat /\ Len(call) <= Bound
            BY <1>1, CallsOps DEF CallTypes
      <2>2. QED BY <1>2, <2>1, WritesAssumption
<1>4. Cardinality(Committed) \in Nat /\ Cardinality(Committed) <= Len(call)
      <2>1. call \in Seq(Call) /\ DOMAIN call = 1..Len(call)
            BY <1>1, CallsOps DEF CallTypes
      <2>2. IsFiniteSet(1..Len(call)) /\ Cardinality(1..Len(call)) = Len(call)
            <3>1. 1 \in Int /\ Len(call) \in Int
                  BY <1>3
            <3>2. /\ IsFiniteSet(1..Len(call))
                  /\ Cardinality(1..Len(call)) = IF 1 > Len(call) THEN 0 ELSE Len(call) - 1 + 1
                  BY <3>1, FS_Interval
            <3>3. QED BY <1>3, <3>2
      <2>3. Committed \subseteq 1..Len(call)
            BY <2>1 DEF Committed
      <2>4. IsFiniteSet(Committed) /\ Cardinality(Committed) <= Len(call)
            BY <2>2, <2>3, FS_Subset
      <2>5. QED BY <2>4, FS_CardinalityType
<1>5. MaxVersion \in Nat /\ Cardinality(Committed) + outside <= MaxVersion
      <2>1. outside \in Nat /\ outside <= MaxOutside
            BY <1>1, WritesAssumption DEF PageTypes
      <2>2. QED BY <1>3, <1>4, <2>1, WritesAssumption DEF MaxVersion
<1>6. ASSUME NEW r \in Resources
      PROVE  /\ srv[r] \in 0..MaxVersion /\ cache[r] \in {None} \cup 0..MaxVersion
             /\ since[r] \in {None} \cup 0..MaxVersion
             /\ \A i \in DOMAIN call : By(i).writes = r => call[i].wrote <= MaxVersion
      <2>1. /\ srv[r] \in Nat /\ cache[r] \in {None} \cup Nat /\ since[r] \in {None} \cup Nat
            /\ cache[r] <= srv[r] /\ since[r] <= srv[r] /\ srv[r] <= Cardinality(Committed) + outside
            /\ \A i \in DOMAIN call : By(i).writes = r => call[i].wrote <= srv[r]
            BY <1>1, <1>6 DEF VersionsInv
      <2>2. outside \in Nat
            BY <1>1, WritesAssumption DEF PageTypes
      <2>3. srv[r] <= MaxVersion
            BY <1>4, <1>5, <2>1, <2>2
      <2>4. \A i \in DOMAIN call : call[i].wrote \in Nat
            BY <1>1, CallsOps
      <2>5. QED BY <1>5, <2>1, <2>3, <2>4 DEF None
<1>7. ASSUME NEW i \in DOMAIN call
      PROVE  call[i] \in [op: used, item: Items, visit: 0..MaxVisits, step: Steps, wrote: 0..MaxVersion]
      <2>1. call[i] \in Call /\ call[i].wrote \in Nat
            BY <1>1, CallsOps
      <2>2. call[i].wrote <= MaxVersion
            <3>1. CASE By(i).writes = "nothing"
                  BY <1>5, <3>1 DEF WritesInv, WrittenInv
            <3>2. CASE By(i).writes # "nothing"
                  BY <1>1, <1>6, <3>2, CallsSound
            <3>3. QED BY <3>1, <3>2
      <2>3. call[i].wrote \in 0..MaxVersion
            BY <1>5, <2>1, <2>2
      <2>4. QED BY <2>1, <2>3 DEF Call
<1>8. /\ srv \in [Resources -> 0..MaxVersion]
      /\ cache \in [Resources -> {None} \cup 0..MaxVersion]
      /\ since \in [Resources -> {None} \cup 0..MaxVersion]
      BY <1>1, <1>6 DEF VersionsInv
<1>9. /\ page \in DOMAIN Pages /\ used \subseteq DOMAIN Pages[page] /\ here \in BOOLEAN
      /\ visits \in 0..MaxVisits /\ busy \in [used -> {Free} \cup Items]
      BY <1>1 DEF CallTypes
<1>10. /\ outside \in 0..MaxOutside /\ typing \in 0..MaxTyping
       /\ form \in {"blank", "synced", "edited"} /\ estimate \in {"none", "fits", "stale"}
       /\ past \subseteq Marks
       BY <1>1 DEF PageTypes
<1>11. QED BY <1>3, <1>7, <1>8, <1>9, <1>10 DEF WriteTypeOK
-----------------------------------------------------------------------------
\* A page that nothing is under way for shows what the server has, its buttons
\* are held by calls and by one at a time, and neither what is typed nor the
\* estimate is replaced unseen, for any numbers of calls, edits, visits and writes.
THEOREM PagesFollow == Spec => []PagesFollowTheirCalls
<1>1. Init => WritesInv
      BY WritesStart DEF Init
<1>2. WritesInv /\ [Next]_webVars => WritesInv'
      <2> SUFFICES ASSUME WritesInv, [Next]_webVars PROVE WritesInv'
          OBVIOUS
      <2>1. WriteNext \/ UNCHANGED writeVars
            BY DEF Next, webVars, ScreensMove, WritesMove, ChatMoves, SessionMoves, TodayMoves,
                   FeedMoves
      <2>2. QED BY <2>1, WritesKeep
<1>3. WritesInv => PagesFollowTheirCalls
      BY QuietMeansAgreeing DEF WritesInv, FormsInv, PagesFollowTheirCalls
<1>4. QED BY <1>1, <1>2, <1>3, PTL DEF Spec
-----------------------------------------------------------------------------
(* What the screens say.                                                   *)

\* What every screen's record has: its views are in one of these orders.  The
\* first four groups say nothing untrue of themselves, or of a failure or of a
\* first request under way only where the lists of exceptions name the screen.
SoundScreen(n, r) ==
  /\ r.pager \in {"none", "beside", "within", "local"}
  /\ r.fails \in {"throws", "once", "swallows", "junk"}
  /\ r.keeps \in BOOLEAN /\ r.polls \in BOOLEAN /\ r.url \in BOOLEAN
  /\ r.single \in BOOLEAN /\ r.overruns \in BOOLEAN
  /\ r.fails = "junk" => n = "trend"
  /\ r.fails = "swallows" => r.pager = "none" /\ n \in DeniesOnErrors
  /\ r.drops # {} => r.shows = <<"prompt", "loading", "none", "rows">>
  /\ r.keeps => r.shows = <<"waiting", "none", "rows">>
  /\ \/ r.shows = <<"error", "loading", "empty", "rows">>
     \/ r.shows = <<"loading", "error", "missing", "rows">>
     \/ r.shows = <<"error", "loading", "silent", "rows">>
     \/ r.shows = <<"error", "pending", "rows">>
     \/ r.shows = <<"loading", "failed", "rows">>
     \/ r.shows = <<"loading", "hidden", "rows">>
     \/ r.shows = <<"loading", "generating", "rows">> /\ r.polls
     \/ r.shows = <<"silent", "rows">>
     \/ r.shows = <<"blank", "rows">>
     \/ /\ n \in DeniesOnErrors
        /\ \/ r.shows = <<"prompt", "loading", "none", "rows">>
           \/ r.shows = <<"loading", "error", "none", "rows">>
           \/ r.shows = <<"loading", "none", "rows">>
           \/ r.shows = <<"loading", "gone", "rows">>
           \/ r.shows = <<"loading", "missing", "rows">>
     \/ /\ n \in DeniesOnErrors \cap DeniesWhileLoading
        /\ \/ r.shows = <<"waiting", "none", "rows">>
           \/ r.shows = <<"none", "rows">>
           \/ r.shows = <<"missing", "rows">>
     \/ /\ n \in WaitsOnErrors
        /\ \/ r.shows = <<"pending", "empty", "rows">>
           \/ r.shows = <<"pending", "rows">>

\* Every screen is one of these.
LEMMA ScreensAreSound == \A n \in DOMAIN Screens : SoundScreen(n, Screens[n])
<1>1. DOMAIN Screens = {
        "patents", "search", "opportunity", "companies", "companyMap", "company",
        "savedPatents", "followed", "savedSearches", "topics", "topicCards", "topicMatches",
        "topic", "topicPatents", "trends", "convergence", "cliffs", "trend", "trendPatents",
        "trendExpiry", "trendAssignees", "expiry", "expiryCliffs", "patent", "similar",
        "signals", "figures", "summary", "todayExpiring", "todayCompanies", "todayTopics",
        "todayPlatform", "runHistory", "runArtifacts", "sourceHealth", "sourceFetches",
        "dataHealth", "adminTables", "subscriptions", "billing", "preferences", "email",
        "webhook", "webhookAlerts", "publicTopic", "publicCompany", "blogList", "blogPost"}
      BY DEF Screens
<1>2. SoundScreen("patents", Screens["patents"])
      <2>1. LET r == PatentsShow IN
            /\ r.shows = <<"error", "loading", "empty", "rows">> /\ r.pager = "beside" /\ r.fails = "throws"
            /\ r.keeps = FALSE /\ r.polls = FALSE /\ r.url \in BOOLEAN /\ r.single \in BOOLEAN /\ r.overruns \in BOOLEAN
            /\ r.drops = {}
            BY DEF Base, PatentsAsk, PatentsShow
      <2>2. Screens["patents"] = PatentsShow
            BY DEF Screens
      <2>3. QED BY <2>1, <2>2 DEF SoundScreen, DeniesOnErrors, DeniesWhileLoading, WaitsOnErrors
<1>3. SoundScreen("search", Screens["search"])
      <2>1. LET r == SearchShow IN
            /\ r.shows = <<"prompt", "loading", "none", "rows">> /\ r.pager = "within" /\ r.fails = "throws"
            /\ r.keeps = FALSE /\ r.polls = FALSE /\ r.url \in BOOLEAN /\ r.single \in BOOLEAN /\ r.overruns \in BOOLEAN
            /\ r.drops # {}
            BY DEF Base, SearchAsk, SearchNarrow, SearchShow, SearchPrompt
      <2>2. Screens["search"] = SearchShow
            BY DEF Screens
      <2>3. QED BY <2>1, <2>2 DEF SoundScreen, DeniesOnErrors, DeniesWhileLoading, WaitsOnErrors
<1>4. SoundScreen("opportunity", Screens["opportunity"])
      <2>1. LET r == OpportunityShow IN
            /\ r.shows = <<"waiting", "none", "rows">> /\ r.pager = "within" /\ r.fails = "throws"
            /\ r.keeps = TRUE /\ r.polls = FALSE /\ r.url \in BOOLEAN /\ r.single \in BOOLEAN /\ r.overruns \in BOOLEAN
            /\ r.drops = {}
            BY DEF Base, OpportunityAsk, OpportunityNarrow, OpportunityShow
      <2>2. Screens["opportunity"] = OpportunityShow
            BY DEF Screens
      <2>3. QED BY <2>1, <2>2 DEF SoundScreen, DeniesOnErrors, DeniesWhileLoading, WaitsOnErrors
<1>5. SoundScreen("companies", Screens["companies"])
      <2>1. LET r == CompaniesShow IN
            /\ r.shows = <<"loading", "none", "rows">> /\ r.pager = "beside" /\ r.fails = "throws"
            /\ r.keeps = FALSE /\ r.polls = FALSE /\ r.url \in BOOLEAN /\ r.single \in BOOLEAN /\ r.overruns \in BOOLEAN
            /\ r.drops = {}
            BY DEF Base, CompaniesAsk, CompaniesShow
      <2>2. Screens["companies"] = CompaniesShow
            BY DEF Screens
      <2>3. QED BY <2>1, <2>2 DEF SoundScreen, DeniesOnErrors, DeniesWhileLoading, WaitsOnErrors
<1>6. SoundScreen("companyMap", Screens["companyMap"])
      <2>1. LET r == CompanyMapShow IN
            /\ r.shows = <<"loading", "none", "rows">> /\ r.pager = "none" /\ r.fails = "throws"
            /\ r.keeps = FALSE /\ r.polls = FALSE /\ r.url \in BOOLEAN /\ r.single \in BOOLEAN /\ r.overruns \in BOOLEAN
            /\ r.drops = {}
            BY DEF Base, CompanyMapShow
      <2>2. Screens["companyMap"] = CompanyMapShow
            BY DEF Screens
      <2>3. QED BY <2>1, <2>2 DEF SoundScreen, DeniesOnErrors, DeniesWhileLoading, WaitsOnErrors
<1>7. SoundScreen("company", Screens["company"])
      <2>1. LET r == CompanyShow IN
            /\ r.shows = <<"loading", "gone", "rows">> /\ r.pager = "none" /\ r.fails = "throws"
            /\ r.keeps = FALSE /\ r.polls = FALSE /\ r.url \in BOOLEAN /\ r.single \in BOOLEAN /\ r.overruns \in BOOLEAN
            /\ r.drops = {}
            BY DEF Base, CompanyShow
      <2>2. Screens["company"] = CompanyShow
            BY DEF Screens
      <2>3. QED BY <2>1, <2>2 DEF SoundScreen, DeniesOnErrors, DeniesWhileLoading, WaitsOnErrors
<1>8. SoundScreen("savedPatents", Screens["savedPatents"])
      <2>1. LET r == SavedPatentsShow IN
            /\ r.shows = <<"loading", "none", "rows">> /\ r.pager = "local" /\ r.fails = "throws"
            /\ r.keeps = FALSE /\ r.polls = FALSE /\ r.url \in BOOLEAN /\ r.single \in BOOLEAN /\ r.overruns \in BOOLEAN
            /\ r.drops = {}
            BY DEF Base, SavedPatentsShow
      <2>2. Screens["savedPatents"] = SavedPatentsShow
            BY DEF Screens
      <2>3. QED BY <2>1, <2>2 DEF SoundScreen, DeniesOnErrors, DeniesWhileLoading, WaitsOnErrors
<1>9. SoundScreen("followed", Screens["followed"])
      <2>1. LET r == FollowedShow IN
            /\ r.shows = <<"loading", "none", "rows">> /\ r.pager = "none" /\ r.fails = "swallows"
            /\ r.keeps = FALSE /\ r.polls = FALSE /\ r.url \in BOOLEAN /\ r.single \in BOOLEAN /\ r.overruns \in BOOLEAN
            /\ r.drops = {}
            BY DEF Base, FollowedShow
      <2>2. Screens["followed"] = FollowedShow
            BY DEF Screens
      <2>3. QED BY <2>1, <2>2 DEF SoundScreen, DeniesOnErrors, DeniesWhileLoading, WaitsOnErrors
<1>10. SoundScreen("savedSearches", Screens["savedSearches"])
      <2>1. LET r == SavedSearchesShow IN
            /\ r.shows = <<"loading", "none", "rows">> /\ r.pager = "none" /\ r.fails = "throws"
            /\ r.keeps = FALSE /\ r.polls = FALSE /\ r.url \in BOOLEAN /\ r.single \in BOOLEAN /\ r.overruns \in BOOLEAN
            /\ r.drops = {}
            BY DEF Base, SavedSearchesShow
      <2>2. Screens["savedSearches"] = SavedSearchesShow
            BY DEF Screens
      <2>3. QED BY <2>1, <2>2 DEF SoundScreen, DeniesOnErrors, DeniesWhileLoading, WaitsOnErrors
<1>11. SoundScreen("topics", Screens["topics"])
      <2>1. LET r == TopicsShow IN
            /\ r.shows = <<"loading", "none", "rows">> /\ r.pager = "none" /\ r.fails = "throws"
            /\ r.keeps = FALSE /\ r.polls = FALSE /\ r.url \in BOOLEAN /\ r.single \in BOOLEAN /\ r.overruns \in BOOLEAN
            /\ r.drops = {}
            BY DEF Base, TopicsShow
      <2>2. Screens["topics"] = TopicsShow
            BY DEF Screens
      <2>3. QED BY <2>1, <2>2 DEF SoundScreen, DeniesOnErrors, DeniesWhileLoading, WaitsOnErrors
<1>12. SoundScreen("topicCards", Screens["topicCards"])
      <2>1. LET r == TopicCards IN
            /\ r.shows = <<"blank", "rows">> /\ r.pager = "none" /\ r.fails = "throws"
            /\ r.keeps = FALSE /\ r.polls = FALSE /\ r.url \in BOOLEAN /\ r.single \in BOOLEAN /\ r.overruns \in BOOLEAN
            /\ r.drops = {}
            BY DEF Base, TopicCards
      <2>2. Screens["topicCards"] = TopicCards
            BY DEF Screens
      <2>3. QED BY <2>1, <2>2 DEF SoundScreen, DeniesOnErrors, DeniesWhileLoading, WaitsOnErrors
<1>13. SoundScreen("topicMatches", Screens["topicMatches"])
      <2>1. LET r == TopicMatchesShow IN
            /\ r.shows = <<"prompt", "loading", "none", "rows">> /\ r.pager = "within" /\ r.fails = "throws"
            /\ r.keeps = FALSE /\ r.polls = FALSE /\ r.url \in BOOLEAN /\ r.single \in BOOLEAN /\ r.overruns \in BOOLEAN
            /\ r.drops # {}
            BY DEF Base, TopicMatchesAsk, TopicMatchesShow
      <2>2. Screens["topicMatches"] = TopicMatchesShow
            BY DEF Screens
      <2>3. QED BY <2>1, <2>2 DEF SoundScreen, DeniesOnErrors, DeniesWhileLoading, WaitsOnErrors
<1>14. SoundScreen("topic", Screens["topic"])
      <2>1. LET r == TopicShow IN
            /\ r.shows = <<"loading", "gone", "rows">> /\ r.pager = "none" /\ r.fails = "throws"
            /\ r.keeps = FALSE /\ r.polls = FALSE /\ r.url \in BOOLEAN /\ r.single \in BOOLEAN /\ r.overruns \in BOOLEAN
            /\ r.drops = {}
            BY DEF Base, TopicShow
      <2>2. Screens["topic"] = TopicShow
            BY DEF Screens
      <2>3. QED BY <2>1, <2>2 DEF SoundScreen, DeniesOnErrors, DeniesWhileLoading, WaitsOnErrors
<1>15. SoundScreen("topicPatents", Screens["topicPatents"])
      <2>1. LET r == TopicPatentsShow IN
            /\ r.shows = <<"none", "rows">> /\ r.pager = "none" /\ r.fails = "throws"
            /\ r.keeps = FALSE /\ r.polls = FALSE /\ r.url \in BOOLEAN /\ r.single \in BOOLEAN /\ r.overruns \in BOOLEAN
            /\ r.drops = {}
            BY DEF Base, TopicPatentsShow
      <2>2. Screens["topicPatents"] = TopicPatentsShow
            BY DEF Screens
      <2>3. QED BY <2>1, <2>2 DEF SoundScreen, DeniesOnErrors, DeniesWhileLoading, WaitsOnErrors
<1>16. SoundScreen("trends", Screens["trends"])
      <2>1. LET r == TrendsShow IN
            /\ r.shows = <<"loading", "none", "rows">> /\ r.pager = "none" /\ r.fails = "throws"
            /\ r.keeps = FALSE /\ r.polls = FALSE /\ r.url \in BOOLEAN /\ r.single \in BOOLEAN /\ r.overruns \in BOOLEAN
            /\ r.drops = {}
            BY DEF Base, TrendsAsk, TrendsShow
      <2>2. Screens["trends"] = TrendsShow
            BY DEF Screens
      <2>3. QED BY <2>1, <2>2 DEF SoundScreen, DeniesOnErrors, DeniesWhileLoading, WaitsOnErrors
<1>17. SoundScreen("convergence", Screens["convergence"])
      <2>1. LET r == ConvergenceShow IN
            /\ r.shows = <<"loading", "none", "rows">> /\ r.pager = "none" /\ r.fails = "throws"
            /\ r.keeps = FALSE /\ r.polls = FALSE /\ r.url \in BOOLEAN /\ r.single \in BOOLEAN /\ r.overruns \in BOOLEAN
            /\ r.drops = {}
            BY DEF Base, ConvergenceShow
      <2>2. Screens["convergence"] = ConvergenceShow
            BY DEF Screens
      <2>3. QED BY <2>1, <2>2 DEF SoundScreen, DeniesOnErrors, DeniesWhileLoading, WaitsOnErrors
<1>18. SoundScreen("cliffs", Screens["cliffs"])
      <2>1. LET r == CliffsShow IN
            /\ r.shows = <<"loading", "none", "rows">> /\ r.pager = "none" /\ r.fails = "throws"
            /\ r.keeps = FALSE /\ r.polls = FALSE /\ r.url \in BOOLEAN /\ r.single \in BOOLEAN /\ r.overruns \in BOOLEAN
            /\ r.drops = {}
            BY DEF Base, CliffsAsk, CliffsShow
      <2>2. Screens["cliffs"] = CliffsShow
            BY DEF Screens
      <2>3. QED BY <2>1, <2>2 DEF SoundScreen, DeniesOnErrors, DeniesWhileLoading, WaitsOnErrors
<1>19. SoundScreen("trend", Screens["trend"])
      <2>1. LET r == TrendShow IN
            /\ r.shows = <<"loading", "missing", "rows">> /\ r.pager = "none" /\ r.fails = "junk"
            /\ r.keeps = FALSE /\ r.polls = FALSE /\ r.url \in BOOLEAN /\ r.single \in BOOLEAN /\ r.overruns \in BOOLEAN
            /\ r.drops = {}
            BY DEF Base, TrendShow
      <2>2. Screens["trend"] = TrendShow
            BY DEF Screens
      <2>3. QED BY <2>1, <2>2 DEF SoundScreen, DeniesOnErrors, DeniesWhileLoading, WaitsOnErrors
<1>20. SoundScreen("trendPatents", Screens["trendPatents"])
      <2>1. LET r == TrendPatentsShow IN
            /\ r.shows = <<"loading", "none", "rows">> /\ r.pager = "within" /\ r.fails = "throws"
            /\ r.keeps = FALSE /\ r.polls = FALSE /\ r.url \in BOOLEAN /\ r.single \in BOOLEAN /\ r.overruns \in BOOLEAN
            /\ r.drops = {}
            BY DEF Base, TrendPatentsAsk, TrendPatentsShow
      <2>2. Screens["trendPatents"] = TrendPatentsShow
            BY DEF Screens
      <2>3. QED BY <2>1, <2>2 DEF SoundScreen, DeniesOnErrors, DeniesWhileLoading, WaitsOnErrors
<1>21. SoundScreen("trendExpiry", Screens["trendExpiry"])
      <2>1. LET r == TrendExpiryShow IN
            /\ r.shows = <<"loading", "none", "rows">> /\ r.pager = "none" /\ r.fails = "throws"
            /\ r.keeps = FALSE /\ r.polls = FALSE /\ r.url \in BOOLEAN /\ r.single \in BOOLEAN /\ r.overruns \in BOOLEAN
            /\ r.drops = {}
            BY DEF Base, TrendExpiryShow
      <2>2. Screens["trendExpiry"] = TrendExpiryShow
            BY DEF Screens
      <2>3. QED BY <2>1, <2>2 DEF SoundScreen, DeniesOnErrors, DeniesWhileLoading, WaitsOnErrors
<1>22. SoundScreen("trendAssignees", Screens["trendAssignees"])
      <2>1. LET r == TrendAssigneesShow IN
            /\ r.shows = <<"loading", "none", "rows">> /\ r.pager = "none" /\ r.fails = "throws"
            /\ r.keeps = FALSE /\ r.polls = FALSE /\ r.url \in BOOLEAN /\ r.single \in BOOLEAN /\ r.overruns \in BOOLEAN
            /\ r.drops = {}
            BY DEF Base, TrendAssigneesShow
      <2>2. Screens["trendAssignees"] = TrendAssigneesShow
            BY DEF Screens
      <2>3. QED BY <2>1, <2>2 DEF SoundScreen, DeniesOnErrors, DeniesWhileLoading, WaitsOnErrors
<1>23. SoundScreen("expiry", Screens["expiry"])
      <2>1. LET r == ExpirySections IN
            /\ r.shows = <<"loading", "none", "rows">> /\ r.pager = "none" /\ r.fails = "throws"
            /\ r.keeps = FALSE /\ r.polls = FALSE /\ r.url \in BOOLEAN /\ r.single \in BOOLEAN /\ r.overruns \in BOOLEAN
            /\ r.drops = {}
            BY DEF Base, ExpiryAsk, ExpiryNarrow, ExpiryChips, ExpirySections, ExpiryLists
      <2>2. Screens["expiry"] = ExpirySections
            BY DEF Screens
      <2>3. QED BY <2>1, <2>2 DEF SoundScreen, DeniesOnErrors, DeniesWhileLoading, WaitsOnErrors
<1>24. SoundScreen("expiryCliffs", Screens["expiryCliffs"])
      <2>1. LET r == ExpiryCliffs IN
            /\ r.shows = <<"missing", "rows">> /\ r.pager = "none" /\ r.fails = "throws"
            /\ r.keeps = FALSE /\ r.polls = FALSE /\ r.url \in BOOLEAN /\ r.single \in BOOLEAN /\ r.overruns \in BOOLEAN
            /\ r.drops = {}
            BY DEF Base, ExpiryCliffs
      <2>2. Screens["expiryCliffs"] = ExpiryCliffs
            BY DEF Screens
      <2>3. QED BY <2>1, <2>2 DEF SoundScreen, DeniesOnErrors, DeniesWhileLoading, WaitsOnErrors
<1>25. SoundScreen("patent", Screens["patent"])
      <2>1. LET r == PatentShow IN
            /\ r.shows = <<"loading", "missing", "rows">> /\ r.pager = "none" /\ r.fails = "throws"
            /\ r.keeps = FALSE /\ r.polls = FALSE /\ r.url \in BOOLEAN /\ r.single \in BOOLEAN /\ r.overruns \in BOOLEAN
            /\ r.drops = {}
            BY DEF Base, PatentShow
      <2>2. Screens["patent"] = PatentShow
            BY DEF Screens
      <2>3. QED BY <2>1, <2>2 DEF SoundScreen, DeniesOnErrors, DeniesWhileLoading, WaitsOnErrors
<1>26. SoundScreen("similar", Screens["similar"])
      <2>1. LET r == SimilarShow IN
            /\ r.shows = <<"loading", "error", "none", "rows">> /\ r.pager = "none" /\ r.fails = "throws"
            /\ r.keeps = FALSE /\ r.polls = FALSE /\ r.url \in BOOLEAN /\ r.single \in BOOLEAN /\ r.overruns \in BOOLEAN
            /\ r.drops = {}
            BY DEF Base, SimilarShow
      <2>2. Screens["similar"] = SimilarShow
            BY DEF Screens
      <2>3. QED BY <2>1, <2>2 DEF SoundScreen, DeniesOnErrors, DeniesWhileLoading, WaitsOnErrors
<1>27. SoundScreen("signals", Screens["signals"])
      <2>1. LET r == SignalsShow IN
            /\ r.shows = <<"loading", "failed", "rows">> /\ r.pager = "none" /\ r.fails = "throws"
            /\ r.keeps = FALSE /\ r.polls = FALSE /\ r.url \in BOOLEAN /\ r.single \in BOOLEAN /\ r.overruns \in BOOLEAN
            /\ r.drops = {}
            BY DEF Base, SignalsShow
      <2>2. Screens["signals"] = SignalsShow
            BY DEF Screens
      <2>3. QED BY <2>1, <2>2 DEF SoundScreen, DeniesOnErrors, DeniesWhileLoading, WaitsOnErrors
<1>28. SoundScreen("figures", Screens["figures"])
      <2>1. LET r == FiguresShow IN
            /\ r.shows = <<"loading", "hidden", "rows">> /\ r.pager = "none" /\ r.fails = "throws"
            /\ r.keeps = FALSE /\ r.polls = FALSE /\ r.url \in BOOLEAN /\ r.single \in BOOLEAN /\ r.overruns \in BOOLEAN
            /\ r.drops = {}
            BY DEF Base, FiguresShow
      <2>2. Screens["figures"] = FiguresShow
            BY DEF Screens
      <2>3. QED BY <2>1, <2>2 DEF SoundScreen, DeniesOnErrors, DeniesWhileLoading, WaitsOnErrors
<1>29. SoundScreen("summary", Screens["summary"])
      <2>1. LET r == SummaryShow IN
            /\ r.shows = <<"loading", "generating", "rows">> /\ r.pager = "none" /\ r.fails = "throws"
            /\ r.keeps = FALSE /\ r.polls = TRUE /\ r.url \in BOOLEAN /\ r.single \in BOOLEAN /\ r.overruns \in BOOLEAN
            /\ r.drops = {}
            BY DEF Base, SummaryShow
      <2>2. Screens["summary"] = SummaryShow
            BY DEF Screens
      <2>3. QED BY <2>1, <2>2 DEF SoundScreen, DeniesOnErrors, DeniesWhileLoading, WaitsOnErrors
<1>30. SoundScreen("todayExpiring", Screens["todayExpiring"])
      <2>1. LET r == TodayExpiring IN
            /\ r.shows = <<"loading", "none", "rows">> /\ r.pager = "none" /\ r.fails = "throws"
            /\ r.keeps = FALSE /\ r.polls = FALSE /\ r.url \in BOOLEAN /\ r.single \in BOOLEAN /\ r.overruns \in BOOLEAN
            /\ r.drops = {}
            BY DEF Base, TodayExpiring
      <2>2. Screens["todayExpiring"] = TodayExpiring
            BY DEF Screens
      <2>3. QED BY <2>1, <2>2 DEF SoundScreen, DeniesOnErrors, DeniesWhileLoading, WaitsOnErrors
<1>31. SoundScreen("todayCompanies", Screens["todayCompanies"])
      <2>1. LET r == TodayCompanies IN
            /\ r.shows = <<"loading", "none", "rows">> /\ r.pager = "none" /\ r.fails = "throws"
            /\ r.keeps = FALSE /\ r.polls = FALSE /\ r.url \in BOOLEAN /\ r.single \in BOOLEAN /\ r.overruns \in BOOLEAN
            /\ r.drops = {}
            BY DEF Base, TodayCompanies
      <2>2. Screens["todayCompanies"] = TodayCompanies
            BY DEF Screens
      <2>3. QED BY <2>1, <2>2 DEF SoundScreen, DeniesOnErrors, DeniesWhileLoading, WaitsOnErrors
<1>32. SoundScreen("todayTopics", Screens["todayTopics"])
      <2>1. LET r == TodayTopics IN
            /\ r.shows = <<"blank", "rows">> /\ r.pager = "none" /\ r.fails = "throws"
            /\ r.keeps = FALSE /\ r.polls = FALSE /\ r.url \in BOOLEAN /\ r.single \in BOOLEAN /\ r.overruns \in BOOLEAN
            /\ r.drops = {}
            BY DEF Base, TodayTopics
      <2>2. Screens["todayTopics"] = TodayTopics
            BY DEF Screens
      <2>3. QED BY <2>1, <2>2 DEF SoundScreen, DeniesOnErrors, DeniesWhileLoading, WaitsOnErrors
<1>33. SoundScreen("todayPlatform", Screens["todayPlatform"])
      <2>1. LET r == TodayPlatform IN
            /\ r.shows = <<"blank", "rows">> /\ r.pager = "none" /\ r.fails = "throws"
            /\ r.keeps = FALSE /\ r.polls = FALSE /\ r.url \in BOOLEAN /\ r.single \in BOOLEAN /\ r.overruns \in BOOLEAN
            /\ r.drops = {}
            BY DEF Base, TodayPlatform
      <2>2. Screens["todayPlatform"] = TodayPlatform
            BY DEF Screens
      <2>3. QED BY <2>1, <2>2 DEF SoundScreen, DeniesOnErrors, DeniesWhileLoading, WaitsOnErrors
<1>34. SoundScreen("runHistory", Screens["runHistory"])
      <2>1. LET r == RunHistory IN
            /\ r.shows = <<"none", "rows">> /\ r.pager = "none" /\ r.fails = "throws"
            /\ r.keeps = FALSE /\ r.polls = FALSE /\ r.url \in BOOLEAN /\ r.single \in BOOLEAN /\ r.overruns \in BOOLEAN
            /\ r.drops = {}
            BY DEF Base, RunHistory
      <2>2. Screens["runHistory"] = RunHistory
            BY DEF Screens
      <2>3. QED BY <2>1, <2>2 DEF SoundScreen, DeniesOnErrors, DeniesWhileLoading, WaitsOnErrors
<1>35. SoundScreen("runArtifacts", Screens["runArtifacts"])
      <2>1. LET r == RunArtifacts IN
            /\ r.shows = <<"loading", "none", "rows">> /\ r.pager = "none" /\ r.fails = "throws"
            /\ r.keeps = FALSE /\ r.polls = FALSE /\ r.url \in BOOLEAN /\ r.single \in BOOLEAN /\ r.overruns \in BOOLEAN
            /\ r.drops = {}
            BY DEF Base, RunArtifacts
      <2>2. Screens["runArtifacts"] = RunArtifacts
            BY DEF Screens
      <2>3. QED BY <2>1, <2>2 DEF SoundScreen, DeniesOnErrors, DeniesWhileLoading, WaitsOnErrors
<1>36. SoundScreen("sourceHealth", Screens["sourceHealth"])
      <2>1. LET r == SourceHealth IN
            /\ r.shows = <<"error", "loading", "silent", "rows">> /\ r.pager = "none" /\ r.fails = "throws"
            /\ r.keeps = FALSE /\ r.polls = FALSE /\ r.url \in BOOLEAN /\ r.single \in BOOLEAN /\ r.overruns \in BOOLEAN
            /\ r.drops = {}
            BY DEF Base, SourceHealth
      <2>2. Screens["sourceHealth"] = SourceHealth
            BY DEF Screens
      <2>3. QED BY <2>1, <2>2 DEF SoundScreen, DeniesOnErrors, DeniesWhileLoading, WaitsOnErrors
<1>37. SoundScreen("sourceFetches", Screens["sourceFetches"])
      <2>1. LET r == SourceFetches IN
            /\ r.shows = <<"loading", "none", "rows">> /\ r.pager = "none" /\ r.fails = "throws"
            /\ r.keeps = FALSE /\ r.polls = FALSE /\ r.url \in BOOLEAN /\ r.single \in BOOLEAN /\ r.overruns \in BOOLEAN
            /\ r.drops = {}
            BY DEF Base, SourceFetches
      <2>2. Screens["sourceFetches"] = SourceFetches
            BY DEF Screens
      <2>3. QED BY <2>1, <2>2 DEF SoundScreen, DeniesOnErrors, DeniesWhileLoading, WaitsOnErrors
<1>38. SoundScreen("dataHealth", Screens["dataHealth"])
      <2>1. LET r == DataHealth IN
            /\ r.shows = <<"loading", "error", "missing", "rows">> /\ r.pager = "none" /\ r.fails = "once"
            /\ r.keeps = FALSE /\ r.polls = FALSE /\ r.url \in BOOLEAN /\ r.single \in BOOLEAN /\ r.overruns \in BOOLEAN
            /\ r.drops = {}
            BY DEF Base, DataHealth
      <2>2. Screens["dataHealth"] = DataHealth
            BY DEF Screens
      <2>3. QED BY <2>1, <2>2 DEF SoundScreen, DeniesOnErrors, DeniesWhileLoading, WaitsOnErrors
<1>39. SoundScreen("adminTables", Screens["adminTables"])
      <2>1. LET r == AdminTables IN
            /\ r.shows = <<"silent", "rows">> /\ r.pager = "none" /\ r.fails = "throws"
            /\ r.keeps = FALSE /\ r.polls = FALSE /\ r.url \in BOOLEAN /\ r.single \in BOOLEAN /\ r.overruns \in BOOLEAN
            /\ r.drops = {}
            BY DEF Base, AdminTables
      <2>2. Screens["adminTables"] = AdminTables
            BY DEF Screens
      <2>3. QED BY <2>1, <2>2 DEF SoundScreen, DeniesOnErrors, DeniesWhileLoading, WaitsOnErrors
<1>40. SoundScreen("subscriptions", Screens["subscriptions"])
      <2>1. LET r == Subscriptions IN
            /\ r.shows = <<"pending", "empty", "rows">> /\ r.pager = "none" /\ r.fails = "throws"
            /\ r.keeps = FALSE /\ r.polls = FALSE /\ r.url \in BOOLEAN /\ r.single \in BOOLEAN /\ r.overruns \in BOOLEAN
            /\ r.drops = {}
            BY DEF Base, Subscriptions
      <2>2. Screens["subscriptions"] = Subscriptions
            BY DEF Screens
      <2>3. QED BY <2>1, <2>2 DEF SoundScreen, DeniesOnErrors, DeniesWhileLoading, WaitsOnErrors
<1>41. SoundScreen("billing", Screens["billing"])
      <2>1. LET r == BillingShow IN
            /\ r.shows = <<"error", "pending", "rows">> /\ r.pager = "none" /\ r.fails = "throws"
            /\ r.keeps = FALSE /\ r.polls = FALSE /\ r.url \in BOOLEAN /\ r.single \in BOOLEAN /\ r.overruns \in BOOLEAN
            /\ r.drops = {}
            BY DEF Base, BillingShow
      <2>2. Screens["billing"] = BillingShow
            BY DEF Screens
      <2>3. QED BY <2>1, <2>2 DEF SoundScreen, DeniesOnErrors, DeniesWhileLoading, WaitsOnErrors
<1>42. SoundScreen("preferences", Screens["preferences"])
      <2>1. LET r == PreferencesShow IN
            /\ r.shows = <<"loading", "failed", "rows">> /\ r.pager = "none" /\ r.fails = "throws"
            /\ r.keeps = FALSE /\ r.polls = FALSE /\ r.url \in BOOLEAN /\ r.single \in BOOLEAN /\ r.overruns \in BOOLEAN
            /\ r.drops = {}
            BY DEF Base, PreferencesShow
      <2>2. Screens["preferences"] = PreferencesShow
            BY DEF Screens
      <2>3. QED BY <2>1, <2>2 DEF SoundScreen, DeniesOnErrors, DeniesWhileLoading, WaitsOnErrors
<1>43. SoundScreen("email", Screens["email"])
      <2>1. LET r == EmailShow IN
            /\ r.shows = <<"pending", "rows">> /\ r.pager = "none" /\ r.fails = "throws"
            /\ r.keeps = FALSE /\ r.polls = FALSE /\ r.url \in BOOLEAN /\ r.single \in BOOLEAN /\ r.overruns \in BOOLEAN
            /\ r.drops = {}
            BY DEF Base, EmailShow
      <2>2. Screens["email"] = EmailShow
            BY DEF Screens
      <2>3. QED BY <2>1, <2>2 DEF SoundScreen, DeniesOnErrors, DeniesWhileLoading, WaitsOnErrors
<1>44. SoundScreen("webhook", Screens["webhook"])
      <2>1. LET r == WebhookShow IN
            /\ r.shows = <<"pending", "rows">> /\ r.pager = "none" /\ r.fails = "throws"
            /\ r.keeps = FALSE /\ r.polls = FALSE /\ r.url \in BOOLEAN /\ r.single \in BOOLEAN /\ r.overruns \in BOOLEAN
            /\ r.drops = {}
            BY DEF Base, WebhookShow
      <2>2. Screens["webhook"] = WebhookShow
            BY DEF Screens
      <2>3. QED BY <2>1, <2>2 DEF SoundScreen, DeniesOnErrors, DeniesWhileLoading, WaitsOnErrors
<1>45. SoundScreen("webhookAlerts", Screens["webhookAlerts"])
      <2>1. LET r == WebhookAlerts IN
            /\ r.shows = <<"none", "rows">> /\ r.pager = "none" /\ r.fails = "throws"
            /\ r.keeps = FALSE /\ r.polls = FALSE /\ r.url \in BOOLEAN /\ r.single \in BOOLEAN /\ r.overruns \in BOOLEAN
            /\ r.drops = {}
            BY DEF Base, WebhookAlerts
      <2>2. Screens["webhookAlerts"] = WebhookAlerts
            BY DEF Screens
      <2>3. QED BY <2>1, <2>2 DEF SoundScreen, DeniesOnErrors, DeniesWhileLoading, WaitsOnErrors
<1>46. SoundScreen("publicTopic", Screens["publicTopic"])
      <2>1. LET r == PublicTopic IN
            /\ r.shows = <<"loading", "none", "rows">> /\ r.pager = "none" /\ r.fails = "once"
            /\ r.keeps = FALSE /\ r.polls = FALSE /\ r.url \in BOOLEAN /\ r.single \in BOOLEAN /\ r.overruns \in BOOLEAN
            /\ r.drops = {}
            BY DEF Base, PublicTopic
      <2>2. Screens["publicTopic"] = PublicTopic
            BY DEF Screens
      <2>3. QED BY <2>1, <2>2 DEF SoundScreen, DeniesOnErrors, DeniesWhileLoading, WaitsOnErrors
<1>47. SoundScreen("publicCompany", Screens["publicCompany"])
      <2>1. LET r == PublicCompany IN
            /\ r.shows = <<"loading", "missing", "rows">> /\ r.pager = "none" /\ r.fails = "once"
            /\ r.keeps = FALSE /\ r.polls = FALSE /\ r.url \in BOOLEAN /\ r.single \in BOOLEAN /\ r.overruns \in BOOLEAN
            /\ r.drops = {}
            BY DEF Base, PublicCompany
      <2>2. Screens["publicCompany"] = PublicCompany
            BY DEF Screens
      <2>3. QED BY <2>1, <2>2 DEF SoundScreen, DeniesOnErrors, DeniesWhileLoading, WaitsOnErrors
<1>48. SoundScreen("blogList", Screens["blogList"])
      <2>1. LET r == BlogList IN
            /\ r.shows = <<"loading", "none", "rows">> /\ r.pager = "none" /\ r.fails = "swallows"
            /\ r.keeps = FALSE /\ r.polls = FALSE /\ r.url \in BOOLEAN /\ r.single \in BOOLEAN /\ r.overruns \in BOOLEAN
            /\ r.drops = {}
            BY DEF Base, BlogList
      <2>2. Screens["blogList"] = BlogList
            BY DEF Screens
      <2>3. QED BY <2>1, <2>2 DEF SoundScreen, DeniesOnErrors, DeniesWhileLoading, WaitsOnErrors
<1>49. SoundScreen("blogPost", Screens["blogPost"])
      <2>1. LET r == BlogPost IN
            /\ r.shows = <<"loading", "missing", "rows">> /\ r.pager = "none" /\ r.fails = "once"
            /\ r.keeps = FALSE /\ r.polls = FALSE /\ r.url \in BOOLEAN /\ r.single \in BOOLEAN /\ r.overruns \in BOOLEAN
            /\ r.drops = {}
            BY DEF Base, BlogPost
      <2>2. Screens["blogPost"] = BlogPost
            BY DEF Screens
      <2>3. QED BY <2>1, <2>2 DEF SoundScreen, DeniesOnErrors, DeniesWhileLoading, WaitsOnErrors
<1>50. QED BY <1>1, <1>2, <1>3, <1>4, <1>5, <1>6, <1>7, <1>8, <1>9, <1>10, <1>11, <1>12, <1>13, <1>14, <1>15, <1>16, <1>17, <1>18, <1>19, <1>20, <1>21, <1>22, <1>23, <1>24, <1>25, <1>26, <1>27, <1>28, <1>29, <1>30, <1>31, <1>32, <1>33, <1>34, <1>35, <1>36, <1>37, <1>38, <1>39, <1>40, <1>41, <1>42, <1>43, <1>44, <1>45, <1>46, <1>47, <1>48, <1>49
-----------------------------------------------------------------------------
\* The first view that holds.
LEMMA ViewOfTwo ==
  ASSUME NEW a, S.shows = <<a, "rows">>
  PROVE  View = IF Holds(a) THEN a ELSE "rows"
<1>1. Holds("rows")
      BY DEF Holds
<1>2. QED BY <1>1 DEF View

\* And of three views.
LEMMA ViewOfThree ==
  ASSUME NEW a, NEW b, S.shows = <<a, b, "rows">>
  PROVE  View = IF Holds(a) THEN a ELSE IF Holds(b) THEN b ELSE "rows"
<1>1. Holds("rows")
      BY DEF Holds
<1>2. QED BY <1>1 DEF View

\* And of four.
LEMMA ViewOfFour ==
  ASSUME NEW a, NEW b, NEW c, S.shows = <<a, b, c, "rows">>
  PROVE  View = IF Holds(a) THEN a ELSE IF Holds(b) THEN b ELSE IF Holds(c) THEN c ELSE "rows"
<1>1. Holds("rows")
      BY DEF Holds
<1>2. QED BY <1>1 DEF View
-----------------------------------------------------------------------------
\* What a screen asks for is answered, or is under way, or failed; a screen that
\* has no prompt always asks; and only the trend page takes an error for data.
AskedInv ==
  /\ S.drops = {} => Asked
  /\ Asked /\ ~Answered => KeyOf(ask) \in asking \cup broken
  /\ \A q \in Asks : shelf[q] = Junk => S.fails = "junk"

\* An answer is the server's stock, and a page after the first is one of it.
PagesInv ==
  /\ ~swapped /\ S.fails # "swallows" => \A q \in Asks : shelf[q] \in {Unanswered, Junk, stock[q.by]}
  /\ ask.pg > 1 => S.pager # "none"
  /\ ask.pg > 1 /\ ~swapped /\ ~strayed => ask.pg <= stock[ask.by]

ScreensInv == ScreenTypeOK /\ AskedInv /\ PagesInv
-----------------------------------------------------------------------------
\* The screen of the behaviour is one of the table.
LEMMA ScreenIsSound ==
  ASSUME ScreenTypeOK
  PROVE  SoundScreen(screen, S)
BY ScreensAreSound DEF ScreenTypeOK, S

\* The request and its key.
LEMMA Keys ==
  ASSUME ScreenTypeOK
  PROVE  /\ NoAsk \notin Asks /\ NoAsk.pg = 1
         /\ \A q \in Asks : /\ q.by \in Settings /\ q.pg \in 1..MaxPage
                            /\ KeyOf(q) \in Asks /\ KeyOf(q).by = q.by
         /\ KeyOf(NoAsk) = NoAsk
         /\ Asked => ask \in Asks /\ KeyOf(ask) \in Asks
<1>1. NoAsk \notin Asks /\ NoAsk.pg = 1
      BY ScreensAssumption DEF NoAsk, Asks
<1>2. ASSUME NEW q \in Asks
      PROVE  /\ q.by \in Settings /\ q.pg \in 1..MaxPage
             /\ KeyOf(q) \in Asks /\ KeyOf(q).by = q.by
      <2>1. q.by \in Settings /\ q.pg \in 1..MaxPage /\ q = [by |-> q.by, pg |-> q.pg]
            BY DEF Asks
      <2>2. 1 \in 1..MaxPage
            BY ScreensAssumption DEF MaxPage
      <2>3. [q EXCEPT !.pg = 1] \in Asks /\ [q EXCEPT !.pg = 1].by = q.by
            BY <2>1, <2>2 DEF Asks
      <2>4. QED BY <1>2, <2>1, <2>3 DEF KeyOf
<1>3. KeyOf(NoAsk) = NoAsk
      BY DEF KeyOf
<1>4. Asked => ask \in Asks
      BY DEF Asked, ScreenTypeOK
<1>5. QED BY <1>1, <1>2, <1>3, <1>4

\* What a screen has.
LEMMA HasWhatItAsked ==
  ASSUME ScreensInv
  PROVE  /\ Answered => Asked /\ Data = KeyOf(ask) /\ HasData
         /\ ~S.keeps /\ HasData => Answered
         /\ Rows => HasData
         /\ HasData => Data \in Asks
         /\ Asked /\ ~Answered => IsLoading \/ IsBroken
         /\ Data \in Asks \cup {NoAsk}
<1>1. ScreenTypeOK /\ AskedInv
      BY DEF ScreensInv
<1>2. Answered => Asked /\ Data = KeyOf(ask) /\ HasData
      BY <1>1, Keys DEF Answered, Data, HasData
<1>3. ~S.keeps /\ HasData => Answered
      BY DEF Data, HasData
<1>4. Data \in Asks \cup {NoAsk}
      <2>1. laggy \in Asks \cup {NoAsk}
            BY <1>1 DEF ScreenTypeOK
      <2>2. Answered => KeyOf(ask) \in Asks
            BY <1>1, Keys DEF Answered
      <2>3. QED BY <2>1, <2>2 DEF Data
<1>5. HasData => Data \in Asks
      BY <1>4 DEF HasData
<1>6. Asked /\ ~Answered => IsLoading \/ IsBroken
      BY <1>1 DEF AskedInv, IsLoading, IsBroken
<1>7. Rows => HasData
      BY DEF Rows
<1>8. QED BY <1>2, <1>3, <1>4, <1>5, <1>6, <1>7

\* What ViewsTellTheTruth asks of a screen that shows the view v.
TrueOf(v) ==
  /\ v \in {"loading", "waiting", "pending", "generating"} =>
       \/ KeyOf(ask) \in asking
       \/ IsBroken /\ screen \in WaitsOnErrors
       \/ S.polls
  /\ v \in {"none", "empty", "missing", "gone"} =>
       \/ Answered /\ ~Rows /\ (shelf[KeyOf(ask)] = 0 => ~Swallowed)
       \/ IsBroken /\ screen \in DeniesOnErrors
       \/ Swallowed /\ screen \in DeniesOnErrors
       \/ KeyOf(ask) \in asking /\ screen \in DeniesWhileLoading
  /\ v \in {"error", "failed"} => IsBroken
  /\ v = "rows" => \/ Data = KeyOf(ask)
                   \/ S.keeps /\ HasData /\ (IsBroken \/ KeyOf(ask) \in asking)
  /\ v \in {"silent", "blank", "hidden"} => ~Rows \/ IsBroken

\* What must hold for it, view by view.
LEMMA TruthOfViews ==
  ASSUME ScreensInv
  PROVE  /\ TrueOf("prompt")
         /\ IsLoading => TrueOf("loading") /\ TrueOf("waiting")
         /\ IsLoading \/ (IsBroken /\ screen \in WaitsOnErrors) => TrueOf("pending")
         /\ S.polls => TrueOf("generating")
         /\ IsBroken => TrueOf("error") /\ TrueOf("failed")
         /\ \/ Answered /\ ~Rows
            \/ IsBroken /\ screen \in DeniesOnErrors
            \/ IsLoading /\ screen \in DeniesWhileLoading
            => TrueOf("none") /\ TrueOf("empty") /\ TrueOf("missing") /\ TrueOf("gone")
         /\ ~Rows \/ IsBroken => TrueOf("silent") /\ TrueOf("blank") /\ TrueOf("hidden")
         /\ Data = KeyOf(ask) \/ (S.keeps /\ HasData /\ Asked /\ ~Answered) => TrueOf("rows")
<1>1. SoundScreen(screen, S)
      BY ScreenIsSound DEF ScreensInv
<1>2. Swallowed => screen \in DeniesOnErrors
      BY <1>1 DEF Swallowed, SoundScreen
<1>3. IsLoading => KeyOf(ask) \in asking
      BY DEF IsLoading
<1>4. Asked /\ ~Answered => IsLoading \/ IsBroken
      BY HasWhatItAsked
<1>5. TrueOf("prompt") /\ (S.polls => TrueOf("generating"))
      BY DEF TrueOf
<1>6. /\ IsLoading => TrueOf("loading") /\ TrueOf("waiting")
      /\ IsLoading \/ (IsBroken /\ screen \in WaitsOnErrors) => TrueOf("pending")
      BY <1>3 DEF TrueOf
<1>7. /\ IsBroken => TrueOf("error") /\ TrueOf("failed")
      /\ ~Rows \/ IsBroken => TrueOf("silent") /\ TrueOf("blank") /\ TrueOf("hidden")
      BY DEF TrueOf
<1>8. \/ Answered /\ ~Rows
      \/ IsBroken /\ screen \in DeniesOnErrors
      \/ IsLoading /\ screen \in DeniesWhileLoading
      => TrueOf("none") /\ TrueOf("empty") /\ TrueOf("missing") /\ TrueOf("gone")
      BY <1>2, <1>3 DEF TrueOf
<1>9. Data = KeyOf(ask) \/ (S.keeps /\ HasData /\ Asked /\ ~Answered) => TrueOf("rows")
      BY <1>3, <1>4 DEF TrueOf
<1>10. QED BY <1>5, <1>6, <1>7, <1>8, <1>9

\* Each order of views that a screen has: the first view that holds is true.
LEMMA FirstViewIsTrue ==
  ASSUME ScreensInv
  PROVE  TrueOf(View)
<1>1. ScreenTypeOK /\ AskedInv /\ SoundScreen(screen, S)
      BY ScreenIsSound DEF ScreensInv
<1>2. /\ TrueOf("prompt")
      /\ IsLoading => TrueOf("loading") /\ TrueOf("waiting")
      /\ IsLoading \/ (IsBroken /\ screen \in WaitsOnErrors) => TrueOf("pending")
      /\ S.polls => TrueOf("generating")
      /\ IsBroken => TrueOf("error") /\ TrueOf("failed")
      /\ \/ Answered /\ ~Rows
         \/ IsBroken /\ screen \in DeniesOnErrors
         \/ IsLoading /\ screen \in DeniesWhileLoading
         => TrueOf("none") /\ TrueOf("empty") /\ TrueOf("missing") /\ TrueOf("gone")
      /\ ~Rows \/ IsBroken => TrueOf("silent") /\ TrueOf("blank") /\ TrueOf("hidden")
      /\ Data = KeyOf(ask) \/ (S.keeps /\ HasData /\ Asked /\ ~Answered) => TrueOf("rows")
      BY TruthOfViews
<1>3. /\ Holds("prompt") <=> ~Asked
      /\ Holds("error") <=> IsBroken
      /\ Holds("loading") <=> IsLoading
      /\ Holds("waiting") <=> IsLoading /\ ~HasData
      /\ Holds("empty") <=> HasData /\ ~Rows
      /\ Holds("pending") <=> ~HasData
      /\ Holds("missing") <=> ~HasData
      /\ Holds("silent") <=> ~HasData
      /\ Holds("none") <=> ~Rows
      /\ Holds("blank") <=> ~Rows
      /\ Holds("generating") <=> ~Rows
      /\ Holds("failed") <=> IsBroken \/ ~HasData
      /\ Holds("gone") <=> IsBroken \/ ~Rows
      /\ Holds("hidden") <=> IsBroken \/ ~Rows
      BY DEF Holds
<1>4. /\ Answered => Asked /\ Data = KeyOf(ask) /\ HasData
      /\ ~S.keeps /\ HasData => Answered
      /\ Rows => HasData
      /\ Asked /\ ~Answered => IsLoading \/ IsBroken
      BY <1>1, HasWhatItAsked
<1>5. S.shows # <<"prompt", "loading", "none", "rows">> => Asked
      BY <1>1 DEF SoundScreen, AskedInv
<1>6. S.keeps => S.shows = <<"waiting", "none", "rows">>
      BY <1>1 DEF SoundScreen
<1> HIDE DEF S
<1>7. CASE S.shows = <<"error", "loading", "empty", "rows">>
      <2>1. Asked /\ ~S.keeps
            BY <1>5, <1>6, <1>7
      <2>2. View = IF Holds("error") THEN "error" ELSE IF Holds("loading") THEN "loading" ELSE
                   IF Holds("empty") THEN "empty" ELSE "rows"
            BY <1>7, ViewOfFour
      <2>3. QED BY <1>2, <1>3, <1>4, <2>1, <2>2
<1>8. CASE S.shows = <<"loading", "error", "missing", "rows">>
      <2>1. Asked /\ ~S.keeps
            BY <1>5, <1>6, <1>8
      <2>2. View = IF Holds("loading") THEN "loading" ELSE IF Holds("error") THEN "error" ELSE
                   IF Holds("missing") THEN "missing" ELSE "rows"
            BY <1>8, ViewOfFour
      <2>3. QED BY <1>2, <1>3, <1>4, <2>1, <2>2
<1>9. CASE S.shows = <<"error", "loading", "silent", "rows">>
      <2>1. Asked /\ ~S.keeps
            BY <1>5, <1>6, <1>9
      <2>2. View = IF Holds("error") THEN "error" ELSE IF Holds("loading") THEN "loading" ELSE
                   IF Holds("silent") THEN "silent" ELSE "rows"
            BY <1>9, ViewOfFour
      <2>3. QED BY <1>2, <1>3, <1>4, <2>1, <2>2
<1>10. CASE S.shows = <<"error", "pending", "rows">>
      <2>1. Asked /\ ~S.keeps
            BY <1>5, <1>6, <1>10
      <2>2. View = IF Holds("error") THEN "error" ELSE
                   IF Holds("pending") THEN "pending" ELSE "rows"
            BY <1>10, ViewOfThree
      <2>3. QED BY <1>2, <1>3, <1>4, <2>1, <2>2
<1>11. CASE S.shows = <<"loading", "failed", "rows">>
      <2>1. Asked /\ ~S.keeps
            BY <1>5, <1>6, <1>11
      <2>2. View = IF Holds("loading") THEN "loading" ELSE
                   IF Holds("failed") THEN "failed" ELSE "rows"
            BY <1>11, ViewOfThree
      <2>3. QED BY <1>2, <1>3, <1>4, <2>1, <2>2
<1>12. CASE S.shows = <<"loading", "hidden", "rows">>
      <2>1. Asked /\ ~S.keeps
            BY <1>5, <1>6, <1>12
      <2>2. View = IF Holds("loading") THEN "loading" ELSE
                   IF Holds("hidden") THEN "hidden" ELSE "rows"
            BY <1>12, ViewOfThree
      <2>3. QED BY <1>2, <1>3, <1>4, <2>1, <2>2
<1>13. CASE S.shows = <<"loading", "generating", "rows">>
      <2>1. Asked /\ ~S.keeps /\ S.polls
            BY <1>1, <1>5, <1>6, <1>13 DEF SoundScreen
      <2>2. View = IF Holds("loading") THEN "loading" ELSE
                   IF Holds("generating") THEN "generating" ELSE "rows"
            BY <1>13, ViewOfThree
      <2>3. QED BY <1>2, <1>3, <1>4, <2>1, <2>2
<1>14. CASE S.shows = <<"silent", "rows">>
      <2>1. Asked /\ ~S.keeps
            BY <1>5, <1>6, <1>14
      <2>2. View = IF Holds("silent") THEN "silent" ELSE "rows"
            BY <1>14, ViewOfTwo
      <2>3. QED BY <1>2, <1>3, <1>4, <2>1, <2>2
<1>15. CASE S.shows = <<"blank", "rows">>
      <2>1. Asked /\ ~S.keeps
            BY <1>5, <1>6, <1>15
      <2>2. View = IF Holds("blank") THEN "blank" ELSE "rows"
            BY <1>15, ViewOfTwo
      <2>3. QED BY <1>2, <1>3, <1>4, <2>1, <2>2
<1>16. CASE S.shows = <<"prompt", "loading", "none", "rows">>
      <2>1. ~S.keeps /\ screen \in DeniesOnErrors
            BY <1>1, <1>5, <1>6, <1>16 DEF SoundScreen
      <2>2. View = IF Holds("prompt") THEN "prompt" ELSE IF Holds("loading") THEN "loading" ELSE
                   IF Holds("none") THEN "none" ELSE "rows"
            BY <1>16, ViewOfFour
      <2>3. QED BY <1>2, <1>3, <1>4, <2>1, <2>2
<1>17. CASE S.shows = <<"loading", "error", "none", "rows">>
      <2>1. Asked /\ ~S.keeps /\ screen \in DeniesOnErrors
            BY <1>1, <1>5, <1>6, <1>17 DEF SoundScreen
      <2>2. View = IF Holds("loading") THEN "loading" ELSE IF Holds("error") THEN "error" ELSE
                   IF Holds("none") THEN "none" ELSE "rows"
            BY <1>17, ViewOfFour
      <2>3. QED BY <1>2, <1>3, <1>4, <2>1, <2>2
<1>18. CASE S.shows = <<"loading", "none", "rows">>
      <2>1. Asked /\ ~S.keeps /\ screen \in DeniesOnErrors
            BY <1>1, <1>5, <1>6, <1>18 DEF SoundScreen
      <2>2. View = IF Holds("loading") THEN "loading" ELSE IF Holds("none") THEN "none" ELSE "rows"
            BY <1>18, ViewOfThree
      <2>3. QED BY <1>2, <1>3, <1>4, <2>1, <2>2
<1>19. CASE S.shows = <<"loading", "gone", "rows">>
      <2>1. Asked /\ ~S.keeps /\ screen \in DeniesOnErrors
            BY <1>1, <1>5, <1>6, <1>19 DEF SoundScreen
      <2>2. View = IF Holds("loading") THEN "loading" ELSE IF Holds("gone") THEN "gone" ELSE "rows"
            BY <1>19, ViewOfThree
      <2>3. QED BY <1>2, <1>3, <1>4, <2>1, <2>2
<1>20. CASE S.shows = <<"loading", "missing", "rows">>
      <2>1. Asked /\ ~S.keeps /\ screen \in DeniesOnErrors
            BY <1>1, <1>5, <1>6, <1>20 DEF SoundScreen
      <2>2. View = IF Holds("loading") THEN "loading" ELSE
                   IF Holds("missing") THEN "missing" ELSE "rows"
            BY <1>20, ViewOfThree
      <2>3. QED BY <1>2, <1>3, <1>4, <2>1, <2>2
<1>21. CASE S.shows = <<"waiting", "none", "rows">>
      <2>1. Asked /\ screen \in DeniesOnErrors /\ screen \in DeniesWhileLoading
            BY <1>1, <1>5, <1>6, <1>21 DEF SoundScreen
      <2>2. View = IF Holds("waiting") THEN "waiting" ELSE IF Holds("none") THEN "none" ELSE "rows"
            BY <1>21, ViewOfThree
      <2>3. QED BY <1>2, <1>3, <1>4, <2>1, <2>2
<1>22. CASE S.shows = <<"none", "rows">>
      <2>1. Asked /\ ~S.keeps /\ screen \in DeniesOnErrors /\ screen \in DeniesWhileLoading
            BY <1>1, <1>5, <1>6, <1>22 DEF SoundScreen
      <2>2. View = IF Holds("none") THEN "none" ELSE "rows"
            BY <1>22, ViewOfTwo
      <2>3. QED BY <1>2, <1>3, <1>4, <2>1, <2>2
<1>23. CASE S.shows = <<"missing", "rows">>
      <2>1. Asked /\ ~S.keeps /\ screen \in DeniesOnErrors /\ screen \in DeniesWhileLoading
            BY <1>1, <1>5, <1>6, <1>23 DEF SoundScreen
      <2>2. View = IF Holds("missing") THEN "missing" ELSE "rows"
            BY <1>23, ViewOfTwo
      <2>3. QED BY <1>2, <1>3, <1>4, <2>1, <2>2
<1>24. CASE S.shows = <<"pending", "empty", "rows">>
      <2>1. Asked /\ ~S.keeps /\ screen \in WaitsOnErrors
            BY <1>1, <1>5, <1>6, <1>24 DEF SoundScreen
      <2>2. View = IF Holds("pending") THEN "pending" ELSE
                   IF Holds("empty") THEN "empty" ELSE "rows"
            BY <1>24, ViewOfThree
      <2>3. QED BY <1>2, <1>3, <1>4, <2>1, <2>2
<1>25. CASE S.shows = <<"pending", "rows">>
      <2>1. Asked /\ ~S.keeps /\ screen \in WaitsOnErrors
            BY <1>1, <1>5, <1>6, <1>25 DEF SoundScreen
      <2>2. View = IF Holds("pending") THEN "pending" ELSE "rows"
            BY <1>25, ViewOfTwo
      <2>3. QED BY <1>2, <1>3, <1>4, <2>1, <2>2
<1>26. QED BY <1>1, <1>7, <1>8, <1>9, <1>10, <1>11, <1>12, <1>13, <1>14, <1>15, <1>16, <1>17,
                <1>18, <1>19, <1>20, <1>21, <1>22, <1>23, <1>24, <1>25
            DEF SoundScreen

\* Only the trend page takes the body of an error for its data.
LEMMA ViewsAreTrue ==
  ASSUME ScreensInv
  PROVE  ViewsTellTheTruth
<1>1. SoundScreen(screen, S) /\ AskedInv
      BY ScreenIsSound DEF ScreensInv
<1>2. TrueOf(View)
      BY FirstViewIsTrue
<1>3. Crashed => screen = "trend"
      <2>1. HasData => Data \in Asks
            BY HasWhatItAsked
      <2>2. QED BY <1>1, <2>1 DEF Crashed, AskedInv, SoundScreen
<1>4. QED BY <1>2, <1>3 DEF TrueOf, ViewsTellTheTruth, Waits, SaysNothing

\* A page after the first, of a request that is answered, is one the server has.
LEMMA PagesAreInRange ==
  ASSUME ScreensInv
  PROVE  PagesStayInRange
<1>1. SoundScreen(screen, S) /\ ScreenTypeOK
      BY ScreenIsSound DEF ScreensInv
<1>2. SUFFICES ASSUME Answered, shelf[KeyOf(ask)] >= 0, ask.pg > 1, ~swapped, ~strayed
               PROVE  ask.pg <= shelf[KeyOf(ask)]
      <2>1. Answered => ask \in Asks /\ KeyOf(ask) \in Asks
            BY <1>1, Keys DEF Answered
      <2>2. Answered => ask.pg \in Int /\ shelf[KeyOf(ask)] \in Int
            BY <1>1, <2>1, Keys, ScreensAssumption DEF ScreenTypeOK, MaxPage, Unanswered, Junk
      <2>3. QED BY <2>2 DEF PagesStayInRange
<1>3. /\ S.pager # "none" /\ S.fails # "swallows"
      /\ ask.pg <= stock[ask.by]
      BY <1>1, <1>2 DEF ScreensInv, PagesInv, SoundScreen
<1>4. KeyOf(ask) \in Asks /\ KeyOf(ask).by = ask.by
      BY <1>1, <1>2, Keys DEF Answered
<1>5. shelf[KeyOf(ask)] \in {Unanswered, Junk, stock[KeyOf(ask).by]}
      BY <1>2, <1>3, <1>4 DEF ScreensInv, PagesInv
<1>6. QED BY <1>2, <1>3, <1>4, <1>5 DEF Unanswered, Junk
-----------------------------------------------------------------------------
(* The steps of a screen.                                                  *)

\* What a screen asks for when it is mounted.
LEMMA StartIsAsked ==
  Start \in Asks \cup {NoAsk} /\ Start.pg = 1 /\ (S.drops = {} => Start # NoAsk)
<1>1. PICK s \in Settings : s = CHOOSE b \in Settings : TRUE
      BY ScreensAssumption
<1>2. [by |-> s, pg |-> 1] \in Asks /\ [by |-> s, pg |-> 1] # NoAsk
      BY <1>1, ScreensAssumption DEF Asks, MaxPage, NoAsk
<1>3. QED BY <1>1, <1>2 DEF Start, NoAsk

\* The page asks for something else.
LEMMA AskKeeps ==
  ASSUME ScreensInv, NEW q \in Asks \cup {NoAsk}, Ask(q), strayed' \in BOOLEAN,
         S.drops = {} => q # NoAsk, q.pg > 1 => S.pager # "none",
         q.pg > 1 /\ ~swapped /\ ~strayed' => q.pg <= stock[q.by]
  PROVE  ScreensInv'
<1>1. /\ screen' = screen /\ stock' = stock /\ shelf' = shelf /\ broken' = broken
      /\ failures' = failures /\ polls' = polls /\ swapped' = swapped
      /\ moves < MaxMoves /\ moves' = moves + 1 /\ ask' = q
      /\ laggy' \in {Data, NoAsk}
      /\ \/ asking' = asking \cup ({KeyOf(q)} \ {NoAsk})
         \/ q # NoAsk /\ shelf[KeyOf(q)] # Unanswered /\ asking' = asking
      BY DEF Ask
<1>2. ScreenTypeOK /\ AskedInv /\ PagesInv
      BY DEF ScreensInv
<1>3. S' = S /\ KeyOf(ask)' = KeyOf(q)
      BY <1>1 DEF S, KeyOf
<1>4. q \in Asks => KeyOf(q) \in Asks /\ KeyOf(q) # NoAsk
      BY <1>2, Keys
<1>5. KeyOf(NoAsk) = NoAsk
      BY <1>2, Keys
<1>6. ScreenTypeOK'
      <2>1. laggy' \in Asks \cup {NoAsk}
            BY <1>1, HasWhatItAsked
      <2>2. asking' \subseteq Asks
            BY <1>1, <1>2, <1>4, <1>5 DEF ScreenTypeOK
      <2>3. moves' \in 0..MaxMoves
            BY <1>1, <1>2, ScreensAssumption DEF ScreenTypeOK
      <2>4. QED BY <1>1, <1>2, <2>1, <2>2, <2>3 DEF ScreenTypeOK
<1>7. AskedInv'
      <2>1. S'.drops = {} => Asked'
            BY <1>1, <1>3 DEF Asked
      <2>2. Asked' /\ ~Answered' => KeyOf(ask)' \in asking' \cup broken'
            BY <1>1, <1>3, <1>4 DEF Asked, Answered
      <2>3. \A p \in Asks : shelf'[p] = Junk => S'.fails = "junk"
            BY <1>1, <1>2, <1>3 DEF AskedInv
      <2>4. QED BY <2>1, <2>2, <2>3 DEF AskedInv
<1>8. PagesInv'
      <2>1. ~swapped' /\ S'.fails # "swallows" =>
              \A p \in Asks : shelf'[p] \in {Unanswered, Junk, stock'[p.by]}
            BY <1>1, <1>2, <1>3 DEF PagesInv
      <2>2. QED BY <1>1, <1>3, <2>1 DEF PagesInv
<1>9. QED BY <1>6, <1>7, <1>8 DEF ScreensInv

\* Another choice asks for its first page, and a screen that drops asks no more.
LEMMA ChooseKeeps ==
  ASSUME ScreensInv, Choose \/ Drop
  PROVE  ScreensInv'
<1>1. PICK q \in Asks \cup {NoAsk} : Ask(q) /\ strayed' = FALSE /\ q.pg = 1 /\ (S.drops = {} => q # NoAsk)
      <2>1. CASE Choose
            <3>1. PICK by \in Settings : Ask([by |-> by, pg |-> 1]) /\ strayed' = FALSE
                  BY <2>1 DEF Choose
            <3>2. [by |-> by, pg |-> 1] \in Asks
                  BY ScreensAssumption DEF Asks, MaxPage
            <3>3. [by |-> by, pg |-> 1] # NoAsk
                  BY <3>2, Keys DEF ScreensInv
            <3>4. QED BY <3>1, <3>2, <3>3
      <2>2. CASE Drop
            BY <2>2 DEF Drop, NoAsk
      <2>3. QED BY <2>1, <2>2
<1>2. ~(q.pg > 1)
      BY <1>1
<1>3. QED BY <1>1, <1>2, AskKeeps

\* A choice that leaves the page number as it is strays, if it is not the first.
LEMMA NarrowKeeps ==
  ASSUME ScreensInv, Narrow
  PROVE  ScreensInv'
<1>1. PICK by \in Settings : Ask([ask EXCEPT !.by = by]) /\ strayed' = (ask.pg > 1) /\ Asked
      BY DEF Narrow
<1>2. ScreenTypeOK /\ ask \in Asks /\ ask.pg \in 1..MaxPage
      BY <1>1, Keys DEF ScreensInv
<1>3. PICK q : q = [ask EXCEPT !.by = by]
      OBVIOUS
<1>4. q \in Asks /\ q.pg = ask.pg
      BY <1>2, <1>3 DEF Asks
<1>5. strayed' \in BOOLEAN /\ (q.pg > 1 => strayed')
      <2>1. CASE ask.pg > 1
            BY <1>1, <2>1
      <2>2. CASE ~(ask.pg > 1)
            BY <1>1, <1>4, <2>2
      <2>3. QED BY <2>1, <2>2
<1>6. q # NoAsk /\ (q.pg > 1 => S.pager # "none")
      BY <1>2, <1>4, Keys DEF ScreensInv, PagesInv
<1>7. QED BY <1>1, <1>3, <1>4, <1>5, <1>6, AskKeeps

\* The pager's next page is one that the rows it counts have.
LEMMA TurnKeeps ==
  ASSUME ScreensInv, Turn
  PROVE  ScreensInv'
<1>1. ScreenTypeOK /\ PagesInv /\ SoundScreen(screen, S)
      BY ScreenIsSound DEF ScreensInv
<1>2. PagerShown /\ strayed' = (strayed \/ Data # KeyOf(ask)) /\ strayed' \in BOOLEAN
      BY <1>1 DEF Turn, CanGoOn, CanGoBack, ScreenTypeOK
<1>3. HasData /\ S.pager # "none" /\ shelf[Data] > 1
      BY <1>1, <1>2 DEF PagerShown, SoundScreen
<1>4. Data \in Asks
      BY <1>3, HasWhatItAsked
<1>5. Asked
      <2>1. CASE Answered
            BY <2>1, HasWhatItAsked
      <2>2. CASE ~Answered
            <3>1. S.keeps
                  BY <1>3, <2>2, HasWhatItAsked
            <3>2. S.drops = {}
                  BY <1>1, <3>1 DEF SoundScreen
            <3>3. QED BY <3>2 DEF ScreensInv, AskedInv
      <2>3. QED BY <2>1, <2>2
<1>6. ask \in Asks /\ ask.pg \in 1..MaxPage /\ ask.by \in Settings /\ KeyOf(ask).by = ask.by
      BY <1>1, <1>5, Keys
<1>7. /\ stock[ask.by] \in Int /\ shelf[Data] \in Int /\ MaxPage \in Int
      BY <1>1, <1>4, <1>6, ScreensAssumption DEF ScreenTypeOK, MaxPage, Unanswered, Junk
<1>8. ~swapped /\ ~strayed' => /\ shelf[Data] = stock[ask.by]
                               /\ ask.pg > 1 => ask.pg <= stock[ask.by]
      <2>1. ~swapped /\ ~strayed' => shelf[Data] \in {Unanswered, Junk, stock[ask.by]}
            BY <1>1, <1>2, <1>3, <1>4, <1>6 DEF PagesInv, SoundScreen
      <2>2. ~strayed' => ~strayed
            BY <1>2, Zenon
      <2>3. ~swapped /\ ~strayed /\ ask.pg > 1 => ask.pg <= stock[ask.by]
            BY <1>1 DEF PagesInv
      <2>4. QED BY <1>3, <1>7, <2>1, <2>2, <2>3 DEF Unanswered, Junk
<1>9. CASE CanGoOn /\ ask.pg < MaxPage /\ Ask([ask EXCEPT !.pg = @ + 1])
      <2>1. PICK q : q = [ask EXCEPT !.pg = @ + 1]
            OBVIOUS
      <2>2. q \in Asks /\ q.pg = ask.pg + 1 /\ q.by = ask.by /\ q # NoAsk
            <3>1. ask.pg + 1 \in 1..MaxPage
                  BY <1>6, <1>7, <1>9
            <3>2. q \in Asks /\ q.pg = ask.pg + 1 /\ q.by = ask.by
                  BY <1>6, <2>1, <3>1 DEF Asks
            <3>3. QED BY <1>1, <3>2, Keys
      <2>3. ~swapped /\ ~strayed' => q.pg <= stock[q.by]
            <3>1. ask.pg # shelf[Data] \/ ask.pg < shelf[Data]
                  BY <1>9 DEF CanGoOn
            <3>2. QED BY <1>3, <1>6, <1>7, <1>8, <2>2, <3>1
      <2>4. QED BY <1>2, <1>3, <1>9, <2>1, <2>2, <2>3, AskKeeps
<1>10. CASE CanGoBack /\ Ask([ask EXCEPT !.pg = @ - 1])
      <2>1. PICK q : q = [ask EXCEPT !.pg = @ - 1]
            OBVIOUS
      <2>2. q \in Asks /\ q.pg = ask.pg - 1 /\ q.by = ask.by /\ q # NoAsk /\ ask.pg > 1
            <3>1. ask.pg > 1 /\ ask.pg - 1 \in 1..MaxPage
                  BY <1>6, <1>7, <1>10 DEF CanGoBack
            <3>2. q \in Asks /\ q.pg = ask.pg - 1 /\ q.by = ask.by
                  BY <1>6, <2>1, <3>1 DEF Asks
            <3>3. QED BY <1>1, <3>1, <3>2, Keys
      <2>3. ~swapped /\ ~strayed' => q.pg <= stock[q.by]
            BY <1>6, <1>7, <1>8, <2>2
      <2>4. QED BY <1>2, <1>3, <1>10, <2>1, <2>2, <2>3, AskKeeps
<1>11. QED BY <1>9, <1>10 DEF Turn

\* An answer, or what stands for one, arrives: SWR's cache takes it.
LEMMA AnswersKeep ==
  ASSUME ScreensInv, NEW q \in asking,
         screen' = screen, ask' = ask, stock' = stock, laggy' = laggy, moves' = moves,
         swapped' = swapped, strayed' = strayed, asking' = asking \ {q},
         failures' \in 0..MaxFailures, polls' \in {0, polls},
         Fails(q) \/ (shelf' = [shelf EXCEPT ![q] = stock[q.by]] /\ broken' = broken \ {q})
  PROVE  ScreensInv'
<1>1. ScreenTypeOK /\ AskedInv /\ PagesInv /\ SoundScreen(screen, S)
      BY ScreenIsSound DEF ScreensInv
<1>2. S' = S /\ KeyOf(ask)' = KeyOf(ask)
      BY DEF S, KeyOf
<1>3. q \in Asks /\ q.by \in Settings /\ stock[q.by] \in 0..MaxStock /\ 0 \in 0..MaxStock
      BY <1>1, Keys, ScreensAssumption DEF ScreenTypeOK
<1>4. PICK v \in {Unanswered, Junk} \cup 0..MaxStock :
        /\ shelf' = [shelf EXCEPT ![q] = v]
        /\ \/ v = shelf[q] /\ broken' = broken \cup {q}
           \/ v = stock[q.by] /\ broken' = broken \ {q}
           \/ v = 0 /\ S.fails = "swallows" /\ broken' = broken \ {q}
           \/ v = Junk /\ S.fails = "junk" /\ broken' = broken \ {q}
      <2>1. shelf[q] \in {Unanswered, Junk} \cup 0..MaxStock /\ shelf = [shelf EXCEPT ![q] = shelf[q]]
            BY <1>1, <1>3 DEF ScreenTypeOK
      <2>2. CASE shelf' = [shelf EXCEPT ![q] = stock[q.by]] /\ broken' = broken \ {q}
            BY <1>3, <2>2
      <2>3. CASE Fails(q) /\ S.fails \in {"throws", "once"}
            BY <2>1, <2>3 DEF Fails
      <2>4. CASE Fails(q) /\ S.fails = "swallows"
            BY <1>3, <2>4 DEF Fails
      <2>5. CASE Fails(q) /\ S.fails = "junk"
            BY <2>1, <2>5 DEF Fails
      <2>6. QED BY <1>1, <2>2, <2>3, <2>4, <2>5 DEF SoundScreen
<1>5. /\ shelf' \in [Asks -> {Unanswered, Junk} \cup 0..MaxStock]
      /\ shelf'[q] = v /\ \A p \in Asks : p # q => shelf'[p] = shelf[p]
      BY <1>1, <1>3, <1>4 DEF ScreenTypeOK
<1>6. ScreenTypeOK'
      <2>1. broken' \subseteq Asks /\ asking' \subseteq Asks
            BY <1>1, <1>3, <1>4 DEF ScreenTypeOK
      <2>2. polls' \in 0..MaxPolls + 1
            BY <1>1, ScreensAssumption DEF ScreenTypeOK
      <2>3. QED BY <1>1, <1>5, <2>1, <2>2 DEF ScreenTypeOK
<1>7. AskedInv'
      <2>1. S'.drops = {} => Asked'
            BY <1>1, <1>2 DEF AskedInv, Asked
      <2>2. ASSUME Asked', ~Answered' PROVE KeyOf(ask)' \in asking' \cup broken'
            <3>1. Asked /\ KeyOf(ask) \in Asks /\ shelf'[KeyOf(ask)] = Unanswered
                  BY <1>1, <1>2, <2>2, Keys DEF Asked, Answered
            <3>2. CASE KeyOf(ask) = q
                  <4>1. v = Unanswered
                        BY <1>5, <3>1, <3>2
                  <4>2. v # stock[q.by] /\ v # 0 /\ v # Junk
                        BY <1>3, <4>1 DEF Unanswered, Junk
                  <4>3. q \in broken'
                        BY <1>4, <4>2
                  <4>4. QED BY <1>2, <3>2, <4>3
            <3>3. CASE KeyOf(ask) # q
                  <4>1. ~Answered
                        BY <1>5, <3>1, <3>3 DEF Answered
                  <4>2. KeyOf(ask) \in asking \cup broken
                        BY <1>1, <3>1, <4>1 DEF AskedInv
                  <4>3. QED BY <1>2, <1>4, <3>3, <4>2
            <3>4. QED BY <3>2, <3>3
      <2>3. ASSUME NEW p \in Asks, shelf'[p] = Junk PROVE S'.fails = "junk"
            <3>1. CASE shelf[p] = Junk
                  BY <1>1, <1>2, <3>1 DEF AskedInv
            <3>2. CASE shelf[p] # Junk
                  <4>1. p = q /\ v = Junk
                        BY <1>5, <2>3, <3>2
                  <4>2. v # stock[q.by] /\ v # 0
                        BY <1>3, <4>1 DEF Junk
                  <4>3. QED BY <1>2, <1>4, <3>2, <4>1, <4>2
            <3>3. QED BY <3>1, <3>2
      <2>4. QED BY <2>1, <2>2, <2>3 DEF AskedInv
<1>8. PagesInv'
      <2>1. ASSUME ~swapped, S.fails # "swallows", NEW p \in Asks
            PROVE  shelf'[p] \in {Unanswered, Junk, stock[p.by]}
            <3>1. shelf[p] \in {Unanswered, Junk, stock[p.by]}
                  BY <1>1, <2>1 DEF PagesInv
            <3>2. CASE p = q
                  BY <1>4, <1>5, <2>1, <3>1, <3>2
            <3>3. CASE p # q
                  BY <1>5, <2>1, <3>1, <3>3
            <3>4. QED BY <3>2, <3>3
      <2>2. QED BY <1>1, <1>2, <2>1 DEF PagesInv
<1>9. QED BY <1>6, <1>7, <1>8 DEF ScreensInv

\* A request that is answered or fails.
LEMMA ArriveKeeps ==
  ASSUME ScreensInv, Arrive \/ Fail
  PROVE  ScreensInv'
<1>1. failures \in 0..MaxFailures
      BY DEF ScreensInv, ScreenTypeOK
<1>2. CASE Arrive
      <2>1. /\ screen' = screen /\ ask' = ask /\ stock' = stock /\ laggy' = laggy /\ moves' = moves
            /\ failures' = failures /\ swapped' = swapped /\ strayed' = strayed /\ polls' \in {0, polls}
            BY <1>2 DEF Arrive
      <2>2. PICK q \in asking :
              /\ asking' = asking \ {q}
              /\ Fails(q) \/ (shelf' = [shelf EXCEPT ![q] = stock[q.by]] /\ broken' = broken \ {q})
            BY <1>2 DEF Arrive
      <2>3. QED BY <1>1, <2>1, <2>2, AnswersKeep
<1>3. CASE Fail
      <2>1. /\ screen' = screen /\ ask' = ask /\ stock' = stock /\ laggy' = laggy /\ moves' = moves
            /\ swapped' = swapped /\ strayed' = strayed /\ polls' \in {0, polls}
            /\ failures < MaxFailures /\ failures' = failures + 1
            BY <1>3 DEF Fail
      <2>2. PICK q \in asking : asking' = asking \ {q} /\ Fails(q)
            BY <1>3 DEF Fail
      <2>3. failures' \in 0..MaxFailures
            BY <1>1, <2>1, ScreensAssumption
      <2>4. QED BY <2>1, <2>2, <2>3, AnswersKeep
<1>4. QED BY <1>2, <1>3

\* The cache is asked again, the page is drawn again, or the stock changes.
LEMMA RestKeeps ==
  ASSUME ScreensInv, Retry \/ Poll \/ Rerender \/ Restock \/ UNCHANGED screenVars
  PROVE  ScreensInv'
<1>1. /\ screen' = screen /\ ask' = ask /\ shelf' = shelf /\ laggy' = laggy /\ broken' = broken
      /\ moves' = moves /\ failures' = failures /\ strayed' = strayed
      BY DEF Retry, Poll, Rerender, Restock, screenVars
<1>2. ScreenTypeOK /\ AskedInv /\ PagesInv /\ SoundScreen(screen, S)
      BY ScreenIsSound DEF ScreensInv
<1>3. S' = S /\ KeyOf(ask)' = KeyOf(ask)
      BY <1>1 DEF S, KeyOf
<1>4. asking \subseteq asking' /\ asking' \subseteq Asks
      <2>1. asking \subseteq Asks
            BY <1>2 DEF ScreenTypeOK
      <2>2. CASE Retry
            BY <1>2, <2>1, <2>2, Keys DEF Retry, IsBroken
      <2>3. CASE Poll
            BY <1>2, <2>1, <2>3, Keys DEF Poll, Polling, Answered
      <2>4. CASE Rerender \/ Restock \/ UNCHANGED screenVars
            BY <2>1, <2>4 DEF Rerender, Restock, screenVars
      <2>5. QED BY <2>2, <2>3, <2>4
<1>5. /\ swapped' \in BOOLEAN /\ stock' \in [Settings -> 0..MaxStock]
      /\ ~swapped' => ~swapped /\ stock' = stock
      <2>1. stock \in [Settings -> 0..MaxStock] /\ swapped \in BOOLEAN
            BY <1>2 DEF ScreenTypeOK
      <2>2. CASE Restock
            <3>1. PICK by \in Settings, n \in 0 .. (IF S.pager = "none" THEN 1 ELSE MaxStock) :
                    stock' = [stock EXCEPT ![by] = n]
                  BY <2>2 DEF Restock
            <3>2. swapped' = TRUE
                  BY <2>2 DEF Restock
            <3>3. n \in 0..MaxStock
                  BY <3>1, ScreensAssumption
            <3>4. QED BY <2>1, <3>1, <3>2, <3>3
      <2>3. CASE Retry \/ Poll \/ Rerender \/ UNCHANGED screenVars
            BY <2>1, <2>3 DEF Retry, Poll, Rerender, screenVars
      <2>4. QED BY <2>2, <2>3
<1>6. polls' \in 0..MaxPolls + 1
      <2>1. polls \in 0..MaxPolls + 1
            BY <1>2 DEF ScreenTypeOK
      <2>2. polls' = polls \/ (polls <= MaxPolls /\ polls' = polls + 1)
            BY DEF Retry, Poll, Rerender, Restock, Polling, screenVars
      <2>3. QED BY <2>1, <2>2, ScreensAssumption
<1>7. ScreenTypeOK'
      BY <1>1, <1>2, <1>4, <1>5, <1>6 DEF ScreenTypeOK
<1>8. AskedInv'
      BY <1>1, <1>2, <1>3, <1>4 DEF AskedInv, Asked, Answered
<1>9. PagesInv'
      BY <1>1, <1>2, <1>3, <1>5 DEF PagesInv
<1>10. QED BY <1>7, <1>8, <1>9 DEF ScreensInv

\* A tab that is loaded again has the address, and asks.
LEMMA ReloadKeeps ==
  ASSUME ScreensInv, Reload
  PROVE  ScreensInv'
<1>1. /\ screen' = screen /\ stock' = stock /\ failures' = failures /\ swapped' = swapped
      /\ moves < MaxMoves /\ moves' = moves + 1 /\ ask' = (IF S.url THEN ask ELSE Start)
      /\ shelf' = [q \in Asks |-> Unanswered] /\ laggy' = NoAsk /\ broken' = {}
      /\ strayed' = (strayed /\ S.url) /\ polls' = 0
      BY DEF Reload
<1>2. ScreenTypeOK /\ AskedInv /\ PagesInv /\ SoundScreen(screen, S)
      BY ScreenIsSound DEF ScreensInv
<1>3. S' = S /\ \A q : KeyOf(q)' = KeyOf(q)
      BY <1>1 DEF S, KeyOf
<1>4. asking' = {KeyOf(ask')} \ {NoAsk} /\ KeyOf(ask)' = KeyOf(ask')
      BY <1>1 DEF Reload, S, KeyOf
<1>5. Start \in Asks \cup {NoAsk} /\ Start.pg = 1 /\ (S.drops = {} => Start # NoAsk)
      BY <1>2, StartIsAsked
<1>6. ask' \in Asks \cup {NoAsk}
      BY <1>1, <1>2, <1>5 DEF ScreenTypeOK
<1>7. ask' # NoAsk => KeyOf(ask') \in Asks /\ KeyOf(ask') # NoAsk
      BY <1>2, <1>6, Keys
<1>8. ScreenTypeOK'
      <2>1. moves' \in 0..MaxMoves
            BY <1>1, <1>2, ScreensAssumption DEF ScreenTypeOK
      <2>2. asking' \subseteq Asks
            <3>1. KeyOf(NoAsk) = NoAsk
                  BY <1>2, Keys
            <3>2. QED BY <1>4, <1>7, <3>1
      <2>3. strayed' \in BOOLEAN /\ 0 \in 0..MaxPolls + 1
            BY <1>1, ScreensAssumption
      <2>4. QED BY <1>1, <1>2, <1>6, <2>1, <2>2, <2>3 DEF ScreenTypeOK
<1>9. AskedInv'
      <2>1. S'.drops = {} => Asked'
            BY <1>1, <1>2, <1>3, <1>5 DEF AskedInv, Asked
      <2>2. Asked' => KeyOf(ask)' \in asking'
            BY <1>4, <1>7 DEF Asked
      <2>3. \A q \in Asks : shelf'[q] # Junk
            BY <1>1 DEF Unanswered, Junk
      <2>4. QED BY <2>1, <2>2, <2>3 DEF AskedInv
<1>10. PagesInv'
      <2>1. \A q \in Asks : shelf'[q] = Unanswered
            BY <1>1
      <2>2. ask'.pg > 1 => ask' = ask /\ S.url
            BY <1>1, <1>5
      <2>3. S.url /\ ~strayed' => ~strayed
            BY <1>1, Zenon
      <2>4. QED BY <1>1, <1>2, <1>3, <2>1, <2>2, <2>3 DEF PagesInv
<1>11. QED BY <1>8, <1>9, <1>10 DEF ScreensInv

\* A screen is opened.
LEMMA ScreensStart ==
  ASSUME ScreenInit
  PROVE  ScreensInv
<1>1. /\ screen \in DOMAIN Screens /\ ask = Start
      /\ stock \in [Settings -> 0 .. IF S.pager = "none" THEN 1 ELSE MaxStock]
      /\ shelf = [q \in Asks |-> Unanswered] /\ laggy = NoAsk /\ broken = {}
      /\ asking = (IF ask = NoAsk THEN {} ELSE {ask})
      /\ moves = 0 /\ failures = 0 /\ polls = 0 /\ swapped = FALSE /\ strayed = FALSE
      BY DEF ScreenInit
<1>2. Start \in Asks \cup {NoAsk} /\ Start.pg = 1 /\ (S.drops = {} => Start # NoAsk)
      BY StartIsAsked
<1>3. stock \in [Settings -> 0..MaxStock]
      <2>1. (IF S.pager = "none" THEN 1 ELSE MaxStock) \in 0..MaxStock
            BY ScreensAssumption
      <2>2. QED BY <1>1, <2>1, ScreensAssumption
<1>4. ScreenTypeOK
      <2>1. ask \in Asks \cup {NoAsk} /\ laggy \in Asks \cup {NoAsk} /\ asking \subseteq Asks
            BY <1>1, <1>2
      <2>2. shelf \in [Asks -> {Unanswered, Junk} \cup 0..MaxStock]
            BY <1>1
      <2>3. /\ moves \in 0..MaxMoves /\ failures \in 0..MaxFailures
            /\ polls \in 0..MaxPolls + 1 /\ swapped \in BOOLEAN /\ strayed \in BOOLEAN
            <3>1. 0 \in 0..MaxMoves /\ 0 \in 0..MaxFailures /\ 0 \in 0..MaxPolls + 1
                  BY ScreensAssumption
            <3>2. swapped \in BOOLEAN /\ strayed \in BOOLEAN
                  BY <1>1
            <3>3. QED BY <1>1, <3>1, <3>2
      <2>4. QED BY <1>1, <1>3, <2>1, <2>2, <2>3 DEF ScreenTypeOK
<1>5. KeyOf(ask) = ask
      <2>1. ask \in Asks => [ask EXCEPT !.pg = 1] = ask
            BY <1>1, <1>2 DEF Asks
      <2>2. QED BY <1>1, <1>2, <2>1 DEF KeyOf
<1>6. AskedInv
      BY <1>1, <1>2, <1>5 DEF AskedInv, Asked, Unanswered, Junk
<1>7. PagesInv
      BY <1>1, <1>2 DEF PagesInv
<1>8. QED BY <1>4, <1>6, <1>7 DEF ScreensInv

\* Whatever happens to a screen.
LEMMA ScreensKeep ==
  ASSUME ScreensInv, ScreenNext \/ UNCHANGED screenVars
  PROVE  ScreensInv'
<1>1. \/ Choose \/ Drop
      \/ Narrow \/ Turn \/ Reload
      \/ Arrive \/ Fail
      \/ Retry \/ Poll \/ Rerender \/ Restock \/ UNCHANGED screenVars
      BY DEF ScreenNext, ScreenUser, ScreenNet
<1>2. QED BY <1>1, ChooseKeeps, NarrowKeeps, TurnKeeps, ReloadKeeps, ArriveKeeps, RestKeeps
-----------------------------------------------------------------------------
\* What a screen says of its rows is true of the answer it has, but where the
\* lists of exceptions name it, and the page it asks with is one of its rows',
\* for any numbers of settings, rows, moves and failures.
THEOREM PagesTell == Spec => []PagesTellTheTruth
<1>1. Init => ScreensInv
      BY ScreensStart DEF Init
<1>2. ScreensInv /\ [Next]_webVars => ScreensInv'
      <2> SUFFICES ASSUME ScreensInv, [Next]_webVars PROVE ScreensInv'
          OBVIOUS
      <2>1. ScreenNext \/ UNCHANGED screenVars
            BY DEF Next, webVars, ScreensMove, WritesMove, ChatMoves, SessionMoves, TodayMoves,
                   FeedMoves
      <2>2. QED BY <2>1, ScreensKeep
<1>3. ScreensInv => PagesTellTheTruth
      BY ViewsAreTrue, PagesAreInRange DEF PagesTellTheTruth
<1>4. QED BY <1>1, <1>2, <1>3, PTL DEF Spec
-----------------------------------------------------------------------------
(* The Today page.                                                         *)

\* The page's state, and the server's.
PageStates ==
  [data: [Fetches -> Unknown .. MaxLooks], errors: SUBSET Fetches, asking: SUBSET Fetches,
   marked: BOOLEAN, look: 1..MaxLooks, cached: BOOLEAN, again: BOOLEAN, failures: 0..MaxFailed]
Accounts ==
  [themes: {0, 1}, watchlist: {0, 1}, last: 0..MaxLooks, cards: SUBSET AllCards,
   marks: SUBSET (1..MaxLooks)]

\* No look is marked before it is made, and what is not there is under way or
\* failed.  The watchlist does not change.  A page that was loaded, and neither
\* returned to nor asking for everything anew, asks for the state until it has
\* it, and marks its look after that only.
LooksInv ==
  /\ account.last <= today.look /\ \A k \in account.marks : k <= today.look
  /\ \A f \in Fetches : today.data[f] = Unknown => f \in today.asking \cup today.errors
  /\ today.data["watchlist"] \in {Unknown, account.watchlist}
  /\ ~today.cached /\ ~today.again =>
       /\ today.data["state"] # Unknown => "state" \notin today.asking \cup today.errors
       /\ today.marked => today.data["state"] # Unknown
       /\ account.last = today.look \/ today.look \in account.marks => today.marked
       /\ today.data["state"] < today.look

TodayInv == today \in PageStates /\ account \in Accounts /\ LooksInv
-----------------------------------------------------------------------------
\* What the invariant says of the fields.
LEMMA TodayFields ==
  ASSUME TodayInv
  PROVE  /\ today.data \in [Fetches -> Unknown .. MaxLooks]
         /\ today.errors \subseteq Fetches /\ today.asking \subseteq Fetches
         /\ today.marked \in BOOLEAN /\ today.look \in 1..MaxLooks /\ today.cached \in BOOLEAN
         /\ today.again \in BOOLEAN /\ today.failures \in 0..MaxFailed
         /\ account.themes \in {0, 1} /\ account.watchlist \in {0, 1}
         /\ account.last \in 0..MaxLooks /\ account.marks \subseteq 1..MaxLooks
BY DEF TodayInv, PageStates, Accounts

\* The answer to a fetch is of the account.
LEMMA AnswersAreTyped ==
  ASSUME TodayInv, NEW f \in Fetches
  PROVE  /\ AnswerTo(f) \in 0..MaxLooks
         /\ f = "watchlist" => AnswerTo(f) = account.watchlist
         /\ f = "state" => AnswerTo(f) = account.last
<1>1. /\ account.themes \in {0, 1} /\ account.watchlist \in {0, 1} /\ account.last \in 0..MaxLooks
      BY TodayFields
<1>2. {0, 1} \subseteq 0..MaxLooks
      BY TodayAssumption
<1>3. CASE f = "state"
      BY <1>1, <1>3 DEF AnswerTo
<1>4. CASE f = "platform"
      BY <1>2, <1>4 DEF AnswerTo
<1>5. CASE f = "themes"
      BY <1>1, <1>2, <1>5 DEF AnswerTo
<1>6. CASE f = "watchlist"
      BY <1>1, <1>2, <1>6 DEF AnswerTo
<1>7. QED BY <1>3, <1>4, <1>5, <1>6 DEF Fetches

\* An answer arrives.
LEMMA DoneKeeps ==
  ASSUME TodayInv, NEW f \in Fetches, FetchDone(f)
  PROVE  TodayInv'
<1>1. /\ f \in today.asking /\ account' = account
      /\ today' = [today EXCEPT !.data[f] = AnswerTo(f), !.errors = @ \ {f}, !.asking = @ \ {f}]
      BY DEF FetchDone
<1>2. /\ today.data \in [Fetches -> Unknown .. MaxLooks] /\ account.last \in 0..MaxLooks
      /\ today.errors \subseteq Fetches /\ today.asking \subseteq Fetches /\ today.look \in 1..MaxLooks
      BY TodayFields
<1>3. /\ AnswerTo(f) \in 0..MaxLooks
      /\ f = "watchlist" => AnswerTo(f) = account.watchlist
      /\ f = "state" => AnswerTo(f) = account.last
      BY AnswersAreTyped
<1>4. PICK d : d = [today.data EXCEPT ![f] = AnswerTo(f)]
      OBVIOUS
<1>5. /\ d \in [Fetches -> Unknown .. MaxLooks] /\ d[f] = AnswerTo(f)
      /\ \A g \in Fetches : g # f => d[g] = today.data[g]
      BY <1>2, <1>3, <1>4 DEF Unknown
<1>6. today' = [today EXCEPT !.data = d, !.errors = today.errors \ {f}, !.asking = today.asking \ {f}]
      BY <1>1, <1>4 DEF TodayInv, PageStates
<1>7. /\ today' \in PageStates /\ today'.data = d /\ today'.errors = today.errors \ {f}
      /\ today'.asking = today.asking \ {f} /\ today'.marked = today.marked /\ today'.look = today.look
      /\ today'.cached = today.cached /\ today'.again = today.again
      BY <1>2, <1>5, <1>6 DEF TodayInv, PageStates
<1>8. LooksInv'
      <2> USE DEF LooksInv, TodayInv
      <2>1. account'.last <= today'.look /\ \A k \in account'.marks : k <= today'.look
            BY <1>1, <1>7
      <2>2. \A g \in Fetches : today'.data[g] = Unknown => g \in today'.asking \cup today'.errors
            BY <1>3, <1>5, <1>7 DEF Unknown
      <2>3. today'.data["watchlist"] \in {Unknown, account'.watchlist}
            BY <1>1, <1>3, <1>5, <1>7 DEF Fetches
      <2>4. ASSUME ~today'.cached, ~today'.again
            PROVE  /\ today'.data["state"] # Unknown => "state" \notin today'.asking \cup today'.errors
                   /\ today'.marked => today'.data["state"] # Unknown
                   /\ account'.last = today'.look \/ today'.look \in account'.marks => today'.marked
                   /\ today'.data["state"] < today'.look
            <3>1. CASE f = "state"
                  <4>1. today.data["state"] = Unknown /\ ~today.marked
                        BY <1>1, <1>7, <2>4, <3>1
                  <4>2. account.last # today.look /\ account.last < today.look
                        BY <1>2, <1>7, <2>4, <4>1
                  <4>3. today'.data["state"] = account.last
                        BY <1>3, <1>5, <1>7, <3>1
                  <4>4. QED BY <1>1, <1>2, <1>7, <2>4, <3>1, <4>1, <4>2, <4>3 DEF Unknown
            <3>2. CASE f # "state"
                  BY <1>1, <1>5, <1>7, <2>4, <3>2 DEF Fetches
            <3>3. QED BY <3>1, <3>2
      <2>5. QED BY <2>1, <2>2, <2>3, <2>4
<1>9. QED BY <1>1, <1>7, <1>8 DEF TodayInv

\* The other steps of a fetch: none brings anything.
LEMMA AskingKeeps ==
  ASSUME TodayInv,
         (\E f \in Fetches : FetchFails(f) \/ FetchAgain(f)) \/ TakeFocus \/ Reconnect
  PROVE  TodayInv'
<1>1. /\ today.errors \subseteq Fetches /\ today.asking \subseteq Fetches
      /\ today.failures \in 0..MaxFailed
      BY TodayFields
<1>2. account' = account
      BY DEF FetchFails, FetchAgain, TakeFocus, Reconnect
<1>3. PICK e \in SUBSET Fetches, a \in SUBSET Fetches, g \in {today.again, TRUE}, n \in 0..MaxFailed :
        /\ today' = [today EXCEPT !.errors = e, !.asking = a, !.again = g, !.failures = n]
        /\ today.asking \cup today.errors \subseteq a \cup e
        /\ g = today.again /\ "state" \notin today.asking \cup today.errors => "state" \notin a \cup e
      <2>1. ASSUME NEW f \in Fetches, FetchFails(f)
            PROVE  \E e \in SUBSET Fetches, a \in SUBSET Fetches, n \in 0..MaxFailed :
                     /\ today' = [today EXCEPT !.errors = e, !.asking = a, !.again = today.again, !.failures = n]
                     /\ today.asking \cup today.errors \subseteq a \cup e
                     /\ "state" \notin today.asking \cup today.errors => "state" \notin a \cup e
            <3>1. /\ f \in today.asking /\ today.failures < MaxFailed
                  /\ today' = [today EXCEPT !.errors = @ \cup {f}, !.asking = @ \ {f}, !.failures = @ + 1]
                  BY <2>1 DEF FetchFails
            <3>2. today' = [today EXCEPT !.errors = today.errors \cup {f}, !.asking = today.asking \ {f},
                                         !.again = today.again, !.failures = today.failures + 1]
                  BY <3>1 DEF TodayInv, PageStates
            <3>3. today.failures + 1 \in 0..MaxFailed
                  BY <1>1, <3>1, TodayAssumption
            <3>4. /\ today.errors \cup {f} \in SUBSET Fetches /\ today.asking \ {f} \in SUBSET Fetches
                  /\ today.asking \cup today.errors \subseteq (today.asking \ {f}) \cup (today.errors \cup {f})
                  /\ "state" \notin today.asking \cup today.errors =>
                       "state" \notin (today.asking \ {f}) \cup (today.errors \cup {f})
                  BY <1>1, <3>1
            <3>5. QED BY <3>2, <3>3, <3>4
      <2>2. ASSUME NEW f \in Fetches, FetchAgain(f)
            PROVE  \E a \in SUBSET Fetches :
                     /\ today' = [today EXCEPT !.errors = today.errors, !.asking = a,
                                               !.again = today.again, !.failures = today.failures]
                     /\ today.asking \cup today.errors \subseteq a \cup today.errors
                     /\ "state" \notin today.asking \cup today.errors => "state" \notin a \cup today.errors
            <3>1. /\ f \in today.errors /\ today' = [today EXCEPT !.asking = @ \cup {f}]
                  BY <2>2 DEF FetchAgain
            <3>2. today' = [today EXCEPT !.errors = today.errors, !.asking = today.asking \cup {f},
                                         !.again = today.again, !.failures = today.failures]
                  BY <3>1 DEF TodayInv, PageStates
            <3>3. /\ today.asking \cup {f} \in SUBSET Fetches
                  /\ today.asking \cup today.errors \subseteq (today.asking \cup {f}) \cup today.errors
                  /\ "state" \notin today.asking \cup today.errors =>
                       "state" \notin (today.asking \cup {f}) \cup today.errors
                  BY <1>1, <3>1
            <3>4. QED BY <3>2, <3>3
      <2>3. CASE TakeFocus
            <3>1. /\ today.asking = {}
                  /\ today' = [today EXCEPT !.asking = {"platform", "themes", "watchlist"}]
                  BY <2>3 DEF TakeFocus
            <3>2. today' = [today EXCEPT !.errors = today.errors, !.asking = {"platform", "themes", "watchlist"},
                                         !.again = today.again, !.failures = today.failures]
                  BY <3>1 DEF TodayInv, PageStates
            <3>3. {"platform", "themes", "watchlist"} \in SUBSET Fetches /\ "state" \notin {"platform", "themes", "watchlist"}
                  BY DEF Fetches
            <3>4. QED BY <1>1, <3>1, <3>2, <3>3
      <2>4. CASE Reconnect
            <3>1. /\ ~today.again /\ today' = [today EXCEPT !.asking = Fetches, !.again = TRUE]
                  BY <2>4 DEF Reconnect
            <3>2. today' = [today EXCEPT !.errors = today.errors, !.asking = Fetches,
                                         !.again = TRUE, !.failures = today.failures]
                  BY <3>1 DEF TodayInv, PageStates
            <3>3. today.again # TRUE
                  BY <3>1
            <3>4. QED BY <1>1, <3>2, <3>3
      <2>5. QED BY <1>1, <2>1, <2>2, <2>3, <2>4
<1>4. /\ today' \in PageStates /\ today'.data = today.data /\ today'.errors = e /\ today'.asking = a
      /\ today'.marked = today.marked /\ today'.look = today.look /\ today'.cached = today.cached
      /\ today'.again = g
      <2>1. g \in BOOLEAN
            BY TodayFields
      <2>2. QED BY <1>3, <2>1 DEF TodayInv, PageStates
<1>5. LooksInv'
      <2> USE DEF LooksInv, TodayInv
      <2>1. /\ account'.last <= today'.look /\ \A k \in account'.marks : k <= today'.look
            /\ today'.data["watchlist"] \in {Unknown, account'.watchlist}
            BY <1>2, <1>4
      <2>2. \A f \in Fetches : today'.data[f] = Unknown => f \in today'.asking \cup today'.errors
            BY <1>3, <1>4
      <2>3. ASSUME ~today'.cached, ~today'.again
            PROVE  /\ today'.data["state"] # Unknown => "state" \notin today'.asking \cup today'.errors
                   /\ today'.marked => today'.data["state"] # Unknown
                   /\ account'.last = today'.look \/ today'.look \in account'.marks => today'.marked
                   /\ today'.data["state"] < today'.look
            <3>1. ~today.again /\ g = today.again
                  BY <1>4, <2>3
            <3>2. QED BY <1>2, <1>3, <1>4, <2>3, <3>1
      <2>4. QED BY <2>1, <2>2, <2>3
<1>6. QED BY <1>2, <1>4, <1>5 DEF TodayInv

\* The look is marked, and the mark arrives or is lost.
LEMMA MarkKeeps ==
  ASSUME TodayInv, MarkLook \/ MarkArrives \/ PickStarter \/ PlaceNext \/ UNCHANGED <<today, account>>
  PROVE  TodayInv'
<1>1. /\ account.last \in 0..MaxLooks /\ account.marks \subseteq 1..MaxLooks
      /\ today.look \in 1..MaxLooks /\ account.watchlist \in {0, 1} /\ account.themes \in {0, 1}
      BY TodayFields
<1>2. CASE MarkLook
      <2>1. /\ today.data["state"] # Unknown
            /\ today' = [today EXCEPT !.marked = TRUE]
            /\ account' = [account EXCEPT !.marks = @ \cup {today.look}]
            BY <1>2 DEF MarkLook
      <2>2. /\ today' \in PageStates /\ today'.data = today.data /\ today'.errors = today.errors
            /\ today'.asking = today.asking /\ today'.marked = TRUE /\ today'.look = today.look
            /\ today'.cached = today.cached /\ today'.again = today.again
            BY <2>1 DEF TodayInv, PageStates
      <2>3. /\ account' \in Accounts /\ account'.last = account.last /\ account'.watchlist = account.watchlist
            /\ account'.marks = account.marks \cup {today.look}
            BY <1>1, <2>1 DEF TodayInv, Accounts
      <2>4. QED BY <1>1, <2>1, <2>2, <2>3 DEF TodayInv, LooksInv
<1>3. CASE MarkArrives
      <2>1. PICK k \in account.marks :
              account' \in {[account EXCEPT !.marks = @ \ {k}, !.last = k], [account EXCEPT !.marks = @ \ {k}]}
            BY <1>3 DEF MarkArrives
      <2>2. /\ account' \in Accounts /\ account'.last \in {account.last, k} /\ account'.watchlist = account.watchlist
            /\ account'.marks \subseteq account.marks
            <3>1. /\ k \in 0..MaxLooks /\ account.marks \ {k} \in SUBSET (1..MaxLooks)
                  /\ account.marks \ {k} \subseteq account.marks
                  BY <1>1, <2>1
            <3>2. CASE account' = [account EXCEPT !.marks = @ \ {k}, !.last = k]
                  BY <3>1, <3>2 DEF TodayInv, Accounts
            <3>3. CASE account' = [account EXCEPT !.marks = @ \ {k}]
                  BY <3>1, <3>3 DEF TodayInv, Accounts
            <3>4. QED BY <2>1, <3>2, <3>3
      <2>3. today' = today
            BY <1>3 DEF MarkArrives
      <2>4. QED BY <1>1, <2>1, <2>2, <2>3 DEF TodayInv, LooksInv
<1>4. CASE PickStarter
      <2>1. today' = today /\ account' = [account EXCEPT !.themes = 1]
            BY <1>4 DEF PickStarter
      <2>2. /\ account' \in Accounts /\ account'.last = account.last /\ account'.watchlist = account.watchlist
            /\ account'.marks = account.marks
            BY <2>1 DEF TodayInv, Accounts
      <2>3. QED BY <2>1, <2>2 DEF TodayInv, LooksInv
<1>5. CASE PlaceNext \/ UNCHANGED <<today, account>>
      BY <1>5 DEF PlaceNext, TodayInv, LooksInv
<1>6. QED BY <1>2, <1>3, <1>4, <1>5

\* Another look.
LEMMA LookKeeps ==
  ASSUME TodayInv, ComeBack \/ LoadAgain
  PROVE  TodayInv'
<1>1. /\ today.look \in 1..MaxLooks /\ today.look < MaxLooks /\ account' = account
      /\ account.last \in 0..MaxLooks /\ account.marks \subseteq 1..MaxLooks
      /\ today.data \in [Fetches -> Unknown .. MaxLooks] /\ today.asking \subseteq Fetches
      BY TodayFields DEF ComeBack, LoadAgain
<1>2. today.look + 1 \in 1..MaxLooks
      BY <1>1, TodayAssumption
<1>3. account.last <= today.look /\ \A k \in account.marks : k <= today.look
      BY DEF TodayInv, LooksInv
<1>4. /\ account'.last < today.look + 1 /\ \A k \in account'.marks : k < today.look + 1
      BY <1>1, <1>3, TodayAssumption
<1>5. CASE ComeBack
      <2>1. PICK f \in SUBSET Fetches :
              today' = [today EXCEPT !.asking = @ \cup f \cup {g \in Fetches : today.data[g] = Unknown},
                                     !.marked = FALSE, !.look = @ + 1, !.cached = TRUE]
            BY <1>5 DEF ComeBack
      <2>2. PICK a \in SUBSET Fetches : a = today.asking \cup f \cup {g \in Fetches : today.data[g] = Unknown}
            BY <1>1
      <2>3. today' = [today EXCEPT !.asking = a, !.marked = FALSE, !.look = today.look + 1, !.cached = TRUE]
            BY <2>1, <2>2 DEF TodayInv, PageStates
      <2>4. /\ today' \in PageStates /\ today'.data = today.data /\ today'.asking = a
            /\ today'.look = today.look + 1 /\ today'.cached
            BY <1>2, <2>3 DEF TodayInv, PageStates
      <2>5. today.data["watchlist"] \in {Unknown, account.watchlist}
            BY DEF TodayInv, LooksInv
      <2>6. LooksInv'
            BY <1>1, <1>4, <2>2, <2>4, <2>5 DEF LooksInv
      <2>7. QED BY <1>1, <2>4, <2>6 DEF TodayInv
<1>6. CASE LoadAgain
      <2>1. today' = [today EXCEPT !.data = [f \in Fetches |-> Unknown], !.errors = {},
                            !.asking = Fetches, !.marked = FALSE, !.look = @ + 1,
                            !.cached = FALSE, !.again = FALSE]
            BY <1>6 DEF LoadAgain
      <2>2. [f \in Fetches |-> Unknown] \in [Fetches -> Unknown .. MaxLooks]
            BY TodayAssumption DEF Unknown
      <2>3. PICK d \in [Fetches -> Unknown .. MaxLooks] : d = [f \in Fetches |-> Unknown]
            BY <2>2
      <2>4. today' = [today EXCEPT !.data = d, !.errors = {}, !.asking = Fetches, !.marked = FALSE,
                                   !.look = today.look + 1, !.cached = FALSE, !.again = FALSE]
            BY <2>1, <2>3 DEF TodayInv, PageStates
      <2>5. /\ today' \in PageStates /\ today'.data = d /\ today'.errors = {} /\ today'.asking = Fetches
            /\ ~today'.marked /\ today'.look = today.look + 1
            BY <1>2, <2>4 DEF TodayInv, PageStates
      <2>6. d["state"] = Unknown /\ d["watchlist"] = Unknown
            BY <2>3 DEF Fetches
      <2>7. LooksInv'
            BY <1>1, <1>4, <2>5, <2>6 DEF LooksInv, Unknown
      <2>8. QED BY <1>1, <2>5, <2>7 DEF TodayInv
<1>7. QED BY <1>5, <1>6

\* The page is loaded.
LEMMA TodayStarts == TodayInit => TodayInv
<1> SUFFICES ASSUME TodayInit PROVE TodayInv
    OBVIOUS
<1>1. /\ today = [data |-> [f \in Fetches |-> Unknown], errors |-> {}, asking |-> Fetches,
                  marked |-> FALSE, look |-> 1, cached |-> FALSE, again |-> FALSE, failures |-> 0]
      /\ account \in [themes : {0, 1}, watchlist : {0, 1}, last : {0},
                      cards : {{}, {"notable_patent", "platform"}, AllCards}, marks : {{}}]
      BY DEF TodayInit
<1>2. PICK d : d = [f \in Fetches |-> Unknown]
      OBVIOUS
<1>3. d \in [Fetches -> Unknown .. MaxLooks] /\ \A f \in Fetches : d[f] = Unknown
      BY <1>2, TodayAssumption DEF Unknown
<1>4. 1 \in 1..MaxLooks /\ 0 \in 0..MaxFailed /\ 0 \in 0..MaxLooks
      BY TodayAssumption
<1>5. /\ today \in PageStates /\ today.data = d /\ today.asking = Fetches /\ today.marked = FALSE
      /\ today.look = 1
      BY <1>1, <1>2, <1>3, <1>4 DEF PageStates
<1>6. account \in Accounts /\ account.last = 0 /\ account.marks = {}
      BY <1>1, <1>4 DEF Accounts, AllCards
<1>7. d["state"] = Unknown /\ d["watchlist"] = Unknown
      BY <1>3 DEF Fetches
<1>8. LooksInv
      BY <1>5, <1>6, <1>7 DEF LooksInv, Unknown
<1>9. QED BY <1>5, <1>6, <1>8 DEF TodayInv

\* Whatever happens to the page, the look or the account.
LEMMA TodayKeeps ==
  ASSUME TodayInv, TodayUser \/ TodayNet \/ PlaceNext \/ UNCHANGED <<today, account>>
  PROVE  TodayInv'
<1>1. \/ \E f \in Fetches : FetchDone(f)
      \/ (\E f \in Fetches : FetchFails(f) \/ FetchAgain(f)) \/ TakeFocus \/ Reconnect
      \/ MarkLook \/ MarkArrives \/ PickStarter \/ PlaceNext \/ UNCHANGED <<today, account>>
      \/ ComeBack \/ LoadAgain
      BY DEF TodayUser, TodayNet
<1>2. QED BY <1>1, DoneKeeps, AskingKeeps, MarkKeeps, LookKeeps

\* What the page calls the last visit, and whom it welcomes.
LEMMA TodayLabels ==
  ASSUME TodayInv
  PROVE  TodayTypeOK /\ LabelNamesAnEarlierLook /\ WelcomeIsForNewcomers
<1>1. TodayTypeOK
      BY TodayFields DEF TodayTypeOK
<1>2. LabelNamesAnEarlierLook
      <2>1. today.look \in Int
            BY TodayFields
      <2>2. QED BY <2>1 DEF TodayInv, LooksInv, LabelNamesAnEarlierLook
<1>3. ASSUME TodayView = "welcome"
      PROVE  /\ account.watchlist = 0 \/ "watchlist" \in today.errors
             /\ "themes" \in today.errors \/ today.data["themes"] = 0
      <2>1. IsFirstTime
            BY <1>3 DEF TodayView
      <2>2. /\ ~StillLoading("themes") /\ ~StillLoading("watchlist")
            /\ today.data["themes"] <= 0 /\ today.data["watchlist"] <= 0
            BY <2>1 DEF IsFirstTime
      <2>3. /\ "themes" \in Fetches /\ "watchlist" \in Fetches
            /\ today.data["themes"] \in Unknown .. MaxLooks /\ account.watchlist \in {0, 1}
            BY TodayFields DEF Fetches
      <2>4. /\ today.data["themes"] = Unknown => "themes" \in today.errors
            /\ today.data["watchlist"] = Unknown => "watchlist" \in today.errors
            BY <2>2, <2>3 DEF TodayInv, LooksInv, StillLoading
      <2>5. today.data["watchlist"] \in {Unknown, account.watchlist}
            BY DEF TodayInv, LooksInv
      <2>6. QED BY <2>2, <2>3, <2>4, <2>5, TodayAssumption DEF Unknown
<1>4. QED BY <1>1, <1>2, <1>3 DEF WelcomeIsForNewcomers
-----------------------------------------------------------------------------
\* Whatever the Today page goes through, all pages leave it as it should be.
LEMMA TodaySteps ==
  ASSUME TodayInv, [Next]_webVars
  PROVE  TodayInv'
<1>1. TodayUser \/ TodayNet \/ PlaceNext \/ UNCHANGED <<today, account>>
      BY DEF Next, webVars, ScreensMove, WritesMove, ChatMoves, SessionMoves, TodayMoves,
             FeedMoves, todayVars
<1>2. QED BY <1>1, TodayKeeps
-----------------------------------------------------------------------------
(* The order of the briefing.                                              *)

\* A set of numbers has a least one, and induction, for sets.
LEMMA Least ==
  ASSUME NEW T \in SUBSET Nat, T # {}
  PROVE  \E n \in T : \A m \in T : n <= m
<1> DEFINE R == OpToRel(<, Nat)
<1>1. IsWellFoundedOn(R, Nat)
      BY NatLessThanWellFounded
<1>2. \A x, y \in Nat : x < y => <<x, y>> \in R
      BY DEF OpToRel
<1> HIDE DEF R
<1>3. PICK n \in T : \A m \in T : ~(<<m, n>> \in R)
      BY <1>1, WFMin
<1>4. ASSUME NEW m \in T PROVE n <= m
      <2>1. m \in Nat /\ n \in Nat
            OBVIOUS
      <2>2. ~(m < n)
            BY <1>2, <1>3, <2>1
      <2>3. QED BY <2>1, <2>2
<1>5. QED BY <1>4

LEMMA SetInduction ==
  ASSUME NEW T, 0 \in T, \A n \in Nat : n \in T => n + 1 \in T
  PROVE  Nat \subseteq T
<1>1. SUFFICES ASSUME Nat \ T # {} PROVE FALSE
      OBVIOUS
<1>2. PICK n \in Nat \ T : \A m \in Nat \ T : n <= m
      <2>1. Nat \ T \in SUBSET Nat
            OBVIOUS
      <2>2. QED BY <1>1, <2>1, Least
<1>3. n - 1 \in Nat /\ n - 1 \notin Nat \ T
      BY <1>2
<1>4. QED BY <1>2, <1>3

\* Of the values of a function there is a least one.
LEMMA LeastOf ==
  ASSUME NEW Z, Z # {}, NEW g \in [Z -> Nat]
  PROVE  \E s \in Z : \A t \in Z : g[s] <= g[t]
<1>1. PICK T : T = {g[s] : s \in Z}
      OBVIOUS
<1>2. T \in SUBSET Nat /\ T # {}
      BY <1>1
<1>3. PICK n \in T : \A m \in T : n <= m
      BY <1>2, Least
<1>4. PICK s \in Z : n = g[s]
      BY <1>1, <1>3
<1>5. QED BY <1>1, <1>3, <1>4
-----------------------------------------------------------------------------
\* Places and their ranks: a rank is a number of places, and grows.
LEMMA RankGrows ==
  ASSUME NEW Z \in SUBSET Nat, IsFiniteSet(Z), NEW i \in Z
  PROVE  /\ Rank(Z, i) \in Nat /\ Rank(Z, i) < Cardinality(Z)
         /\ \A k \in Z : i < k => Rank(Z, i) < Rank(Z, k)
<1>0. \A k : IsFiniteSet({j \in Z : j < k}) /\ Cardinality({j \in Z : j < k}) \in Nat
      <2>1. ASSUME NEW k PROVE IsFiniteSet({j \in Z : j < k}) /\ Cardinality({j \in Z : j < k}) \in Nat
            <3>1. {j \in Z : j < k} \in SUBSET Z
                  OBVIOUS
            <3>2. IsFiniteSet({j \in Z : j < k})
                  BY <3>1, FS_Subset
            <3>3. QED BY <3>2, FS_CardinalityType
      <2>2. QED BY <2>1
<1>1. PICK B : B = {j \in Z : j < i}
      OBVIOUS
<1>2. IsFiniteSet(B) /\ Cardinality(B) \in Nat /\ Rank(Z, i) = Cardinality(B) /\ i \notin B
      BY <1>0, <1>1 DEF Rank
<1>3. IsFiniteSet(B \cup {i}) /\ Cardinality(B \cup {i}) = Cardinality(B) + 1
      BY <1>2, FS_AddElement
<1>4. Rank(Z, i) < Cardinality(Z)
      <2>1. B \cup {i} \in SUBSET Z
            BY <1>1
      <2>2. Cardinality(B \cup {i}) <= Cardinality(Z) /\ Cardinality(Z) \in Nat
            BY <2>1, FS_Subset, FS_CardinalityType
      <2>3. QED BY <1>2, <1>3, <2>2
<1>5. ASSUME NEW k \in Z, i < k PROVE Rank(Z, i) < Rank(Z, k)
      <2>1. PICK C : C = {j \in Z : j < k}
            OBVIOUS
      <2>2. IsFiniteSet(C) /\ Cardinality(C) \in Nat /\ Rank(Z, k) = Cardinality(C)
            BY <1>0, <2>1 DEF Rank
      <2>3. B \cup {i} \in SUBSET C
            <3>1. \A j \in Z : j \in Nat
                  OBVIOUS
            <3>2. \A j \in B : j \in C
                  BY <1>1, <1>5, <2>1, <3>1
            <3>3. QED BY <1>5, <2>1, <3>2
      <2>4. Cardinality(B \cup {i}) <= Cardinality(C)
            BY <2>2, <2>3, FS_Subset
      <2>5. QED BY <1>2, <1>3, <2>2, <2>4
<1>6. QED BY <1>2, <1>4, <1>5

\* Every number below the number of places is the rank of one, which is Nth.
LEMMA NthHasRank ==
  ASSUME NEW Z \in SUBSET Nat, IsFiniteSet(Z)
  PROVE  \A n \in Nat : n < Cardinality(Z) => Nth(Z, n) \in Z /\ Rank(Z, Nth(Z, n)) = n
<1> DEFINE T == {n \in Nat : n < Cardinality(Z) => \E i \in Z : Rank(Z, i) = n}
<1>0. Cardinality(Z) \in Nat
      BY FS_CardinalityType
<1>1. 0 \in T
      <2>1. SUFFICES ASSUME 0 < Cardinality(Z) PROVE \E i \in Z : Rank(Z, i) = 0
            OBVIOUS
      <2>2. Z # {}
            BY <2>1, FS_EmptySet
      <2>3. PICK i \in Z : \A k \in Z : i <= k
            BY <2>2, Least
      <2>4. {j \in Z : j < i} = {}
            <3>1. \A j \in Z : j \in Nat /\ ~(j < i)
                  BY <2>3
            <3>2. QED BY <3>1
      <2>5. QED BY <2>4, FS_EmptySet DEF Rank
<1>2. ASSUME NEW n \in Nat, n \in T PROVE n + 1 \in T
      <2>1. SUFFICES ASSUME n + 1 < Cardinality(Z) PROVE \E i \in Z : Rank(Z, i) = n + 1
            OBVIOUS
      <2>2. PICK i \in Z : Rank(Z, i) = n
            BY <1>0, <1>2, <2>1
      <2>3. PICK B : B = {j \in Z : j < i}
            OBVIOUS
      <2>4. IsFiniteSet(B) /\ Cardinality(B) = n /\ i \notin B
            <3>1. B \in SUBSET Z
                  BY <2>3
            <3>2. QED BY <2>2, <2>3, <3>1, FS_Subset DEF Rank
      <2>5. IsFiniteSet(B \cup {i}) /\ Cardinality(B \cup {i}) = n + 1
            BY <2>4, FS_AddElement
      <2>6. Z \ (B \cup {i}) # {}
            <3>1. B \cup {i} \in SUBSET Z
                  BY <2>3
            <3>2. ASSUME B \cup {i} = Z PROVE FALSE
                  <4>1. Cardinality(Z) = n + 1
                        BY <2>5, <3>2
                  <4>2. QED BY <1>0, <2>1, <4>1
            <3>3. QED BY <3>1, <3>2
      <2>7. PICK k \in Z \ (B \cup {i}) : \A m \in Z \ (B \cup {i}) : k <= m
            <3>1. Z \ (B \cup {i}) \in SUBSET Nat
                  OBVIOUS
            <3>2. QED BY <2>6, <3>1, Least
      <2>8. {j \in Z : j < k} = B \cup {i}
            <3>1. i < k
                  BY <2>3, <2>7
            <3>2. \A j \in B : j < k
                  BY <2>3, <2>7, <3>1
            <3>3. \A j \in Z : j < k => j \in B \cup {i}
                  BY <2>7
            <3>4. B \subseteq Z
                  BY <2>3
            <3>5. QED BY <3>1, <3>2, <3>3, <3>4
      <2>9. QED BY <2>5, <2>7, <2>8 DEF Rank
<1>3. Nat \subseteq T
      <2> HIDE DEF T
      <2>1. QED BY <1>1, <1>2, SetInduction
<1>4. QED BY <1>3 DEF Nth

\* And the place of a rank is the one that has it.
LEMMA NthOfRank ==
  ASSUME NEW Z \in SUBSET Nat, IsFiniteSet(Z)
  PROVE  /\ \A i \in Z : Nth(Z, Rank(Z, i)) = i
         /\ \A m, n \in Nat : m < n /\ n < Cardinality(Z) => Nth(Z, m) < Nth(Z, n)
<1>0. Cardinality(Z) \in Nat
      BY FS_CardinalityType
<1>1. ASSUME NEW i \in Z PROVE Nth(Z, Rank(Z, i)) = i
      <2>1. Rank(Z, i) \in Nat /\ Rank(Z, i) < Cardinality(Z)
            BY RankGrows
      <2>2. PICK k \in Z : k = Nth(Z, Rank(Z, i)) /\ Rank(Z, k) = Rank(Z, i)
            BY <2>1, NthHasRank
      <2>3. ~(i < k) /\ ~(k < i)
            BY <2>1, <2>2, RankGrows
      <2>4. i \in Nat /\ k \in Nat
            OBVIOUS
      <2>5. QED BY <2>2, <2>3, <2>4
<1>2. ASSUME NEW m \in Nat, NEW n \in Nat, m < n, n < Cardinality(Z) PROVE Nth(Z, m) < Nth(Z, n)
      <2>1. /\ Nth(Z, m) \in Z /\ Nth(Z, n) \in Z
            /\ Rank(Z, Nth(Z, m)) = m /\ Rank(Z, Nth(Z, n)) = n
            BY <1>0, <1>2, NthHasRank
      <2>2. PICK a \in Z, b \in Z : a = Nth(Z, m) /\ b = Nth(Z, n) /\ Rank(Z, a) = m /\ Rank(Z, b) = n
            BY <2>1
      <2>3. ~(b < a) /\ a # b
            BY <1>2, <2>2, RankGrows
      <2>4. a \in Nat /\ b \in Nat
            OBVIOUS
      <2>5. QED BY <2>2, <2>3, <2>4
<1>3. QED BY <1>1, <1>2
-----------------------------------------------------------------------------
\* Items of a type are numbered in the order they have.
Numbered(s) == \A i, j \in DOMAIN s : i < j /\ s[i].type = s[j].type => s[i].id < s[j].id

\* The parts of a call of diversify: what is counted is what was placed, of
\* each type the first items in their order; only the type placed last has a
\* run, which is as long as it looks, if that is one or two.
FeedParts(f) ==
  /\ f = [pool |-> f.pool, target |-> f.target, result |-> f.result,
          consumed |-> f.consumed, consec |-> f.consec]
  /\ f.pool \in Seq(ToSet(f.pool)) /\ f.target \in Nat /\ f.target <= Len(f.pool)
  /\ \A i \in DOMAIN f.pool : f.pool[i].id \in Nat
  /\ f.result \in Seq(ToSet(f.pool)) /\ Len(f.result) <= f.target
  /\ f.consumed \in [TypesOf(f.pool) -> Nat] /\ f.consec \in [TypesOf(f.pool) -> Nat]
Counted(f) ==
  \A t \in TypesOf(f.pool) :
    /\ f.consumed[t] = Cardinality(OfType(f.result, t))
    /\ f.consumed[t] <= Cardinality(Group(f, t))
Drawn(f) ==
  \A i \in DOMAIN f.result :
    LET t == f.result[i].type
    IN  f.result[i] = f.pool[Nth(Group(f, t), Rank(OfType(f.result, t), i))]
Repeated(f) ==
  \A t \in TypesOf(f.pool) :
    LET n == Len(f.result) IN
    /\ f.consec[t] > 0 => n > 0 /\ f.result[n].type = t
    /\ n > 0 /\ f.result[n].type = t => f.consec[t] > 0
    /\ n > 1 /\ f.result[n].type = t /\ f.result[n - 1].type = t => f.consec[t] > 1

\* A type that would repeat a third time, or has its share, is placed only if
\* all others that have more have theirs.
TakenBefore(r, i, s) == Cardinality({j \in 1..i - 1 : r[j].type = s})
Third(r, i) == i > 2 /\ r[i - 1].type = r[i].type /\ r[i - 2].type = r[i].type
Shared(f, i) ==
  LET Taken(s) == TakenBefore(f.result, i, s)
      t == f.result[i].type
  IN  Third(f.result, i) \/ 5 * Taken(t) >= 2 * f.target
      => \A s \in TypesOf(f.pool) \ {t} :
           Taken(s) < Cardinality(Group(f, s)) => 5 * Taken(s) >= 2 * f.target

FeedSound(f) ==
  /\ FeedParts(f) /\ Numbered(f.pool)
  /\ Counted(f) /\ Drawn(f) /\ Repeated(f)
  /\ \A i \in DOMAIN f.result : Shared(f, i)
-----------------------------------------------------------------------------
\* The places of a type.
LEMMA PlacesOf ==
  ASSUME NEW s, Len(s) \in Nat, DOMAIN s = 1..Len(s), NEW t
  PROVE  /\ OfType(s, t) \in SUBSET Nat /\ IsFiniteSet(OfType(s, t))
         /\ Cardinality(OfType(s, t)) \in Nat /\ Cardinality(OfType(s, t)) <= Len(s)
         /\ OfType(s, t) \subseteq DOMAIN s
<1>1. OfType(s, t) \in SUBSET (1..Len(s))
      BY DEF OfType
<1>2. IsFiniteSet(1..Len(s)) /\ Cardinality(1..Len(s)) = Len(s)
      <2>1. 1 \in Int /\ Len(s) \in Int
            OBVIOUS
      <2>2. IsFiniteSet(1..Len(s)) /\ Cardinality(1..Len(s)) = IF 1 > Len(s) THEN 0 ELSE Len(s) - 1 + 1
            BY <2>1, FS_Interval
      <2>3. QED BY <2>2
<1>3. IsFiniteSet(OfType(s, t)) /\ Cardinality(OfType(s, t)) <= Len(s)
      BY <1>1, <1>2, FS_Subset
<1>4. QED BY <1>1, <1>3, FS_CardinalityType

\* The pool and its groups.
LEMMA Groups ==
  ASSUME NEW f, FeedParts(f), NEW t
  PROVE  /\ Group(f, t) \in SUBSET Nat /\ IsFiniteSet(Group(f, t))
         /\ Cardinality(Group(f, t)) \in Nat /\ Cardinality(Group(f, t)) <= Len(f.pool)
         /\ Group(f, t) \subseteq DOMAIN f.pool
         /\ \A i \in Group(f, t) : f.pool[i].type = t
         /\ t \in TypesOf(f.pool) => FirstOf(f, t) \in Group(f, t)
<1>1. Len(f.pool) \in Nat /\ DOMAIN f.pool = 1..Len(f.pool)
      BY DEF FeedParts
<1>2. /\ Group(f, t) \in SUBSET Nat /\ IsFiniteSet(Group(f, t))
      /\ Cardinality(Group(f, t)) \in Nat /\ Cardinality(Group(f, t)) <= Len(f.pool)
      /\ Group(f, t) \subseteq DOMAIN f.pool
      BY <1>1, PlacesOf DEF Group
<1>3. \A i \in Group(f, t) : f.pool[i].type = t
      BY DEF Group, OfType
<1>4. ASSUME t \in TypesOf(f.pool) PROVE FirstOf(f, t) \in Group(f, t)
      <2>1. Group(f, t) # {}
            BY <1>4 DEF TypesOf, Group, OfType
      <2>2. 0 < Cardinality(Group(f, t))
            BY <1>2, <2>1, FS_EmptySet
      <2>3. QED BY <1>2, <2>2, NthHasRank DEF FirstOf
<1>5. QED BY <1>2, <1>3, <1>4

\* Of some types there is one that comes first, by the size of its group and
\* the order of the pool, and by what is taken of it, and by its run.
LEMMA OnePrecedes ==
  ASSUME NEW f, FeedParts(f), NEW Z, Z \subseteq TypesOf(f.pool), Z # {}
  PROVE  \E s \in Z : \A t \in Z \ {s} : Precedes(f, s, t)
<1>1. Len(f.pool) \in Nat /\ DOMAIN f.pool = 1..Len(f.pool)
      BY DEF FeedParts
<1>2. PICK g : g = [t \in Z |-> Len(f.pool) - Cardinality(Group(f, t))]
      OBVIOUS
<1>3. g \in [Z -> Nat]
      <2>1. ASSUME NEW t \in Z PROVE Len(f.pool) - Cardinality(Group(f, t)) \in Nat
            <3>1. Cardinality(Group(f, t)) \in Nat /\ Cardinality(Group(f, t)) <= Len(f.pool)
                  BY Groups
            <3>2. QED BY <1>1, <3>1
      <2>2. QED BY <1>2, <2>1
<1>4. PICK A : A = {s \in Z : \A t \in Z : g[s] <= g[t]}
      OBVIOUS
<1>5. A # {} /\ A \subseteq Z
      BY <1>3, <1>4, LeastOf
<1>6. PICK h : h = [t \in A |-> FirstOf(f, t)]
      OBVIOUS
<1>7. \A t \in A : FirstOf(f, t) \in Nat /\ f.pool[FirstOf(f, t)].type = t
      <2>1. ASSUME NEW t \in A PROVE FirstOf(f, t) \in Nat /\ f.pool[FirstOf(f, t)].type = t
            BY <1>5, Groups
      <2>2. QED BY <2>1
<1>8. PICK s \in A : \A t \in A : FirstOf(f, s) <= FirstOf(f, t)
      <2>1. h \in [A -> Nat]
            BY <1>6, <1>7
      <2>2. PICK s \in A : \A t \in A : h[s] <= h[t]
            BY <1>5, <2>1, LeastOf
      <2>3. QED BY <1>6, <2>2
<1>9. ASSUME NEW t \in Z \ {s} PROVE Precedes(f, s, t)
      <2>1. /\ Cardinality(Group(f, s)) \in Nat /\ Cardinality(Group(f, t)) \in Nat
            BY Groups
      <2>2. g[s] <= g[t] /\ (t \notin A => g[s] # g[t])
            <3>1. s \in Z /\ \A u \in Z : g[s] <= g[u]
                  BY <1>4
            <3>2. t \notin A => \E u \in Z : ~(g[t] <= g[u])
                  BY <1>4
            <3>3. QED BY <3>1, <3>2
      <2>3. g[s] = Len(f.pool) - Cardinality(Group(f, s)) /\ g[t] = Len(f.pool) - Cardinality(Group(f, t))
            BY <1>2, <1>5
      <2>4. t \in A => FirstOf(f, s) < FirstOf(f, t)
            BY <1>7, <1>8
      <2>5. QED BY <1>1, <2>1, <2>2, <2>3, <2>4 DEF Precedes
<1>10. QED BY <1>5, <1>9

LEMMA OneIsLessTaken ==
  ASSUME NEW f, FeedParts(f), NEW Z, Z \subseteq TypesOf(f.pool), Z # {}
  PROVE  \E s \in Z : \A t \in Z \ {s} : LessTaken(f, s, t)
<1>1. \A t \in Z : f.consumed[t] \in Nat
      BY DEF FeedParts
<1>2. PICK g : g = [t \in Z |-> f.consumed[t]]
      OBVIOUS
<1>3. PICK A : A = {s \in Z : \A t \in Z : g[s] <= g[t]}
      OBVIOUS
<1>4. A # {} /\ A \subseteq Z
      <2>1. g \in [Z -> Nat]
            BY <1>1, <1>2
      <2>2. QED BY <1>3, <2>1, LeastOf
<1>5. PICK s \in A : \A t \in A \ {s} : Precedes(f, s, t)
      BY <1>4, OnePrecedes
<1>6. ASSUME NEW t \in Z \ {s} PROVE LessTaken(f, s, t)
      <2>1. s \in Z /\ \A u \in Z : g[s] <= g[u]
            BY <1>3
      <2>2. t \notin A => \E u \in Z : ~(g[t] <= g[u])
            BY <1>3
      <2>3. g[s] = f.consumed[s] /\ g[t] = f.consumed[t] /\ \A u \in Z : g[u] \in Nat
            BY <1>1, <1>2, <1>4
      <2>4. f.consumed[s] < f.consumed[t] \/ (t \in A /\ f.consumed[s] = f.consumed[t])
            BY <2>1, <2>2, <2>3
      <2>5. QED BY <1>5, <2>4 DEF LessTaken
<1>7. QED BY <1>4, <1>6

LEMMA OneIsLessRepeated ==
  ASSUME NEW f, FeedParts(f), NEW Z, Z \subseteq TypesOf(f.pool), Z # {}
  PROVE  \E s \in Z : \A t \in Z \ {s} : LessRepeated(f, s, t)
<1>1. \A t \in Z : f.consec[t] \in Nat
      BY DEF FeedParts
<1>2. PICK g : g = [t \in Z |-> f.consec[t]]
      OBVIOUS
<1>3. PICK A : A = {s \in Z : \A t \in Z : g[s] <= g[t]}
      OBVIOUS
<1>4. A # {} /\ A \subseteq Z
      <2>1. g \in [Z -> Nat]
            BY <1>1, <1>2
      <2>2. QED BY <1>3, <2>1, LeastOf
<1>5. PICK s \in A : \A t \in A \ {s} : LessTaken(f, s, t)
      BY <1>4, OneIsLessTaken
<1>6. ASSUME NEW t \in Z \ {s} PROVE LessRepeated(f, s, t)
      <2>1. s \in Z /\ \A u \in Z : g[s] <= g[u]
            BY <1>3
      <2>2. t \notin A => \E u \in Z : ~(g[t] <= g[u])
            BY <1>3
      <2>3. g[s] = f.consec[s] /\ g[t] = f.consec[t] /\ \A u \in Z : g[u] \in Nat
            BY <1>1, <1>2, <1>4
      <2>4. f.consec[s] < f.consec[t] \/ (t \in A /\ f.consec[s] = f.consec[t])
            BY <2>1, <2>2, <2>3
      <2>5. QED BY <1>5, <2>4 DEF LessRepeated
<1>7. QED BY <1>4, <1>6

\* The type placed next keeps the limits it can keep, and comes first.
LEMMA ChosenIs ==
  ASSUME NEW f, FeedParts(f), WithMore(f) # {}
  PROVE  /\ Chosen(f) \in WithMore(f)
         /\ WithinShare(f) # {} => Chosen(f) \in WithinShare(f)
         /\ Candidates(f) # {} => /\ Chosen(f) \in Candidates(f)
                                  /\ \A t \in Candidates(f) \ {Chosen(f)} : LessRepeated(f, Chosen(f), t)
<1>1. /\ Candidates(f) \subseteq WithinShare(f) /\ WithinShare(f) \subseteq WithMore(f)
      /\ WithMore(f) \subseteq TypesOf(f.pool)
      BY DEF Candidates, WithinShare, WithMore, FeedParts
<1>2. ASSUME Candidates(f) # {}
      PROVE  /\ Chosen(f) \in Candidates(f)
             /\ \A t \in Candidates(f) \ {Chosen(f)} : LessRepeated(f, Chosen(f), t)
      <2>1. \E s \in Candidates(f) : \A t \in Candidates(f) \ {s} : LessRepeated(f, s, t)
            BY <1>1, <1>2, OneIsLessRepeated
      <2>2. Chosen(f) = CHOOSE s \in Candidates(f) : \A t \in Candidates(f) \ {s} : LessRepeated(f, s, t)
            BY <1>2 DEF Chosen
      <2>3. QED BY <2>1, <2>2
<1>3. ASSUME Candidates(f) = {}, WithinShare(f) # {}
      PROVE  Chosen(f) \in WithinShare(f)
      <2>1. \E s \in WithinShare(f) : \A t \in WithinShare(f) \ {s} : LessTaken(f, s, t)
            BY <1>1, <1>3, OneIsLessTaken
      <2>2. Chosen(f) = CHOOSE s \in WithinShare(f) : \A t \in WithinShare(f) \ {s} : LessTaken(f, s, t)
            BY <1>3 DEF Chosen
      <2>3. QED BY <2>1, <2>2
<1>4. ASSUME Candidates(f) = {}, WithinShare(f) = {}
      PROVE  Chosen(f) \in WithMore(f)
      <2>1. \E s \in WithMore(f) : \A t \in WithMore(f) \ {s} : Precedes(f, s, t)
            BY <1>1, OnePrecedes
      <2>2. Chosen(f) = CHOOSE s \in WithMore(f) : \A t \in WithMore(f) \ {s} : Precedes(f, s, t)
            BY <1>4 DEF Chosen
      <2>3. QED BY <2>1, <2>2
<1>5. QED BY <1>1, <1>2, <1>3, <1>4
-----------------------------------------------------------------------------
\* What one turn of the loop does, if there is something to place.
Extends(f, h, t, e) ==
  /\ h = [pool |-> f.pool, target |-> f.target, result |-> h.result,
          consumed |-> h.consumed, consec |-> h.consec]
  /\ h.pool = f.pool /\ h.target = f.target /\ h.result = Append(f.result, e)
  /\ h.consumed = [k \in TypesOf(f.pool) |-> IF k = t THEN f.consumed[k] + 1 ELSE f.consumed[k]]
  /\ h.consec = [k \in TypesOf(f.pool) |-> IF k = t THEN f.consec[k] + 1 ELSE 0]

LEMMA PlacedDoes ==
  ASSUME NEW f, FeedParts(f), Counted(f), Len(f.result) # f.target, WithMore(f) # {}
  PROVE  LET t == Chosen(f)
             e == f.pool[Nth(Group(f, t), f.consumed[t])]
         IN  /\ t \in TypesOf(f.pool) /\ f.consumed[t] < Cardinality(Group(f, t))
             /\ Nth(Group(f, t), f.consumed[t]) \in Group(f, t)
             /\ e \in ToSet(f.pool) /\ e.type = t
             /\ Extends(f, Placed(f), t, e)
<1>1. PICK t : t = Chosen(f)
      OBVIOUS
<1>2. t \in TypesOf(f.pool) /\ f.consumed[t] < Cardinality(Group(f, t)) /\ f.consumed[t] \in Nat
      <2>1. t \in WithMore(f)
            BY <1>1, ChosenIs
      <2>2. QED BY <2>1 DEF WithMore, HasMore, FeedParts
<1>3. PICK p : p = Nth(Group(f, t), f.consumed[t])
      OBVIOUS
<1>4. p \in Group(f, t) /\ p \in DOMAIN f.pool /\ f.pool[p].type = t
      <2>1. Group(f, t) \in SUBSET Nat /\ IsFiniteSet(Group(f, t))
            BY Groups
      <2>2. p \in Group(f, t)
            BY <1>2, <1>3, <2>1, NthHasRank
      <2>3. QED BY <2>2, Groups
<1>5. PICK e : e = f.pool[p]
      OBVIOUS
<1>6. e \in ToSet(f.pool)
      BY <1>4, <1>5 DEF ToSet
<1>7. Extends(f, Placed(f), t, e)
      <2>1. Placed(f) = [f EXCEPT !.result = Append(f.result, e),
                                  !.consumed[t] = f.consumed[t] + 1,
                                  !.consec = [k \in DOMAIN f.consec |-> IF k = t THEN f.consec[k] + 1 ELSE 0]]
            BY <1>1, <1>3, <1>5 DEF Placed, FeedParts
      <2>2. PICK c : c = [f.consumed EXCEPT ![t] = f.consumed[t] + 1]
            OBVIOUS
      <2>3. Placed(f) = [f EXCEPT !.result = Append(f.result, e), !.consumed = c,
                                  !.consec = [k \in DOMAIN f.consec |-> IF k = t THEN f.consec[k] + 1 ELSE 0]]
            BY <2>1, <2>2 DEF FeedParts
      <2>4. c = [k \in TypesOf(f.pool) |-> IF k = t THEN f.consumed[k] + 1 ELSE f.consumed[k]]
            BY <1>2, <2>2 DEF FeedParts
      <2>5. DOMAIN f.consec = TypesOf(f.pool)
            BY DEF FeedParts
      <2>6. QED BY <2>3, <2>4, <2>5 DEF FeedParts, Extends
<1>8. QED BY <1>1, <1>2, <1>3, <1>4, <1>5, <1>6, <1>7

\* A call of diversify stays sound while it places the next item of a type.
LEMMA ExtendsKeeps ==
  ASSUME NEW f, FeedSound(f), NEW h, Len(f.result) # f.target, WithMore(f) # {},
         NEW t, t = Chosen(f), NEW p, p = Nth(Group(f, t), f.consumed[t]), NEW e, e = f.pool[p],
         t \in TypesOf(f.pool), f.consumed[t] < Cardinality(Group(f, t)), p \in Group(f, t),
         e \in ToSet(f.pool), e.type = t, Extends(f, h, t, e)
  PROVE  FeedSound(h)
<1> DEFINE n == Len(f.result)
<1>1. FeedParts(f) /\ Numbered(f.pool) /\ Counted(f) /\ Drawn(f) /\ Repeated(f)
      BY DEF FeedSound
<1>2. /\ n \in Nat /\ DOMAIN f.result = 1..n /\ f.target \in Nat /\ n < f.target
      BY <1>1 DEF FeedParts
<1>3. /\ h.pool = f.pool /\ h.target = f.target /\ h.result = Append(f.result, e)
      /\ h.consumed = [k \in TypesOf(f.pool) |-> IF k = t THEN f.consumed[k] + 1 ELSE f.consumed[k]]
      /\ h.consec = [k \in TypesOf(f.pool) |-> IF k = t THEN f.consec[k] + 1 ELSE 0]
      BY DEF Extends
<1>4. /\ h.result \in Seq(ToSet(f.pool)) /\ Len(h.result) = n + 1 /\ DOMAIN h.result = 1..n + 1
      /\ h.result[n + 1] = e /\ \A i \in 1..n : h.result[i] = f.result[i]
      <2>1. f.result \in Seq(ToSet(f.pool))
            BY <1>1 DEF FeedParts
      <2>2. QED BY <1>3, <2>1
<1>5. \A k : Group(h, k) = Group(f, k)
      BY <1>3 DEF Group
<1>6. \A k \in TypesOf(f.pool) : f.consumed[k] \in Nat /\ f.consec[k] \in Nat
      BY <1>1 DEF FeedParts
<1> HIDE DEF n
<1>7. FeedParts(h)
      <2>1. Len(h.result) <= h.target
            BY <1>2, <1>3, <1>4
      <2>2. h.consumed \in [TypesOf(h.pool) -> Nat] /\ h.consec \in [TypesOf(h.pool) -> Nat]
            BY <1>3, <1>6
      <2>3. h = [pool |-> h.pool, target |-> h.target, result |-> h.result,
                 consumed |-> h.consumed, consec |-> h.consec]
            BY <1>3 DEF Extends
      <2>4. QED BY <1>1, <1>3, <1>4, <2>1, <2>2, <2>3 DEF FeedParts
<1>8. \A k : /\ OfType(f.result, k) \in SUBSET Nat /\ IsFiniteSet(OfType(f.result, k))
             /\ OfType(f.result, k) \subseteq 1..n
      <2>1. ASSUME NEW k
            PROVE  /\ OfType(f.result, k) \in SUBSET Nat /\ IsFiniteSet(OfType(f.result, k))
                   /\ OfType(f.result, k) \subseteq 1..n
            BY <1>2, PlacesOf DEF n
      <2>2. QED BY <2>1
<1>9. /\ \A k : k # t => OfType(h.result, k) = OfType(f.result, k)
      /\ OfType(h.result, t) = OfType(f.result, t) \cup {n + 1}
      BY <1>2, <1>4 DEF OfType
<1>10. Counted(h)
      <2>1. ASSUME NEW k \in TypesOf(f.pool)
            PROVE  h.consumed[k] = Cardinality(OfType(h.result, k)) /\ h.consumed[k] <= Cardinality(Group(f, k))
            <3>1. f.consumed[k] = Cardinality(OfType(f.result, k)) /\ f.consumed[k] <= Cardinality(Group(f, k))
                  BY <1>1 DEF Counted
            <3>2. CASE k # t
                  BY <1>3, <1>9, <3>1, <3>2
            <3>3. CASE k = t
                  <4>1. n + 1 \notin OfType(f.result, t)
                        BY <1>2, <1>8
                  <4>2. Cardinality(OfType(h.result, t)) = Cardinality(OfType(f.result, t)) + 1
                        BY <1>8, <1>9, <4>1, FS_AddElement
                  <4>3. Cardinality(Group(f, t)) \in Nat
                        BY <1>1, Groups
                  <4>4. QED BY <1>3, <1>6, <3>1, <3>3, <4>2, <4>3
            <3>4. QED BY <3>2, <3>3
      <2>2. QED BY <1>3, <1>5, <2>1 DEF Counted
<1>11. ASSUME NEW i \in 1..n + 1, NEW k, i <= n \/ k = t
       PROVE  i <= n => Rank(OfType(h.result, k), i) = Rank(OfType(f.result, k), i)
       <2>1. i <= n => {j \in OfType(h.result, k) : j < i} = {j \in OfType(f.result, k) : j < i}
             BY <1>2, <1>9
       <2>2. QED BY <2>1 DEF Rank
<1>12. Drawn(h)
      <2>1. ASSUME NEW i \in 1..n
            PROVE  h.result[i] = f.pool[Nth(Group(f, h.result[i].type), Rank(OfType(h.result, h.result[i].type), i))]
            <3>1. f.result[i] = f.pool[Nth(Group(f, f.result[i].type), Rank(OfType(f.result, f.result[i].type), i))]
                  BY <1>1, <1>2 DEF Drawn
            <3>2. i \in 1..n + 1 /\ i <= n /\ h.result[i] = f.result[i]
                  BY <1>2, <1>4
            <3>3. QED BY <1>11, <3>1, <3>2
      <2>2. h.result[n + 1] = f.pool[Nth(Group(f, t), Rank(OfType(h.result, t), n + 1))]
            <3>1. {j \in OfType(h.result, t) : j < n + 1} = OfType(f.result, t)
                  <4>1. \A j \in OfType(f.result, t) : j < n + 1
                        BY <1>2, <1>8
                  <4>2. ~(n + 1 < n + 1)
                        BY <1>2
                  <4>3. QED BY <1>9, <4>1, <4>2
            <3>2. Rank(OfType(h.result, t), n + 1) = f.consumed[t]
                  BY <1>1, <3>1 DEF Rank, Counted
            <3>3. QED BY <1>4, <3>2
      <2>3. \A i \in 1..n + 1 : i \in 1..n \/ i = n + 1
            BY <1>2
      <2>4. h.result[n + 1].type = t
            BY <1>4
      <2>5. ASSUME NEW i \in DOMAIN h.result
            PROVE  h.result[i] = h.pool[Nth(Group(h, h.result[i].type), Rank(OfType(h.result, h.result[i].type), i))]
            <3>1. i \in 1..n \/ i = n + 1
                  BY <1>4, <2>3
            <3>2. /\ h.pool = f.pool /\ Group(h, h.result[i].type) = Group(f, h.result[i].type)
                  BY <1>3, <1>5
            <3>3. QED BY <2>1, <2>2, <2>4, <3>1, <3>2
      <2>6. QED BY <2>5 DEF Drawn
<1>13. Repeated(h)
      <2>1. ASSUME NEW k \in TypesOf(f.pool)
            PROVE  /\ h.consec[k] > 0 => n + 1 > 0 /\ h.result[n + 1].type = k
                   /\ h.result[n + 1].type = k => h.consec[k] > 0
                   /\ n + 1 > 1 /\ h.result[n + 1].type = k /\ h.result[n].type = k => h.consec[k] > 1
            <3>1. h.consec[k] = (IF k = t THEN f.consec[k] + 1 ELSE 0) /\ h.result[n + 1].type = t
                  BY <1>3, <1>4
            <3>2. n > 0 => h.result[n] = f.result[n]
                  BY <1>2, <1>4
            <3>3. n > 0 /\ f.result[n].type = k => f.consec[k] > 0
                  BY <1>1 DEF Repeated, n
            <3>4. QED BY <1>2, <1>6, <3>1, <3>2, <3>3
      <2>2. Len(h.result) = n + 1 /\ Len(h.result) - 1 = n
            BY <1>2, <1>4
      <2>3. ASSUME NEW k \in TypesOf(h.pool)
            PROVE  /\ h.consec[k] > 0 => Len(h.result) > 0 /\ h.result[Len(h.result)].type = k
                   /\ h.result[Len(h.result)].type = k => h.consec[k] > 0
                   /\ Len(h.result) > 1 /\ h.result[Len(h.result)].type = k
                        /\ h.result[Len(h.result) - 1].type = k => h.consec[k] > 1
            BY <1>3, <2>1, <2>2
      <2>4. QED BY <2>3 DEF Repeated
<1>14. ASSUME NEW i \in DOMAIN h.result PROVE Shared(h, i)
      <2>0. i \in 1..n + 1 /\ i \in Nat
            BY <1>2, <1>4
      <2>1. \A j \in 1..i - 1 : h.result[j] = f.result[j]
            BY <1>2, <1>4, <2>0
      <2>2. ASSUME NEW k
            PROVE  TakenBefore(h.result, i, k) = TakenBefore(f.result, i, k)
            <3>1. {j \in 1..i - 1 : h.result[j].type = k} = {j \in 1..i - 1 : f.result[j].type = k}
                  BY <2>1
            <3>2. QED BY <3>1 DEF TakenBefore
      <2>3. CASE i <= n
            <3>1. Shared(f, i)
                  BY <1>2, <2>0, <2>3 DEF FeedSound
            <3>2. h.result[i] = f.result[i]
                  BY <1>2, <1>4, <2>0, <2>3
            <3>3. i > 2 => h.result[i - 1] = f.result[i - 1] /\ h.result[i - 2] = f.result[i - 2]
                  BY <2>0, <2>1
            <3>4. Third(h.result, i) = Third(f.result, i)
                  BY <3>2, <3>3 DEF Third
            <3>5. QED BY <1>3, <1>5, <2>2, <3>1, <3>2, <3>4 DEF Shared
      <2>4. CASE i = n + 1
            <3>1. \A k \in TypesOf(f.pool) :
                    TakenBefore(h.result, i, k) = f.consumed[k]
                  <4>1. ASSUME NEW k \in TypesOf(f.pool)
                        PROVE  TakenBefore(h.result, i, k) = f.consumed[k]
                        <5>1. i - 1 = n
                              BY <1>2, <2>4
                        <5>2. {j \in 1..i - 1 : f.result[j].type = k} = OfType(f.result, k)
                              BY <1>2, <5>1 DEF OfType
                        <5>3. TakenBefore(h.result, i, k) = Cardinality(OfType(f.result, k))
                              BY <2>2, <5>2 DEF TakenBefore
                        <5>4. QED BY <1>1, <5>3 DEF Counted
                  <4>2. QED BY <4>1
            <3>2. h.result[i].type = t
                  BY <1>4, <2>4
            <3>3. ASSUME i > 2, h.result[i - 1].type = t, h.result[i - 2].type = t
                  PROVE  t \notin Candidates(f)
                  <4>1. i - 1 = n /\ i - 2 = n - 1 /\ n > 1
                        BY <1>2, <2>4, <3>3
                  <4>2. f.result[n].type = t /\ f.result[n - 1].type = t
                        BY <1>2, <2>1, <3>3, <4>1
                  <4>3. f.consec[t] > 1
                        BY <1>1, <4>1, <4>2 DEF Repeated, n
                  <4>4. QED BY <1>6, <4>3 DEF Candidates
            <3>4. ASSUME 5 * f.consumed[t] >= 2 * f.target
                  PROVE  t \notin WithinShare(f)
                  BY <1>2, <1>6, <3>4 DEF WithinShare, UnderShare
            <3>5. ASSUME t \notin Candidates(f) \/ t \notin WithinShare(f), NEW s \in TypesOf(f.pool) \ {t},
                         f.consumed[s] < Cardinality(Group(f, s))
                  PROVE  5 * f.consumed[s] >= 2 * f.target
                  <4>1. SUFFICES ASSUME ~(5 * f.consumed[s] >= 2 * f.target) PROVE FALSE
                        OBVIOUS
                  <4>2. s \in WithinShare(f)
                        <5>1. s \in WithMore(f)
                              BY <1>1, <3>5 DEF WithMore, HasMore, FeedParts
                        <5>2. QED BY <1>2, <1>6, <4>1, <5>1 DEF WithinShare, UnderShare
                  <4>3. t \in WithinShare(f) /\ Candidates(f) = {}
                        <5>1. Candidates(f) \subseteq WithinShare(f)
                              BY DEF Candidates
                        <5>2. QED BY <1>1, <3>5, <4>2, <5>1, ChosenIs
                  <4>4. f.consec[s] > 0 /\ f.consec[t] > 0
                        BY <1>6, <4>2, <4>3 DEF Candidates
                  <4>5. s = t
                        BY <1>1, <4>4 DEF Repeated
                  <4>6. QED BY <3>5, <4>5
            <3>6. Third(h.result, i) => t \notin Candidates(f)
                  BY <3>2, <3>3 DEF Third
            <3>7. 5 * TakenBefore(h.result, i, t) >= 2 * f.target => t \notin WithinShare(f)
                  BY <3>1, <3>4
            <3>8. QED BY <1>3, <1>5, <3>1, <3>2, <3>5, <3>6, <3>7 DEF Shared
      <2>5. QED BY <1>2, <2>0, <2>3, <2>4
<1>15. Numbered(h.pool)
      BY <1>1, <1>3
<1>16. QED BY <1>7, <1>10, <1>12, <1>13, <1>14, <1>15 DEF FeedSound

LEMMA PlacedKeeps ==
  ASSUME NEW f, FeedSound(f)
  PROVE  FeedSound(Placed(f))
<1>1. CASE Len(f.result) = f.target \/ WithMore(f) = {}
      BY <1>1 DEF Placed
<1>2. CASE ~(Len(f.result) = f.target \/ WithMore(f) = {})
      <2>1. FeedParts(f) /\ Counted(f)
            BY DEF FeedSound
      <2>2. PICK t : t = Chosen(f)
            OBVIOUS
      <2>3. PICK p : p = Nth(Group(f, t), f.consumed[t])
            OBVIOUS
      <2>4. PICK e : e = f.pool[p]
            OBVIOUS
      <2>5. /\ t \in TypesOf(f.pool) /\ f.consumed[t] < Cardinality(Group(f, t)) /\ p \in Group(f, t)
            /\ e \in ToSet(f.pool) /\ e.type = t /\ Extends(f, Placed(f), t, e)
            BY <1>2, <2>1, <2>2, <2>3, <2>4, PlacedDoes
      <2>6. QED BY <1>2, <2>2, <2>3, <2>4, <2>5, ExtendsKeeps
<1>3. QED BY <1>1, <1>2
-----------------------------------------------------------------------------
\* A call of diversify with numbered lists begins sound.
LEMMA DiversifyStarts ==
  ASSUME NEW items, NEW backfill, items \in Seq(ToSet(items)), Len(backfill) \in Nat,
         DOMAIN backfill = 1..Len(backfill), Numbered(items), Numbered(backfill),
         \A i \in DOMAIN items : items[i].id \in Nat,
         \A i \in DOMAIN backfill : backfill[i].id \in Nat
  PROVE  FeedSound(Diversify(items, backfill))
<1>1. PICK K : K = {i \in DOMAIN backfill : backfill[i].type \notin TypesOf(items)}
      OBVIOUS
<1>2. K \in SUBSET Nat /\ IsFiniteSet(K) /\ Cardinality(K) \in Nat /\ K \subseteq DOMAIN backfill
      <2>1. K \in SUBSET (1..Len(backfill))
            BY <1>1
      <2>2. IsFiniteSet(1..Len(backfill))
            BY FS_Interval
      <2>3. IsFiniteSet(K)
            BY <2>1, <2>2, FS_Subset
      <2>4. QED BY <2>1, <2>3, FS_CardinalityType
<1>3. PICK fill : fill = [k \in 1..Cardinality(K) |-> backfill[Nth(K, k - 1)]]
      OBVIOUS
<1>4. \A k \in 1..Cardinality(K) : Nth(K, k - 1) \in K
      <2>1. ASSUME NEW k \in 1..Cardinality(K) PROVE Nth(K, k - 1) \in K
            <3>1. k - 1 \in Nat /\ k - 1 < Cardinality(K)
                  BY <1>2
            <3>2. QED BY <1>2, <3>1, NthHasRank
      <2>2. QED BY <2>1
<1>5. fill \in Seq(ToSet(fill)) /\ Len(fill) = Cardinality(K) /\ DOMAIN fill = 1..Cardinality(K)
      <2>1. \A k \in 1..Cardinality(K) : fill[k] \in ToSet(fill)
            BY <1>3 DEF ToSet
      <2>2. fill \in [1..Cardinality(K) -> ToSet(fill)]
            BY <1>3, <2>1
      <2>3. QED BY <1>2, <2>2
<1>6. PICK pool : pool = items \o fill
      OBVIOUS
<1> DEFINE n == Len(items)
<1>7. /\ n \in Nat /\ DOMAIN items = 1..n
      OBVIOUS
<1>8. /\ Len(pool) = n + Cardinality(K) /\ DOMAIN pool = 1..n + Cardinality(K)
      /\ \A i \in 1..n : pool[i] = items[i]
      /\ \A i \in DOMAIN pool : i > n => i - n \in 1..Cardinality(K) /\ pool[i] = fill[i - n]
      /\ pool \in Seq(ToSet(pool))
      <2>1. PICK X : X = ToSet(items) \cup ToSet(fill)
            OBVIOUS
      <2>2. items \in Seq(X) /\ fill \in Seq(X)
            BY <1>5, <2>1
      <2>3. /\ pool \in Seq(X) /\ Len(pool) = Len(items) + Len(fill)
            /\ \A i \in 1..Len(items) + Len(fill) :
                 pool[i] = IF i <= Len(items) THEN items[i] ELSE fill[i - Len(items)]
            BY <1>6, <2>2, ConcatProperties
      <2>4. DOMAIN pool = 1..Len(pool)
            BY <2>3
      <2>5. pool \in Seq(ToSet(pool))
            <3>1. pool \in [1..Len(pool) -> ToSet(pool)]
                  BY <2>3, <2>4 DEF ToSet
            <3>2. QED BY <2>3, <3>1
      <2>6. Len(pool) = n + Cardinality(K)
            BY <1>5, <2>3
      <2>7. \A i \in 1..n : pool[i] = items[i]
            BY <1>2, <1>5, <1>7, <2>3
      <2>8. ASSUME NEW i \in DOMAIN pool, i > n
            PROVE  i - n \in 1..Cardinality(K) /\ pool[i] = fill[i - n]
            BY <1>2, <1>5, <1>7, <2>3, <2>4, <2>6, <2>8
      <2>9. QED BY <2>4, <2>5, <2>6, <2>7, <2>8
<1> HIDE DEF n
<1>9. \A i \in DOMAIN pool :
        \/ i \in 1..n /\ pool[i] = items[i]
        \/ /\ i > n /\ i - n \in 1..Cardinality(K) /\ Nth(K, i - n - 1) \in K
           /\ pool[i] = backfill[Nth(K, i - n - 1)]
      <2>1. ASSUME NEW i \in DOMAIN pool
            PROVE  \/ i \in 1..n /\ pool[i] = items[i]
                   \/ /\ i > n /\ i - n \in 1..Cardinality(K) /\ Nth(K, i - n - 1) \in K
                      /\ pool[i] = backfill[Nth(K, i - n - 1)]
            <3>1. i \in 1..n \/ i > n
                  BY <1>2, <1>7, <1>8
            <3>2. CASE i > n
                  BY <1>3, <1>4, <1>8, <3>2
            <3>3. QED BY <1>8, <3>1, <3>2
      <2>2. QED BY <2>1
<1>10. \A i \in DOMAIN pool : pool[i].id \in Nat
      BY <1>2, <1>7, <1>9
<1>11. Numbered(pool)
      <2>1. ASSUME NEW i \in DOMAIN pool, NEW j \in DOMAIN pool, i < j, pool[i].type = pool[j].type
            PROVE  pool[i].id < pool[j].id
            <3>1. CASE i \in 1..n /\ j \in 1..n
                  BY <1>7, <1>8, <2>1, <3>1 DEF Numbered
            <3>2. CASE i \in 1..n /\ j > n
                  <4>1. pool[i].type \in TypesOf(items)
                        BY <1>7, <1>8, <3>2 DEF TypesOf
                  <4>2. pool[j].type \notin TypesOf(items)
                        <5>1. j \notin 1..n
                              BY <1>7, <3>2
                        <5>2. QED BY <1>1, <1>9, <5>1
                  <4>3. QED BY <2>1, <4>1, <4>2
            <3>3. CASE i > n
                  <4>1. j > n /\ i \notin 1..n /\ j \notin 1..n
                        BY <1>2, <1>7, <1>8, <2>1, <3>3
                  <4>2. /\ i - n \in 1..Cardinality(K) /\ j - n \in 1..Cardinality(K)
                        /\ pool[i] = backfill[Nth(K, i - n - 1)] /\ pool[j] = backfill[Nth(K, j - n - 1)]
                        /\ Nth(K, i - n - 1) \in K /\ Nth(K, j - n - 1) \in K
                        BY <1>9, <4>1
                  <4>3. /\ i - n - 1 \in Nat /\ j - n - 1 \in Nat /\ i - n - 1 < j - n - 1
                        /\ j - n - 1 < Cardinality(K)
                        BY <1>2, <1>7, <1>8, <2>1, <4>2
                  <4>4. Nth(K, i - n - 1) < Nth(K, j - n - 1)
                        BY <1>2, <4>3, NthOfRank
                  <4>5. QED BY <1>2, <2>1, <4>2, <4>4 DEF Numbered
            <3>4. i \in 1..n \/ i > n
                  BY <1>9
            <3>5. j \in 1..n \/ j > n
                  BY <1>9
            <3>6. QED BY <3>1, <3>2, <3>3, <3>4, <3>5
      <2>2. QED BY <2>1 DEF Numbered
<1>12. PICK zero : zero = [t \in TypesOf(pool) |-> 0]
      OBVIOUS
<1>13. PICK f : f = [pool |-> pool, target |-> n, result |-> <<>>, consumed |-> zero, consec |-> zero]
      OBVIOUS
<1>14. Diversify(items, backfill) = f
      BY <1>1, <1>3, <1>6, <1>12, <1>13 DEF Diversify, n
<1>15. FeedParts(f)
      <2>1. zero \in [TypesOf(pool) -> Nat]
            BY <1>12
      <2>2. n <= Len(pool)
            BY <1>2, <1>7, <1>8
      <2>3. <<>> \in Seq(ToSet(pool)) /\ Len(<<>>) <= n
            BY <1>7
      <2>4. QED BY <1>7, <1>8, <1>10, <1>13, <2>1, <2>2, <2>3 DEF FeedParts
<1>16. Counted(f)
      <2>1. ASSUME NEW t \in TypesOf(pool)
            PROVE  0 = Cardinality(OfType(<<>>, t)) /\ 0 <= Cardinality(Group(f, t))
            <3>1. OfType(<<>>, t) = {}
                  BY DEF OfType
            <3>2. Cardinality(Group(f, t)) \in Nat
                  BY <1>15, Groups
            <3>3. Cardinality(OfType(<<>>, t)) = 0
                  BY <3>1, FS_EmptySet
            <3>4. QED BY <3>2, <3>3
      <2>2. QED BY <1>12, <1>13, <2>1 DEF Counted
<1>17. Drawn(f) /\ Repeated(f) /\ \A i \in DOMAIN f.result : Shared(f, i)
      <2>1. f.result = <<>> /\ DOMAIN f.result = {} /\ f.pool = pool
            BY <1>13
      <2>2. Repeated(f)
            BY <1>12, <1>13 DEF Repeated
      <2>3. QED BY <2>1, <2>2 DEF Drawn
<1>18. QED BY <1>11, <1>13, <1>14, <1>15, <1>16, <1>17 DEF FeedSound
-----------------------------------------------------------------------------
\* What is placed comes from a place of the pool of its own, in the order of
\* its type, and if no type has more, from every place.
Source(f, i) == Nth(Group(f, f.result[i].type), Rank(OfType(f.result, f.result[i].type), i))

LEMMA SourcesAre ==
  ASSUME NEW f, FeedSound(f)
  PROVE  /\ \A i \in DOMAIN f.result :
              /\ Source(f, i) \in DOMAIN f.pool /\ f.result[i] = f.pool[Source(f, i)]
              /\ f.result[i].type \in TypesOf(f.pool)
         /\ \A i, j \in DOMAIN f.result :
              i < j /\ f.result[i].type = f.result[j].type => Source(f, i) < Source(f, j)
         /\ \A i, j \in DOMAIN f.result : i # j => Source(f, i) # Source(f, j)
         /\ WithMore(f) = {} => \A p \in DOMAIN f.pool : \E i \in DOMAIN f.result : Source(f, i) = p
<1>1. FeedParts(f) /\ Counted(f) /\ Drawn(f)
      BY DEF FeedSound
<1>2. /\ Len(f.result) \in Nat /\ DOMAIN f.result = 1..Len(f.result)
      /\ \A i \in DOMAIN f.result : f.result[i] \in ToSet(f.pool)
      BY <1>1 DEF FeedParts
<1>3. \A t : /\ OfType(f.result, t) \in SUBSET Nat /\ IsFiniteSet(OfType(f.result, t))
             /\ OfType(f.result, t) \subseteq DOMAIN f.result
             /\ Cardinality(OfType(f.result, t)) \in Nat
      BY <1>2, PlacesOf
<1>4. \A t : /\ Group(f, t) \in SUBSET Nat /\ IsFiniteSet(Group(f, t))
             /\ Group(f, t) \subseteq DOMAIN f.pool /\ Cardinality(Group(f, t)) \in Nat
             /\ \A p \in Group(f, t) : f.pool[p].type = t
      BY <1>1, Groups
<1>5. \A i \in DOMAIN f.result : f.result[i].type \in TypesOf(f.pool)
      <2>1. ASSUME NEW i \in DOMAIN f.result PROVE f.result[i].type \in TypesOf(f.pool)
            <3>1. PICK p \in DOMAIN f.pool : f.pool[p] = f.result[i]
                  BY <1>2 DEF ToSet
            <3>2. QED BY <3>1 DEF TypesOf
      <2>2. QED BY <2>1
<1>6. ASSUME NEW i \in DOMAIN f.result, NEW t, t = f.result[i].type
      PROVE  /\ i \in OfType(f.result, t)
             /\ Rank(OfType(f.result, t), i) \in Nat
             /\ Rank(OfType(f.result, t), i) < Cardinality(Group(f, t))
             /\ Source(f, i) = Nth(Group(f, t), Rank(OfType(f.result, t), i))
             /\ Source(f, i) \in Group(f, t)
      <2>1. i \in OfType(f.result, t)
            BY <1>6 DEF OfType
      <2>2. /\ Rank(OfType(f.result, t), i) \in Nat
            /\ Rank(OfType(f.result, t), i) < Cardinality(OfType(f.result, t))
            BY <1>3, <2>1, RankGrows
      <2>3. Cardinality(OfType(f.result, t)) <= Cardinality(Group(f, t))
            BY <1>1, <1>5, <1>6 DEF Counted
      <2>4. Rank(OfType(f.result, t), i) < Cardinality(Group(f, t))
            BY <1>3, <1>4, <2>2, <2>3
      <2>5. Source(f, i) = Nth(Group(f, t), Rank(OfType(f.result, t), i))
            BY <1>6 DEF Source
      <2>6. Source(f, i) \in Group(f, t)
            BY <1>4, <2>2, <2>4, <2>5, NthHasRank
      <2>7. QED BY <2>1, <2>2, <2>4, <2>5, <2>6
<1>7. ASSUME NEW i \in DOMAIN f.result
      PROVE  Source(f, i) \in DOMAIN f.pool /\ f.result[i] = f.pool[Source(f, i)]
      <2>1. Source(f, i) \in Group(f, f.result[i].type)
            BY <1>6
      <2>2. f.result[i] = f.pool[Source(f, i)]
            BY <1>1 DEF Drawn, Source
      <2>3. QED BY <1>4, <2>1, <2>2
<1>8. ASSUME NEW i \in DOMAIN f.result, NEW j \in DOMAIN f.result, i < j,
             f.result[i].type = f.result[j].type
      PROVE  Source(f, i) < Source(f, j)
      <2>1. PICK t : t = f.result[i].type
            OBVIOUS
      <2>2. PICK Z : Z = OfType(f.result, t)
            OBVIOUS
      <2>3. PICK G : G = Group(f, t)
            OBVIOUS
      <2>4. /\ i \in Z /\ j \in Z /\ Rank(Z, i) \in Nat /\ Rank(Z, j) \in Nat
            /\ Rank(Z, j) < Cardinality(G)
            /\ Source(f, i) = Nth(G, Rank(Z, i)) /\ Source(f, j) = Nth(G, Rank(Z, j))
            BY <1>6, <1>8, <2>1, <2>2, <2>3
      <2>5. Rank(Z, i) < Rank(Z, j)
            BY <1>3, <1>8, <2>2, <2>4, RankGrows
      <2>6. G \in SUBSET Nat /\ IsFiniteSet(G)
            BY <1>4, <2>3
      <2>7. QED BY <2>4, <2>5, <2>6, NthOfRank
<1>9. ASSUME NEW i \in DOMAIN f.result, NEW j \in DOMAIN f.result, i # j
      PROVE  Source(f, i) # Source(f, j)
      <2>1. CASE f.result[i].type # f.result[j].type
            BY <1>7, <2>1
      <2>2. CASE f.result[i].type = f.result[j].type
            <3>1. i < j \/ j < i
                  BY <1>2, <1>9
            <3>2. Source(f, i) \in Nat /\ Source(f, j) \in Nat
                  BY <1>4, <1>6
            <3>3. Source(f, i) < Source(f, j) \/ Source(f, j) < Source(f, i)
                  BY <1>8, <2>2, <3>1
            <3>4. QED BY <3>2, <3>3
      <2>3. QED BY <2>1, <2>2
<1>10. ASSUME WithMore(f) = {}, NEW p \in DOMAIN f.pool
       PROVE  \E i \in DOMAIN f.result : Source(f, i) = p
      <2>1. PICK t : t = f.pool[p].type
            OBVIOUS
      <2>2. PICK Z : Z = OfType(f.result, t)
            OBVIOUS
      <2>3. PICK G : G = Group(f, t)
            OBVIOUS
      <2>4. t \in TypesOf(f.pool) /\ p \in G
            BY <2>1, <2>3 DEF TypesOf, Group, OfType
      <2>5. ~(f.consumed[t] < Cardinality(G)) /\ f.consumed[t] = Cardinality(Z)
            BY <1>1, <1>10, <2>2, <2>3, <2>4 DEF WithMore, HasMore, FeedParts, Counted
      <2>6. /\ Z \in SUBSET Nat /\ IsFiniteSet(Z) /\ G \in SUBSET Nat /\ IsFiniteSet(G)
            /\ Cardinality(Z) \in Nat /\ Cardinality(G) \in Nat
            BY <1>3, <1>4, <2>2, <2>3
      <2>7. PICK m \in Nat : m = Rank(G, p) /\ m < Cardinality(G) /\ Nth(G, m) = p
            BY <2>4, <2>6, RankGrows, NthOfRank
      <2>8. m < Cardinality(Z)
            BY <2>5, <2>6, <2>7
      <2>9. PICK i \in Z : Rank(Z, i) = m
            BY <2>6, <2>8, NthHasRank
      <2>10. i \in DOMAIN f.result /\ f.result[i].type = t
            BY <2>2 DEF OfType
      <2>11. Source(f, i) = Nth(G, Rank(Z, i))
            BY <2>2, <2>3, <2>10 DEF Source
      <2>12. QED BY <2>7, <2>9, <2>10, <2>11
<1>11. QED BY <1>5, <1>7, <1>8, <1>9, <1>10

\* The promises, by the names the invariant has for them.
LEMMA RulesAre ==
  DiversifyKeepsItsRules <=>
    /\ \A i, j \in DOMAIN feed.result :
         i < j => /\ feed.result[i] # feed.result[j]
                  /\ feed.result[i].type = feed.result[j].type => feed.result[i].id < feed.result[j].id
    /\ Placed(feed) = feed => Len(feed.result) = feed.target
    /\ Placed(feed) = feed /\ Len(feed.pool) = feed.target => ToSet(feed.result) = ToSet(feed.pool)
    /\ \A i \in DOMAIN feed.result :
         \/ Third(feed.result, i)
         \/ 5 * TakenBefore(feed.result, i, feed.result[i].type) >= 2 * feed.target
         => \A s \in DOMAIN feed.consumed \ {feed.result[i].type} :
              TakenBefore(feed.result, i, s) < Cardinality(Group(feed, s)) =>
                5 * TakenBefore(feed.result, i, s) >= 2 * feed.target
BY DEF DiversifyKeepsItsRules, Third, TakenBefore, Group, OfType

\* A call of diversify that is sound keeps its promises.
LEMMA RulesHold ==
  ASSUME FeedSound(feed)
  PROVE  DiversifyKeepsItsRules
<1>1. PICK f : f = feed
      OBVIOUS
<1>2. PICK r : r = f.result
      OBVIOUS
<1>3. PICK pool : pool = f.pool
      OBVIOUS
<1>4. FeedSound(f) /\ FeedParts(f) /\ Counted(f) /\ Numbered(pool)
      BY <1>1, <1>3 DEF FeedSound
<1>5. /\ Len(r) \in Nat /\ DOMAIN r = 1..Len(r) /\ Len(pool) \in Nat /\ DOMAIN pool = 1..Len(pool)
      /\ f.target \in Nat /\ Len(r) <= f.target /\ f.target <= Len(pool)
      /\ \A p \in DOMAIN pool : pool[p].id \in Nat
      BY <1>2, <1>3, <1>4 DEF FeedParts
<1>6. PICK src : src = [i \in DOMAIN r |-> Source(f, i)]
      OBVIOUS
<1>7. /\ \A i \in DOMAIN r : src[i] \in DOMAIN pool /\ r[i] = pool[src[i]] /\ r[i].type \in TypesOf(pool)
      /\ \A i, j \in DOMAIN r : i < j /\ r[i].type = r[j].type => src[i] < src[j]
      /\ \A i, j \in DOMAIN r : i # j => src[i] # src[j]
      /\ WithMore(f) = {} => \A p \in DOMAIN pool : \E i \in DOMAIN r : src[i] = p
      BY <1>2, <1>3, <1>4, <1>6, SourcesAre
<1>8. src \in Injection(DOMAIN r, DOMAIN pool)
      BY <1>6, <1>7 DEF Injection, IsInjective
<1>9. /\ IsFiniteSet(DOMAIN r) /\ Cardinality(DOMAIN r) = Len(r)
      /\ IsFiniteSet(DOMAIN pool) /\ Cardinality(DOMAIN pool) = Len(pool)
      <2>1. 1 \in Int /\ Len(r) \in Int /\ Len(pool) \in Int
            BY <1>5
      <2>2. /\ IsFiniteSet(1..Len(r)) /\ Cardinality(1..Len(r)) = IF 1 > Len(r) THEN 0 ELSE Len(r) - 1 + 1
            BY <2>1, FS_Interval
      <2>3. /\ IsFiniteSet(1..Len(pool))
            /\ Cardinality(1..Len(pool)) = IF 1 > Len(pool) THEN 0 ELSE Len(pool) - 1 + 1
            BY <2>1, FS_Interval
      <2>4. QED BY <1>5, <2>2, <2>3
<1>10. ASSUME NEW i \in DOMAIN r, NEW j \in DOMAIN r, i < j
       PROVE  r[i] # r[j] /\ (r[i].type = r[j].type => r[i].id < r[j].id)
      <2>1. CASE r[i].type # r[j].type
            BY <2>1
      <2>2. CASE r[i].type = r[j].type
            <3>1. src[i] \in DOMAIN pool /\ src[j] \in DOMAIN pool /\ src[i] < src[j]
                  BY <1>7, <1>10, <2>2
            <3>2. r[i].id < r[j].id /\ r[i].id \in Nat /\ r[j].id \in Nat
                  <4>1. r[i] = pool[src[i]] /\ r[j] = pool[src[j]]
                        BY <1>7
                  <4>2. pool[src[i]].id < pool[src[j]].id
                        BY <1>4, <2>2, <3>1, <4>1 DEF Numbered
                  <4>3. QED BY <1>5, <3>1, <4>1, <4>2
            <3>3. r[i].id # r[j].id
                  BY <3>2
            <3>4. QED BY <3>2, <3>3
      <2>3. QED BY <2>1, <2>2
<1>11. ASSUME Placed(f) = f PROVE Len(r) = f.target
      <2>1. SUFFICES ASSUME Len(r) # f.target PROVE FALSE
            OBVIOUS
      <2>2. WithMore(f) = {}
            <3>1. SUFFICES ASSUME WithMore(f) # {} PROVE FALSE
                  OBVIOUS
            <3>2. PICK t, e : e \in ToSet(pool) /\ Extends(f, Placed(f), t, e)
                  BY <1>2, <1>3, <1>4, <2>1, <3>1, PlacedDoes
            <3>3. r = Append(r, e)
                  BY <1>2, <1>11, <3>2 DEF Extends
            <3>4. r \in Seq(ToSet(pool))
                  BY <1>2, <1>3, <1>4 DEF FeedParts
            <3>5. Len(Append(r, e)) = Len(r) + 1
                  BY <3>2, <3>4
            <3>6. QED BY <1>5, <3>3, <3>5
      <2>3. src \in Surjection(DOMAIN r, DOMAIN pool)
            BY <1>6, <1>7, <2>2 DEF Surjection
      <2>4. Len(pool) <= Len(r)
            BY <1>9, <2>3, FS_Surjection
      <2>5. QED BY <1>5, <2>1, <2>4
<1>12. ASSUME Placed(f) = f, Len(pool) = f.target PROVE ToSet(r) = ToSet(pool)
      <2>1. Cardinality(DOMAIN r) = Cardinality(DOMAIN pool)
            BY <1>9, <1>11, <1>12
      <2>2. src \in Surjection(DOMAIN r, DOMAIN pool)
            BY <1>8, <1>9, <2>1, FS_Injection
      <2>3. \A p \in DOMAIN pool : \E i \in DOMAIN r : src[i] = p
            BY <2>2 DEF Surjection
      <2>4. ASSUME NEW x \in ToSet(pool) PROVE x \in ToSet(r)
            <3>1. PICK p \in DOMAIN pool : x = pool[p]
                  BY DEF ToSet
            <3>2. PICK i \in DOMAIN r : src[i] = p
                  BY <2>3
            <3>3. x = r[i]
                  BY <1>7, <3>1, <3>2
            <3>4. QED BY <3>3 DEF ToSet
      <2>5. ASSUME NEW x \in ToSet(r) PROVE x \in ToSet(pool)
            <3>1. PICK i \in DOMAIN r : x = r[i]
                  BY DEF ToSet
            <3>2. QED BY <1>7, <3>1 DEF ToSet
      <2>6. QED BY <2>4, <2>5
<1>13. ASSUME NEW i \in DOMAIN r, Third(r, i) \/ 5 * TakenBefore(r, i, r[i].type) >= 2 * f.target,
              NEW s \in DOMAIN f.consumed \ {r[i].type},
              TakenBefore(r, i, s) < Cardinality(Group(f, s))
       PROVE  5 * TakenBefore(r, i, s) >= 2 * f.target
      <2>1. Shared(f, i) /\ DOMAIN f.consumed = TypesOf(f.pool)
            BY <1>2, <1>4 DEF FeedSound, FeedParts
      <2>2. QED BY <1>2, <1>13, <2>1 DEF Shared
<1>14. QED BY <1>1, <1>2, <1>3, <1>10, <1>11, <1>12, <1>13, RulesAre
-----------------------------------------------------------------------------
\* Items of different types: after n turns of the loop the first n of them are
\* placed, each type once.
Distinct(s) == \A i, j \in DOMAIN s : i # j => s[i].type # s[j].type
First(items, n) ==
  [pool |-> items, target |-> Len(items), result |-> [i \in 1..n |-> items[i]],
   consumed |-> [t \in TypesOf(items) |-> IF \E i \in 1..n : items[i].type = t THEN 1 ELSE 0],
   consec |-> [t \in TypesOf(items) |-> IF n > 0 /\ items[n].type = t THEN 1 ELSE 0]]

LEMMA FirstIsStart ==
  ASSUME NEW items, items \in Seq(ToSet(items))
  PROVE  Diversify(items, <<>>) = First(items, 0)
<1>1. PICK K : K = {i \in DOMAIN <<>> : <<>>[i].type \notin TypesOf(items)}
      OBVIOUS
<1>2. K = {}
      BY <1>1
<1>3. Cardinality(K) = 0
      BY <1>2, FS_EmptySet
<1>4. PICK fill : fill = [k \in 1..Cardinality(K) |-> <<>>[Nth(K, k - 1)]]
      OBVIOUS
<1>5. 1..0 = {}
      OBVIOUS
<1>6. fill = <<>>
      BY <1>3, <1>4, <1>5
<1>7. items \o fill = items
      BY <1>6, ConcatEmptySeq
<1>8. Diversify(items, <<>>) =
        [pool |-> items, target |-> Len(items), result |-> <<>>,
         consumed |-> [t \in TypesOf(items) |-> 0], consec |-> [t \in TypesOf(items) |-> 0]]
      <2>1. Diversify(items, <<>>) =
              [pool |-> items \o fill, target |-> Len(items), result |-> <<>>,
               consumed |-> [t \in TypesOf(items \o fill) |-> 0], consec |-> [t \in TypesOf(items \o fill) |-> 0]]
            BY <1>1, <1>4 DEF Diversify
      <2>2. QED BY <1>7, <2>1
<1>9. [i \in 1..0 |-> items[i]] = <<>>
      BY <1>5
<1>10. [t \in TypesOf(items) |-> IF \E i \in 1..0 : items[i].type = t THEN 1 ELSE 0] = [t \in TypesOf(items) |-> 0]
      BY <1>5
<1>11. [t \in TypesOf(items) |-> IF 0 > 0 /\ items[0].type = t THEN 1 ELSE 0] = [t \in TypesOf(items) |-> 0]
      OBVIOUS
<1>12. QED BY <1>8, <1>9, <1>10, <1>11 DEF First

LEMMA FirstGrows ==
  ASSUME NEW items, items \in Seq(ToSet(items)), Distinct(items),
         \A i \in DOMAIN items : items[i].id \in Nat,
         NEW n \in 1..Len(items)
  PROVE  Placed(First(items, n - 1)) = First(items, n)
<1>1. PICK f : f = First(items, n - 1)
      OBVIOUS
<1>2. /\ Len(items) \in Nat /\ DOMAIN items = 1..Len(items) /\ n \in Nat /\ n - 1 \in Nat /\ n <= Len(items)
      OBVIOUS
<1>3. PICK u : u = items[n].type
      OBVIOUS
<1>4. /\ f.pool = items /\ f.target = Len(items) /\ f.result = [i \in 1..n - 1 |-> items[i]]
      /\ f.consumed = [t \in TypesOf(items) |-> IF \E i \in 1..n - 1 : items[i].type = t THEN 1 ELSE 0]
      /\ f.consec = [t \in TypesOf(items) |-> IF n - 1 > 0 /\ items[n - 1].type = t THEN 1 ELSE 0]
      /\ f = [pool |-> f.pool, target |-> f.target, result |-> f.result,
              consumed |-> f.consumed, consec |-> f.consec]
      BY <1>1 DEF First
<1>5. /\ f.result \in Seq(ToSet(items)) /\ Len(f.result) = n - 1
      <2>1. \A i \in 1..n - 1 : items[i] \in ToSet(items)
            BY <1>2 DEF ToSet
      <2>2. PICK k \in Nat : k = n - 1
            BY <1>2
      <2>3. f.result \in [1..k -> ToSet(items)]
            BY <1>4, <2>1, <2>2
      <2>4. f.result \in Seq(ToSet(items)) /\ Len(f.result) = k
            BY <2>3
      <2>5. QED BY <2>2, <2>4
<1>6. FeedParts(f)
      <2>1. f.consumed \in [TypesOf(items) -> Nat] /\ f.consec \in [TypesOf(items) -> Nat]
            BY <1>4
      <2>2. QED BY <1>2, <1>4, <1>5, <2>1 DEF FeedParts
<1>7. ASSUME NEW i \in 1..Len(items), NEW t, t = items[i].type
      PROVE  Group(f, t) = {i} /\ Cardinality(Group(f, t)) = 1 /\ Nth(Group(f, t), 0) = i /\ FirstOf(f, t) = i
      <2>1. Group(f, t) = {i}
            BY <1>2, <1>4, <1>7 DEF Group, OfType, Distinct
      <2>2. Cardinality(Group(f, t)) = 1
            BY <2>1, FS_Singleton
      <2>3. Group(f, t) \in SUBSET Nat /\ IsFiniteSet(Group(f, t))
            BY <1>6, Groups
      <2>4. Nth(Group(f, t), 0) \in Group(f, t)
            BY <2>2, <2>3, NthHasRank
      <2>5. QED BY <2>1, <2>2, <2>4 DEF FirstOf
<1>8. ASSUME NEW i \in 1..Len(items), NEW t, t = items[i].type
      PROVE  /\ t \in TypesOf(items)
             /\ i < n => f.consumed[t] = 1
             /\ i >= n => f.consumed[t] = 0 /\ f.consec[t] = 0
             /\ f.consec[t] < 2
      <2>1. t \in TypesOf(items)
            BY <1>2, <1>8 DEF TypesOf
      <2>2. i < n => i \in 1..n - 1
            BY <1>2
      <2>3. i >= n => \A k \in 1..n - 1 : items[k].type # t
            BY <1>2, <1>8 DEF Distinct
      <2>4. i >= n /\ n - 1 > 0 => items[n - 1].type # t
            BY <1>2, <2>3
      <2>5. QED BY <1>4, <1>8, <2>1, <2>2, <2>3, <2>4
<1>9. \A t \in TypesOf(items) : \E i \in 1..Len(items) : t = items[i].type
      BY <1>2 DEF TypesOf
<1>10. ASSUME NEW t \in WithMore(f)
       PROVE  \E i \in n..Len(items) : t = items[i].type
      <2>1. PICK i \in 1..Len(items) : t = items[i].type
            BY <1>4, <1>9 DEF WithMore
      <2>2. f.consumed[t] < 1
            BY <1>7, <2>1 DEF WithMore, HasMore
      <2>3. ~(i < n)
            BY <1>8, <2>1, <2>2
      <2>4. QED BY <1>2, <2>1, <2>3
<1>11. u \in Candidates(f)
      <2>1. u \in TypesOf(items) /\ f.consumed[u] = 0 /\ f.consec[u] < 2 /\ Cardinality(Group(f, u)) = 1
            BY <1>2, <1>3, <1>7, <1>8
      <2>2. u \in WithMore(f)
            BY <1>4, <2>1 DEF WithMore, HasMore
      <2>3. 5 * 0 < 2 * f.target
            BY <1>2, <1>4
      <2>4. QED BY <2>1, <2>2, <2>3 DEF Candidates, WithinShare, UnderShare
<1>12. Candidates(f) \subseteq WithMore(f)
      BY DEF Candidates, WithinShare
<1>13. Chosen(f) = u
      <2>1. PICK c : c = Chosen(f)
            OBVIOUS
      <2>2. /\ c \in Candidates(f) /\ \A t \in Candidates(f) \ {c} : LessRepeated(f, c, t)
            BY <1>6, <1>11, <1>12, <2>1, ChosenIs
      <2>3. PICK i \in n..Len(items) : c = items[i].type
            BY <1>10, <1>12, <2>2
      <2>4. /\ i \in 1..Len(items) /\ i >= n
            BY <1>2, <2>3
      <2>5. f.consumed[c] = 0 /\ f.consec[c] = 0 /\ Cardinality(Group(f, c)) = 1 /\ FirstOf(f, c) = i
            BY <1>7, <1>8, <2>3, <2>4
      <2>6. f.consumed[u] = 0 /\ f.consec[u] = 0 /\ Cardinality(Group(f, u)) = 1 /\ FirstOf(f, u) = n
            BY <1>2, <1>3, <1>7, <1>8
      <2>7. ~LessRepeated(f, c, u)
            BY <1>2, <2>4, <2>5, <2>6 DEF LessRepeated, LessTaken, Precedes
      <2>8. QED BY <1>11, <2>1, <2>2, <2>7
<1>14. Len(f.result) # f.target /\ WithMore(f) # {}
      BY <1>2, <1>4, <1>5, <1>11, <1>12
<1>15. f.consumed[u] = 0 /\ f.pool[Nth(Group(f, u), f.consumed[u])] = items[n]
      <2>1. f.consumed[u] = 0 /\ Nth(Group(f, u), 0) = n
            BY <1>2, <1>3, <1>7, <1>8
      <2>2. QED BY <1>4, <2>1
<1>16. Placed(f) =
         [f EXCEPT !.result = Append(@, items[n]), !.consumed[u] = @ + 1,
                   !.consec = [k \in DOMAIN @ |-> IF k = u THEN @[k] + 1 ELSE 0]]
      BY <1>13, <1>14, <1>15 DEF Placed
<1>17. Append(f.result, items[n]) = [i \in 1..n |-> items[i]]
      <2>1. items[n] \in ToSet(items)
            BY <1>2 DEF ToSet
      <2>2. PICK s : s = Append(f.result, items[n])
            OBVIOUS
      <2>3. /\ s \in Seq(ToSet(items)) /\ Len(s) = n /\ DOMAIN s = 1..n /\ s[n] = items[n]
            /\ \A i \in 1..n - 1 : s[i] = f.result[i]
            BY <1>2, <1>5, <2>1, <2>2
      <2>4. \A i \in 1..n : s[i] = items[i]
            <3>1. \A i \in 1..n : i \in 1..n - 1 \/ i = n
                  BY <1>2
            <3>2. QED BY <1>4, <2>3, <3>1
      <2>5. s = [i \in DOMAIN s |-> s[i]]
            BY <2>3
      <2>6. QED BY <2>2, <2>3, <2>4, <2>5
<1>18. [f.consumed EXCEPT ![u] = f.consumed[u] + 1]
         = [t \in TypesOf(items) |-> IF \E i \in 1..n : items[i].type = t THEN 1 ELSE 0]
      <2>1. ASSUME NEW t \in TypesOf(items)
            PROVE  (IF t = u THEN 1 ELSE f.consumed[t]) = IF \E i \in 1..n : items[i].type = t THEN 1 ELSE 0
            <3>1. (\E i \in 1..n : items[i].type = t) <=> (\E i \in 1..n - 1 : items[i].type = t) \/ t = u
                  <4>1. \A i \in 1..n : i \in 1..n - 1 \/ i = n
                        BY <1>2
                  <4>2. \A i \in 1..n - 1 : i \in 1..n
                        BY <1>2
                  <4>3. n \in 1..n
                        BY <1>2
                  <4>4. QED BY <1>3, <4>1, <4>2, <4>3
            <3>2. QED BY <1>4, <3>1
      <2>2. DOMAIN f.consumed = TypesOf(items)
            BY <1>4
      <2>3. QED BY <1>15, <2>1, <2>2
<1>19. [k \in DOMAIN f.consec |-> IF k = u THEN f.consec[k] + 1 ELSE 0]
         = [t \in TypesOf(items) |-> IF n > 0 /\ items[n].type = t THEN 1 ELSE 0]
      <2>1. f.consec[u] = 0 /\ DOMAIN f.consec = TypesOf(items) /\ n > 0
            BY <1>2, <1>3, <1>4, <1>8
      <2>2. QED BY <1>3, <2>1
<1>20. QED BY <1>1, <1>4, <1>16, <1>17, <1>18, <1>19 DEF First

\* So diversify leaves a list of items of different types as it is.
LEMMA DistinctKept ==
  ASSUME NEW items, items \in Seq(ToSet(items)), Distinct(items),
         \A i \in DOMAIN items : items[i].id \in Nat
  PROVE  Diversified(items) = items
<1> DEFINE Recursion(g) ==
             g = [n \in 0..Len(items) |-> IF n = 0 THEN Diversify(items, <<>>) ELSE Placed(g[n - 1])]
           loop == CHOOSE g : Recursion(g)
<1>1. Diversified(items) = loop[Len(items)].result
      BY DEF Diversified
<1>2. Len(items) \in Nat /\ DOMAIN items = 1..Len(items)
      OBVIOUS
<1>3. \E g : Recursion(g)
      <2>1. PICK g : g = [n \in 0..Len(items) |-> First(items, n)]
            OBVIOUS
      <2>2. ASSUME NEW n \in 0..Len(items)
            PROVE  g[n] = IF n = 0 THEN Diversify(items, <<>>) ELSE Placed(g[n - 1])
            <3>1. CASE n = 0
                  BY <2>1, <3>1, FirstIsStart
            <3>2. CASE n # 0
                  <4>1. n \in 1..Len(items) /\ n - 1 \in 0..Len(items)
                        BY <1>2, <3>2
                  <4>2. g[n] = First(items, n) /\ g[n - 1] = First(items, n - 1)
                        BY <2>1, <4>1
                  <4>3. Placed(g[n - 1]) = g[n]
                        BY <4>1, <4>2, FirstGrows
                  <4>4. QED BY <3>2, <4>3
            <3>3. QED BY <3>1, <3>2
      <2>3. g = [n \in 0..Len(items) |-> IF n = 0 THEN Diversify(items, <<>>) ELSE Placed(g[n - 1])]
            BY <2>1, <2>2
      <2>4. QED BY <2>3
<1>4. PICK h : h = loop /\ Recursion(h)
      BY <1>3
<1> HIDE DEF loop
<1>5. PICK T : T = {n \in Nat : n <= Len(items) => h[n] = First(items, n)}
      OBVIOUS
<1>6. 0 \in T
      <2>1. h[0] = Diversify(items, <<>>)
            BY <1>2, <1>4
      <2>2. QED BY <1>5, <2>1, FirstIsStart
<1>7. ASSUME NEW n \in Nat, n \in T PROVE n + 1 \in T
      <2>1. SUFFICES ASSUME n + 1 <= Len(items) PROVE h[n + 1] = First(items, n + 1)
            BY <1>5
      <2>2. h[n] = First(items, n)
            BY <1>2, <1>5, <1>7, <2>1
      <2>3. n + 1 \in 0..Len(items) /\ n + 1 # 0 /\ n + 1 - 1 = n /\ n + 1 \in 1..Len(items)
            BY <1>2, <2>1
      <2>4. h[n + 1] = Placed(h[n + 1 - 1])
            BY <1>4, <2>3
      <2>5. QED BY <2>2, <2>3, <2>4, FirstGrows
<1>8. h[Len(items)] = First(items, Len(items))
      <2>1. Nat \subseteq T
            BY <1>6, <1>7, SetInduction
      <2>2. QED BY <1>2, <1>5, <2>1
<1>9. First(items, Len(items)).result = items
      <2>1. First(items, Len(items)).result = [i \in 1..Len(items) |-> items[i]]
            BY DEF First
      <2>2. QED BY <1>2, <2>1
<1>10. QED BY <1>1, <1>4, <1>8, <1>9
-----------------------------------------------------------------------------
\* The briefing's cards: each is of a type of its own.
CardsOf(s, T) ==
  /\ s \in Seq(ToSet(s)) /\ Distinct(s)
  /\ \A i \in DOMAIN s : s[i].type \in T /\ s[i].id \in Nat

LEMMA CardIs ==
  ASSUME NEW t, NEW b
  PROVE  /\ CardsOf(Card(t, b), {t}) /\ Len(Card(t, b)) \in 0..1
         /\ \A i \in DOMAIN Card(t, b) : i = 1
<1>1. CASE b
      <2>1. PICK e : e = [type |-> t, id |-> 1]
            OBVIOUS
      <2>2. PICK s : s = <<e>>
            OBVIOUS
      <2>3. /\ s \in Seq({e}) /\ Len(s) = 1 /\ DOMAIN s = 1..1 /\ s[1] = e
            BY <2>2
      <2>4. \A i \in DOMAIN s : i = 1
            BY <2>3
      <2>5. ToSet(s) = {e}
            BY <2>3, <2>4 DEF ToSet
      <2>6. Distinct(s)
            BY <2>4 DEF Distinct
      <2>7. Card(t, b) = s
            BY <1>1, <2>1, <2>2 DEF Card
      <2>8. CardsOf(s, {t})
            BY <2>1, <2>3, <2>4, <2>5, <2>6 DEF CardsOf
      <2>9. QED BY <2>3, <2>4, <2>7, <2>8
<1>2. CASE ~b
      <2>1. PICK s : s = Card(t, b)
            OBVIOUS
      <2>2. s = <<>> /\ Len(s) = 0 /\ DOMAIN s = {} /\ s \in Seq(ToSet(s))
            BY <1>2, <2>1 DEF Card
      <2>3. Distinct(s)
            BY <2>2 DEF Distinct
      <2>4. QED BY <2>1, <2>2, <2>3 DEF CardsOf
<1>3. QED BY <1>1, <1>2

LEMMA CardJoins ==
  ASSUME NEW s, NEW T, CardsOf(s, T), NEW t, t \notin T, NEW b
  PROVE  CardsOf(s \o Card(t, b), T \cup {t})
<1>1. PICK c : c = Card(t, b)
      OBVIOUS
<1>2. /\ CardsOf(c, {t}) /\ Len(c) \in 0..1 /\ \A i \in DOMAIN c : i = 1
      BY <1>1, CardIs
<1>3. PICK X : X = ToSet(s) \cup ToSet(c)
      OBVIOUS
<1>4. s \in Seq(X) /\ c \in Seq(X) /\ Len(s) \in Nat /\ DOMAIN s = 1..Len(s) /\ DOMAIN c = 1..Len(c)
      BY <1>2, <1>3 DEF CardsOf
<1>5. PICK r : r = s \o c
      OBVIOUS
<1>6. /\ r \in Seq(X) /\ Len(r) = Len(s) + Len(c) /\ DOMAIN r = 1..Len(s) + Len(c)
      /\ \A i \in 1..Len(s) + Len(c) : r[i] = IF i <= Len(s) THEN s[i] ELSE c[i - Len(s)]
      BY <1>4, <1>5, ConcatProperties
<1>7. r \in Seq(ToSet(r))
      <2>1. r \in [1..Len(r) -> ToSet(r)]
            BY <1>6 DEF ToSet
      <2>2. QED BY <1>6, <2>1
<1>8. \A i \in DOMAIN r :
        \/ i \in DOMAIN s /\ r[i] = s[i]
        \/ i \notin DOMAIN s /\ i - Len(s) \in DOMAIN c /\ i = Len(s) + 1 /\ r[i] = c[1]
      <2>1. ASSUME NEW i \in DOMAIN r
            PROVE  \/ i \in DOMAIN s /\ r[i] = s[i]
                   \/ i \notin DOMAIN s /\ i - Len(s) \in DOMAIN c /\ i = Len(s) + 1 /\ r[i] = c[1]
            <3>1. CASE i <= Len(s)
                  BY <1>2, <1>4, <1>6, <3>1
            <3>2. CASE ~(i <= Len(s))
                  <4>1. i - Len(s) \in DOMAIN c /\ i \notin DOMAIN s
                        BY <1>2, <1>4, <1>6, <3>2
                  <4>2. i - Len(s) = 1
                        BY <1>2, <4>1
                  <4>3. i = Len(s) + 1
                        BY <1>2, <1>4, <1>6, <4>2
                  <4>4. r[i] = c[1]
                        BY <1>2, <1>6, <3>2, <4>2
                  <4>5. QED BY <4>1, <4>3, <4>4
            <3>3. QED BY <3>1, <3>2
      <2>2. QED BY <2>1
<1>9. \A i \in DOMAIN c : c[1].type = t /\ c[1].id \in Nat
      BY <1>2 DEF CardsOf
<1>10. \A i \in DOMAIN s : s[i].type \in T /\ s[i].id \in Nat
      BY DEF CardsOf
<1>11. Distinct(r)
      <2>1. ASSUME NEW i \in DOMAIN r, NEW j \in DOMAIN r, i # j PROVE r[i].type # r[j].type
            <3>1. CASE i \in DOMAIN s /\ j \in DOMAIN s
                  BY <1>8, <2>1, <3>1 DEF CardsOf, Distinct
            <3>2. CASE i \in DOMAIN s /\ j \notin DOMAIN s
                  BY <1>8, <1>9, <1>10, <3>2
            <3>3. CASE i \notin DOMAIN s /\ j \in DOMAIN s
                  BY <1>8, <1>9, <1>10, <3>3
            <3>4. CASE i \notin DOMAIN s /\ j \notin DOMAIN s
                  BY <1>8, <2>1, <3>4
            <3>5. QED BY <3>1, <3>2, <3>3, <3>4
      <2>2. QED BY <2>1 DEF Distinct
<1>12. \A i \in DOMAIN r : r[i].type \in T \cup {t} /\ r[i].id \in Nat
      BY <1>8, <1>9, <1>10
<1>13. QED BY <1>1, <1>5, <1>7, <1>11, <1>12 DEF CardsOf

LEMMA BriefingOrdered == BriefingKeepsItsOrder
<1>1. PICK w, a, b, c, d, e :
        /\ BuildFeed = Card("watchlist", w) \o Card("filing_trend", a) \o Card("expiry_opportunity", b)
                         \o Card("notable_patent", c) \o Card("company_move", d) \o Card("platform", e)
      BY DEF BuildFeed, WatchlistCard, CompanyCard, PlatformCard, Highlight
<1>2. PICK s1 : s1 = Card("watchlist", w)
      OBVIOUS
<1>3. PICK s2 : s2 = s1 \o Card("filing_trend", a)
      OBVIOUS
<1>4. PICK s3 : s3 = s2 \o Card("expiry_opportunity", b)
      OBVIOUS
<1>5. PICK s4 : s4 = s3 \o Card("notable_patent", c)
      OBVIOUS
<1>6. PICK s5 : s5 = s4 \o Card("company_move", d)
      OBVIOUS
<1>7. PICK s6 : s6 = s5 \o Card("platform", e)
      OBVIOUS
<1>8. CardsOf(s1, {"watchlist"})
      BY <1>2, CardIs
<1>9. CardsOf(s2, {"watchlist"} \cup {"filing_trend"})
      BY <1>3, <1>8, CardJoins
<1>10. CardsOf(s3, {"watchlist"} \cup {"filing_trend"} \cup {"expiry_opportunity"})
      BY <1>4, <1>9, CardJoins
<1>11. CardsOf(s4, {"watchlist"} \cup {"filing_trend"} \cup {"expiry_opportunity"} \cup {"notable_patent"})
      BY <1>5, <1>10, CardJoins
<1>12. CardsOf(s5, {"watchlist"} \cup {"filing_trend"} \cup {"expiry_opportunity"} \cup {"notable_patent"}
                     \cup {"company_move"})
      BY <1>6, <1>11, CardJoins
<1>13. CardsOf(s6, {"watchlist"} \cup {"filing_trend"} \cup {"expiry_opportunity"} \cup {"notable_patent"}
                     \cup {"company_move"} \cup {"platform"})
      BY <1>7, <1>12, CardJoins
<1>14. BuildFeed = s6
      BY <1>1, <1>2, <1>3, <1>4, <1>5, <1>6, <1>7
<1>15. Diversified(s6) = s6
      BY <1>13, DistinctKept DEF CardsOf
<1>16. QED BY <1>14, <1>15 DEF BriefingKeepsItsOrder, ForYou
-----------------------------------------------------------------------------
\* The list that is checked on its own begins sound, whatever it is made of.
LEMMA FeedBegins ==
  ASSUME FeedInit
  PROVE  FeedSound(feed)
<1>1. PICK items \in SeqOf(Types, MaxItems), backfill \in SeqOf(Types, MaxBackfill) :
        feed = Diversify([i \in DOMAIN items |-> [type |-> items[i], id |-> i]],
                         [i \in DOMAIN backfill |-> [type |-> backfill[i], id |-> i]])
      BY DEF FeedInit
<1>2. ASSUME NEW n \in Nat, NEW s \in SeqOf(Types, n), NEW m, m = [i \in DOMAIN s |-> [type |-> s[i], id |-> i]]
      PROVE  /\ m \in Seq(ToSet(m)) /\ Len(m) \in Nat /\ DOMAIN m = 1..Len(m) /\ Numbered(m)
             /\ \A i \in DOMAIN m : m[i].id \in Nat
      <2>1. PICK k \in 0..n : s \in [1..k -> Types]
            BY DEF SeqOf
      <2>2. DOMAIN s = 1..k /\ k \in Nat
            BY <2>1
      <2>3. DOMAIN m = 1..k /\ \A i \in 1..k : m[i] \in ToSet(m) /\ m[i].id = i
            BY <1>2, <2>2 DEF ToSet
      <2>4. m \in [1..k -> ToSet(m)]
            BY <1>2, <2>2, <2>3
      <2>5. m \in Seq(ToSet(m)) /\ Len(m) = k
            BY <2>2, <2>4
      <2>6. QED BY <2>2, <2>3, <2>5 DEF Numbered
<1>3. PICK m : m = [i \in DOMAIN items |-> [type |-> items[i], id |-> i]]
      OBVIOUS
<1>4. PICK l : l = [i \in DOMAIN backfill |-> [type |-> backfill[i], id |-> i]]
      OBVIOUS
<1>5. /\ m \in Seq(ToSet(m)) /\ Numbered(m) /\ \A i \in DOMAIN m : m[i].id \in Nat
      BY <1>2, <1>3, TodayAssumption
<1>6. /\ Len(l) \in Nat /\ DOMAIN l = 1..Len(l) /\ Numbered(l) /\ \A i \in DOMAIN l : l[i].id \in Nat
      BY <1>2, <1>4, TodayAssumption
<1>7. QED BY <1>1, <1>3, <1>4, <1>5, <1>6, DiversifyStarts
-----------------------------------------------------------------------------
\* Whatever all pages do, the list that is checked on its own stays sound.
LEMMA FeedSteps ==
  ASSUME FeedSound(feed), [Next]_webVars
  PROVE  FeedSound(feed')
<1>1. feed' = Placed(feed) \/ feed' = feed
      BY DEF Next, webVars, ScreensMove, WritesMove, ChatMoves, SessionMoves, TodayMoves,
             FeedMoves, PlaceNext, TodayUser, TodayNet, FetchDone, FetchFails, FetchAgain, TakeFocus,
             Reconnect, MarkLook, MarkArrives, ComeBack, LoadAgain, PickStarter, todayVars
<1>2. QED BY <1>1, PlacedKeeps

\* And it begins so, also where no list is checked.
LEMMA FeedStarts == Init => FeedSound(feed)
<1> SUFFICES ASSUME Init PROVE FeedSound(feed)
    OBVIOUS
<1>1. CASE FeedInit
      BY <1>1, FeedBegins
<1>2. CASE feed = Diversify(<<>>, <<>>)
      <2>1. PICK s : s = <<>>
            OBVIOUS
      <2>2. s \in Seq(ToSet(s)) /\ Len(s) = 0 /\ DOMAIN s = {} /\ DOMAIN s = 1..Len(s)
            BY <2>1
      <2>3. Numbered(s) /\ \A i \in DOMAIN s : s[i].id \in Nat
            BY <2>2 DEF Numbered
      <2>4. s \in Seq(ToSet(s)) /\ Len(s) \in Nat /\ DOMAIN s = 1..Len(s)
            BY <2>2
      <2>5. FeedSound(Diversify(s, s))
            BY <2>3, <2>4, DiversifyStarts
      <2>6. QED BY <1>2, <2>1, <2>5
<1>3. QED BY <1>1, <1>2 DEF Init

\* Today says nothing untrue: what it calls the last visit is an earlier look,
\* whoever has topics or saved patents is welcomed as a newcomer only if the
\* request for them failed, the briefing's cards are in the order they were
\* built in, and diversify keeps its promises for lists of every length.
THEOREM TodayHolds == Spec => []TodayIsTrue
<1>1. Init => TodayInv /\ FeedSound(feed)
      BY TodayStarts, FeedStarts DEF Init
<1>2. (TodayInv /\ FeedSound(feed)) /\ [Next]_webVars => (TodayInv /\ FeedSound(feed))'
      BY TodaySteps, FeedSteps
<1>3. TodayInv /\ FeedSound(feed) => TodayIsTrue
      BY TodayLabels, BriefingOrdered, RulesHold DEF TodayIsTrue
<1>4. QED BY <1>1, <1>2, <1>3, PTL DEF Spec
-----------------------------------------------------------------------------
(* The types.                                                              *)

\* The types of the chat: it has no more conversations than turns.
LEMMA ChatIsTyped ==
  ASSUME ChatTypes
  PROVE  ChatClientTypeOK
<1>1. /\ turn \in Seq(ChatTurn) /\ Len(turn) <= MaxTurns /\ Len(turn) \in Nat
      /\ DOMAIN turn = 1..Len(turn) /\ DOMAIN turn \subseteq 1..MaxTurns
      BY ChatClientAssumption DEF ChatTypes, TurnTypes
<1>2. known \in 0..MaxTurns
      <2>1. IsFiniteSet(DOMAIN turn) /\ Cardinality(DOMAIN turn) = Len(turn)
            <3>1. Cardinality(1..Len(turn)) = Len(turn) /\ IsFiniteSet(1..Len(turn))
                  <4>1. 1 \in Int /\ Len(turn) \in Int
                        BY <1>1
                  <4>2. /\ IsFiniteSet(1..Len(turn))
                        /\ Cardinality(1..Len(turn)) = IF 1 > Len(turn) THEN 0 ELSE Len(turn) - 1 + 1
                        BY <4>1, FS_Interval
                  <4>3. QED BY <1>1, <4>2
            <3>2. QED BY <1>1, <3>1
      <2>2. Named \subseteq DOMAIN turn
            BY DEF Named
      <2>3. Cardinality(Named) <= Cardinality(DOMAIN turn)
            BY <2>1, <2>2, FS_Subset
      <2>4. Cardinality(Named) \in Nat
            BY <2>1, <2>2, FS_Subset, FS_CardinalityType
      <2>5. known \in Nat /\ known <= Cardinality(Named)
            BY DEF ChatTypes, TurnTypes
      <2>6. QED BY <1>1, <2>1, <2>3, <2>4, <2>5, ChatClientAssumption
<1>3. \A i \in DOMAIN turn :
        turn[i] \in [tab: Tabs, mount: 0..MaxTrips, conv: {NoConv} \cup Convs, step: TurnSteps]
      <2>1. \A i \in DOMAIN turn : turn[i] \in ChatTurn
            BY DEF ChatTypes, TurnTypes
      <2>2. QED BY <2>1, Zenon DEF ChatTurn
<1>4. stream \in [Tabs -> 0..MaxTurns]
      <2>1. \A b \in Tabs : stream[b] \in 0..MaxTurns
            <3>1. 0 \in 0..MaxTurns /\ 1..MaxTurns \subseteq 0..MaxTurns
                  BY ChatClientAssumption
            <3>2. QED BY <1>1, <3>1 DEF ChatTypes, TurnTypes
      <2>2. stream \in [Tabs -> Nat]
            BY DEF ChatTypes, TurnTypes
      <2>3. QED BY <2>1, <2>2
<1>5. mount \in [Tabs -> -1 - MaxTrips .. MaxTrips]
      <2>1. /\ mount \in [Tabs -> Int] /\ trips \in 0..MaxTrips
            /\ \A b \in Tabs : -trips <= mount[b] /\ mount[b] <= trips
            BY DEF ChatTypes, TabTypes
      <2>2. ASSUME NEW b \in Tabs
            PROVE  mount[b] \in -1 - MaxTrips .. MaxTrips
            <3>1. mount[b] \in Int /\ -trips <= mount[b] /\ mount[b] <= trips
                  BY <2>1
            <3>2. QED BY <2>1, <3>1, ChatClientAssumption
      <2>3. QED BY <2>1, <2>2
<1>6. listed \subseteq Convs /\ crossed \subseteq 1..MaxTurns
      BY <1>1, <1>2, ChatClientAssumption DEF ChatTypes, TurnTypes, ListInv, Convs
<1>7. /\ address \in [Tabs -> {NoConv} \cup Convs] /\ sidebar \in [Tabs -> SUBSET Convs]
      BY <1>6 DEF ChatTypes, ListInv
<1>8. /\ streaming \in [Tabs -> BOOLEAN]
      /\ \A b \in Tabs : late[b] \in Seq({NoConv} \cup Convs)
      /\ composer \in [Tabs -> {"", "text", "suggestion"}] /\ trips \in 0..MaxTrips
      BY DEF ChatTypes, TabTypes, LateTypes, Composers
<1>9. /\ shown \in [Tabs -> {NoConv} \cup Convs] /\ shared \subseteq Convs
      /\ \A b \in Tabs : messages[b] \in Seq(Message)
      /\ \A c \in Convs : stored[c] \in Seq(Message)
      BY DEF ChatTypes, ShownTypes
<1>10. QED BY <1>1, <1>2, <1>3, <1>4, <1>5, <1>6, <1>7, <1>8, <1>9 DEF ChatClientTypeOK

\* The pages of a tab, all of them.
WebInv == ScreensInv /\ WritesInv /\ ChatInv /\ SessionInv /\ TodayInv

\* Every page keeps the types its module gives, whatever tabs, users, writes and
\* answers do.
THEOREM WebTyped == Spec => []WebTypeOK
<1>1. Init => WebInv
      BY ScreensStart, WritesStart, ChatStarts, SessionStarts, TodayStarts DEF Init, WebInv
<1>2. WebInv /\ [Next]_webVars => WebInv'
      <2> SUFFICES ASSUME WebInv, [Next]_webVars PROVE WebInv'
          OBVIOUS
      <2>1. /\ ScreenNext \/ UNCHANGED screenVars
            /\ WriteNext \/ UNCHANGED writeVars
            /\ ChatClientNext \/ UNCHANGED chatClientVars
            /\ [SessionNext]_webSessionVars
            BY DEF Next, webVars, ScreensMove, WritesMove, ChatMoves, SessionMoves, TodayMoves,
                   FeedMoves
      <2>2. ScreensInv' /\ WritesInv'
            BY <2>1, ScreensKeep, WritesKeep DEF WebInv
      <2>3. ChatInv'
            BY <2>1, ChatSteps DEF WebInv
      <2>4. SessionInv'
            BY <2>1, SessionSteps DEF WebInv
      <2>5. TodayInv'
            BY TodaySteps DEF WebInv
      <2>6. QED BY <2>2, <2>3, <2>4, <2>5 DEF WebInv
<1>3. WebInv => WebTypeOK
      <2> SUFFICES ASSUME WebInv PROVE WebTypeOK
          OBVIOUS
      <2>1. ScreenTypeOK /\ WriteTypeOK
            BY WritesAreTyped DEF WebInv, ScreensInv
      <2>2. ChatClientTypeOK /\ SessionTypeOK
            BY ChatIsTyped DEF WebInv, ChatInv, SessionInv
      <2>3. TodayTypeOK
            BY TodayLabels DEF WebInv
      <2>4. QED BY <2>1, <2>2, <2>3 DEF WebTypeOK
<1>4. QED BY <1>1, <1>2, <1>3, PTL DEF Spec
=============================================================================
