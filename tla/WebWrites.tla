------------------------------ MODULE WebWrites ------------------------------
(***************************************************************************)
(* What the pages of the web application do: every handler that writes.    *)
(* A click sends a call; the call is committed by the server and answered, *)
(* or it fails before or after the commit; the answer clears the page's    *)
(* busy flag and tells SWR which keys to fetch again, and the fetches race *)
(* with one another and with other tabs.  The busy flags and the forms     *)
(* live as long as the mounted page, the calls and the cache live on.      *)
(* An operation is a record: the resource it writes, how its button is     *)
(* held while it runs, when the handler lets go of it, and what it does to *)
(* the cache.  SWR and the server are modelled as the handlers use them.   *)
(***************************************************************************)
EXTENDS Integers, Sequences, FiniteSets

CONSTANTS
  MaxCalls,        \* the calls a user makes (one more where items share a flag)
  MaxOutside,      \* the writes of other tabs and tasks
  MaxTyping,       \* the edits of a form
  MaxVisits        \* how often the user leaves the page and returns

ASSUME WritesAssumption == MaxCalls \in Nat /\ MaxOutside \in Nat /\ MaxTyping \in Nat /\ MaxVisits \in Nat

(***************************************************************************)
(* The operations.  "writes": the resource the page shows and the call     *)
(* changes, or "nothing".  "guard": "none", a "flag" that disables the     *)
(* button, an "item" flag that disables the button of one item, or "both"  *)
(* the flag and useAsyncAction's guard.  "frees": when the flag is given   *)
(* back.  "then": "fetch" the key again, put the answer in the cache       *)
(* ("local") or in the page's own state, or nothing.  "leaves": success    *)
(* leaves the page.                                                        *)
(***************************************************************************)
Op == [writes |-> "nothing", guard |-> "none", frees |-> "always", then |-> "fetch", leaves |-> FALSE]

MarkSeen == [Op EXCEPT !.writes = "state", !.guard = "none", !.then = "nothing"]
SaveSearch == [Op EXCEPT !.writes = "searches", !.guard = "flag"]
DeleteSaved == [Op EXCEPT !.writes = "searches"]
ToggleSave == [Op EXCEPT !.writes = "watchlist"]
RemovePatent == [Op EXCEPT !.writes = "watchlist", !.guard = "item"]
RemoveSearch == [Op EXCEPT !.writes = "searches"]
CreateTopic == [Op EXCEPT !.writes = "themes", !.guard = "flag"]
DeleteTopic == [Op EXCEPT !.writes = "themes", !.guard = "item"]
FollowTopic == [Op EXCEPT !.writes = "themes"]
UnfollowTopic == [Op EXCEPT !.writes = "themes", !.guard = "item"]
StartTopic == [Op EXCEPT !.writes = "themes", !.guard = "item"]
FollowCompany == [Op EXCEPT !.writes = "follow", !.guard = "flag"]
TrendNarrative == [Op EXCEPT !.writes = "narrative", !.guard = "both", !.then = "local"]
RadarSave == [Op EXCEPT !.writes = "watchlist"]
Export == [Op EXCEPT !.guard = "flag"]
WhyNow == [Op EXCEPT !.writes = "whyNow", !.guard = "both", !.then = "state"]
Narrative == [Op EXCEPT !.writes = "opportunity", !.guard = "both", !.then = "state"]
TrendSnapshot == [Op EXCEPT !.writes = "snapshot", !.guard = "both", !.then = "state"]
Assignee == [Op EXCEPT !.writes = "assignee", !.guard = "both", !.then = "state"]
WatchPatent == [Op EXCEPT !.writes = "watching", !.guard = "flag"]
LinkedIn == [Op EXCEPT !.writes = "post", !.guard = "both", !.then = "state"]
UsageStory == [Op EXCEPT !.writes = "story", !.guard = "flag", !.then = "state"]
Estimate == [Op EXCEPT !.guard = "flag"]
Run == [Op EXCEPT !.writes = "history", !.guard = "flag"]
RetryIngest == [Op EXCEPT !.writes = "fetches", !.guard = "flag", !.then = "nothing"]
OverrideTier == [Op EXCEPT !.writes = "users"]
DeleteAccount == [Op EXCEPT !.guard = "flag", !.leaves = TRUE]
PauseSub == [Op EXCEPT !.writes = "subs"]
SwitchSub == [Op EXCEPT !.writes = "subs"]
DeleteSub == [Op EXCEPT !.writes = "subs"]
Checkout == [Op EXCEPT !.guard = "flag", !.frees = "failure", !.leaves = TRUE]
Portal == [Op EXCEPT !.guard = "flag", !.frees = "failure", !.leaves = TRUE]
SavePreferences == [Op EXCEPT !.writes = "preferences", !.guard = "flag", !.then = "local"]
ToggleEmail == [Op EXCEPT !.writes = "email", !.guard = "flag", !.frees = "success", !.then = "local"]
SaveWebhook == [Op EXCEPT !.writes = "webhook", !.guard = "flag"]
TestWebhook == [Op EXCEPT !.guard = "flag"]
Subscribe == [Op EXCEPT !.writes = "subs", !.guard = "flag"]
PauseTopicSub == [Op EXCEPT !.writes = "subs", !.guard = "flag"]
SwitchTopicSub == [Op EXCEPT !.writes = "subs"]
LeaveTopicSub == [Op EXCEPT !.writes = "subs"]

Pages ==
  [today |-> [markSeen |-> MarkSeen],
   search |-> [save |-> SaveSearch, delete |-> DeleteSaved, toggle |-> ToggleSave],
   watchlist |-> [remove |-> RemovePatent, delete |-> RemoveSearch],
   themes |-> [create |-> CreateTopic, delete |-> DeleteTopic, follow |-> FollowTopic,
               unfollow |-> UnfollowTopic, start |-> StartTopic],
   company |-> [follow |-> FollowCompany], trend |-> [narrative |-> TrendNarrative],
   expiry |-> [toggle |-> RadarSave, export |-> Export],
   patent |-> [whyNow |-> WhyNow, narrative |-> Narrative, trend |-> TrendSnapshot,
               assignee |-> Assignee, watch |-> WatchPatent],
   post |-> [generate |-> LinkedIn], signals |-> [story |-> UsageStory],
   runs |-> [estimate |-> Estimate, run |-> Run],
   sources |-> [retry |-> RetryIngest], admin |-> [override |-> OverrideTier],
   account |-> [pause |-> PauseSub, switch |-> SwitchSub, delete |-> DeleteSub, quit |-> DeleteAccount],
   billing |-> [checkout |-> Checkout, portal |-> Portal],
   preferences |-> [save |-> SavePreferences], email |-> [toggle |-> ToggleEmail],
   webhooks |-> [save |-> SaveWebhook, test |-> TestWebhook],
   topic |-> [subscribe |-> Subscribe, pause |-> PauseTopicSub, switch |-> SwitchTopicSub,
              leave |-> LeaveTopicSub]]

\* How a page's form gets its values: whenever the data changes, when the page
\* is mounted and the data are in the cache already, or not from the server.
PreferencesForm == "effect"
WebhookForm == "mount"
EstimateForm == "inputs"
Forms == [preferences |-> PreferencesForm, webhooks |-> WebhookForm, runs |-> EstimateForm]
FormOf(p) == IF p \in DOMAIN Forms THEN Forms[p] ELSE "none"
-----------------------------------------------------------------------------
VARIABLES
  page, used,   \* the page, and the one or two operations the user makes use of
  here,         \* the page is mounted
  visits,
  srv,          \* the versions of the resources
  cache,        \* the version SWR's cache holds, None before the first answer
  since,        \* the version at the start of the fetch under way, or None
  call,         \* the calls made: [op, item, visit, step]
  busy,         \* the flag of each operation: free, or the item it is held for
  outside,      \* the writes of others
  form,         \* "blank", "synced" or "edited"
  estimate,     \* the cost shown: "none", for the inputs shown, or "stale"
  typing,
  past          \* what happened, for the properties

writeVars == <<page, used, here, visits, srv, cache, since, call, busy, outside, form, estimate, typing, past>>

None == -1
Free == 0
Items == {1, 2}
Ops == Pages[page]
Resources == {Ops[o].writes : o \in used} \ {"nothing"}
MaxVersion == MaxCalls + 1 + MaxOutside
Steps == {"sent", "done", "answered", "refused", "lost"}
Marks == {"failed", "stepped", "overwrote", "wiped", "surprised", "typedSince", "overtaken"}
InFlight == {i \in DOMAIN call : call[i].step \in {"sent", "done"}}

WriteTypeOK ==
  /\ page \in DOMAIN Pages /\ used \subseteq DOMAIN Pages[page] /\ here \in BOOLEAN /\ visits \in 0..MaxVisits
  /\ srv \in [Resources -> 0..MaxVersion]
  /\ cache \in [Resources -> {None} \cup 0..MaxVersion]
  /\ since \in [Resources -> {None} \cup 0..MaxVersion]
  /\ \A i \in DOMAIN call :
       call[i] \in [op: used, item: Items, visit: 0..MaxVisits, step: Steps, wrote: 0..MaxVersion]
  /\ Len(call) <= MaxCalls + 1
  /\ busy \in [used -> {Free} \cup Items]
  /\ outside \in 0..MaxOutside /\ typing \in 0..MaxTyping
  /\ form \in {"blank", "synced", "edited"} /\ estimate \in {"none", "fits", "stale"}
  /\ past \subseteq Marks
-----------------------------------------------------------------------------
FormAtMount(c) ==
  IF FormOf(page) # "none" /\ FormOf(page) # "inputs" /\ \E r \in Resources : c[r] # None
    THEN "synced" ELSE "blank"

WriteInit ==
  /\ page \in DOMAIN Pages
  /\ \E a, b \in DOMAIN Pages[page] :
       used = {a, b} /\ (a = b => Ops[a].guard = "item" \/ DOMAIN Pages[page] = {a})
  /\ here = TRUE /\ visits = 0
  /\ srv = [r \in Resources |-> 0]
  /\ cache = [r \in Resources |-> None]
  /\ since = [r \in Resources |-> 0]
  /\ call = <<>> /\ busy = [o \in used |-> Free]
  /\ outside = 0 /\ form = FormAtMount(cache) /\ estimate = "none" /\ typing = 0 /\ past = {}

\* New data reach the page: the effect of the preferences page sets the form,
\* whatever was typed.
Reaches(r, v) ==
  /\ cache' = [cache EXCEPT ![r] = v]
  /\ IF here /\ FormOf(page) = "effect" /\ v # cache[r]
       THEN /\ form' = "synced"
            /\ past' = CASE form # "edited" -> past
                         [] "typedSince" \in past -> past \cup {"overtaken"}
                         [] \E i \in DOMAIN call : call[i].wrote = v -> past
                         [] OTHER -> past \cup {"overwrote"}
       ELSE UNCHANGED <<form, past>>

NeverHeld(o, item) == FALSE
\* What holds a button back while the operation runs.
Held(o, item) ==
  CASE Ops[o].guard = "none" -> FALSE
    [] Ops[o].guard = "item" -> busy[o] = item
    [] OTHER -> busy[o] # Free

CanClick(o, item) ==
  /\ here /\ ~Held(o, item)
  /\ page = "runs" /\ o = "run" => estimate # "none"
  /\ FormOf(page) \in {"effect", "mount"} /\ o = "save" => \A r \in Resources : cache[r] # None
  /\ FormOf(page) = "effect" => form = "edited"

\* One call more where two items share a flag: the third click is the interesting one.
Bound == IF \E o \in used : used = {o} /\ Ops[o].guard = "item" THEN MaxCalls + 1 ELSE MaxCalls

Click ==
  /\ Len(call) < Bound
  /\ \E o \in used, item \in Items :
       /\ CanClick(o, item)
       /\ Ops[o].guard # "item" => item = 1
       /\ call' = Append(call, [op |-> o, item |-> item, visit |-> visits, step |-> "sent", wrote |-> 0])
       /\ busy' = IF Ops[o].guard = "none" THEN busy ELSE [busy EXCEPT ![o] = item]
       /\ estimate' = IF page = "runs" /\ o = "estimate" THEN "none" ELSE estimate
       /\ past' = (past \ {"typedSince"}) \cup
            (IF FormOf(page) = "mount" /\ o = "save" /\ form = "blank" THEN {"wiped"} ELSE {}) \cup
            (IF page = "runs" /\ o = "run" /\ estimate = "stale" THEN {"surprised"} ELSE {}) \cup
            \* A click on another item takes the flag they share.
            (IF Ops[o].guard = "item" /\ busy[o] # Free THEN {"stepped"} ELSE {})
  /\ UNCHANGED <<page, used, here, visits, srv, cache, since, outside, form, typing>>

Write(i, step) == call' = [call EXCEPT ![i].step = step]

\* The server does it.
Commit ==
  \E i \in DOMAIN call :
    LET r == Ops[call[i].op].writes IN
    /\ call[i].step = "sent"
    /\ IF r = "nothing"
         THEN UNCHANGED srv /\ Write(i, "done")
         ELSE /\ srv' = [srv EXCEPT ![r] = @ + 1]
              /\ call' = [call EXCEPT ![i].step = "done", ![i].wrote = srv[r] + 1]
    /\ UNCHANGED <<page, used, here, visits, cache, since, busy, outside, form, estimate, typing, past>>

\* The handler's last lines: the flag of the page that made the call.
Frees(i, on) ==
  LET o == call[i].op IN
  IF call[i].visit = visits /\ Ops[o].guard # "none" /\ Ops[o].frees \in {"always", on}
    THEN busy' = [busy EXCEPT ![o] = Free]
    ELSE UNCHANGED busy

\* The handler lets go of a flag another item holds.
StepsOn(i) ==
  IF \E j \in InFlight \ {i} : /\ call[j].op = call[i].op /\ call[j].visit = visits
                               /\ call[i].visit = visits /\ call[j].item # call[i].item
    THEN {"stepped"} ELSE {}

Answer ==
  \E i \in DOMAIN call :
    LET o == Ops[call[i].op] r == o.writes IN
    /\ call[i].step = "done"
    /\ Write(i, "answered")
    /\ Frees(i, "success")
    /\ here' = (here /\ ~(o.leaves /\ call[i].visit = visits))
    /\ CASE r = "nothing" \/ o.then = "nothing" ->
              UNCHANGED <<cache, since, form>> /\ past' = past \cup StepsOn(i)
         [] o.then = "local" ->
              \* mutate(data, false) puts the answer in the cache and drops a fetch under way.
              /\ cache' = [cache EXCEPT ![r] = call[i].wrote]
              /\ since' = [since EXCEPT ![r] = None]
              /\ form' = IF here /\ FormOf(page) = "effect" THEN "synced" ELSE form
              /\ past' = past \cup StepsOn(i) \cup
                   (IF FormOf(page) = "effect" /\ "typedSince" \in past THEN {"overtaken"} ELSE {})
         [] o.then = "state" ->
              \* The page's own state, which it shows before what it fetched.
              /\ IF here /\ call[i].visit = visits
                   THEN /\ cache' = [cache EXCEPT ![r] = call[i].wrote]
                        /\ since' = [since EXCEPT ![r] = None]
                   ELSE UNCHANGED <<cache, since>>
              /\ UNCHANGED form /\ past' = past \cup StepsOn(i)
         [] OTHER ->
              \* mutate() drops a fetch under way and starts another, if the page is there.
              /\ since' = [since EXCEPT ![r] = IF here THEN srv[r] ELSE None]
              /\ form' = IF FormOf(page) = "mount" /\ call[i].op = "save" THEN "synced" ELSE form
              /\ UNCHANGED cache /\ past' = past \cup StepsOn(i)
    /\ estimate' = CASE page # "runs" \/ call[i].visit # visits -> estimate
                     [] call[i].op = "run" -> "none"
                     [] OTHER -> IF "typedSince" \in past THEN "stale" ELSE "fits"
    /\ UNCHANGED <<page, used, visits, srv, outside, typing>>

\* The call fails, before the server did anything or after.
CallFails ==
  \E i \in InFlight :
    /\ Write(i, IF call[i].step = "sent" THEN "refused" ELSE "lost")
    /\ Frees(i, "failure")
    /\ past' = past \cup {"failed"} \cup StepsOn(i)
    /\ UNCHANGED <<page, used, here, visits, srv, cache, since, outside, form, estimate, typing>>

\* SWR's fetch is answered with a version between its start and now.
FetchArrives ==
  \E r \in Resources :
    /\ since[r] # None
    /\ \E v \in since[r]..srv[r] : Reaches(r, v)
    /\ since' = [since EXCEPT ![r] = None]
    /\ UNCHANGED <<page, used, here, visits, srv, call, busy, outside, estimate, typing>>

\* SWR fetches again when the window is focused, or every 30 seconds.
Refocus ==
  /\ here
  /\ \E r \in Resources :
       /\ since[r] = None /\ cache[r] # srv[r]
       /\ since' = [since EXCEPT ![r] = srv[r]]
  /\ UNCHANGED <<page, used, here, visits, srv, cache, call, busy, outside, form, estimate, typing, past>>

\* Another tab, or a task of the server, writes what the page's form shows.
Elsewhere ==
  /\ FormOf(page) = "effect"
  /\ outside < MaxOutside /\ outside' = outside + 1
  /\ \E r \in Resources : srv' = [srv EXCEPT ![r] = @ + 1]
  /\ UNCHANGED <<page, used, here, visits, cache, since, call, busy, form, estimate, typing, past>>

\* The user changes a field of the form; the inputs are not disabled while a
\* call runs, and they leave an estimate where it is.
Type ==
  /\ here /\ FormOf(page) # "none"
  /\ \A r \in Resources : cache[r] # None
  /\ typing < MaxTyping /\ typing' = typing + 1
  /\ form' = "edited"
  /\ estimate' = IF estimate = "fits" THEN "stale" ELSE estimate
  /\ past' = IF call # <<>> THEN past \cup {"typedSince"} ELSE past
  /\ UNCHANGED <<page, used, here, visits, srv, cache, since, call, busy, outside>>

\* The user leaves the page, which forgets its flags and its form.
Leave ==
  /\ here /\ here' = FALSE
  /\ UNCHANGED <<page, used, visits, srv, cache, since, call, busy, outside, form, estimate, typing, past>>

\* The page is mounted anew: SWR shows what it has and fetches.
Return ==
  /\ ~here /\ visits < MaxVisits
  /\ here' = TRUE /\ visits' = visits + 1
  /\ busy' = [o \in used |-> Free]
  /\ since' = [r \in Resources |-> IF since[r] # None THEN since[r] ELSE srv[r]]
  /\ form' = FormAtMount(cache) /\ estimate' = "none"
  /\ past' = past \ {"typedSince"}
  /\ UNCHANGED <<page, used, srv, cache, call, outside, typing>>

WriteUser == Click \/ Type \/ Leave \/ Return
WriteNet == Commit \/ Answer \/ CallFails \/ FetchArrives \/ Refocus \/ Elsewhere
WriteNext == WriteUser \/ WriteNet
-----------------------------------------------------------------------------
(***************************************************************************)
(* Properties.                                                             *)
(***************************************************************************)
\* When nothing is under way the page shows what the server has: every handler
\* names the keys it changed, and the fetch it starts cannot be overtaken by an
\* older one.  A call that failed after the commit, a write from elsewhere, the
\* visit that today's page records and the ingestion that a retry starts are
\* seen with the next focus only, and a text generated for a page that was left
\* is not shown to the one entered meanwhile, or overtakes that one's own.
QuietPagesAgree ==
  (here /\ InFlight = {}) =>
    \A r \in Resources :
      \/ since[r] # None \/ cache[r] = srv[r]
      \/ "failed" \in past \/ outside > 0 \/ page \in {"today", "sources"}
      \/ \E i \in DOMAIN call : /\ call[i].visit # visits
                                /\ Ops[call[i].op].then \in {"state", "local"} /\ Ops[call[i].op].writes = r

\* A button that is held is held by a call under way, unless the call left the
\* page, or it is the e-mail switch, which stays "saving" after a failure.
BusyMeansCalling ==
  here => \A o \in used : busy[o] # Free =>
            \/ \E i \in InFlight : call[i].op = o /\ call[i].visit = visits
            \/ page = "email" /\ "failed" \in past

\* A click runs once: two calls for the same item are never under way together,
\* except where nothing holds the button, where the page was left and entered
\* again between them, or where a click on another item took the one flag that
\* all the items share, or its answer gave it back.
OneCallAtATime ==
  \A i, j \in InFlight :
    i # j /\ call[i].op = call[j].op /\ call[i].item = call[j].item =>
      \/ Ops[call[i].op].guard = "none"
      \/ call[i].visit # call[j].visit
      \/ Ops[call[i].op].guard = "item" /\ "stepped" \in past

\* What was typed into a form is not thrown away by data that arrive, unless
\* the data changed elsewhere, or it was typed after a save was sent and that
\* save's own data overtook it ("overtaken").
EditsSurvive == "overwrote" \in past => outside > 0

\* The run that is started is the one whose cost is on the screen, unless the
\* user changed the inputs, which leave the estimate where it is.
RunsAreEstimated == "surprised" \in past => typing > 0

\* The comment in the webhooks page, "Sync form with fetched config": nobody
\* saves a form that was never filled in from the configuration.
WebhookFormIsSynced == "wiped" \notin past
=============================================================================
