------------------------------ MODULE TodayFeed ------------------------------
(***************************************************************************)
(* The Today page.  It fetches what it shows through SWR, marks itself as    *)
(* seen once the first of them is there, decides between a welcome, an     *)
(* error and the briefing, and orders the briefing's cards with diversify, *)
(* which is also checked on its own, one placement per step, over all      *)
(* small lists of items and of backfill.                                   *)
(*                                                                         *)
(* A look is a mount of the page.  The server remembers the last look that *)
(* was marked (0: none), and `state` is answered with it.  Cards are their *)
(* types; what is written on them is left out.                             *)
(***************************************************************************)
EXTENDS Integers, Sequences, SequencesExt, FiniteSets

CONSTANTS
  Types,          \* the types of the items that are diversified
  MaxItems,       \* how many items there are
  MaxBackfill,    \* and how many to fill up with
  MaxLooks,       \* how often the page is mounted
  MaxFailed     \* how many requests fail

ASSUME TodayAssumption ==
  MaxItems \in Nat /\ MaxBackfill \in Nat /\ MaxLooks \in Nat \ {0} /\ MaxFailed \in Nat

VARIABLES
  feed,      \* a call of diversify: its pool, how many to place, its counts
  today,     \* the page: what it has, what failed, what is under way
  account    \* the server's side: what the user has, the last look, the cards

todayVars == <<feed, today, account>>

\* The highlights and the platform's numbers, which only the cards read, are
\* fetched together here.
Fetches == {"state", "platform", "themes", "watchlist"}
Unknown == -1
-----------------------------------------------------------------------------
(***************************************************************************)
(* diversify.                                                              *)
(***************************************************************************)
TypesOf(pool) == {pool[i].type : i \in DOMAIN pool}
OfType(s, t) == {i \in DOMAIN s : s[i].type = t}
\* A place by the number of places before it.
Rank(places, i) == Cardinality({j \in places : j < i})
Nth(places, n) == CHOOSE i \in places : Rank(places, i) = n

\* The places of a type in the pool.
Group(f, t) == OfType(f.pool, t)
FirstOf(f, t) == Nth(Group(f, t), 0)

\* The backfill joins the pool only with types the items do not have.
Diversify(items, backfill) ==
  LET new == {i \in DOMAIN backfill : backfill[i].type \notin TypesOf(items)}
      pool == items \o [k \in 1..Cardinality(new) |-> backfill[Nth(new, k - 1)]]
      zero == [t \in TypesOf(pool) |-> 0]
  IN  [pool |-> pool, target |-> Len(items), result |-> <<>>, consumed |-> zero, consec |-> zero]

HasMore(f, t) == f.consumed[t] < Cardinality(Group(f, t))
\* share < maxShareOfType, which is 0.4.
UnderShare(f, t) == 5 * f.consumed[t] < 2 * f.target
WithMore(f) == {t \in DOMAIN f.consumed : HasMore(f, t)}
WithinShare(f) == {t \in WithMore(f) : UnderShare(f, t)}
\* maxConsecutive is 2.
Candidates(f) == {t \in WithinShare(f) : f.consec[t] < 2}

\* sortedGroups: the larger groups first, else in the order of the pool.
Precedes(f, s, t) ==
  \/ Cardinality(Group(f, s)) > Cardinality(Group(f, t))
  \/ Cardinality(Group(f, s)) = Cardinality(Group(f, t)) /\ FirstOf(f, s) < FirstOf(f, t)
LessTaken(f, s, t) ==
  \/ f.consumed[s] < f.consumed[t]
  \/ f.consumed[s] = f.consumed[t] /\ Precedes(f, s, t)
LessRepeated(f, s, t) ==
  \/ f.consec[s] < f.consec[t]
  \/ f.consec[s] = f.consec[t] /\ LessTaken(f, s, t)

Chosen(f) ==
  LET best(S, Less(_, _)) == CHOOSE s \in S : \A t \in S \ {s} : Less(s, t)
  IN  IF Candidates(f) # {} THEN best(Candidates(f), LAMBDA s, t : LessRepeated(f, s, t))
      ELSE IF WithinShare(f) # {} THEN best(WithinShare(f), LAMBDA s, t : LessTaken(f, s, t))
      ELSE best(WithMore(f), LAMBDA s, t : Precedes(f, s, t))

\* One turn of the loop.
Placed(f) ==
  IF Len(f.result) = f.target \/ WithMore(f) = {} THEN f
  ELSE LET t == Chosen(f) IN
       [f EXCEPT !.result = Append(@, f.pool[Nth(Group(f, t), f.consumed[t])]),
                 !.consumed[t] = @ + 1,
                 !.consec = [k \in DOMAIN @ |-> IF k = t THEN @[k] + 1 ELSE 0]]

Diversified(items) ==
  LET loop[n \in 0..Len(items)] ==
        IF n = 0 THEN Diversify(items, <<>>) ELSE Placed(loop[n - 1])
  IN  loop[Len(items)].result
-----------------------------------------------------------------------------
(***************************************************************************)
(* What the page shows.                                                    *)
(***************************************************************************)
\* SWR's isLoading: under way and no data yet.
StillLoading(f) == f \in today.asking /\ today.data[f] = Unknown
IsFirstTime ==
  /\ ~StillLoading("themes") /\ ~StillLoading("watchlist")
  /\ today.data["themes"] <= 0 /\ today.data["watchlist"] <= 0 /\ today.data["state"] <= 0

\* The welcome takes the place of the page, of its error too.
TodayView == IF IsFirstTime THEN "welcome"
        ELSE IF "state" \in today.errors THEN "error" ELSE "briefing"

\* buildFeed: one card for each thing there is to say.
Card(type, shown) == IF shown THEN <<[type |-> type, id |-> 1]>> ELSE <<>>
WatchlistCard == Card("watchlist", today.data["watchlist"] > 0)
Highlight(type) == Card(type, today.data["platform"] # Unknown /\ type \in account.cards)
CompanyCard == Highlight("company_move")
PlatformCard == Highlight("platform")
BuildFeed ==
  WatchlistCard \o Highlight("filing_trend") \o Highlight("expiry_opportunity")
    \o Highlight("notable_patent") \o CompanyCard \o PlatformCard

ForYou == Diversified(BuildFeed)
-----------------------------------------------------------------------------
AllCards == {"filing_trend", "expiry_opportunity", "notable_patent", "company_move", "platform"}
TodayInit ==
  /\ today = [data |-> [f \in Fetches |-> Unknown], errors |-> {}, asking |-> Fetches,
              marked |-> FALSE, look |-> 1, cached |-> FALSE, again |-> FALSE, failures |-> 0]
  /\ account \in [themes : {0, 1}, watchlist : {0, 1}, last : {0},
                  cards : {{}, {"notable_patent", "platform"}, AllCards}, marks : {{}}]

FeedInit ==
  \E items \in SeqOf(Types, MaxItems), backfill \in SeqOf(Types, MaxBackfill) :
    LET marked(s) == [i \in DOMAIN s |-> [type |-> s[i], id |-> i]] IN
    feed = Diversify(marked(items), marked(backfill))

PlaceNext ==
  /\ Placed(feed) # feed
  /\ feed' = Placed(feed)
  /\ UNCHANGED <<today, account>>

AnswerTo(f) ==
  CASE f = "state" -> account.last
    [] f = "platform" -> 0
    [] OTHER -> account[f]

FetchDone(f) ==
  /\ f \in today.asking
  /\ today' = [today EXCEPT !.data[f] = AnswerTo(f), !.errors = @ \ {f}, !.asking = @ \ {f}]
  /\ UNCHANGED <<feed, account>>

FetchFails(f) ==
  /\ f \in today.asking /\ today.failures < MaxFailed
  /\ today' = [today EXCEPT !.errors = @ \cup {f}, !.asking = @ \ {f}, !.failures = @ + 1]
  /\ UNCHANGED <<feed, account>>

\* SWR asks again after an error.
FetchAgain(f) ==
  /\ f \in today.errors \ today.asking
  /\ today' = [today EXCEPT !.asking = @ \cup {f}]
  /\ UNCHANGED <<feed, account>>

\* SWR asks again when the tab gets the focus (not for the state and the highlights).
TakeFocus ==
  /\ today.asking = {}
  /\ today' = [today EXCEPT !.asking = {"platform", "themes", "watchlist"}]
  /\ UNCHANGED <<feed, account>>

\* And for everything when the network is back, once in this model.
Reconnect ==
  /\ ~today.again
  /\ today' = [today EXCEPT !.asking = Fetches, !.again = TRUE]
  /\ UNCHANGED <<feed, account>>

\* Mutant: the look is marked without waiting for the state.
MarkAtOnce ==
  /\ ~today.marked
  /\ today' = [today EXCEPT !.marked = TRUE]
  /\ account' = [account EXCEPT !.marks = @ \cup {today.look}]
  /\ UNCHANGED feed

\* The effect: the state is there, so this look is marked, once.
MarkLook ==
  /\ today.data["state"] # Unknown /\ "state" \notin today.errors /\ ~today.marked
  /\ today' = [today EXCEPT !.marked = TRUE]
  /\ account' = [account EXCEPT !.marks = @ \cup {today.look}]
  /\ UNCHANGED feed

\* The server keeps the mark, or passes over one that follows another within
\* five minutes, or never gets it: the page does not ask.
MarkArrives ==
  /\ \E look \in account.marks :
       account' \in {[account EXCEPT !.marks = @ \ {look}, !.last = look],
                     [account EXCEPT !.marks = @ \ {look}]}
  /\ UNCHANGED <<feed, today>>

\* The user goes to another page and comes back: the cache is still there, and
\* each fetch is made again unless it was made moments ago.
ComeBack ==
  /\ today.look < MaxLooks
  /\ \E f \in SUBSET Fetches :
       today' = [today EXCEPT !.asking = @ \cup f \cup {g \in Fetches : today.data[g] = Unknown},
                              !.marked = FALSE, !.look = @ + 1, !.cached = TRUE]
  /\ UNCHANGED <<feed, account>>

\* The user loads the page anew, or presses the error's button.
LoadAgain ==
  /\ today.look < MaxLooks
  /\ today' = [today EXCEPT !.data = [f \in Fetches |-> Unknown], !.errors = {},
                            !.asking = Fetches, !.marked = FALSE, !.look = @ + 1,
                            !.cached = FALSE, !.again = FALSE]
  /\ UNCHANGED <<feed, account>>

\* A starter topic of the welcome: the page is not told.
PickStarter ==
  /\ TodayView = "welcome" /\ account.themes = 0
  /\ account' = [account EXCEPT !.themes = 1]
  /\ UNCHANGED <<feed, today>>

TodayUser == TakeFocus \/ ComeBack \/ LoadAgain \/ PickStarter
TodayNet ==
  \/ \E f \in Fetches : FetchDone(f) \/ FetchFails(f) \/ FetchAgain(f)
  \/ Reconnect \/ MarkLook \/ MarkArrives
-----------------------------------------------------------------------------
(***************************************************************************)
(* Properties.                                                             *)
(***************************************************************************)
\* The page's own state is of these types.
TodayTypeOK ==
  /\ today.data \in [Fetches -> Unknown .. MaxLooks]
  /\ today.errors \subseteq Fetches /\ today.asking \subseteq Fetches
  /\ today.look \in 1..MaxLooks /\ today.failures \in 0..MaxFailed
  /\ account.last \in 0..MaxLooks /\ account.marks \subseteq 1..MaxLooks

\* "Since your last visit" is about an earlier look at the page, never about
\* the one that is going on: the look is marked only after the state was
\* answered.  That is so on a page that was loaded; one that was returned to
\* has the cached state and marks the look while it asks again, and so does one
\* that asks again because the network came back.
LabelNamesAnEarlierLook ==
  today.data["state"] = today.look => today.cached \/ today.again

\* Someone who has topics or saved patents is greeted as a first-time visitor
\* only if the request for them failed; while it is under way nobody is.
WelcomeIsForNewcomers ==
  TodayView = "welcome" =>
    /\ account.watchlist = 0 \/ "watchlist" \in today.errors
    /\ "themes" \in today.errors \/ today.data["themes"] = 0

\* Ordering the briefing's cards loses none and moves none: each is of a type
\* of its own, so neither limit of diversify is ever met.
BriefingKeepsItsOrder == ForYou = BuildFeed

\* What diversify promises of its list, for every input.  It is as long as the
\* items; nothing appears twice; items of a type keep their order; without
\* backfill nothing is missing.  A type repeats a third time in a row, or goes
\* past its share, only where every other type that still has items has its
\* share too.
DiversifyKeepsItsRules ==
  LET r == feed.result
      Taken(t, n) == Cardinality({i \in 1..n : r[i].type = t})
      Size(t) == Cardinality({i \in DOMAIN feed.pool : feed.pool[i].type = t})
      Fair(t, n) == Taken(t, n) < Size(t) => 5 * Taken(t, n) >= 2 * feed.target
  IN  /\ \A i, j \in DOMAIN r : i < j => r[i] # r[j] /\ (r[i].type = r[j].type => r[i].id < r[j].id)
      /\ Placed(feed) = feed => Len(r) = feed.target
      /\ Placed(feed) = feed /\ Len(feed.pool) = feed.target => ToSet(r) = ToSet(feed.pool)
      /\ \A i \in DOMAIN r :
           LET t == r[i].type
               third == i > 2 /\ r[i-1].type = t /\ r[i-2].type = t
               over == 5 * Taken(t, i - 1) >= 2 * feed.target
           IN  third \/ over => \A s \in DOMAIN feed.consumed \ {t} : Fair(s, i - 1)
=============================================================================
