------------------------------ MODULE Billing ------------------------------
(***************************************************************************)
(* The billing of one user: checkout sessions and subscriptions live at    *)
(* Stripe, which reports what happens to them by webhook events; the       *)
(* handlers keep the user's billing_subscriptions row and the denormalised *)
(* users.tier, each in a transaction of its own.                           *)
(*                                                                         *)
(* Stripe delivers an event at least once, in no particular order, again   *)
(* whenever it got no 200, and without waiting for the previous delivery:  *)
(* an event stays in `events` until a handler has answered.  The external  *)
(* part models Stripe as far as the handlers rely on it.                   *)
(***************************************************************************)
EXTENDS Integers, FiniteSets

CONSTANTS
  Subs,       \* checkout sessions, and the subscriptions they may become
  Paid,       \* tiers on sale
  Recurring,  \* those sold as a subscription (RECURRING_TIERS)
  Overrides,  \* tiers an administrator may set by hand
  Handlers,   \* API requests in progress
  Lossy,      \* TRUE: handlers may crash and answers may be lost
  None

ASSUME TiersAssumption == "free" \notin Paid /\ Recurring \subseteq Paid
ASSUME LossyAssumption == Lossy \in BOOLEAN

VARIABLES
  life,      \* Stripe: the state of each session or subscription
  sold,      \* Stripe: the tier in the metadata of the session
  plan,      \* Stripe: the plan the subscription is on now
  events,    \* Stripe: events not yet answered with 200
  row,       \* the billing_subscriptions row, or None
  userTier,  \* users.tier
  pc,        \* where each request is
  event,     \* what it handles
  seen,      \* the row it selected
  incidents  \* history: "overlap" of two requests, "override" by an
             \* administrator, "lost" override that died half way

stripeVars == <<life, sold, plan>>
requestVars == <<pc, event, seen>>
vars == <<stripeVars, events, row, userTier, requestVars, incidents>>
-----------------------------------------------------------------------------
Tiers == {"free"} \cup Paid \cup Overrides

Lives == {"none", "session", "active", "past_due", "ended", "bought"}

Row == [tier : Tiers, status : {"active", "past_due", "canceled"},
        sub : Subs \cup {None}]

Kinds == {"completed", "invoice_paid", "invoice_failed", "deleted", "updated"}

\* What Stripe delivers, and what an administrator asks for.
Events == [kind : Kinds, sub : Subs, tier : Tiers]

Orders == [kind : {"override"}, sub : {None}, tier : Overrides]

ASSUME NoneAssumption == None \notin Subs \cup Row \cup Events \cup Orders

\* An event about subscription s; only a completed session names a tier.
Event(k, s) == [kind |-> k, sub |-> s, tier |-> "free"]
Completed(s) == [kind |-> "completed", sub |-> s, tier |-> sold[s]]

Init ==
  /\ life = [s \in Subs |-> "none"]
  /\ sold = [s \in Subs |-> "free"]
  /\ plan = [s \in Subs |-> "free"]
  /\ events = {}
  /\ row = None
  /\ userTier = "free"
  /\ pc = [h \in Handlers |-> "idle"]
  /\ event = [h \in Handlers |-> None]
  /\ seen = [h \in Handlers |-> None]
  /\ incidents = {}
-----------------------------------------------------------------------------
(* Checkout, and what the customer and the bank do at Stripe.              *)

\* start_checkout refuses no tier on sale, whatever the user already has.
StartCheckout(s, t) ==
  /\ life[s] = "none"
  /\ life' = [life EXCEPT ![s] = "session"]
  /\ sold' = [sold EXCEPT ![s] = t]
  /\ plan' = [plan EXCEPT ![s] = t]
  /\ UNCHANGED <<events, row, userTier, requestVars, incidents>>

Complete(s) ==
  /\ life[s] = "session"
  /\ \/ /\ sold[s] \in Recurring
        /\ life' = [life EXCEPT ![s] = "active"]
        /\ events' = events \cup {Completed(s), Event("invoice_paid", s)}
     \/ /\ sold[s] \notin Recurring
        /\ life' = [life EXCEPT ![s] = "bought"]
        /\ events' = events \cup {Completed(s)}
  /\ UNCHANGED <<sold, plan, row, userTier, requestVars, incidents>>

Renew(s) ==
  /\ life[s] \in {"active", "past_due"}
  /\ life' = [life EXCEPT ![s] = "active"]
  /\ events' = events \cup {Event("invoice_paid", s), Event("updated", s)}
  /\ UNCHANGED <<sold, plan, row, userTier, requestVars, incidents>>

MissPayment(s) ==
  /\ life[s] = "active"
  /\ life' = [life EXCEPT ![s] = "past_due"]
  /\ events' = events \cup {Event("invoice_failed", s)}
  /\ UNCHANGED <<sold, plan, row, userTier, requestVars, incidents>>

\* In the customer portal.
ChangePlan(s, t) ==
  /\ life[s] = "active"
  /\ plan' = [plan EXCEPT ![s] = t]
  /\ events' = events \cup {Event("updated", s)}
  /\ UNCHANGED <<life, sold, row, userTier, requestVars, incidents>>

Cancel(s) ==
  /\ life[s] \in {"active", "past_due"}
  /\ life' = [life EXCEPT ![s] = "ended"]
  /\ events' = events \cup {Event("deleted", s)}
  /\ UNCHANGED <<sold, plan, row, userTier, requestVars, incidents>>
-----------------------------------------------------------------------------
(* The webhook.                                                            *)

Rest(h) ==
  /\ pc' = [pc EXCEPT ![h] = "idle"]
  /\ event' = [event EXCEPT ![h] = None]
  /\ seen' = [seen EXCEPT ![h] = None]

\* The answer: 200 settles the event, unless it is lost on the way.
Answer(e) ==
  \/ events' = events \ {e}
  \/ Lossy /\ events' = events

\* What a request that begins now adds to the history.
Overlap == IF \A g \in Handlers : pc[g] = "idle" THEN {} ELSE {"overlap"}

\* The select by stripe_subscription_id finds the row.
Matches(e) == row # None /\ row.sub = e.sub

\* The handler selects the row: by user for a completed session, otherwise
\* by subscription, and then an unknown one is answered at once.
Receive(h, e) ==
  /\ pc[h] = "idle"
  /\ \/ /\ e.kind = "completed" \/ Matches(e)
        /\ pc' = [pc EXCEPT ![h] = "row"]
        /\ event' = [event EXCEPT ![h] = e]
        /\ seen' = [seen EXCEPT ![h] = row]
        /\ UNCHANGED events
     \/ /\ e.kind # "completed" /\ ~Matches(e)
        /\ Answer(e)
        /\ UNCHANGED requestVars
  /\ incidents' = incidents \cup Overlap
  /\ UNCHANGED <<stripeVars, row, userTier>>

\* Mutant: the status of the invoice is stored as Stripe words it.
HandledRawStatus(e, r) ==
  CASE e.kind = "completed" ->
         [tier |-> e.tier, status |-> "active",
          sub |-> IF e.tier \in Recurring THEN e.sub ELSE None]
    [] e.kind = "deleted" -> [r EXCEPT !.tier = "free", !.status = "canceled"]
    [] e.kind = "invoice_failed" -> [r EXCEPT !.status = "uncollectible"]
    [] e.kind \in {"invoice_paid", "updated"} -> [r EXCEPT !.status = "active"]
    [] OTHER -> r

\* The row as the handler of e leaves the object r it selected.
Handled(e, r) ==
  CASE e.kind = "completed" ->
         [tier |-> e.tier, status |-> "active",
          sub |-> IF e.tier \in Recurring THEN e.sub ELSE None]
    [] e.kind = "deleted" -> [r EXCEPT !.tier = "free", !.status = "canceled"]
    [] e.kind = "invoice_failed" -> [r EXCEPT !.status = "past_due"]
    [] e.kind \in {"invoice_paid", "updated"} -> [r EXCEPT !.status = "active"]
    [] e.kind = "override" ->
         [tier |-> e.tier, status |-> "active",
          sub |-> IF r = None THEN None ELSE r.sub]

\* An UPDATE writes only the columns that differ from what was selected.
Merged(old, new) ==
  [f \in {"tier", "status", "sub"} |->
     IF new[f] # old[f] THEN new[f] ELSE row[f]]

\* Mutant: a failed payment takes the tier away.
TouchesUserOnFailure(e) == e.kind \in {"completed", "deleted", "invoice_failed"}

\* The handler goes on to users.tier.
TouchesUser(e) == e.kind \in {"completed", "deleted"}

\* Mutant: the event is answered before the user is updated.
WriteRowAnswered(h) ==
  /\ pc[h] = "row"
  /\ LET e   == event[h]
         new == Handled(e, seen[h])
     IN /\ row' = IF seen[h] = None THEN new ELSE Merged(seen[h], new)
        /\ Answer(e)
        /\ IF TouchesUser(e)
             THEN pc' = [pc EXCEPT ![h] = "user"] /\ UNCHANGED <<event, seen>>
             ELSE Rest(h)
  /\ UNCHANGED <<stripeVars, userTier, incidents>>

\* First commit.  An INSERT that finds a row of the user raises: 500.
WriteRow(h) ==
  /\ pc[h] = "row"
  /\ LET e   == event[h]
         new == Handled(e, seen[h])
     IN \/ /\ \/ seen[h] # None /\ row' = Merged(seen[h], new)
              \/ seen[h] = None /\ row = None /\ row' = new
           /\ \/ /\ TouchesUser(e)
                 /\ pc' = [pc EXCEPT ![h] = "user"]
                 /\ UNCHANGED <<events, event, seen>>
              \/ ~TouchesUser(e) /\ Answer(e) /\ Rest(h)
        \/ /\ seen[h] = None /\ row # None
           /\ Rest(h)
           /\ UNCHANGED <<row, events>>
  /\ UNCHANGED <<stripeVars, userTier, incidents>>

\* Second commit.
WriteUser(h) ==
  /\ pc[h] = "user"
  /\ userTier' = IF event[h].kind = "deleted" THEN "free" ELSE event[h].tier
  /\ Answer(event[h])
  /\ Rest(h)
  /\ UNCHANGED <<stripeVars, row, incidents>>

Crash(h) ==
  /\ Lossy
  /\ pc[h] # "idle"
  /\ Rest(h)
  /\ incidents' = incidents \cup
                    {i \in {"lost"} : event[h].kind = "override"}
  /\ UNCHANGED <<stripeVars, events, row, userTier>>
-----------------------------------------------------------------------------
(* admin_override_tier commits the user first, then selects and commits    *)
(* the row; nobody repeats it.                                             *)

OverrideUser(h, t) ==
  /\ pc[h] = "idle"
  /\ userTier' = t
  /\ pc' = [pc EXCEPT ![h] = "select"]
  /\ event' = [event EXCEPT ![h] =
                 [kind |-> "override", sub |-> None, tier |-> t]]
  /\ incidents' = incidents \cup Overlap \cup {"override"}
  /\ UNCHANGED <<stripeVars, events, row, seen>>

OverrideSelect(h) ==
  /\ pc[h] = "select"
  /\ pc' = [pc EXCEPT ![h] = "row"]
  /\ seen' = [seen EXCEPT ![h] = row]
  /\ UNCHANGED <<stripeVars, events, row, userTier, event, incidents>>

Stripe(s) ==
  \/ \E t \in Paid : StartCheckout(s, t)
  \/ \E t \in Recurring : ChangePlan(s, t)
  \/ Complete(s) \/ Renew(s) \/ MissPayment(s) \/ Cancel(s)

Handle(h) ==
  \/ \E e \in events : Receive(h, e)
  \/ \E t \in Overrides : OverrideUser(h, t)
  \/ OverrideSelect(h) \/ WriteRow(h) \/ WriteUser(h) \/ Crash(h)

Next ==
  \/ \E s \in Subs : Stripe(s)
  \/ \E h \in Handlers : Handle(h)

Spec == Init /\ [][Next]_vars
-----------------------------------------------------------------------------
(* Properties.                                                             *)

\* The declared types.
TypeOK ==
  /\ life \in [Subs -> Lives]
  /\ sold \in [Subs -> Tiers] /\ plan \in [Subs -> Tiers]
  /\ events \in SUBSET Events
  /\ row \in Row \cup {None}
  /\ userTier \in Tiers
  /\ pc \in [Handlers -> {"idle", "select", "row", "user"}]
  /\ event \in [Handlers -> Events \cup Orders \cup {None}]
  /\ seen \in [Handlers -> Row \cup {None}]
  /\ incidents \subseteq {"overlap", "override", "lost"}

\* Every event has been answered and no request is in progress.
Settled == events = {} /\ \A h \in Handlers : pc[h] = "idle"

RowTier == IF row = None THEN "free" ELSE row.tier

\* Plan of 2026-05-26, line 110, "The `tier` column is denormalized from
\* `billing_subscriptions.tier` for fast reads - kept in sync via webhook
\* handlers": once all is settled the quotas read what the row says.
TierFollowsRow == Settled => userTier = RowTier

\* As long as requests come one at a time and no override dies half way, the
\* two agree once all is settled, although they are committed apart, a
\* handler may die between them, and events are repeated and reordered.
SyncedWhenSettled ==
  ("overlap" \notin incidents /\ "lost" \notin incidents) => TierFollowsRow

\* Crashes, overlaps, repeated deliveries and late invoice events cost a
\* customer with one purchase nothing: once all is settled, whoever has not
\* canceled has the tier bought, even while an invoice is unpaid.
CustomersAreServed ==
  (Settled /\ "override" \notin incidents)
    => \A s \in Subs :
         (/\ life[s] \in {"active", "past_due", "bought"}
          /\ \A r \in Subs \ {s} : life[r] = "none")
           => userTier = sold[s]
=============================================================================
