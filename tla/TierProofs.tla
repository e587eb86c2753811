---------------------------- MODULE TierProofs ----------------------------
(* What writes users.tier and what reads it: the agreement of the column   *)
(* with the billing row as long as requests do not overlap and no override *)
(* dies half way, and how far concurrent chat requests overshoot the quota *)
(* that the tier gives, for any numbers of either.                         *)
EXTENDS Billing, ChatTurns, FiniteSetTheorems, TLAPS

(* Billing.                                                                *)

\* At most one request is in progress.
Alone == \A g, h \in Handlers : pc[g] # "idle" /\ pc[h] # "idle" => g = h

\* Overriding(h): an administrator's request has set the user, not the row.
Overriding(h) == pc[h] \in {"select", "row"} /\ event[h].kind = "override"

\* No other request than that of h is in progress before or after a step.
Sole(h) ==
  \A g \in Handlers \ {h} :
    pc[g] = "idle" /\ pc'[g] = "idle" /\ ~Overriding(g) /\ ~Overriding(g)'

\* What is enough to know for types, with the requests on their own: a row
\* is selected before a later commit needs it.
Selected ==
  \A h \in Handlers : pc[h] = "row" =>
    /\ event[h] \in Events \cup Orders
    /\ seen[h] # None \/ event[h].kind \in {"completed", "override"}
    /\ seen[h] # None => row # None

UserBound == \A h \in Handlers : pc[h] = "user" => event[h] \in Events

SelectBound ==
  \A h \in Handlers : pc[h] = "select" => event[h] \in Orders

TInv == TypeOK /\ Selected /\ UserBound /\ SelectBound

\* What a request in progress knows.
Informed ==
  \A h \in Handlers :
    /\ pc[h] = "select" => event[h].kind = "override"
    /\ Overriding(h) => event[h].tier \in Overrides /\ userTier = event[h].tier
    /\ pc[h] = "row" =>
         /\ seen[h] = row
         /\ event[h].kind # "override" => event[h] \in events
         /\ event[h].kind \in {"completed", "override"} \/ Matches(event[h])
    /\ pc[h] = "user" =>
         /\ event[h] \in events /\ TouchesUser(event[h])
         /\ event[h].kind = "deleted" => RowTier = "free"
         /\ event[h].kind = "completed" => RowTier = event[h].tier

\* An event whose handling, whenever it comes, brings the two together.
Mending(e) == e.kind = "completed" \/ (e.kind = "deleted" /\ Matches(e))

\* The two agree, or something outstanding will see to it.
Mended ==
  \/ userTier = RowTier
  \/ \E e \in events : Mending(e)
  \/ \E h \in Handlers : Overriding(h)

\* The inductive invariant: what holds until the first overlap, and what
\* holds until the first overlap or lost override.
IInv ==
  /\ TInv
  /\ "overlap" \notin incidents => Alone
  /\ ("overlap" \notin incidents /\ "lost" \notin incidents)
       => Informed /\ Mended

-----------------------------------------------------------------------------
\* The row a handler writes has the declared type.
LEMMA HandledType ==
  ASSUME NEW e \in Events \cup Orders, NEW r \in Row \cup {None},
         r # None \/ e.kind \in {"completed", "override"}
  PROVE  Handled(e, r) \in Row
<1> USE DEF Events, Orders, Kinds, Row, Tiers
<1>1. CASE e.kind = "completed"
      BY <1>1 DEF Handled
<1>2. CASE e.kind = "override"
      BY <1>2 DEF Handled
<1>3. CASE e.kind \in {"deleted", "invoice_failed", "invoice_paid", "updated"}
      <2>1. r \in Row
            BY <1>3
      <2>2. CASE e.kind = "deleted"
            BY <2>1, <2>2 DEF Handled
      <2>3. CASE e.kind = "invoice_failed"
            BY <2>1, <2>3 DEF Handled
      <2>4. CASE e.kind \in {"invoice_paid", "updated"}
            BY <2>1, <2>4 DEF Handled
      <2>5. QED BY <1>3, <2>2, <2>3, <2>4
<1>4. QED BY <1>1, <1>2, <1>3

\* Only rows that were selected are merged, and merging keeps the type.
LEMMA MergedType ==
  ASSUME NEW old \in Row, NEW new \in Row, row \in Row
  PROVE  /\ Merged(old, new) \in Row
         /\ old = row => /\ Merged(old, new).tier = new.tier
                         /\ Merged(old, new).sub = new.sub
  BY DEF Merged, Row

\* A row is not the absence of one.
LEMMA RowNotNone == None \notin Row
  BY NoneAssumption

\* Events of subscriptions are events.
LEMMA EventType ==
  ASSUME NEW s \in Subs, NEW k \in Kinds, TypeOK
  PROVE  Event(k, s) \in Events /\ Completed(s) \in Events
  BY DEF Event, Completed, Events, Kinds, Tiers, TypeOK

-----------------------------------------------------------------------------
\* Every step keeps the types, with any number of requests at a time.
LEMMA NextTInv == TInv /\ [Next]_vars => TInv'
<1> SUFFICES ASSUME TInv, [Next]_vars PROVE TInv'
    OBVIOUS
<1> USE DEF TInv, Selected, UserBound, SelectBound
<1>1. ASSUME NEW s \in Subs, Stripe(s) PROVE TInv'
      <2>1. /\ UNCHANGED <<row, userTier, pc, event, seen, incidents>>
            BY <1>1 DEF Stripe, StartCheckout, Complete, Renew, MissPayment,
               ChangePlan, Cancel, requestVars
      <2>2. /\ Completed(s) \in Events
            /\ Event("invoice_paid", s) \in Events
            /\ Event("invoice_failed", s) \in Events
            /\ Event("updated", s) \in Events
            /\ Event("deleted", s) \in Events
            BY EventType DEF Kinds
      <2>3. events' \in SUBSET Events
            BY <1>1, <2>2 DEF Stripe, StartCheckout, Complete, Renew,
               MissPayment, ChangePlan, Cancel, TypeOK
      <2>4. life' \in [Subs -> Lives]
            BY <1>1 DEF Stripe, StartCheckout, Complete, Renew, MissPayment,
               ChangePlan, Cancel, TypeOK, Lives
      <2>5. sold' \in [Subs -> Tiers] /\ plan' \in [Subs -> Tiers]
            <3>1. \A t \in Paid : t \in Tiers
                  BY DEF Tiers
            <3>2. \A t \in Recurring : t \in Tiers
                  BY <3>1, TiersAssumption
            <3>3. QED
                  BY <1>1, <3>1, <3>2 DEF Stripe, StartCheckout, Complete,
                     Renew, MissPayment, ChangePlan, Cancel, TypeOK
      <2>6. TypeOK'
            BY <2>1, <2>3, <2>4, <2>5 DEF TypeOK
      <2>7. QED BY <2>1, <2>6
<1>2. ASSUME NEW h \in Handlers, NEW e \in events, Receive(h, e) PROVE TInv'
      <2>1. e \in Events /\ events' \in SUBSET Events
            BY <1>2 DEF TypeOK, Receive, Answer
      <2>2. TypeOK'
            BY <1>2, <2>1 DEF Receive, TypeOK, Overlap, stripeVars, requestVars
      <2>3. QED
            BY <1>2, <2>1, <2>2 DEF Receive, Matches, TypeOK, requestVars
<1>3. ASSUME NEW h \in Handlers, NEW t \in Overrides, OverrideUser(h, t)
      PROVE  TInv'
      <2>1. t \in Tiers
            BY DEF Tiers
      <2>2. [kind |-> "override", sub |-> None, tier |-> t] \in Orders
            BY <2>1 DEF Orders
      <2>3. TypeOK'
            BY <1>3, <2>1, <2>2 DEF OverrideUser, TypeOK, Overlap, stripeVars
      <2>4. QED BY <1>3, <2>2, <2>3 DEF OverrideUser, TypeOK
<1>4. ASSUME NEW h \in Handlers, OverrideSelect(h) PROVE TInv'
      <2>1. TypeOK'
            BY <1>4 DEF OverrideSelect, TypeOK, stripeVars
      <2>2. QED BY <1>4, <2>1 DEF OverrideSelect, TypeOK, Orders
<1>5. ASSUME NEW h \in Handlers, WriteRow(h) PROVE TInv'
      <2>1. /\ pc[h] = "row" /\ event[h] \in Events \cup Orders
            /\ seen[h] \in Row \cup {None}
            /\ UNCHANGED <<life, sold, plan, userTier, incidents>>
            BY <1>5 DEF WriteRow, stripeVars, TypeOK
      <2>2. Handled(event[h], seen[h]) \in Row
            BY <2>1, HandledType
      <2>3. row' \in Row \cup {None} /\ (row # None => row' # None)
            <3>1. CASE seen[h] = None
                  BY <1>5, <2>2, <3>1, RowNotNone DEF WriteRow, TypeOK
            <3>2. CASE seen[h] # None
                  <4>1. row \in Row /\ seen[h] \in Row
                        BY <2>1, <3>2 DEF TypeOK
                  <4>2. Merged(seen[h], Handled(event[h], seen[h])) \in Row
                        BY <2>2, <4>1, MergedType
                  <4>3. QED BY <1>5, <3>2, <4>1, <4>2, RowNotNone DEF WriteRow
            <3>3. QED BY <3>1, <3>2
      <2>4. /\ events' \in SUBSET Events
            /\ \A g \in Handlers \ {h} : pc'[g] = pc[g] /\ event'[g] = event[g]
                                           /\ seen'[g] = seen[g]
            /\ pc' \in [Handlers -> {"idle", "select", "row", "user"}]
            /\ event' \in [Handlers -> Events \cup Orders \cup {None}]
            /\ seen' \in [Handlers -> Row \cup {None}]
            /\ pc'[h] \in {"idle", "user"}
            /\ pc'[h] = "user" => event'[h] = event[h]
            BY <1>5 DEF WriteRow, Answer, Rest, TypeOK
      <2>5. TypeOK'
            BY <2>1, <2>3, <2>4 DEF TypeOK
      <2>6. ASSUME NEW g \in Handlers, g # h
            PROVE  /\ pc'[g] = pc[g] /\ event'[g] = event[g]
                   /\ seen'[g] = seen[g]
            BY <2>4, <2>6
      <2>7. pc'[h] = "user" => event'[h] \in Events
            <3>1. pc'[h] = "user" => TouchesUser(event[h])
                  BY <1>5 DEF WriteRow, Rest, TypeOK
            <3>2. TouchesUser(event[h]) => event[h] \in Events
                  BY <2>1 DEF TouchesUser, Orders
            <3>3. QED BY <2>4, <3>1, <3>2
      <2>8. Selected'
            BY <2>3, <2>4, <2>6
      <2>9. UserBound' /\ SelectBound'
            BY <2>4, <2>6, <2>7
      <2>10. QED BY <2>5, <2>8, <2>9
<1>6. ASSUME NEW h \in Handlers, WriteUser(h) PROVE TInv'
      <2>1. event[h] \in Events /\ event[h].tier \in Tiers /\ "free" \in Tiers
            BY <1>6 DEF WriteUser, Events, Tiers
      <2>2. events' \in SUBSET Events
            BY <1>6 DEF WriteUser, Answer, TypeOK
      <2>3. TypeOK'
            BY <1>6, <2>1, <2>2 DEF WriteUser, Rest, TypeOK, stripeVars
      <2>4. QED BY <1>6, <2>3 DEF WriteUser, Rest, TypeOK
<1>7. ASSUME NEW h \in Handlers, Crash(h) PROVE TInv'
      BY <1>7 DEF Crash, Rest, TypeOK, stripeVars
<1>8. CASE UNCHANGED vars
      BY <1>8 DEF vars, stripeVars, requestVars, TypeOK
<1>9. QED
      BY <1>1, <1>2, <1>3, <1>4, <1>5, <1>6, <1>7, <1>8 DEF Next, Handle
\* The initial state is well typed.
LEMMA InitTInv == Init => TInv
  BY DEF Init, TInv, TypeOK, Lives, Tiers, Selected, UserBound, SelectBound

\* Every reachable state of the webhook and of Stripe as it relies on it has
\* the declared types.
THEOREM TypeCorrect == Spec => []TypeOK
<1>1. TInv => TypeOK
      BY DEF TInv
<1>2. QED BY <1>1, InitTInv, NextTInv, PTL DEF Spec
-----------------------------------------------------------------------------
\* Steps of Stripe keep the invariant: they only add events.
LEMMA StripeInv ==
  ASSUME Informed, Mended, NEW s \in Subs, Stripe(s)
  PROVE  Informed' /\ Mended'
<1>1. /\ UNCHANGED <<row, userTier, pc, event, seen>>
      /\ events \subseteq events'
      BY DEF Stripe, StartCheckout, Complete, Renew, MissPayment, ChangePlan,
         Cancel, requestVars
<1>2. RowTier' = RowTier /\ \A e : Matches(e)' = Matches(e)
      BY <1>1 DEF RowTier, Matches
<1>3. \A h \in Handlers : Overriding(h)' = Overriding(h)
      BY <1>1 DEF Overriding
<1>4. \A e : Mending(e)' = Mending(e)
      BY <1>2 DEF Mending
<1>5. Informed'
      BY <1>1, <1>2, <1>3 DEF Informed, TouchesUser
<1>6. Mended'
      BY <1>1, <1>2, <1>3, <1>4 DEF Mended
<1>7. QED BY <1>5, <1>6

\* A delivery begins, or is answered at once because no row matches.
LEMMA ReceiveInv ==
  ASSUME TypeOK, Informed, Mended,
         NEW h \in Handlers, NEW e \in events, Receive(h, e), Sole(h)
  PROVE  Informed' /\ Mended'
<1>1. pc[h] = "idle" /\ UNCHANGED <<row, userTier>>
      BY DEF Receive
<1>2. \A g \in Handlers \ {h} :
        pc[g] = "idle" /\ pc'[g] = "idle" /\ ~Overriding(g) /\ ~Overriding(g)'
      BY DEF Sole
<1>3. RowTier' = RowTier /\ \A f : Matches(f)' = Matches(f)
      BY <1>1 DEF RowTier, Matches
<1>4. \A f : Mending(f)' = Mending(f)
      BY <1>3 DEF Mending
<1>5. e.kind \in Kinds /\ e.kind # "override"
      BY DEF TypeOK, Events, Kinds
<1>6. CASE e.kind = "completed" \/ Matches(e)
      <2>1. /\ events' = events
            /\ pc'[h] = "row" /\ event'[h] = e /\ seen'[h] = row
            BY <1>6 DEF Receive, TypeOK
      <2>2. ~Overriding(h) /\ ~Overriding(h)'
            BY <1>1, <1>5, <2>1 DEF Overriding
      <2>3. Informed'
            BY <1>1, <1>2, <1>3, <1>5, <1>6, <2>1, <2>2 DEF Informed
      <2>4. Mended'
            BY <1>1, <1>2, <1>3, <1>4, <2>1, <2>2 DEF Mended
      <2>5. QED BY <2>3, <2>4
<1>7. CASE ~(e.kind = "completed" \/ Matches(e))
      <2>1. /\ events' \in {events, events \ {e}}
            /\ UNCHANGED <<pc, event, seen>>
            BY <1>7 DEF Receive, Answer, requestVars
      <2>2. ~Mending(e)
            BY <1>7 DEF Mending
      <2>3. Overriding(h)' = Overriding(h)
            BY <2>1 DEF Overriding
      <2>4. Informed'
            BY <1>1, <1>2, <2>1, <2>3 DEF Informed
      <2>5. Mended'
            BY <1>1, <1>2, <1>3, <1>4, <2>1, <2>2, <2>3 DEF Mended
      <2>6. QED BY <2>4, <2>5
<1>8. QED BY <1>6, <1>7

\* The first commit: a checkout or a deletion stays outstanding and still
\* mends, an invoice event leaves the tier alone, an override completes.
LEMMA WriteRowInv ==
  ASSUME TInv, Informed, Mended, NEW h \in Handlers, WriteRow(h), Sole(h)
  PROVE  Informed' /\ Mended'
<1>0. PICK e : e = event[h]
      OBVIOUS
<1> DEFINE new == Handled(e, row)
<1>1. /\ pc[h] = "row" /\ seen[h] = row /\ UNCHANGED userTier
      /\ e.kind \in {"completed", "override"} \/ Matches(e)
      /\ e.kind # "override" => e \in events
      BY <1>0 DEF WriteRow, Informed
<1>2. \A g \in Handlers \ {h} :
        pc[g] = "idle" /\ pc'[g] = "idle" /\ ~Overriding(g) /\ ~Overriding(g)'
      BY DEF Sole
<1>3. e \in Events \cup Orders /\ row \in Row \cup {None} /\ new \in Row
      BY <1>0, <1>1, HandledType DEF TInv, Selected, TypeOK
<1>4. row'.tier = new.tier /\ row'.sub = new.sub /\ row' # None
      <2>1. CASE row = None
            <3>1. row' = new
                  BY <1>0, <1>1, <2>1 DEF WriteRow
            <3>2. QED BY <1>3, <3>1, RowNotNone
      <2>2. CASE row # None
            <3>1. row' = Merged(row, new)
                  BY <1>0, <1>1, <2>2 DEF WriteRow
            <3>2. QED BY <1>3, <2>2, <3>1, MergedType, RowNotNone
      <2>3. QED BY <2>1, <2>2
<1>5. RowTier' = new.tier
      BY <1>4 DEF RowTier
<1>6. CASE TouchesUser(e)
      <2>1. /\ events' = events /\ pc'[h] = "user" /\ event'[h] = e
            BY <1>0, <1>1, <1>6 DEF WriteRow, TInv, TypeOK
      <2>2. e.kind = "completed" => new.tier = e.tier
            BY DEF Handled
      <2>3. e.kind = "deleted" => /\ new.tier = "free" /\ new.sub = row.sub
                                  /\ row.sub = e.sub
            <3>1. HAVE e.kind = "deleted"
            <3>2. Matches(e) /\ new = [row EXCEPT !.tier = "free", !.status = "canceled"]
                  BY <1>1, <3>1 DEF Handled
            <3>3. row \in Row
                  BY <1>3, <3>2 DEF Matches
            <3>4. QED BY <3>2, <3>3 DEF Matches, Row
      <2>4. Mending(e)'
            BY <1>4, <1>6, <2>3 DEF Mending, Matches, TouchesUser
      <2>5. e \in events'
            BY <1>1, <1>6, <2>1 DEF TouchesUser
      <2>6. ~Overriding(h)' /\ TouchesUser(e)'
            BY <1>6, <2>1 DEF Overriding, TouchesUser
      <2>7. Informed'
            BY <1>2, <1>5, <2>1, <2>2, <2>3, <2>5, <2>6 DEF Informed
      <2>8. Mended'
            BY <2>4, <2>5 DEF Mended
      <2>9. QED BY <2>7, <2>8
<1>7. CASE ~TouchesUser(e)
      <2>1. /\ events' \in {events, events \ {e}} /\ pc'[h] = "idle"
            BY <1>0, <1>1, <1>7 DEF WriteRow, Answer, Rest, TInv, TypeOK
      <2>2. ~Overriding(h)'
            BY <2>1 DEF Overriding
      <2>3. Informed'
            BY <1>2, <2>1, <2>2 DEF Informed
      <2>4. CASE e.kind = "override"
            <3>1. new.tier = e.tier
                  BY <2>4 DEF Handled
            <3>2. userTier = e.tier
                  BY <1>0, <1>1, <2>4 DEF Informed, Overriding
            <3>3. Mended'
                  BY <1>1, <1>5, <3>1, <3>2 DEF Mended
            <3>4. QED BY <2>3, <3>3
      <2>5. CASE e.kind # "override"
            <3>1. e.kind \in {"invoice_paid", "invoice_failed", "updated"}
                  BY <1>3, <1>7, <2>5 DEF Events, Orders, Kinds, TouchesUser
            <3>2. row \in Row
                  BY <1>1, <1>3, <3>1 DEF Matches
            <3>3. new.tier = row.tier /\ new.sub = row.sub
                  BY <3>1, <3>2 DEF Handled, Row
            <3>4. RowTier = row.tier
                  BY <3>2, RowNotNone DEF RowTier
            <3>5. ~Mending(e) /\ \A f : Mending(f)' = Mending(f)
                  BY <1>4, <3>1, <3>2, <3>3, RowNotNone DEF Mending, Matches
            <3>6. ~Overriding(h)
                  BY <1>0, <2>5 DEF Overriding
            <3>7. Mended'
                  BY <1>1, <1>2, <1>5, <2>1, <3>3, <3>4, <3>5, <3>6 DEF Mended
            <3>8. QED BY <2>3, <3>7
      <2>6. QED BY <2>4, <2>5
<1>8. QED BY <1>6, <1>7

\* The second commit brings the two together.
LEMMA WriteUserInv ==
  ASSUME TInv, Informed, NEW h \in Handlers, WriteUser(h), Sole(h)
  PROVE  Informed' /\ Mended'
<1>1. /\ pc[h] = "user" /\ pc'[h] = "idle" /\ UNCHANGED row
      BY DEF WriteUser, Rest, TInv, TypeOK
<1>2. \A g \in Handlers \ {h} :
        pc[g] = "idle" /\ pc'[g] = "idle" /\ ~Overriding(g) /\ ~Overriding(g)'
      BY DEF Sole
<1>3. userTier' = RowTier
      BY <1>1 DEF WriteUser, Informed, TouchesUser
<1>4. RowTier' = RowTier
      BY <1>1 DEF RowTier
<1>5. Informed'
      BY <1>1, <1>2 DEF Informed, Overriding
<1>6. QED BY <1>3, <1>4, <1>5 DEF Mended

\* A crash loses no webhook event, and there is no override to lose.
LEMMA CrashInv ==
  ASSUME "lost" \notin incidents', TInv, Informed, Mended,
         NEW h \in Handlers, Crash(h), Sole(h)
  PROVE  Informed' /\ Mended'
<1>1. /\ Lossy /\ pc'[h] = "idle" /\ UNCHANGED <<events, row, userTier>>
      BY DEF Crash, Rest, TInv, TypeOK
<1>2. \A g \in Handlers \ {h} :
        pc[g] = "idle" /\ pc'[g] = "idle" /\ ~Overriding(g) /\ ~Overriding(g)'
      BY DEF Sole
<1>3. ~Overriding(h)
      BY DEF Overriding, Crash
<1>4. \A e : Mending(e)' = Mending(e)
      BY <1>1 DEF Mending, Matches
<1>5. Informed'
      BY <1>1, <1>2 DEF Informed, Overriding
<1>6. Mended'
      BY <1>1, <1>2, <1>3, <1>4 DEF Mended, RowTier
<1>7. QED BY <1>5, <1>6

\* The administrator's request, up to its commit of the row.
LEMMA OverrideInv ==
  ASSUME TInv, Informed, Mended, NEW h \in Handlers,
         (\E t \in Overrides : OverrideUser(h, t)) \/ OverrideSelect(h),
         Sole(h)
  PROVE  Informed' /\ Mended'
<1>1. UNCHANGED <<events, row>>
      BY DEF OverrideUser, OverrideSelect
<1>2. \A g \in Handlers \ {h} :
        pc[g] = "idle" /\ pc'[g] = "idle" /\ ~Overriding(g) /\ ~Overriding(g)'
      BY DEF Sole
<1>3. ASSUME NEW t \in Overrides, OverrideUser(h, t)
      PROVE  Informed' /\ Mended'
      <2>1. /\ pc'[h] = "select" /\ userTier' = t
            /\ event'[h] = [kind |-> "override", sub |-> None, tier |-> t]
            BY <1>3 DEF OverrideUser, TInv, TypeOK
      <2>2. event'[h].kind = "override" /\ event'[h].tier = t
            BY <2>1
      <2>3. Overriding(h)'
            BY <2>1, <2>2 DEF Overriding
      <2>4. Informed'
            BY <1>2, <2>1, <2>2 DEF Informed
      <2>5. QED BY <2>3, <2>4 DEF Mended
<1>4. CASE OverrideSelect(h)
      <2>1. /\ pc[h] = "select" /\ pc'[h] = "row" /\ seen'[h] = row
            /\ UNCHANGED <<event, userTier>>
            BY <1>4 DEF OverrideSelect, TInv, TypeOK
      <2>2. event[h].kind = "override" /\ event[h].tier \in Overrides
            /\ userTier = event[h].tier
            BY <2>1 DEF Informed, Overriding
      <2>3. Overriding(h)'
            BY <2>1, <2>2 DEF Overriding
      <2>4. Informed'
            BY <1>1, <1>2, <2>1, <2>2 DEF Informed
      <2>5. QED BY <2>3, <2>4 DEF Mended
<1>5. QED BY <1>3, <1>4
-----------------------------------------------------------------------------
\* Until an overlap is recorded, a request goes on alone.
LEMMA HandleSole ==
  ASSUME TypeOK, Alone, NEW h \in Handlers, Handle(h),
         "overlap" \notin incidents'
  PROVE  Sole(h)
<1>1. \A g \in Handlers \ {h} : pc'[g] = pc[g]
      BY DEF Handle, Receive, OverrideUser, OverrideSelect, WriteRow,
         WriteUser, Crash, Rest, TypeOK, requestVars
<1>2. \A g \in Handlers \ {h} : pc[g] = "idle"
      <2>1. CASE pc[h] = "idle"
            <3>1. Overlap \subseteq incidents'
                  BY <2>1 DEF Handle, Receive, OverrideUser, OverrideSelect,
                     WriteRow, WriteUser, Crash
            <3>2. QED BY <3>1 DEF Overlap
      <2>2. CASE pc[h] # "idle"
            BY <2>2 DEF Alone
      <2>3. QED BY <2>1, <2>2
<1>3. QED BY <1>1, <1>2 DEF Sole, Overriding

\* What has happened stays in the history.
LEMMA IncidentsGrow == [Next]_vars => incidents \subseteq incidents'
  BY DEF Next, Stripe, StartCheckout, Complete, Renew, MissPayment, ChangePlan,
     Cancel, Handle, Receive, OverrideUser, OverrideSelect, WriteRow, WriteUser,
     Crash, vars

\* Requests are alone until one overlaps.
LEMMA NextAlone ==
  ASSUME TypeOK, Alone, [Next]_vars, "overlap" \notin incidents'
  PROVE  Alone'
<1>1. ASSUME NEW s \in Subs, Stripe(s) PROVE Alone'
      BY <1>1 DEF Alone, Stripe, StartCheckout, Complete, Renew, MissPayment,
         ChangePlan, Cancel, requestVars
<1>2. ASSUME NEW h \in Handlers, Handle(h) PROVE Alone'
      <2>1. Sole(h)
            BY <1>2, HandleSole
      <2>2. QED BY <2>1 DEF Sole, Alone
<1>3. CASE UNCHANGED vars
      BY <1>3 DEF Alone, vars, requestVars
<1>4. QED BY <1>1, <1>2, <1>3 DEF Next

\* Until an overlap or a lost override, every step keeps the two agreeing or
\* mending.
LEMMA NextMended ==
  ASSUME TInv, Alone, Informed, Mended, [Next]_vars,
         "overlap" \notin incidents', "lost" \notin incidents'
  PROVE  Informed' /\ Mended'
<1>1. ASSUME NEW s \in Subs, Stripe(s) PROVE Informed' /\ Mended'
      BY <1>1, StripeInv
<1>2. ASSUME NEW h \in Handlers, Handle(h) PROVE Informed' /\ Mended'
      <2>1. Sole(h)
            BY <1>2, HandleSole DEF TInv
      <2>2. ASSUME NEW e \in events, Receive(h, e) PROVE Informed' /\ Mended'
            BY <2>1, <2>2, ReceiveInv DEF TInv
      <2>3. CASE ~\E e \in events : Receive(h, e)
            BY <1>2, <2>1, <2>3, OverrideInv, WriteRowInv, WriteUserInv,
               CrashInv DEF Handle
      <2>4. QED BY <2>2, <2>3
<1>3. CASE UNCHANGED vars
      <2>1. \A e : Mending(e)' = Mending(e)
            BY <1>3 DEF Mending, Matches, vars
      <2>2. RowTier' = RowTier /\ \A h \in Handlers : Overriding(h)' = Overriding(h)
            BY <1>3 DEF RowTier, Overriding, vars, requestVars
      <2>3. Informed'
            BY <1>3, <2>2 DEF Informed, Matches, TouchesUser, vars, requestVars
      <2>4. Mended'
            BY <1>3, <2>1, <2>2 DEF Mended, vars
      <2>5. QED BY <2>3, <2>4
<1>4. QED BY <1>1, <1>2, <1>3 DEF Next

\* Deliveries that do not overlap keep users.tier in step with the row: once
\* every event is answered the two agree, whatever crashed, came twice or
\* came out of order on the way.
THEOREM SerialDeliverySyncs == Spec => []SyncedWhenSettled
<1>1. Init => IInv
      BY InitTInv DEF Init, IInv, Alone, Informed, Overriding, Mended, RowTier
<1>2. IInv /\ [Next]_vars => IInv'
      <2> SUFFICES ASSUME IInv, [Next]_vars PROVE IInv'
          OBVIOUS
      <2>1. TInv'
            BY NextTInv DEF IInv
      <2>2. "overlap" \notin incidents' => Alone'
            BY IncidentsGrow, NextAlone DEF IInv, TInv
      <2>3. ("overlap" \notin incidents' /\ "lost" \notin incidents')
              => Informed' /\ Mended'
            BY IncidentsGrow, NextMended DEF IInv
      <2>4. QED BY <2>1, <2>2, <2>3 DEF IInv
<1>3. IInv => SyncedWhenSettled
      BY DEF IInv, Mended, SyncedWhenSettled, TierFollowsRow, Settled,
         Overriding
<1>4. QED BY <1>1, <1>2, <1>3, PTL DEF Spec
-----------------------------------------------------------------------------
\* What is so of every event there is, answered or not: it is about a session
\* that was completed, names the tier sold, and says deleted only of the dead.
Truthful(e) ==
  /\ life[e.sub] \notin {"none", "session"}
  /\ e.kind = "completed" => e.tier = sold[e.sub]
  /\ e.kind = "deleted" => life[e.sub] = "ended"

EventsAreTruthful ==
  /\ \A e \in events : Truthful(e)
  /\ \A h \in Handlers :
       /\ event[h] \in Events => Truthful(event[h])
       /\ pc[h] = "user" => TouchesUser(event[h])

\* s is the one purchase of the customer, and not canceled.
Stands(s) == /\ life[s] \in {"active", "past_due", "bought"}
             /\ \A r \in Subs \ {s} : life[r] = "none"

\* Its completion is still to be answered, or was and gave the tier.
PurchaseIsKept ==
  "override" \notin incidents =>
    \A s \in Subs : Stands(s) => Completed(s) \in events \/ userTier = sold[s]

CInv == TInv /\ EventsAreTruthful /\ PurchaseIsKept

\* What Stripe has told stays so: a completion is not undone, a tier is sold
\* once, and a canceled subscription does not come back.
LEMMA TruthStays ==
  ASSUME TypeOK, NEW s \in Subs, Stripe(s), NEW e, e.sub \in Subs, Truthful(e)
  PROVE  Truthful(e)'
<1>1. CASE e.sub = s
      <2>1. sold' = sold
            BY <1>1 DEF Stripe, StartCheckout, Complete, Renew, MissPayment,
               ChangePlan, Cancel, Truthful
      <2>2. /\ life'[s] \notin {"none", "session"}
            /\ life[s] = "ended" => life'[s] = "ended"
            BY <1>1 DEF Stripe, StartCheckout, Complete, Renew, MissPayment,
               ChangePlan, Cancel, Truthful, TypeOK
      <2>3. QED BY <1>1, <2>1, <2>2 DEF Truthful
<1>2. CASE e.sub # s
      <2>1. life'[e.sub] = life[e.sub] /\ sold'[e.sub] = sold[e.sub]
            BY <1>2 DEF Stripe, StartCheckout, Complete, Renew, MissPayment,
               ChangePlan, Cancel, TypeOK
      <2>2. QED BY <2>1 DEF Truthful
<1>3. QED BY <1>1, <1>2

\* The events a step at Stripe adds tell what it did.
LEMMA NewsIsTruthful ==
  ASSUME TypeOK, NEW s \in Subs, Stripe(s), NEW e \in events' \ events
  PROVE  Truthful(e)'
<1>1. CASE Complete(s)
      <2>1. /\ life'[s] \in {"active", "bought"} /\ sold' = sold
            /\ e \in {Completed(s), Event("invoice_paid", s)}
            BY <1>1 DEF Complete, TypeOK
      <2>2. QED BY <2>1 DEF Truthful, Completed, Event
<1>2. CASE Renew(s) \/ MissPayment(s) \/ (\E t \in Recurring : ChangePlan(s, t))
      <2>1. /\ life'[s] \in {"active", "past_due"}
            /\ \E k \in {"invoice_paid", "updated", "invoice_failed"} :
                 e = Event(k, s)
            BY <1>2 DEF Renew, MissPayment, ChangePlan, TypeOK
      <2>2. QED BY <2>1 DEF Truthful, Event
<1>3. CASE Cancel(s)
      <2>1. life'[s] = "ended" /\ e = Event("deleted", s)
            BY <1>3 DEF Cancel, TypeOK
      <2>2. QED BY <2>1 DEF Truthful, Event
<1>4. QED BY <1>1, <1>2, <1>3 DEF Stripe, StartCheckout

\* A step at Stripe leaves the one purchase served, or to be.
LEMMA StripeCInv ==
  ASSUME CInv, NEW s \in Subs, Stripe(s)
  PROVE  EventsAreTruthful' /\ PurchaseIsKept'
<1>1. /\ TypeOK /\ EventsAreTruthful /\ PurchaseIsKept
      /\ \A h \in Handlers : event[h] \in Events => event[h].sub \in Subs
      /\ \A e \in events : e.sub \in Subs
      BY DEF CInv, TInv, TypeOK, Events
<1>2. /\ UNCHANGED <<userTier, pc, event, incidents>>
      /\ events \subseteq events' /\ life'[s] # "none"
      BY <1>1 DEF Stripe, StartCheckout, Complete, Renew, MissPayment,
         ChangePlan, Cancel, requestVars, TypeOK
<1>3. EventsAreTruthful'
      <2>1. ASSUME NEW e \in events' PROVE Truthful(e)'
            <3>1. CASE e \in events
                  BY <1>1, <3>1, TruthStays DEF EventsAreTruthful
            <3>2. CASE e \notin events
                  BY <1>1, <2>1, <3>2, NewsIsTruthful
            <3>3. QED BY <3>1, <3>2
      <2>2. ASSUME NEW h \in Handlers, event'[h] \in Events
            PROVE  Truthful(event[h])'
            <3>1. PICK e : e = event[h]
                  OBVIOUS
            <3>2. Truthful(e)'
                  BY <1>1, <1>2, <2>2, <3>1, TruthStays DEF EventsAreTruthful
            <3>3. QED BY <1>2, <3>1, <3>2 DEF Truthful
      <2>3. QED BY <1>1, <1>2, <2>1, <2>2 DEF EventsAreTruthful, TouchesUser
<1>4. ASSUME NEW r \in Subs, Stands(r)', "override" \notin incidents
      PROVE  Completed(r)' \in events' \/ userTier' = sold'[r]
      <2>1. r = s
            BY <1>2, <1>4 DEF Stands
      <2>2. CASE Complete(s)
            BY <2>1, <2>2 DEF Complete, Completed
      <2>3. CASE ~Complete(s)
            <3>1. life[s] \in {"active", "past_due"} /\ sold' = sold
                  BY <1>1, <1>4, <2>1, <2>3 DEF Stands, Stripe, StartCheckout,
                     Renew, MissPayment, ChangePlan, Cancel, TypeOK
            <3>2. \A q \in Subs \ {s} : life[q] = life'[q]
                  BY <1>1 DEF Stripe, StartCheckout, Complete, Renew,
                     MissPayment, ChangePlan, Cancel, TypeOK
            <3>3. Stands(s)
                  BY <1>4, <2>1, <3>1, <3>2 DEF Stands
            <3>4. QED
                  BY <1>1, <1>2, <1>4, <2>1, <3>1, <3>3
                  DEF PurchaseIsKept, Completed
      <2>4. QED BY <2>2, <2>3
<1>5. QED BY <1>2, <1>3, <1>4 DEF PurchaseIsKept

\* A step of a request serves the one purchase, or leaves it as it was:
\* nothing but the completion of it reaches the user's tier, and the event
\* of the completion goes only once the tier is there.
LEMMA HandleCInv ==
  ASSUME CInv, NEW h \in Handlers, Handle(h)
  PROVE  EventsAreTruthful' /\ PurchaseIsKept'
<1>1. TypeOK /\ EventsAreTruthful /\ PurchaseIsKept /\ Selected /\ UserBound
      BY DEF CInv, TInv
<1>2. /\ UNCHANGED <<life, sold>> /\ incidents \subseteq incidents'
      /\ events' \subseteq events
      BY DEF Handle, Receive, OverrideUser, OverrideSelect, WriteRow, WriteUser,
         Crash, Answer, stripeVars
<1>3. /\ \A e : Truthful(e)' = Truthful(e)
      /\ \A s \in Subs : Stands(s)' = Stands(s) /\ Completed(s)' = Completed(s)
      BY <1>2 DEF Truthful, Stands, Completed
<1>4. EventsAreTruthful'
      <2>1. \A g \in Handlers \ {h} : pc'[g] = pc[g] /\ event'[g] = event[g]
            BY <1>1 DEF Handle, Receive, OverrideUser, OverrideSelect, WriteRow,
               WriteUser, Crash, Rest, TypeOK, requestVars
      <2>2. \/ event'[h] \in {None, event[h]} \cup events
            \/ \E t : event'[h] = [kind |-> "override", sub |-> None, tier |-> t]
            BY <1>1 DEF Handle, Receive, OverrideUser, OverrideSelect, WriteRow,
               WriteUser, Crash, Rest, TypeOK, requestVars
      <2>3. event'[h] \in Events => Truthful(event'[h])
            <3>1. \A t : [kind |-> "override", sub |-> None, tier |-> t] \notin Events
                  BY DEF Events, Kinds
            <3>2. None \notin Events
                  BY NoneAssumption
            <3>3. QED BY <1>1, <2>2, <3>1, <3>2 DEF EventsAreTruthful
      <2>4. pc'[h] = "user" => TouchesUser(event'[h])
            BY <1>1 DEF Handle, Receive, OverrideUser, OverrideSelect, WriteRow,
               WriteUser, Crash, Rest, TypeOK, requestVars, EventsAreTruthful
      <2>5. QED
            BY <1>1, <1>2, <1>3, <2>1, <2>3, <2>4
            DEF EventsAreTruthful, TouchesUser, Truthful
<1>5. ASSUME NEW s \in Subs, Stands(s), "override" \notin incidents'
      PROVE  Completed(s) \in events' \/ userTier' = sold[s]
      <2>1. Completed(s) \in events \/ userTier = sold[s]
            BY <1>1, <1>2, <1>5 DEF PurchaseIsKept
      <2>2. CASE WriteUser(h)
            <3>1. /\ event[h] \in Events /\ Truthful(event[h])
                  /\ event[h].kind \in {"completed", "deleted"}
                  BY <1>1, <2>2 DEF WriteUser, UserBound, EventsAreTruthful,
                     TouchesUser
            <3>2. event[h].sub = s
                  BY <1>5, <3>1 DEF Truthful, Stands, Events
            <3>3. event[h].kind = "completed" /\ event[h].tier = sold[s]
                  BY <1>5, <3>1, <3>2 DEF Truthful, Stands
            <3>4. QED BY <2>2, <3>3 DEF WriteUser
      <2>3. CASE WriteRow(h)
            <3>1. /\ userTier' = userTier
                  /\ \/ events' = events
                     \/ events' = events \ {event[h]} /\ ~TouchesUser(event[h])
                  BY <2>3 DEF WriteRow, Answer
            <3>2. Completed(s).kind = "completed"
                  BY DEF Completed
            <3>3. QED BY <2>1, <3>1, <3>2 DEF TouchesUser
      <2>4. ASSUME NEW e \in events, Receive(h, e)
            PROVE  Completed(s) \in events' \/ userTier' = sold[s]
            <3>1. /\ userTier' = userTier
                  /\ \/ events' = events
                     \/ events' = events \ {e} /\ e.kind # "completed"
                  BY <2>4 DEF Receive, Answer
            <3>2. Completed(s).kind = "completed"
                  BY DEF Completed
            <3>3. QED BY <2>1, <3>1, <3>2
      <2>5. ~\E t \in Overrides : OverrideUser(h, t)
            BY <1>5 DEF OverrideUser
      <2>6. CASE OverrideSelect(h) \/ Crash(h)
            BY <2>1, <2>6 DEF OverrideSelect, Crash
      <2>7. QED BY <2>2, <2>3, <2>4, <2>5, <2>6 DEF Handle
<1>6. QED BY <1>2, <1>3, <1>4, <1>5 DEF PurchaseIsKept

\* Whoever bought one thing and has not canceled has the tier bought once all
\* is settled: crashes, overlaps, answers that are lost, repeated deliveries
\* and late invoice events cost him nothing.
THEOREM PurchasesAreServed == Spec => []CustomersAreServed
<1>1. Init => CInv
      BY InitTInv, NoneAssumption DEF Init, CInv, EventsAreTruthful,
         PurchaseIsKept, Stands
<1>2. CInv /\ [Next]_vars => CInv'
      <2> SUFFICES ASSUME CInv, [Next]_vars PROVE CInv'
          OBVIOUS
      <2>1. TInv'
            BY NextTInv DEF CInv
      <2>2. CASE UNCHANGED vars
            BY <2>1, <2>2 DEF CInv, EventsAreTruthful, Truthful, PurchaseIsKept,
               Stands, Completed, TouchesUser, vars, stripeVars, requestVars
      <2>3. QED BY <2>1, <2>2, StripeCInv, HandleCInv DEF Next, CInv
<1>3. CInv => CustomersAreServed
      BY DEF CInv, PurchaseIsKept, Stands, CustomersAreServed, Settled
<1>4. QED BY <1>1, <1>2, <1>3, PTL DEF Spec
-----------------------------------------------------------------------------
\* What OvershootIsBounded says of a number of turns.
Bounded(n) ==
  n > 0 => \E t \in Limited : n <= Limit[t] + Cardinality(Conns) - 1

\* The requests that have passed the check of day d and not yet incremented.
Spending(d) == {c \in Conns : stage[c] = "incr" /\ key[c] = d}

\* A charging request holds a limit of some tier and a day that has come.
Lawful ==
  \A c \in Conns : stage[c] \in Charging =>
    /\ \E t \in Limited : quota[c] = Limit[t]
    /\ key[c] <= today

\* What is counted, with what is about to be, stays within the bound.
Budget == \A d \in Days : Bounded(count[d] + Cardinality(Spending(d)))

\* Until its key lapses, the turns granted on a day are counted.
Backed ==
  \A d \in Days :
    \/ granted[d] <= count[d]
    \/ d < today /\ Holders(d) = {} /\ Bounded(granted[d])

TurnInv == TurnTypeOK /\ Lawful /\ Budget /\ Backed
-----------------------------------------------------------------------------
\* The numbers of requests spending and open.
LEMMA SpendingSize ==
  \A d : /\ IsFiniteSet(Spending(d))
         /\ Cardinality(Spending(d)) \in Nat
         /\ Cardinality(Spending(d)) <= Cardinality(Conns)
         /\ Cardinality(Conns) \in Nat
<1> SUFFICES ASSUME NEW d
             PROVE  /\ IsFiniteSet(Spending(d))
                    /\ Cardinality(Spending(d)) \in Nat
                    /\ Cardinality(Spending(d)) <= Cardinality(Conns)
                    /\ Cardinality(Conns) \in Nat
    OBVIOUS
<1>1. Spending(d) \in SUBSET Conns
      BY DEF Spending
<1>2. IsFiniteSet(Conns)
      BY ConnsAssumption
<1>3. QED BY <1>1, <1>2, FS_Subset, FS_CardinalityType

\* A smaller number is within the bound too.
LEMMA BoundedBelow ==
  ASSUME NEW m \in Nat, NEW n \in Nat, m <= n, Bounded(n)
  PROVE  Bounded(m)
<1>1. Cardinality(Conns) \in Nat
      BY SpendingSize
<1>2. CASE m = 0
      BY <1>2 DEF Bounded
<1>3. CASE m > 0
      <2>1. PICK t \in Limited : n <= Limit[t] + Cardinality(Conns) - 1
            BY <1>3 DEF Bounded
      <2>2. Limit[t] \in Nat
            BY LimitsAssumption
      <2>3. QED BY <1>1, <2>1, <2>2 DEF Bounded
<1>4. QED BY <1>2, <1>3

\* The initial state satisfies the invariant.
LEMMA TurnInitInv == TurnInit => TurnInv
<1> SUFFICES ASSUME TurnInit PROVE TurnInv
    OBVIOUS
<1>1. TurnTypeOK
      <2>1. 0 \in Days /\ 0 \in 0..MaxTools
            BY NumbersAssumption DEF Days
      <2>2. QED BY <2>1 DEF TurnInit, TurnTypeOK, Charging, Streaming, Replies
<1>2. Lawful
      BY DEF TurnInit, Lawful, Charging
<1>3. Budget
      <2> SUFFICES ASSUME NEW d \in Days
                   PROVE  Bounded(count[d] + Cardinality(Spending(d)))
          BY DEF Budget
      <2>1. Spending(d) = {}
            BY DEF TurnInit, Spending
      <2>2. count[d] = 0
            BY DEF TurnInit
      <2>3. QED BY <2>1, <2>2, FS_EmptySet DEF Bounded
<1>4. Backed
      BY DEF TurnInit, Backed
<1>5. QED BY <1>1, <1>2, <1>3, <1>4 DEF TurnInv

\* Every step keeps the types.
LEMMA NextType == TurnTypeOK /\ [TurnNext]_turnVars => TurnTypeOK'
<1> SUFFICES ASSUME TurnTypeOK, [TurnNext]_turnVars PROVE TurnTypeOK'
    OBVIOUS
<1>0. Days \subseteq Nat /\ 0 \in Days /\ 0 \in 0..MaxTools
      BY NumbersAssumption DEF Days
<1> USE DEF TurnTypeOK, Charging, Streaming, Replies
<1>1. ASSUME NEW c \in Conns, Admit(c) PROVE TurnTypeOK'
      <2>1. tier \in Limited => Limit[tier] \in Nat
            BY LimitsAssumption
      <2>2. quota' \in [Conns -> Nat] /\ key' \in [Conns -> Days]
            BY <1>1, <2>1 DEF Admit
      <2>3. stage' \in [Conns -> {"idle"} \cup Charging \cup Streaming]
            BY <1>1 DEF Admit
      <2>4. QED BY <1>1, <2>2, <2>3 DEF Admit, redisVars
<1>2. ASSUME NEW c \in Conns, Check(c) PROVE TurnTypeOK'
      BY <1>0, <1>2 DEF Check, Goto, End, redisVars
<1>3. ASSUME NEW c \in Conns, Increment(c) PROVE TurnTypeOK'
      <2>1. key[c] \in Days /\ count[key[c]] + 1 \in Nat
               /\ granted[key[c]] + 1 \in Nat
            OBVIOUS
      <2>2. count' \in [Days -> Nat] /\ granted' \in [Days -> Nat]
            BY <1>3, <2>1 DEF Increment
      <2>3. QED BY <1>3, <2>2 DEF Increment, Goto
<1>4. ASSUME NEW c \in Conns, Arm(c) PROVE TurnTypeOK'
      BY <1>4 DEF Arm, Goto
<1>5. ASSUME NEW c \in Conns, RedisError(c) PROVE TurnTypeOK'
      <2>1. key[c] \in Days /\ count[key[c]] + 1 \in Nat
            OBVIOUS
      <2>2. count' \in [Days -> Nat]
            BY <1>5, <2>1 DEF RedisError
      <2>3. QED BY <1>0, <1>5, <2>2 DEF RedisError, End
<1>6. ASSUME NEW c \in Conns, Retrieve(c) PROVE TurnTypeOK'
      BY <1>0, <1>6 DEF Retrieve, Goto, End, redisVars
<1>7. ASSUME NEW c \in Conns, CallTool(c) PROVE TurnTypeOK'
      <2>1. tools' \in [Conns -> 0..MaxTools]
            <3>1. tools[c] \in 0..MaxTools
                  OBVIOUS
            <3>2. tools[c] + 1 <= MaxTools => tools[c] + 1 \in 0..MaxTools
                  BY <3>1, NumbersAssumption
            <3>3. QED BY <1>0, <1>7, <3>2 DEF CallTool, End
      <2>2. QED BY <1>0, <1>7, <2>1 DEF CallTool, Goto, End, redisVars
<1>8. ASSUME NEW c \in Conns, ToolResult(c) PROVE TurnTypeOK'
      BY <1>8 DEF ToolResult, Goto, redisVars
<1>9. ASSUME NEW c \in Conns, AnswerTurn(c) \/ ProviderError(c) \/ Drop(c)
      PROVE TurnTypeOK'
      <2>1. \E r \in Replies : End(c, r)
            BY <1>9 DEF AnswerTurn, ProviderError, Drop
      <2>2. UNCHANGED <<today, tier, count, armed, granted>>
            BY <1>9 DEF AnswerTurn, ProviderError, Drop, redisVars
      <2>3. QED BY <1>0, <2>1, <2>2 DEF End
<1>10. ASSUME NEW d \in Days, Lapse(d) PROVE TurnTypeOK'
      BY <1>10 DEF Lapse, connVars
<1>11. CASE Midnight
      <2>1. today' \in Days
            BY <1>11, NumbersAssumption DEF Midnight, Days
      <2>2. QED BY <1>11, <2>1 DEF Midnight, redisVars, connVars
<1>12. CASE ChangeTier
      BY <1>12 DEF ChangeTier, redisVars, connVars
<1>13. CASE UNCHANGED turnVars
      BY <1>13 DEF turnVars, redisVars, connVars
<1>14. QED
      BY <1>1, <1>2, <1>3, <1>4, <1>5, <1>6, <1>7, <1>8, <1>9, <1>10, <1>11,
         <1>12, <1>13 DEF TurnNext, Charge, Turn, Fault
-----------------------------------------------------------------------------
\* The steps of a request that leave Redis and the quota alone: it moves to
\* a place that is not a charging one, and the rest stands still.
Leaves(c) ==
  /\ stage[c] # "idle" /\ \E l \in {"idle"} \cup Streaming : stage' = [stage EXCEPT ![c] = l]
  /\ \A b \in Conns \ {c} : key'[b] = key[b] /\ quota'[b] = quota[b]
  /\ UNCHANGED <<today, count, granted>>

\* Such a step keeps the invariant.
LEMMA LeavesInv ==
  ASSUME TurnInv, TurnTypeOK', NEW c \in Conns, Leaves(c)
  PROVE  TurnInv'
<1> USE DEF TurnInv, TurnTypeOK, Leaves, Streaming
<1>1. \A b \in Conns : stage'[b] \in Charging => b # c /\ stage[b] = stage'[b]
      BY DEF Charging
<1>2. Lawful'
      BY <1>1 DEF Lawful
<1>3. \A d \in Days : Holders(d)' \subseteq Holders(d)
                        /\ Spending(d)' \subseteq Spending(d)
      BY <1>1 DEF Holders, Spending, Charging
<1>4. Budget'
      <2> SUFFICES ASSUME NEW d \in Days
                   PROVE  Bounded(count[d] + Cardinality(Spending(d)'))
          BY DEF Budget, Bounded
      <2>1. Cardinality(Spending(d)') <= Cardinality(Spending(d))
              /\ Cardinality(Spending(d)') \in Nat
            BY <1>3, SpendingSize, FS_Subset, FS_CardinalityType
      <2>2. Cardinality(Spending(d)) \in Nat /\ count[d] \in Nat
            BY SpendingSize
      <2>3. Bounded(count[d] + Cardinality(Spending(d)))
            BY DEF Budget
      <2>4. QED BY <2>1, <2>2, <2>3, BoundedBelow
<1>5. Backed'
      BY <1>3 DEF Backed, Bounded
<1>6. QED BY <1>2, <1>4, <1>5

\* Every request-ending or streaming step leaves Redis and the quota alone.
LEMMA Leaving ==
  ASSUME TurnTypeOK, NEW c \in Conns,
         \/ Arm(c) \/ Turn(c) \/ ProviderError(c) \/ Drop(c)
         \/ RedisError(c) /\ UNCHANGED count
         \/ Check(c) /\ count[key[c]] >= quota[c]
  PROVE  Leaves(c)
<1> USE DEF Leaves, Streaming, redisVars, TurnTypeOK
<1>1. CASE Arm(c)
      BY <1>1 DEF Arm, Goto
<1>2. CASE Turn(c)
      <2>1. CASE Retrieve(c)
            BY <2>1 DEF Retrieve, Goto, End
      <2>2. CASE CallTool(c)
            BY <2>2 DEF CallTool, Goto, End
      <2>3. CASE ToolResult(c)
            BY <2>3 DEF ToolResult, Goto
      <2>4. CASE AnswerTurn(c)
            BY <2>4 DEF AnswerTurn, End
      <2>5. QED BY <1>2, <2>1, <2>2, <2>3, <2>4 DEF Turn
<1>3. CASE ProviderError(c)
      BY <1>3 DEF ProviderError, End
<1>4. CASE Drop(c)
      BY <1>4 DEF Drop, End
<1>5. CASE RedisError(c) /\ UNCHANGED count
      BY <1>5 DEF RedisError, End, Charging
<1>6. CASE Check(c) /\ count[key[c]] >= quota[c]
      <2>1. ~(count[key[c]] < quota[c])
            BY <1>6
      <2>2. QED BY <1>6, <2>1 DEF Check, End
<1>7. QED BY <1>1, <1>2, <1>3, <1>4, <1>5, <1>6

\* A request that passes its check was below a limit, and the others that
\* passed theirs are fewer than the requests open.
LEMMA CheckInv ==
  ASSUME TurnInv, TurnTypeOK', NEW c \in Conns, Check(c), count[key[c]] < quota[c]
  PROVE  TurnInv'
<1> USE DEF TurnInv, TurnTypeOK
<1>1. /\ stage[c] = "get" /\ stage' = [stage EXCEPT ![c] = "incr"]
      /\ UNCHANGED <<today, count, granted, key, quota>>
      <2>1. ~(count[key[c]] >= quota[c])
            BY DEF Days
      <2>2. QED BY <2>1 DEF Check, Goto, redisVars
<1>2. Lawful'
      BY <1>1 DEF Lawful, Charging
<1>3. \A d \in Days : Holders(d)' = Holders(d)
      BY <1>1 DEF Holders, Charging
<1>4. Budget'
      <2> SUFFICES ASSUME NEW d \in Days
                   PROVE  Bounded(count[d] + Cardinality(Spending(d)'))
          BY <1>1 DEF Budget, Bounded
      <2>1. CASE d # key[c]
            <3>1. Spending(d)' = Spending(d)
                  BY <1>1, <2>1 DEF Spending
            <3>2. QED BY <3>1 DEF Budget
      <2>2. CASE d = key[c]
            <3>1. Spending(d)' \in SUBSET Conns
                  BY <1>1 DEF Spending
            <3>2. /\ Cardinality(Spending(d)') <= Cardinality(Conns)
                  /\ Cardinality(Spending(d)') \in Nat
                  /\ Cardinality(Conns) \in Nat
                  BY <3>1, ConnsAssumption, FS_Subset, FS_CardinalityType
            <3>3. PICK t \in Limited : quota[c] = Limit[t]
                  BY <1>1 DEF Lawful, Charging
            <3>4. Limit[t] \in Nat /\ count[d] \in Nat /\ count[d] < Limit[t]
                  BY <2>2, <3>3, LimitsAssumption
            <3>5. count[d] + Cardinality(Spending(d)')
                    <= Limit[t] + Cardinality(Conns) - 1
                  BY <3>2, <3>4
            <3>6. QED BY <3>5 DEF Bounded
      <2>3. QED BY <2>1, <2>2
<1>5. Backed'
      BY <1>1, <1>3 DEF Backed, Bounded
<1>6. QED BY <1>2, <1>4, <1>5

\* An increment, whether or not its request goes on, moves one request from
\* those about to count to the counter.
LEMMA IncrementInv ==
  ASSUME TurnInv, TurnTypeOK', NEW c \in Conns, NEW l \in {"idle", "expire"},
         stage[c] = "incr", stage' = [stage EXCEPT ![c] = l],
         count' = [count EXCEPT ![key[c]] = @ + 1],
         granted' \in {granted, [granted EXCEPT ![key[c]] = @ + 1]},
         \/ l = "expire" /\ UNCHANGED <<key, quota>>
         \/ /\ l = "idle"
            /\ \A b \in Conns \ {c} : key'[b] = key[b] /\ quota'[b] = quota[b],
         UNCHANGED today
  PROVE  TurnInv'
<1> USE DEF TurnInv, TurnTypeOK
<1>1. key[c] \in Days /\ \A d \in Days : count[d] \in Nat /\ granted[d] \in Nat
      OBVIOUS
<1>2. \A b \in Conns \ {c} : stage'[b] = stage[b] /\ key'[b] = key[b] /\ quota'[b] = quota[b]
      OBVIOUS
<1>3. Lawful'
      BY <1>2 DEF Lawful, Charging
<1>4. \A d \in Days : Holders(d)' \subseteq Holders(d)
      BY <1>2 DEF Holders, Charging
<1>5. c \in Holders(key[c])
      BY DEF Holders, Charging
<1>6. Budget'
      <2> SUFFICES ASSUME NEW d \in Days
                   PROVE  Bounded(count'[d] + Cardinality(Spending(d)'))
          BY DEF Budget, Bounded
      <2>1. CASE d # key[c]
            <3>1. Spending(d)' = Spending(d)
                  BY <1>2, <2>1 DEF Spending
            <3>2. count'[d] = count[d]
                  BY <2>1
            <3>3. QED BY <3>1, <3>2 DEF Budget
      <2>2. CASE d = key[c]
            <3>1. Spending(d)' = Spending(d) \ {c} /\ c \in Spending(d)
                  BY <1>2, <2>2 DEF Spending
            <3>2. /\ Cardinality(Spending(d)') = Cardinality(Spending(d)) - 1
                  /\ Cardinality(Spending(d)) \in Nat
                  <4>1. /\ IsFiniteSet(Spending(d))
                        /\ Cardinality(Spending(d)) \in Nat
                        BY SpendingSize
                  <4> HIDE DEF TurnInv, TurnTypeOK
                  <4>2. QED BY <3>1, <4>1, FS_RemoveElement
            <3>3. count'[d] = count[d] + 1
                  BY <2>2
            <3>4. count'[d] + Cardinality(Spending(d)')
                    = count[d] + Cardinality(Spending(d))
                  BY <1>1, <3>2, <3>3
            <3>5. QED BY <3>4 DEF Budget
      <2>3. QED BY <2>1, <2>2
<1>7. Backed'
      <2> SUFFICES ASSUME NEW d \in Days
                   PROVE  \/ granted'[d] <= count'[d]
                          \/ /\ d < today /\ Holders(d)' = {}
                             /\ Bounded(granted'[d])
          BY DEF Backed, Bounded
      <2>1. CASE d = key[c]
            <3>1. granted[d] <= count[d]
                  BY <1>5, <2>1 DEF Backed
            <3>2. count'[d] = count[d] + 1 /\ granted'[d] <= granted[d] + 1
                  BY <1>1, <2>1
            <3>3. granted'[d] \in Nat
                  OBVIOUS
            <3>4. QED BY <1>1, <3>1, <3>2, <3>3
      <2>2. CASE d # key[c]
            <3>1. granted'[d] = granted[d] /\ count'[d] = count[d]
                  BY <2>2
            <3>2. QED BY <1>4, <3>1 DEF Backed
      <2>3. QED BY <2>1, <2>2
<1>8. QED BY <1>3, <1>6, <1>7
-----------------------------------------------------------------------------
\* Every step keeps the invariant.
LEMMA TurnNextInv == TurnInv /\ [TurnNext]_turnVars => TurnInv'
<1> SUFFICES ASSUME TurnInv, [TurnNext]_turnVars PROVE TurnInv'
    OBVIOUS
<1>0. TurnTypeOK'
      BY NextType DEF TurnInv
<1>1. ASSUME NEW c \in Conns, Admit(c) PROVE TurnInv'
      <2> USE DEF TurnInv, TurnTypeOK
      <2>1. /\ stage[c] = "idle" /\ UNCHANGED <<today, count, granted>>
            /\ \A b \in Conns \ {c} :
                 stage'[b] = stage[b] /\ key'[b] = key[b] /\ quota'[b] = quota[b]
            BY <1>1 DEF Admit, redisVars
      <2>2. /\ stage'[c] \in {"get", "retrieve"}
            /\ stage'[c] = "get" => /\ tier \in Limited
                                 /\ key'[c] = today /\ quota'[c] = Limit[tier]
            BY <1>1 DEF Admit
      <2>3. today <= today
            BY DEF Days
      <2>4. Lawful'
            BY <2>1, <2>2, <2>3 DEF Lawful, Charging
      <2>5. \A d \in Days : Spending(d)' = Spending(d)
            BY <2>1, <2>2 DEF Spending
      <2>6. Budget'
            BY <2>1, <2>5 DEF Budget, Bounded
      <2>7. \A d \in Days : d < today => Holders(d)' = Holders(d)
            <3> SUFFICES ASSUME NEW d \in Days, d < today
                         PROVE  Holders(d)' = Holders(d)
                OBVIOUS
            <3>1. d # today
                  BY DEF Days
            <3>2. c \notin Holders(d) /\ c \notin Holders(d)'
                  BY <2>1, <2>2, <3>1 DEF Holders, Charging
            <3>3. QED BY <2>1, <3>2 DEF Holders
      <2>8. Backed'
            BY <2>1, <2>7 DEF Backed, Bounded
      <2>9. QED BY <1>0, <2>4, <2>6, <2>8
<1>2. ASSUME NEW c \in Conns, Check(c) PROVE TurnInv'
      <2>1. CASE count[key[c]] < quota[c]
            BY <1>0, <1>2, <2>1, CheckInv
      <2>2. CASE ~(count[key[c]] < quota[c])
            <3>1. count[key[c]] >= quota[c]
                  BY <1>2, <2>2 DEF Check
            <3>2. Leaves(c)
                  BY <1>2, <3>1, Leaving DEF TurnInv
            <3>3. QED BY <1>0, <3>2, LeavesInv
      <2>3. QED BY <2>1, <2>2
<1>3. ASSUME NEW c \in Conns, Increment(c) PROVE TurnInv'
      <2>1. /\ stage[c] = "incr" /\ stage' = [stage EXCEPT ![c] = "expire"]
            /\ count' = [count EXCEPT ![key[c]] = @ + 1]
            /\ granted' = [granted EXCEPT ![key[c]] = @ + 1]
            /\ UNCHANGED <<key, quota, today>>
            BY <1>3 DEF Increment, Goto
      <2>2. QED BY <1>0, <2>1, IncrementInv
<1>4. ASSUME NEW c \in Conns,
             Arm(c) \/ Turn(c) \/ ProviderError(c) \/ Drop(c)
      PROVE  TurnInv'
      <2>1. Leaves(c)
            BY <1>4, Leaving DEF TurnInv
      <2>2. QED BY <1>0, <2>1, LeavesInv
<1>5. ASSUME NEW c \in Conns, RedisError(c) PROVE TurnInv'
      <2>1. CASE UNCHANGED count
            <3>1. Leaves(c)
                  BY <1>5, <2>1, Leaving DEF TurnInv
            <3>2. QED BY <1>0, <3>1, LeavesInv
      <2>2. CASE ~UNCHANGED count
            <3>1. /\ stage[c] = "incr" /\ stage' = [stage EXCEPT ![c] = "idle"]
                  /\ count' = [count EXCEPT ![key[c]] = @ + 1]
                  /\ UNCHANGED <<granted, today>>
                  BY <1>5, <2>2 DEF RedisError, End
            <3>2. \A b \in Conns \ {c} : key'[b] = key[b] /\ quota'[b] = quota[b]
                  BY <1>5 DEF RedisError, End, TurnInv, TurnTypeOK
            <3>3. QED BY <1>0, <3>1, <3>2, IncrementInv
      <2>3. QED BY <2>1, <2>2
<1>6. ASSUME NEW d \in Days, Lapse(d) PROVE TurnInv'
      <2> USE DEF TurnInv, TurnTypeOK
      <2>1. /\ d < today /\ Holders(d) = {}
            /\ count' = [count EXCEPT ![d] = 0]
            /\ UNCHANGED <<today, stage, key, quota, granted>>
            BY <1>6 DEF Lapse, connVars
      <2>2. Lawful'
            BY <2>1 DEF Lawful
      <2>3. \A e : Spending(e)' = Spending(e) /\ Holders(e)' = Holders(e)
            BY <2>1 DEF Spending, Holders
      <2>4. Spending(d) = {}
            BY <2>1 DEF Spending, Holders, Charging
      <2>5. Budget'
            <3> SUFFICES ASSUME NEW e \in Days
                         PROVE  Bounded(count'[e] + Cardinality(Spending(e)))
                BY <2>3 DEF Budget, Bounded
            <3>1. CASE e = d
                  <4>1. count'[e] = 0 /\ Cardinality(Spending(e)) = 0
                        BY <2>1, <2>4, <3>1, FS_EmptySet
                  <4>2. ~(count'[e] + Cardinality(Spending(e)) > 0)
                        BY <4>1
                  <4>3. QED BY <4>2 DEF Bounded
            <3>2. CASE e # d
                  BY <2>1, <3>2 DEF Budget
            <3>3. QED BY <3>1, <3>2
      <2>6. Bounded(granted[d])
            <3>1. CASE granted[d] <= count[d]
                  <4>1. Cardinality(Spending(d)) = 0
                        BY <2>4, FS_EmptySet
                  <4>2. Bounded(count[d])
                        <5>1. count[d] + Cardinality(Spending(d)) = count[d]
                              BY <4>1
                        <5>2. QED BY <5>1 DEF Budget
                  <4>3. QED BY <3>1, <4>2, BoundedBelow
            <3>2. QED BY <3>1 DEF Backed
      <2>7. Backed'
            BY <2>1, <2>3, <2>6 DEF Backed, Bounded
      <2>8. QED BY <1>0, <2>2, <2>5, <2>7
<1>7. CASE Midnight \/ ChangeTier \/ UNCHANGED turnVars
      <2> USE DEF TurnInv, TurnTypeOK
      <2>1. /\ UNCHANGED <<stage, key, quota, count, granted>>
            /\ today' \in Days /\ today <= today'
            BY <1>0, <1>7 DEF Midnight, ChangeTier, turnVars, redisVars, connVars, Days
      <2>2. Lawful'
            BY <2>1 DEF Lawful, Days
      <2>3. \A e : Spending(e)' = Spending(e) /\ Holders(e)' = Holders(e)
            BY <2>1 DEF Spending, Holders
      <2>4. Budget'
            BY <2>1, <2>3 DEF Budget, Bounded
      <2>5. \A e \in Days : e < today => e < today'
            BY <2>1 DEF Days
      <2>6. Backed'
            BY <2>1, <2>3, <2>5 DEF Backed, Bounded
      <2>7. QED BY <1>0, <2>2, <2>4, <2>6
<1>8. QED
      BY <1>1, <1>2, <1>3, <1>4, <1>5, <1>6, <1>7 DEF TurnNext, Charge, Fault

\* The invariant bounds what is granted.
LEMMA InvBound == TurnInv => OvershootIsBounded
<1> SUFFICES ASSUME TurnInv, NEW d \in Days PROVE Bounded(granted[d])
    BY DEF OvershootIsBounded, Bounded
<1>1. CASE granted[d] <= count[d]
      <2>1. /\ granted[d] \in Nat /\ count[d] \in Nat
            /\ Cardinality(Spending(d)) \in Nat
            BY SpendingSize DEF TurnInv, TurnTypeOK
      <2>2. Bounded(count[d] + Cardinality(Spending(d)))
            BY DEF TurnInv, Budget
      <2>3. granted[d] <= count[d] + Cardinality(Spending(d))
            BY <1>1, <2>1
      <2>4. count[d] + Cardinality(Spending(d)) \in Nat
            BY <2>1
      <2>5. QED BY <2>1, <2>2, <2>3, <2>4, BoundedBelow
<1>2. QED BY <1>1 DEF TurnInv, Backed

\* The inductive invariant holds in every reachable state.
LEMMA TurnInvariance == TurnSpec => []TurnInv
  BY TurnInitInv, TurnNextInv, PTL DEF TurnSpec

\* Every reachable state of the quota and of the turns has the declared types.
THEOREM TurnTypeCorrect == TurnSpec => []TurnTypeOK
<1>1. TurnInv => TurnTypeOK
      BY DEF TurnInv
<1>2. QED BY <1>1, TurnInvariance, PTL

\* check_and_increment lets at most one turn less than the requests open at
\* a time past the largest limit of a day.
THEOREM BoundedOvershoot == TurnSpec => []OvershootIsBounded
  BY InvBound, TurnInvariance, PTL
=============================================================================
