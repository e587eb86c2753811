--------------------------- MODULE LiveToolsProofs ---------------------------
(***************************************************************************)
(* The tools around a live session, for any number of variants, marks,     *)
(* sessions, renderings, elements, scans and declarations: the choice      *)
(* among the variants (LiveTuning), the drawing layer with its captures    *)
(* (LiveAnnotations), the detector with its toggle (LiveDetect), the       *)
(* design panel with the agent's mark (LiveDesign), and the detector's     *)
(* style engine (StyleCascade). Each part says what its property needs to  *)
(* be inductive; the theorems are about the composition of all the tools,  *)
(* in MCLiveTools.                                                         *)
(***************************************************************************)
EXTENDS MCLiveTools, SequenceTheorems, FiniteSetTheorems,
        WellFoundedInduction, TLAPS

ValueSets == [variant : 0..MaxVariants, knob : Knobs]
Panels == [variant : 0..MaxVariants, knob : Knobs, mount : 0..MaxMounts]
Tabs ==
  [st : {"IDLE", "GENERATING", "CYCLING", "SAVING", "OVER"},
   arrived : 0..MaxVariants, visible : 0..MaxVariants, saved : 0..MaxVariants,
   values : ValueSets, panel : Panels, open : BOOLEAN, timer : BOOLEAN,
   pending : ValueSets, calling : BOOLEAN, fetching : BOOLEAN,
   applying : BOOLEAN]
Documents == [mount : 0..MaxMounts, count : 0..MaxVariants,
              shown : 0..MaxVariants, knobs : [Variants -> Knobs]]
Pairs == [t : Tabs, p : Documents]

\* What showing a variant and its knobs leaves alone.
Keeps(r, b) ==
  /\ r.t.st = b.t.st /\ r.t.arrived = b.t.arrived /\ r.t.visible = b.t.visible
  /\ r.t.saved = b.t.saved /\ r.t.timer = b.t.timer
  /\ r.t.pending = b.t.pending /\ r.t.calling = b.t.calling
  /\ r.t.fetching = b.t.fetching /\ r.t.applying = b.t.applying
  /\ r.p.mount = b.p.mount /\ r.p.count = b.p.count

\* The values of the tab, and the knobs of an open panel, are those shown.
MirrorOf(b) == IF b.t.visible \in Tunable
               THEN At(b.t.visible, b.p.knobs[b.t.visible]) ELSE NoValues
Fits(b) ==
  /\ b.t.values = MirrorOf(b)
  /\ b.t.open => /\ b.t.panel.mount = b.p.mount
                 /\ At(b.t.panel.variant, b.t.panel.knob) = b.t.values

OpenIsTunable(b) == b.t.open => b.t.panel.variant \in Tunable
-----------------------------------------------------------------------------
\* The fixed values are of their types.
LEMMA ChoiceTypes ==
  /\ Tunable \subseteq Variants /\ Variants \subseteq 0..MaxVariants
  /\ 0 \notin Tunable /\ MaxVariants \in Nat \ {0} /\ MaxMounts \in Nat
  /\ NoValues \in ValueSets /\ NoPanel \in Panels
  /\ \A v \in 0..MaxVariants, k \in Knobs : At(v, k) \in ValueSets
  BY TuningAssumption DEF Variants, NoValues, NoPanel, ValueSets, Panels, Knobs, At

\* applyParamDefaults and buildParamsPanel leave tab, page and panel agreed.
LEMMA DefaultsFacts ==
  ASSUME NEW b \in Pairs, b.t.visible \in Tunable
  PROVE  LET r == DefaultsApplied(b)
         IN  /\ r \in Pairs /\ Keeps(r, b) /\ r.p.shown = b.p.shown
             /\ r.t.open = b.t.open /\ Fits(r) /\ OpenIsTunable(r)
             /\ r.t.values = At(b.t.visible, "default")
<1> DEFINE r == DefaultsApplied(b)
           v == b.t.visible
           pan == [variant |-> v, knob |-> "default", mount |-> b.p.mount]
           t2 == [b.t EXCEPT !.values = At(v, "default"), !.panel = pan]
           p2 == [b.p EXCEPT !.knobs[v] = "default"]
<1>1. r = [t |-> t2, p |-> p2]
      BY DEF DefaultsApplied
<1>2. /\ b.t \in Tabs /\ b.p \in Documents /\ v \in Variants
      /\ v \in 0..MaxVariants
      BY ChoiceTypes DEF Pairs
<1>3. pan \in Panels /\ At(v, "default") \in ValueSets
      BY <1>2, ChoiceTypes DEF Panels, Documents, Knobs
<1> HIDE DEF r
<1>4. /\ t2 \in Tabs /\ t2.values = At(v, "default") /\ t2.panel = pan
      /\ t2.st = b.t.st /\ t2.arrived = b.t.arrived /\ t2.visible = v
      /\ t2.saved = b.t.saved /\ t2.timer = b.t.timer
      /\ t2.pending = b.t.pending /\ t2.calling = b.t.calling
      /\ t2.fetching = b.t.fetching /\ t2.applying = b.t.applying
      /\ t2.open = b.t.open
      <2> HIDE DEF pan
      <2>1. QED BY <1>2, <1>3 DEF Tabs
<1>5. /\ p2 \in Documents /\ p2.mount = b.p.mount /\ p2.count = b.p.count
      /\ p2.shown = b.p.shown /\ p2.knobs[v] = "default"
      BY <1>2 DEF Documents, Knobs
<1> HIDE DEF t2, p2
<1>6. r \in Pairs /\ r.t = t2 /\ r.p = p2
      BY <1>1, <1>4, <1>5 DEF Pairs
<1>7. Keeps(r, b)
      BY <1>4, <1>5, <1>6 DEF Keeps
<1>8. Fits(r) /\ OpenIsTunable(r)
      BY <1>4, <1>5, <1>6 DEF Fits, MirrorOf, OpenIsTunable, At
<1>9. QED BY <1>4, <1>5, <1>6, <1>7, <1>8 DEF r

\* refreshParamsPanel does too, while a shown variant is being decided.
LEMMA RefreshedFacts ==
  ASSUME NEW b \in Pairs
  PROVE  LET r == Refreshed(b)
         IN  /\ r \in Pairs /\ Keeps(r, b) /\ r.p.shown = b.p.shown
             /\ OpenIsTunable(r)
             /\ b.t.st # "CYCLING" => ~r.t.open
             /\ b.t.st = "CYCLING" /\ b.t.visible \in 1..b.p.count => Fits(r)
<1> DEFINE r == Refreshed(b)
<1>1. CASE b.t.st = "CYCLING" /\ HasParams(b)
      <2>1. r = DefaultsApplied(b) /\ b.t.visible \in Tunable
            BY <1>1 DEF Refreshed, HasParams
      <2>2. QED BY <1>1, <2>1, DefaultsFacts
<1>2. CASE ~(b.t.st = "CYCLING" /\ HasParams(b))
      <2> DEFINE t2 == [b.t EXCEPT !.values = NoValues, !.open = FALSE]
      <2>1. r = [t |-> t2, p |-> b.p]
            <3>1. r = [b EXCEPT !.t.values = NoValues, !.t.open = FALSE]
                  BY <1>2 DEF Refreshed
            <3>2. QED BY <3>1 DEF Pairs
      <2>2. b.t \in Tabs /\ b.p \in Documents /\ NoValues \in ValueSets
            BY ChoiceTypes DEF Pairs
      <2>3. /\ t2 \in Tabs /\ t2.values = NoValues /\ t2.open = FALSE
            /\ t2.st = b.t.st /\ t2.arrived = b.t.arrived
            /\ t2.visible = b.t.visible
            /\ t2.saved = b.t.saved /\ t2.timer = b.t.timer
            /\ t2.pending = b.t.pending /\ t2.calling = b.t.calling
            /\ t2.fetching = b.t.fetching /\ t2.applying = b.t.applying
            BY <2>2 DEF Tabs
      <2> HIDE DEF t2
      <2>4. r \in Pairs /\ r.t = t2 /\ r.p = b.p
            BY <2>1, <2>2, <2>3 DEF Pairs
      <2> HIDE DEF r
      <2>5. Keeps(r, b) /\ OpenIsTunable(r) /\ ~r.t.open
            BY <2>3, <2>4 DEF Keeps, OpenIsTunable
      <2>6. b.t.st = "CYCLING" /\ b.t.visible \in 1..b.p.count => Fits(r)
            BY <1>2, <2>3, <2>4 DEF Fits, MirrorOf, HasParams
      <2>7. QED BY <2>4, <2>5, <2>6 DEF r
<1>3. QED BY <1>1, <1>2

\* showVariantInDOM shows the variant, or none, and refreshes the panel.
LEMMA ShownFacts ==
  ASSUME NEW b \in Pairs, NEW v \in 0..MaxVariants
  PROVE  LET r == Shown(b, v)
         IN  /\ r \in Pairs /\ Keeps(r, b)
             /\ r.p.shown = IF v \in 1..b.p.count THEN v ELSE 0
             /\ OpenIsTunable(r)
             /\ b.t.st # "CYCLING" => ~r.t.open
             /\ b.t.st = "CYCLING" /\ b.t.visible \in 1..b.p.count => Fits(r)
<1> DEFINE w == IF v \in 1..b.p.count THEN v ELSE 0
           c == [b EXCEPT !.p.shown = w]
           p2 == [b.p EXCEPT !.shown = w]
<1>1. Shown(b, v) = Refreshed(c)
      BY DEF Shown
<1>2. b.t \in Tabs /\ b.p \in Documents /\ w \in 0..MaxVariants
      BY ChoiceTypes DEF Pairs
<1>3. c = [t |-> b.t, p |-> p2]
      BY DEF Pairs
<1> HIDE DEF w
<1>4. /\ p2 \in Documents /\ p2.shown = w /\ p2.mount = b.p.mount
      /\ p2.count = b.p.count
      BY <1>2 DEF Documents
<1> HIDE DEF p2, c
<1>5. c \in Pairs /\ c.t = b.t /\ c.p = p2
      BY <1>2, <1>3, <1>4 DEF Pairs
<1> DEFINE r == Refreshed(c)
<1>6. /\ r \in Pairs /\ Keeps(r, c) /\ r.p.shown = w
      /\ OpenIsTunable(r)
      /\ b.t.st # "CYCLING" => ~r.t.open
      /\ b.t.st = "CYCLING" /\ b.t.visible \in 1..b.p.count => Fits(r)
      BY <1>4, <1>5, RefreshedFacts
<1> HIDE DEF r
<1>7. Keeps(r, b)
      BY <1>4, <1>5, <1>6 DEF Keeps
<1>8. QED BY <1>1, <1>6, <1>7 DEF w, r

\* A queued checkpoint is a timer and nothing else.
LEMMA QueuedForm ==
  ASSUME NEW b \in Pairs
  PROVE  Queued(b) = [t |-> [b.t EXCEPT !.timer = TRUE], p |-> b.p]
<1> DEFINE x == [b.t EXCEPT !.timer = TRUE]
<1>1. Queued(b) = [b EXCEPT !.t = [@ EXCEPT !.timer = TRUE]]
      BY DEF Queued, Pairs
<1>2. Queued(b) = [b EXCEPT !.t = x]
      BY <1>1
<1> HIDE DEF x
<1>3. Queued(b) = [t |-> x, p |-> b.p]
      BY <1>2 DEF Pairs
<1>4. QED BY <1>3 DEF x

\* A saved session remembers the variant the tab believes in.
LEMMA SavedForm ==
  ASSUME NEW b \in Pairs
  PROVE  Saved(b) = [t |-> [b.t EXCEPT !.saved = b.t.visible], p |-> b.p]
  BY DEF Saved, Pairs

\* Both stay within the types.
LEMMA SavedFacts ==
  ASSUME NEW b \in Pairs
  PROVE  /\ Queued(Saved(b)) \in Pairs /\ Saved(b) \in Pairs
         /\ Queued(b) \in Pairs
<1>1. b.t \in Tabs /\ b.p \in Documents
      BY DEF Pairs
<1> DEFINE t1 == [b.t EXCEPT !.saved = b.t.visible]
           t2 == [b.t EXCEPT !.timer = TRUE]
           s == Saved(b)
           t3 == [s.t EXCEPT !.timer = TRUE]
<1>2. t1 \in Tabs /\ t2 \in Tabs
      BY <1>1 DEF Tabs
<1> HIDE DEF t1, t2, s
<1>3. s = [t |-> t1, p |-> b.p] /\ Queued(b) = [t |-> t2, p |-> b.p]
      BY QueuedForm, SavedForm DEF t1, t2, s
<1>4. s \in Pairs /\ Queued(b) \in Pairs
      BY <1>1, <1>2, <1>3 DEF Pairs
<1>5. t3 \in Tabs /\ s.p \in Documents
      BY <1>4 DEF Tabs, Pairs
<1> HIDE DEF t3
<1>6. Queued(s) = [t |-> t3, p |-> s.p]
      BY <1>4, QueuedForm DEF t3
<1>7. Queued(s) \in Pairs
      BY <1>5, <1>6 DEF Pairs
<1>8. QED BY <1>4, <1>7 DEF s

\* What the observer makes of a count that has grown.
Grown(r, b, n) ==
  /\ OpenIsTunable(r)
  /\ r.t.arrived = n /\ r.t.timer = TRUE
  /\ r.t.visible \in 1..n /\ r.t.saved = r.t.visible
  /\ b.t.visible # 0 => r.t.visible = b.t.visible
  /\ r.t.pending = b.t.pending /\ r.t.calling = b.t.calling
  /\ r.p.count = n
  /\ r.p.shown = IF b.t.visible = 0 THEN r.t.visible ELSE b.p.shown
  /\ r.t.st = IF n = MaxVariants THEN "CYCLING" ELSE "GENERATING"
  /\ n = MaxVariants => Fits(r)
  /\ n # MaxVariants => ~r.t.open

\* The observer counts n variants and has one of them chosen and saved.
LEMMA ObservedFacts ==
  ASSUME NEW b \in Pairs, NEW n \in Variants, b.t.st = "GENERATING",
         b.p.count = n, b.t.visible \in 0..n, tab \in Tabs, b.t.open = FALSE
  PROVE  Observed(b, n) \in Pairs /\ Grown(Observed(b, n), b, n)
<1> DEFINE first == b.t.visible = 0
           w == IF first THEN SavedOr1(n) ELSE b.t.visible
           t1 == [b.t EXCEPT !.arrived = n, !.visible = w]
           one == [t |-> t1, p |-> b.p]
           two == IF first THEN Shown(one, w) ELSE one
           t3 == [two.t EXCEPT !.st = "CYCLING"]
           thr == [t |-> t3, p |-> two.p]
           all == IF n = MaxVariants THEN Refreshed(thr) ELSE two
<1>1. b.t \in Tabs /\ b.p \in Documents /\ n \in 1..MaxVariants
      /\ MaxVariants \in Nat
      BY ChoiceTypes DEF Pairs, Variants
<1>2. w \in 1..n /\ w \in 0..MaxVariants /\ n \in 0..MaxVariants
      BY <1>1 DEF SavedOr1
<1> HIDE DEF w
<1>3. /\ t1 \in Tabs /\ t1.arrived = n /\ t1.visible = w /\ t1.st = "GENERATING"
      /\ t1.saved = b.t.saved /\ t1.timer = b.t.timer /\ t1.open = b.t.open
      /\ t1.pending = b.t.pending /\ t1.calling = b.t.calling
      BY <1>1, <1>2 DEF Tabs
<1> HIDE DEF t1
<1>4. one \in Pairs /\ one.t = t1 /\ one.p = b.p
      BY <1>1, <1>3 DEF Pairs
<1>5. /\ two \in Pairs /\ two.t.arrived = n /\ two.t.visible = w
      /\ two.t.st = "GENERATING"
      /\ two.t.pending = b.t.pending /\ two.t.calling = b.t.calling
      /\ two.p.mount = b.p.mount /\ two.p.count = n
      /\ two.p.shown = IF first THEN w ELSE b.p.shown
      /\ ~two.t.open
      <2>1. CASE first
            <3> HIDE DEF one
            <3> DEFINE r == Shown(one, w)
            <3>1. /\ r \in Pairs /\ Keeps(r, one)
                  /\ r.p.shown = IF w \in 1..one.p.count THEN w ELSE 0
                  /\ one.t.st # "CYCLING" => ~r.t.open
                  BY <1>2, <1>4, ShownFacts
            <3>2. two = r
                  BY <1>3, <1>4, <2>1
            <3> HIDE DEF r, two
            <3>3. QED BY <1>2, <1>3, <1>4, <2>1, <3>1, <3>2 DEF Keeps
      <2>2. CASE ~first
            BY <1>3, <1>4, <2>2
      <2>3. QED BY <2>1, <2>2
<1>6. Observed(b, n) = Queued(Saved(all))
      <2> DEFINE c == [b EXCEPT !.t.arrived = n]
                 x == [b.t EXCEPT !.arrived = n]
      <2>1. c = [t |-> x, p |-> b.p]
            BY DEF Pairs
      <2>2. x.visible = b.t.visible /\ t1 = [x EXCEPT !.visible = w]
            BY <1>1 DEF Tabs, t1
      <2> HIDE DEF x, c
      <2>3. one = [c EXCEPT !.t.visible = w]
            BY <2>1, <2>2
      <2>4. one = [b EXCEPT !.t.arrived = n, !.t.visible = w]
            BY <2>3 DEF c
      <2>5. thr = [two EXCEPT !.t.st = "CYCLING"]
            <3> HIDE DEF two
            <3>1. QED BY <1>5 DEF Pairs
      <2> HIDE DEF one, thr
      <2>6. QED BY <2>4, <2>5 DEF Observed, w
<1> HIDE DEF one, two, first
<1>7. /\ t3 \in Tabs /\ t3.st = "CYCLING" /\ t3.arrived = n /\ t3.visible = w
      /\ t3.pending = b.t.pending /\ t3.calling = b.t.calling
      BY <1>5 DEF Tabs, Pairs
<1> HIDE DEF t3
<1>8. thr \in Pairs /\ thr.t = t3 /\ thr.p = two.p
      BY <1>5, <1>7 DEF Pairs
<1> HIDE DEF thr
<1>9. /\ all \in Pairs /\ all.t.arrived = n /\ all.t.visible = w
      /\ all.t.pending = b.t.pending /\ all.t.calling = b.t.calling
      /\ all.p.mount = b.p.mount /\ all.p.count = n
      /\ all.p.shown = IF b.t.visible = 0 THEN w ELSE b.p.shown
      /\ all.t.st = IF n = MaxVariants THEN "CYCLING" ELSE "GENERATING"
      /\ n = MaxVariants => Fits(all) /\ OpenIsTunable(all)
      /\ n # MaxVariants => ~all.t.open
      <2>1. CASE n = MaxVariants
            <3> DEFINE r == Refreshed(thr)
            <3>1. /\ r \in Pairs /\ Keeps(r, thr) /\ r.p.shown = thr.p.shown
                  /\ OpenIsTunable(r)
                  /\ thr.t.st = "CYCLING" /\ thr.t.visible \in 1..thr.p.count => Fits(r)
                  BY <1>8, RefreshedFacts
            <3>2. all = r
                  BY <2>1
            <3> HIDE DEF r, all
            <3>3. QED
                  BY <1>2, <1>5, <1>7, <1>8, <2>1, <3>1, <3>2 DEF Keeps, first
      <2>2. CASE n # MaxVariants
            <3>1. all = two
                  BY <2>2
            <3> HIDE DEF all
            <3>2. QED BY <1>5, <2>2, <3>1 DEF first
      <2>3. QED BY <2>1, <2>2
<1> HIDE DEF all
<1>10. /\ Saved(all) \in Pairs /\ Queued(Saved(all)) \in Pairs
       /\ all.t \in Tabs /\ all.p \in Documents
       BY <1>9, SavedFacts DEF Pairs
<1> DEFINE s == Saved(all)
           r == Queued(s)
<1>11. s = [t |-> [all.t EXCEPT !.saved = w], p |-> all.p]
       BY <1>9, SavedForm
<1>12. /\ s.p = all.p /\ s.t.saved = w /\ s.t.arrived = n /\ s.t.visible = w
       /\ s.t.values = all.t.values /\ s.t.panel = all.t.panel
       /\ s.t.open = all.t.open /\ s.t.st = all.t.st
       /\ s.t.pending = all.t.pending /\ s.t.calling = all.t.calling
       BY <1>9, <1>10, <1>11 DEF Tabs
<1> HIDE DEF s
<1>13. r = [t |-> [s.t EXCEPT !.timer = TRUE], p |-> s.p] /\ s.t \in Tabs
       BY <1>10, QueuedForm DEF s, Pairs
<1>14. /\ r.p = s.p /\ r.t.timer = TRUE /\ r.t.saved = s.t.saved
       /\ r.t.arrived = s.t.arrived /\ r.t.visible = s.t.visible
       /\ r.t.values = s.t.values /\ r.t.panel = s.t.panel
       /\ r.t.open = s.t.open /\ r.t.st = s.t.st
       /\ r.t.pending = s.t.pending /\ r.t.calling = s.t.calling
       BY <1>13 DEF Tabs
<1>15. r \in Pairs /\ Observed(b, n) = r
       BY <1>6, <1>10 DEF s
<1> HIDE DEF r
<1>16. /\ n = MaxVariants => Fits(r)
       /\ OpenIsTunable(all) => OpenIsTunable(r)
       BY <1>9, <1>12, <1>14 DEF Fits, MirrorOf, OpenIsTunable, At
<1>17. /\ OpenIsTunable(r)
       /\ n # MaxVariants => ~r.t.open
       BY <1>9, <1>12, <1>14, <1>16 DEF OpenIsTunable
<1>18. /\ r.t.arrived = n /\ r.t.visible = w /\ r.t.saved = w
       /\ r.t.pending = b.t.pending /\ r.t.calling = b.t.calling
       /\ r.p.mount = b.p.mount /\ r.p.count = n
       /\ r.p.shown = IF b.t.visible = 0 THEN w ELSE b.p.shown
       /\ r.t.st = IF n = MaxVariants THEN "CYCLING" ELSE "GENERATING"
       BY <1>9, <1>12, <1>14
<1>19. b.t.visible # 0 => w = b.t.visible
       BY DEF w, first
<1>20. Grown(r, b, n)
       BY <1>2, <1>14, <1>15, <1>16, <1>9, <1>17, <1>18, <1>19 DEF Grown
<1>21. QED BY <1>15, <1>20

-----------------------------------------------------------------------------
\* The counts of the tab and of the page agree, a variant is chosen and shown
\* as soon as there is one, and a session is being decided exactly when all of
\* them are there.
CountedIn(b) ==
  /\ b.p.count = b.t.arrived /\ b.p.shown <= b.p.count
  /\ b.t.visible <= b.t.arrived
  /\ (b.p.shown > 0) <=> (b.p.count > 0)
  /\ (b.t.visible > 0) <=> (b.t.arrived > 0)
  /\ IF b.t.st = "GENERATING" THEN b.t.arrived < MaxVariants /\ ~b.t.open
     ELSE b.t.arrived = MaxVariants
  /\ b.t.st = "GENERATING" => b.t.pending = NoValues
  /\ b.t.calling => b.t.st \in {"CYCLING", "SAVING"}
  /\ b.t.open => b.t.panel.variant \in Tunable /\ b.t.st # "OVER"

\* The page shows what the tab believes, with its values once it is decided.
AgreedIn(b) ==
  /\ b.t.visible > 0 => b.p.shown = b.t.visible
  /\ b.t.st \in {"CYCLING", "SAVING"} => Fits(b)

\* What is chosen is saved, and reported or about to be.
ReportedIn(b, heard) ==
  b.t.st \in {"CYCLING", "SAVING"} =>
    /\ b.t.saved = b.t.visible
    /\ b.t.timer = FALSE => heard = [visible |-> b.t.visible, values |-> b.t.values]

Silent == {"remount"} \cup Unreported

TuningInv ==
  /\ Both \in Pairs /\ tab.st # "IDLE"
  /\ CountedIn(Both)
  /\ "remount" \notin parted => AgreedIn(Both)
  /\ parted \cap Silent = {} => ReportedIn(Both, server)
  /\ AcceptedAsShown

\* The pair is the tab and the page.
LEMMA BothParts ==
  ASSUME Both \in Pairs
  PROVE  tab \in Tabs /\ page \in Documents /\ Both.t = tab /\ Both.p = page
  BY DEF Both, Pairs

\* So is the next pair.
LEMMA NextParts ==
  ASSUME tab' \in Tabs, page' \in Documents
  PROVE  Both' \in Pairs /\ Both'.t = tab' /\ Both'.p = page'
  BY DEF Both, Pairs

\* A step that comes to the pair r.
LEMMA BecomesPair ==
  ASSUME NEW r \in Pairs, tab' = r.t, page' = r.p
  PROVE  Both' = r
  BY DEF Both, Pairs

\* What was accepted stays so while nothing of it is touched.
LEMMA AcceptedStays ==
  ASSUME AcceptedAsShown, tab'.pending = tab.pending, looked' = looked,
         \/ tab'.st # "SAVING"
         \/ tab.st = "SAVING" /\ page'.shown = page.shown
              /\ page'.knobs = page.knobs /\ parted \subseteq parted'
         \/ "remount" \in parted' \/ "late knob" \in parted'
  PROVE  AcceptedAsShown'
  BY DEF AcceptedAsShown

\* A step that leaves the choice alone: it may close the panel, end a call
\* or make a report due.
LEMMA QuietStep ==
  ASSUME TuningInv, tab' \in Tabs, page' = page, UNCHANGED <<server, looked, parted>>,
         tab'.st = tab.st, tab'.arrived = tab.arrived,
         tab'.visible = tab.visible, tab'.saved = tab.saved,
         tab'.values = tab.values, tab'.panel = tab.panel,
         tab'.pending = tab.pending, tab'.timer = tab.timer,
         tab'.open \in {FALSE, tab.open}, tab'.calling \in {FALSE, tab.calling}
  PROVE  TuningInv'
<1>1. /\ Both' \in Pairs /\ Both'.t = tab' /\ Both'.p = page
      /\ tab \in Tabs /\ page \in Documents /\ Both.t = tab /\ Both.p = page
      BY BothParts, NextParts DEF TuningInv
<1>2. CountedIn(Both')
      BY <1>1 DEF TuningInv, CountedIn
<1>3. "remount" \notin parted' => AgreedIn(Both')
      BY <1>1 DEF TuningInv, AgreedIn, Fits, MirrorOf
<1>4. parted' \cap Silent = {} => ReportedIn(Both', server')
      BY <1>1 DEF TuningInv, ReportedIn
<1>5. AcceptedAsShown'
      BY AcceptedStays DEF TuningInv
<1>6. QED BY <1>1, <1>2, <1>3, <1>4, <1>5 DEF TuningInv

\* A step that comes to a sound pair keeps the invariant.
LEMMA StepInv ==
  ASSUME NEW r \in Pairs, tab' = r.t, page' = r.p, r.t.st # "IDLE",
         CountedIn(r), "remount" \notin parted' => AgreedIn(r),
         parted' \cap Silent = {} => ReportedIn(r, server'), AcceptedAsShown'
  PROVE  TuningInv'
  BY BecomesPair DEF TuningInv

-----------------------------------------------------------------------------
(* The steps around the choice.                                            *)

\* "done" only starts a fetch.
LEMMA DoneStep == TuningInv /\ Done => TuningInv'
<1> SUFFICES ASSUME TuningInv, Done PROVE TuningInv'
    OBVIOUS
<1>1. tab' = [tab EXCEPT !.fetching = TRUE] /\ page' = page
      /\ parted' = parted /\ UNCHANGED <<server, looked>>
      BY DEF Done, Becomes, Both
<1>2. tab \in Tabs
      BY BothParts DEF TuningInv
<1>3. tab' \in Tabs
      BY <1>1, <1>2 DEF Tabs
<1>4. QED BY <1>1, <1>2, <1>3, QuietStep DEF Tabs

\* A failed fetch only ends.
LEMMA SourceFailsStep == TuningInv /\ SourceFails => TuningInv'
<1> SUFFICES ASSUME TuningInv, SourceFails PROVE TuningInv'
    OBVIOUS
<1>1. tab' = [tab EXCEPT !.fetching = FALSE] /\ page' = page
      /\ parted' = parted /\ UNCHANGED <<server, looked>>
      BY DEF SourceFails, Becomes, Both
<1>2. tab \in Tabs
      BY BothParts DEF TuningInv
<1>3. tab' \in Tabs
      BY <1>1, <1>2 DEF Tabs
<1>4. QED BY <1>1, <1>2, <1>3, QuietStep DEF Tabs

\* Closing the popover chooses nothing.
LEMMA CloseTunePopoverStep == TuningInv /\ CloseTunePopover => TuningInv'
<1> SUFFICES ASSUME TuningInv, CloseTunePopover PROVE TuningInv'
    OBVIOUS
<1>1. tab' = [tab EXCEPT !.open = FALSE] /\ page' = page
      /\ parted' = parted /\ UNCHANGED <<server, looked>>
      BY DEF CloseTunePopover, Becomes, Both
<1>2. tab \in Tabs
      BY BothParts DEF TuningInv
<1>3. tab' \in Tabs
      BY <1>1, <1>2 DEF Tabs
<1>4. QED BY <1>1, <1>2, <1>3, QuietStep DEF Tabs

\* The answer to an accept chooses nothing.
LEMMA AcceptAnsweredStep == TuningInv /\ AcceptAnswered => TuningInv'
<1> SUFFICES ASSUME TuningInv, AcceptAnswered PROVE TuningInv'
    OBVIOUS
<1>1. tab' = [tab EXCEPT !.calling = FALSE] /\ page' = page
      /\ parted' = parted /\ UNCHANGED <<server, looked>>
      BY DEF AcceptAnswered, Becomes, Both
<1>2. tab \in Tabs
      BY BothParts DEF TuningInv
<1>3. tab' \in Tabs
      BY <1>1, <1>2 DEF Tabs
<1>4. QED BY <1>1, <1>2, <1>3, QuietStep DEF Tabs

\* An Apply of copy edits only closes the popover and holds the controls.
LEMMA ApplyStep == TuningInv /\ (ApplyStarts \/ ApplyEnds) => TuningInv'
<1>1. ASSUME TuningInv, ApplyStarts PROVE TuningInv'
  <2>1. tab' = [Both EXCEPT !.t.applying = TRUE, !.t.open = FALSE].t
        /\ page' = [Both EXCEPT !.t.applying = TRUE, !.t.open = FALSE].p
        BY <1>1 DEF ApplyStarts, Becomes
  <2>2. tab' = [tab EXCEPT !.applying = TRUE, !.open = FALSE] /\ page' = page
        /\ parted' = parted /\ UNCHANGED <<server, looked>>
        BY <1>1, <2>1 DEF ApplyStarts, Becomes, Both
  <2>3. tab \in Tabs
        BY <1>1, BothParts DEF TuningInv
  <2>4. tab' \in Tabs
        BY <2>2, <2>3 DEF Tabs
  <2>5. QED BY <1>1, <2>2, <2>3, <2>4, QuietStep DEF Tabs
<1>2. ASSUME TuningInv, ApplyEnds PROVE TuningInv'
  <2>1. tab' = [tab EXCEPT !.applying = FALSE] /\ page' = page
        /\ parted' = parted /\ UNCHANGED <<server, looked>>
        BY <1>2 DEF ApplyEnds, Becomes, Both
  <2>2. tab \in Tabs
        BY <1>2, BothParts DEF TuningInv
  <2>3. tab' \in Tabs
        BY <2>1, <2>2 DEF Tabs
  <2>4. QED BY <1>2, <2>1, <2>2, <2>3, QuietStep DEF Tabs
<1>3. QED BY <1>1, <1>2

\* A checkpoint reports what the tab holds, or is lost and said to be.
LEMMA CheckpointSentStep == TuningInv /\ CheckpointSent => TuningInv'
<1> SUFFICES ASSUME TuningInv, CheckpointSent PROVE TuningInv'
    OBVIOUS
<1>1. /\ tab' = [tab EXCEPT !.timer = FALSE] /\ page' = page /\ looked' = looked
      /\ \/ /\ server' = [visible |-> tab.visible, values |-> tab.values]
            /\ parted' = parted
         \/ parted' = parted \cup {"lost"} /\ server' = server
      BY DEF CheckpointSent
<1>2. tab \in Tabs /\ page \in Documents /\ Both.t = tab /\ Both.p = page
      BY BothParts DEF TuningInv
<1>3. tab' \in Tabs
      BY <1>1, <1>2 DEF Tabs
<1>4. Both' \in Pairs /\ Both'.t = tab' /\ Both'.p = page
      BY <1>1, <1>2, <1>3, NextParts
<1>5. /\ tab'.st = tab.st /\ tab'.arrived = tab.arrived
      /\ tab'.visible = tab.visible /\ tab'.saved = tab.saved
      /\ tab'.values = tab.values /\ tab'.panel = tab.panel
      /\ tab'.pending = tab.pending /\ tab'.open = tab.open
      /\ tab'.calling = tab.calling
      BY <1>1, <1>2 DEF Tabs
<1>6. CountedIn(Both')
      BY <1>2, <1>4, <1>5 DEF TuningInv, CountedIn
<1>7. "remount" \notin parted' => AgreedIn(Both')
      BY <1>1, <1>2, <1>4, <1>5 DEF TuningInv, AgreedIn, Fits, MirrorOf
<1>8. parted' \cap Silent = {} => ReportedIn(Both', server')
      <2> SUFFICES ASSUME parted' \cap Silent = {}
                   PROVE  ReportedIn(Both', server')
          OBVIOUS
      <2>1. /\ server' = [visible |-> tab.visible, values |-> tab.values]
            /\ parted' = parted
            BY <1>1 DEF Silent, Unreported
      <2>2. QED BY <1>2, <1>4, <1>5, <2>1 DEF TuningInv, ReportedIn
<1>9. AcceptedAsShown'
      BY <1>1, <1>5, AcceptedStays DEF TuningInv, AcceptedAsShown
<1>10. QED BY <1>1, <1>4, <1>5, <1>6, <1>7, <1>8, <1>9 DEF TuningInv

\* A failed accept goes back to deciding on the variant it took.
LEMMA AcceptFailsStep == TuningInv /\ AcceptFails => TuningInv'
<1> SUFFICES ASSUME TuningInv, AcceptFails PROVE TuningInv'
    OBVIOUS
<1> DEFINE r == [Both EXCEPT !.t.calling = FALSE, !.t.st = "CYCLING",
                             !.t.pending = NoValues]
<1>1. tab' = r.t /\ page' = r.p /\ parted' = parted
      /\ UNCHANGED <<server, looked>> /\ tab.calling
      BY DEF AcceptFails, Becomes
<1>2. tab' = [tab EXCEPT !.calling = FALSE, !.st = "CYCLING", !.pending = NoValues]
      /\ page' = page
      BY <1>1 DEF Both
<1>3. tab \in Tabs /\ page \in Documents /\ Both.t = tab /\ Both.p = page
      BY BothParts DEF TuningInv
<1>4. /\ tab' \in Tabs
      /\ tab'.st = "CYCLING" /\ tab'.arrived = tab.arrived
      /\ tab'.visible = tab.visible /\ tab'.saved = tab.saved
      /\ tab'.values = tab.values /\ tab'.panel = tab.panel
      /\ tab'.pending = NoValues /\ tab'.open = tab.open
      /\ tab'.calling = FALSE /\ tab'.timer = tab.timer
      BY <1>2, <1>3, ChoiceTypes DEF Tabs
<1>5. Both' \in Pairs /\ Both'.t = tab' /\ Both'.p = page
      BY <1>2, <1>3, <1>4, NextParts
<1>6. tab.st \in {"CYCLING", "SAVING"}
      BY <1>1, <1>3 DEF TuningInv, CountedIn
<1>7. CountedIn(Both')
      BY <1>3, <1>4, <1>5, <1>6 DEF TuningInv, CountedIn
<1>8. "remount" \notin parted' => AgreedIn(Both')
      BY <1>1, <1>3, <1>4, <1>5, <1>6 DEF TuningInv, AgreedIn, Fits, MirrorOf
<1>9. parted' \cap Silent = {} => ReportedIn(Both', server')
      BY <1>1, <1>3, <1>4, <1>5, <1>6 DEF TuningInv, ReportedIn
<1>10. AcceptedAsShown'
      BY <1>4 DEF AcceptedAsShown
<1>11. QED BY <1>4, <1>5, <1>7, <1>8, <1>9, <1>10 DEF TuningInv

\* The end of an accept keeps what was accepted.
LEMMA CompleteStep == TuningInv /\ Complete => TuningInv'
<1> SUFFICES ASSUME TuningInv, Complete PROVE TuningInv'
    OBVIOUS
<1> DEFINE r == [Both EXCEPT !.t.st = "OVER", !.t.open = FALSE,
                             !.t.timer = FALSE, !.t.fetching = FALSE]
<1>1. tab' = r.t /\ page' = r.p /\ parted' = parted
      /\ UNCHANGED <<server, looked>> /\ tab.calling = FALSE
      /\ tab.pending # NoValues
      BY BothParts DEF Complete, Becomes, TuningInv, Tabs
<1>2. tab' = [tab EXCEPT !.st = "OVER", !.open = FALSE, !.timer = FALSE,
                         !.fetching = FALSE]
      /\ page' = page
      BY <1>1 DEF Both
<1>3. tab \in Tabs /\ page \in Documents /\ Both.t = tab /\ Both.p = page
      BY BothParts DEF TuningInv
<1>4. /\ tab' \in Tabs
      /\ tab'.st = "OVER" /\ tab'.arrived = tab.arrived
      /\ tab'.visible = tab.visible /\ tab'.saved = tab.saved
      /\ tab'.values = tab.values /\ tab'.panel = tab.panel
      /\ tab'.pending = tab.pending /\ tab'.open = FALSE
      /\ tab'.calling = FALSE
      BY <1>1, <1>2, <1>3 DEF Tabs
<1>5. Both' \in Pairs /\ Both'.t = tab' /\ Both'.p = page
      BY <1>2, <1>3, <1>4, NextParts
<1>6. CountedIn(Both')
      BY <1>1, <1>3, <1>4, <1>5 DEF TuningInv, CountedIn
<1>7. "remount" \notin parted' => AgreedIn(Both')
      BY <1>1, <1>3, <1>4, <1>5 DEF TuningInv, AgreedIn
<1>8. parted' \cap Silent = {} => ReportedIn(Both', server')
      BY <1>4, <1>5 DEF ReportedIn
<1>9. AcceptedAsShown'
      BY <1>1, <1>4, AcceptedStays DEF TuningInv
<1>10. QED BY <1>4, <1>5, <1>6, <1>7, <1>8, <1>9 DEF TuningInv

\* An accept takes the variant the page shows with the values it shows.
LEMMA AcceptStep == TuningInv /\ Accept => TuningInv'
<1> SUFFICES ASSUME TuningInv, Accept PROVE TuningInv'
    OBVIOUS
<1> DEFINE v == IF page.shown > 0 THEN page.shown ELSE tab.visible
           k == tab.values.knob
<1>1. /\ tab.st = "CYCLING" /\ tab.arrived > 0
      /\ tab' = [tab EXCEPT !.st = "SAVING", !.visible = v, !.calling = TRUE,
                            !.pending = At(v, k)]
      /\ looked'.at = At(page.shown, IF page.shown \in Tunable
                                     THEN page.knobs[page.shown] ELSE "default")
      /\ looked'.remounted = ("remount" \in parted)
      /\ UNCHANGED <<page, server, parted>>
      BY DEF Accept
<1>2. tab \in Tabs /\ page \in Documents /\ Both.t = tab /\ Both.p = page
      BY BothParts DEF TuningInv
<1>3. page.shown > 0 /\ page.shown \in 1..MaxVariants /\ v = page.shown
      /\ v \in 0..MaxVariants /\ k \in Knobs
      BY <1>1, <1>2, ChoiceTypes DEF TuningInv, CountedIn, Documents, Tabs, ValueSets
<1> HIDE DEF v, k
<1>4. At(v, k) \in ValueSets
      BY <1>3, ChoiceTypes
<1>5. /\ tab' \in Tabs
      /\ tab'.st = "SAVING" /\ tab'.arrived = tab.arrived
      /\ tab'.visible = v /\ tab'.saved = tab.saved
      /\ tab'.values = tab.values /\ tab'.panel = tab.panel
      /\ tab'.pending = At(v, k) /\ tab'.open = tab.open
      /\ tab'.timer = tab.timer
      BY <1>1, <1>2, <1>3, <1>4 DEF Tabs
<1>6. Both' \in Pairs /\ Both'.t = tab' /\ Both'.p = page
      BY <1>1, <1>2, <1>5, NextParts
<1>7. CountedIn(Both')
      BY <1>1, <1>2, <1>3, <1>5, <1>6, ChoiceTypes DEF TuningInv, CountedIn, Documents, Tabs
<1>8. ASSUME "remount" \notin parted
      PROVE  v = tab.visible /\ tab.values = MirrorOf(Both)
      BY <1>1, <1>2, <1>3, <1>8 DEF TuningInv, AgreedIn, Fits, CountedIn, Tabs, Documents
<1>9. "remount" \notin parted' => AgreedIn(Both')
      BY <1>1, <1>2, <1>3, <1>5, <1>6, <1>8 DEF TuningInv, AgreedIn, Fits, MirrorOf
<1>10. parted' \cap Silent = {} => ReportedIn(Both', server')
      BY <1>1, <1>2, <1>5, <1>6, <1>8 DEF TuningInv, ReportedIn, Silent
<1>11. ASSUME "remount" \notin parted
       PROVE  k = IF page.shown \in Tunable THEN page.knobs[page.shown] ELSE "default"
       BY <1>2, <1>3, <1>8, <1>11 DEF MirrorOf, At, NoValues, k
<1>12. ~looked'.remounted => "remount" \notin parted
      BY <1>1
<1>13. /\ tab'.pending.variant = looked'.at.variant
      BY <1>1, <1>3, <1>5 DEF At
<1>14. ~looked'.remounted => tab'.pending = looked'.at
      BY <1>1, <1>3, <1>5, <1>11, <1>12 DEF At
<1>15. ASSUME page'.shown \in Tunable, parted' \cap {"remount", "late knob"} = {}
      PROVE  page'.knobs[page'.shown] = tab'.pending.knob
      <2>1. "remount" \notin parted
            BY <1>1, <1>15
      <2>2. tab'.pending.knob = k
            BY <1>5 DEF At
      <2>3. page' = page
            BY <1>1
      <2>4. QED BY <1>15, <1>11, <2>1, <2>2, <2>3
<1>16. AcceptedAsShown'
      BY <1>13, <1>14, <1>15 DEF AcceptedAsShown
<1>17. QED BY <1>5, <1>6, <1>7, <1>9, <1>10, <1>16 DEF TuningInv

-----------------------------------------------------------------------------
(* The steps that draw the page anew.                                      *)

\* A wrapper drawn anew shows its first variant.
LEMMA RenderedFacts ==
  ASSUME TuningInv, page.mount < MaxMounts, NEW n \in 0..MaxVariants
  PROVE  LET d == Rendered(n)
         IN  /\ d \in Documents /\ d.count = n
             /\ d.shown = IF n = 0 THEN 0 ELSE 1
<1>1. page.mount \in Nat /\ MaxVariants \in Nat \ {0} /\ MaxMounts \in Nat
      BY BothParts, ChoiceTypes DEF TuningInv, Documents
<1> DEFINE knobs == [v \in Variants |-> "plain"]
<1>2. knobs \in [Variants -> Knobs]
      BY DEF Knobs
<1>3. page.mount + 1 \in 0..MaxMounts
      BY <1>1
<1>4. n = 0 \/ 1 \in 0..MaxVariants
      BY <1>1
<1> HIDE DEF knobs
<1>5. Rendered(n) = [mount |-> page.mount + 1, count |-> n,
                     shown |-> IF n = 0 THEN 0 ELSE 1, knobs |-> knobs]
      BY DEF Rendered, knobs
<1>6. QED BY <1>1, <1>2, <1>3, <1>4, <1>5 DEF Documents

\* A wrapper drawn anew parts the page from the tab, and is said to.
LEMMA RemountStep == TuningInv /\ Remount => TuningInv'
<1> SUFFICES ASSUME TuningInv, Remount PROVE TuningInv'
    OBVIOUS
<1> DEFINE d == Rendered(page.count)
           r == [t |-> tab, p |-> d]
<1>1. tab \in Tabs /\ page \in Documents /\ Both.t = tab /\ Both.p = page
      BY BothParts DEF TuningInv
<1>2. page.count \in 0..MaxVariants /\ page.count > 0 /\ page.mount < MaxMounts
      BY <1>1 DEF Remount, Documents
<1>3. d \in Documents /\ d.count = page.count /\ d.shown = 1
      BY <1>2, RenderedFacts
<1>4. tab' = r.t /\ page' = r.p /\ "remount" \in parted'
      /\ UNCHANGED <<server, looked>>
      BY DEF Remount, Becomes
<1> HIDE DEF d
<1>5. r \in Pairs
      BY <1>1, <1>3 DEF Pairs
<1>6. CountedIn(r)
      BY <1>1, <1>2, <1>3 DEF TuningInv, CountedIn
<1>7. AcceptedAsShown'
      BY <1>4, AcceptedStays DEF TuningInv
<1>8. QED BY <1>1, <1>4, <1>5, <1>6, <1>7, StepInv DEF TuningInv, Silent

\* Variants that arrive keep page and tab agreed, unless the wrapper is drawn anew under a later choice.
LEMMA ArriveStep ==
  ASSUME TuningInv, NEW n \in Variants, Arrive(n)
  PROVE  TuningInv'
<1>1. tab \in Tabs /\ page \in Documents /\ Both.t = tab /\ Both.p = page
      BY BothParts DEF TuningInv
<1>2. /\ tab.st = "GENERATING" /\ ~tab.open /\ tab.arrived < n
      /\ tab.visible \in 0..n /\ n \in 0..MaxVariants /\ n > 0
      /\ tab.pending = NoValues
      BY <1>1, ChoiceTypes DEF Arrive, TuningInv, CountedIn, Tabs, Variants
<1>3. PICK d \in Documents, parting \in SUBSET {"remount"} :
        /\ d.count = n
        /\ Becomes(Observed([t |-> tab, p |-> d], n), parting)
        /\ \/ d.shown = (IF page.count = 0 THEN 1 ELSE page.shown)
                /\ parting = {}
           \/ d.shown = 1
                /\ parting = IF tab.visible \in {0, 1} THEN {} ELSE {"remount"}
  <2> DEFINE patched == [page EXCEPT !.count = n,
                            !.shown = IF page.count = 0 THEN 1 ELSE @]
             grown == [page EXCEPT !.count = n,
                            !.shown = IF page.count = 0 THEN 1 ELSE page.shown]
  <2>1. CASE Becomes(Observed([t |-> tab, p |-> patched], n), {})
    <3>1. patched = grown
          BY <1>1 DEF Documents
    <3>2. 1 \in 0..MaxVariants
          BY ChoiceTypes
    <3>3. grown \in Documents /\ grown.count = n
          /\ grown.shown = IF page.count = 0 THEN 1 ELSE page.shown
          BY <1>1, <1>2, <3>2 DEF Documents
    <3> HIDE DEF patched, grown
    <3>4. QED BY <2>1, <3>1, <3>3
  <2>2. CASE /\ page.mount < MaxMounts
             /\ Becomes(Observed([t |-> tab, p |-> Rendered(n)], n),
                        IF tab.visible \in {0, 1} THEN {} ELSE {"remount"})
    <3> DEFINE d == Rendered(n)
    <3>1. d \in Documents /\ d.count = n /\ d.shown = 1
          BY <1>2, <2>2, RenderedFacts
    <3> HIDE DEF d
    <3>2. QED BY <2>2, <3>1 DEF d
  <2>3. QED BY <2>1, <2>2 DEF Arrive
<1> DEFINE b == [t |-> tab, p |-> d]
           r == Observed(b, n)
<1>4. b \in Pairs /\ b.t = tab /\ b.p = d
      BY <1>1 DEF Pairs
<1> HIDE DEF b
<1>5. /\ b.t.st = "GENERATING" /\ b.p.count = n /\ b.t.visible \in 0..n
      /\ b.t.open = FALSE
      BY <1>1, <1>2, <1>3, <1>4 DEF Tabs
<1>6. r \in Pairs /\ Grown(r, b, n)
      BY <1>1, <1>4, <1>5, ObservedFacts
<1> HIDE DEF r
<1>7. /\ r \in Pairs /\ OpenIsTunable(r)
      /\ r.t.arrived = n /\ r.t.timer = TRUE
      /\ r.t.visible \in 1..n /\ r.t.saved = r.t.visible
      /\ tab.visible # 0 => r.t.visible = tab.visible
      /\ r.t.pending = tab.pending /\ r.t.calling = tab.calling
      /\ r.p.count = n
      /\ r.p.shown = IF tab.visible = 0 THEN r.t.visible ELSE d.shown
      /\ r.t.st = IF n = MaxVariants THEN "CYCLING" ELSE "GENERATING"
      /\ n = MaxVariants => Fits(r)
      /\ n # MaxVariants => ~r.t.open
      BY <1>4, <1>6 DEF Grown
<1>8. /\ tab' = r.t /\ page' = r.p /\ parted' = parted \cup parting
      /\ UNCHANGED <<server, looked>>
      BY <1>3 DEF Becomes, b, r
<1>9. tab.calling = FALSE
      BY <1>1, <1>2 DEF TuningInv, CountedIn, Tabs
<1>10. r.p.shown \in 1..n
      BY <1>1, <1>2, <1>3, <1>7 DEF TuningInv, CountedIn, Documents, Tabs
<1>11. CountedIn(r)
      BY <1>2, <1>7, <1>9, <1>10, ChoiceTypes DEF CountedIn, OpenIsTunable, Variants
<1>12. "remount" \notin parted' => AgreedIn(r)
      <2> SUFFICES ASSUME "remount" \notin parted'
                   PROVE  AgreedIn(r)
          OBVIOUS
      <2>1. parting = {} /\ "remount" \notin parted
            BY <1>3, <1>8
      <2>2. r.p.shown = r.t.visible
            <3>1. CASE tab.visible = 0
                  BY <1>7, <3>1
            <3>2. CASE tab.visible # 0
                  <4>1. page.shown = tab.visible /\ page.count # 0
                        BY <1>1, <2>1, <3>2 DEF TuningInv, AgreedIn, CountedIn, Tabs, Documents
                  <4>2. tab.visible = 1 \/ d.shown = page.shown
                        BY <1>3, <2>1, <3>2, <4>1
                  <4>3. d.shown \in {1, page.shown}
                        BY <1>3, <4>1
                  <4>4. QED BY <1>3, <1>7, <3>2, <4>1, <4>2, <4>3
            <3>3. QED BY <3>1, <3>2
      <2>3. QED BY <1>7, <2>2 DEF AgreedIn
<1>13. ReportedIn(r, server')
      BY <1>7 DEF ReportedIn
<1>14. AcceptedAsShown'
      BY <1>2, <1>7, <1>8 DEF AcceptedAsShown
<1>15. r.t.st # "IDLE"
      BY <1>7
<1>16. QED BY <1>7, <1>8, <1>11, <1>12, <1>13, <1>14, <1>15, StepInv

-----------------------------------------------------------------------------
\* What saving and queueing leave alone.
SameChoice(r, b) ==
  /\ r.p = b.p /\ r.t.st = b.t.st /\ r.t.arrived = b.t.arrived
  /\ r.t.visible = b.t.visible /\ r.t.values = b.t.values
  /\ r.t.panel = b.t.panel /\ r.t.open = b.t.open
  /\ r.t.pending = b.t.pending /\ r.t.calling = b.t.calling
SavedFrom(r, b) == SameChoice(r, b) /\ r.t.saved = b.t.visible
QueuedFrom(r, b) == SameChoice(r, b) /\ r.t.saved = b.t.saved /\ r.t.timer = TRUE

\* Saving leaves the choice alone.
LEMMA SavedKeeps ==
  ASSUME NEW b \in Pairs
  PROVE  Saved(b) \in Pairs /\ SavedFrom(Saved(b), b)
<1> DEFINE r == Saved(b)
<1>1. r = [t |-> [b.t EXCEPT !.saved = b.t.visible], p |-> b.p]
      BY SavedForm
<1>2. r \in Pairs /\ b.t \in Tabs
      BY SavedFacts DEF Pairs
<1> HIDE DEF r
<1>3. SavedFrom(r, b)
      BY <1>1, <1>2 DEF SavedFrom, SameChoice, Tabs
<1>4. QED BY <1>2, <1>3 DEF r

\* Queueing leaves the choice alone.
LEMMA QueuedKeeps ==
  ASSUME NEW b \in Pairs
  PROVE  Queued(b) \in Pairs /\ QueuedFrom(Queued(b), b)
<1> DEFINE r == Queued(b)
<1>1. r = [t |-> [b.t EXCEPT !.timer = TRUE], p |-> b.p]
      BY QueuedForm
<1>2. r \in Pairs /\ b.t \in Tabs
      BY SavedFacts DEF Pairs
<1> HIDE DEF r
<1>3. QueuedFrom(r, b)
      BY <1>1, <1>2 DEF QueuedFrom, SameChoice, Tabs
<1>4. QED BY <1>2, <1>3 DEF r

\* The same choice is as sound.
LEMMA SameChoiceKeeps ==
  ASSUME NEW b \in Pairs, NEW r \in Pairs, SameChoice(r, b)
  PROVE  /\ CountedIn(b) => CountedIn(r)
         /\ AgreedIn(b) => AgreedIn(r)
  BY DEF SameChoice, CountedIn, AgreedIn, Fits, MirrorOf

\* A variant chosen while the session is being decided.
Chosen(v) == Shown([Both EXCEPT !.t.visible = v], v)
InChoice(r) == r.t.st = "CYCLING" /\ CountedIn(r) /\ AgreedIn(r)

\* Choosing a variant brings tab and page together.
LEMMA ChosenFacts ==
  ASSUME TuningInv, tab.st = "CYCLING", NEW v \in 1..tab.arrived
  PROVE  /\ Chosen(v) \in Pairs /\ InChoice(Chosen(v))
         /\ Chosen(v).t.pending = tab.pending
<1> DEFINE c == [Both EXCEPT !.t.visible = v]
           t1 == [tab EXCEPT !.visible = v]
           r == Shown(c, v)
<1>1. tab \in Tabs /\ page \in Documents /\ Both.t = tab /\ Both.p = page
      BY BothParts DEF TuningInv
<1>2. /\ tab.arrived = MaxVariants /\ page.count = MaxVariants
      /\ v \in 1..MaxVariants /\ v \in 0..MaxVariants
      /\ tab.calling => tab.st \in {"CYCLING", "SAVING"}
      BY <1>1, ChoiceTypes DEF TuningInv, CountedIn
<1>3. c = [t |-> t1, p |-> page]
      BY DEF Both
<1>4. /\ t1 \in Tabs /\ t1.visible = v /\ t1.st = "CYCLING"
      /\ t1.arrived = MaxVariants /\ t1.pending = tab.pending
      BY <1>1, <1>2 DEF Tabs
<1> HIDE DEF t1, c
<1>5. c \in Pairs /\ c.t = t1 /\ c.p = page
      BY <1>1, <1>3, <1>4 DEF Pairs
<1>6. /\ r \in Pairs /\ Keeps(r, c)
      /\ r.p.shown = IF v \in 1..c.p.count THEN v ELSE 0
      /\ OpenIsTunable(r)
      /\ c.t.st = "CYCLING" /\ c.t.visible \in 1..c.p.count => Fits(r)
      BY <1>2, <1>5, ShownFacts
<1> HIDE DEF r
<1>7. r.p.shown = v /\ Fits(r) /\ r.t.st = "CYCLING" /\ r.t.visible = v
      /\ r.t.arrived = MaxVariants /\ r.p.count = MaxVariants
      /\ r.t.pending = tab.pending
      BY <1>2, <1>4, <1>5, <1>6 DEF Keeps
<1>8. CountedIn(r)
      BY <1>2, <1>6, <1>7, ChoiceTypes DEF CountedIn, OpenIsTunable
<1>9. AgreedIn(r)
      BY <1>7 DEF AgreedIn
<1>10. QED BY <1>6, <1>7, <1>8, <1>9 DEF Chosen, InChoice, r, c

\* An arrow chooses, saves and reports.
LEMMA CycleVariantStep ==
  ASSUME TuningInv, NEW v \in Variants, CycleVariant(v)
  PROVE  TuningInv'
<1> DEFINE b == Chosen(v)
           s == Saved(b)
           r == Queued(s)
<1>1. tab.st = "CYCLING" /\ v \in 1..tab.arrived
      BY DEF CycleVariant
<1>2. b \in Pairs /\ InChoice(b) /\ b.t.pending = tab.pending
      BY <1>1, ChosenFacts
<1>3. tab' = r.t /\ page' = r.p /\ UNCHANGED <<server, looked>>
      BY DEF CycleVariant, Rejoins, Chosen
<1> HIDE DEF b
<1>4. s \in Pairs /\ SavedFrom(s, b)
      BY <1>2, SavedKeeps
<1> HIDE DEF s
<1>5. r \in Pairs /\ QueuedFrom(r, s)
      BY <1>4, QueuedKeeps
<1> HIDE DEF r
<1>6. SameChoice(r, b) /\ r.t.saved = b.t.visible /\ r.t.timer = TRUE
      BY <1>4, <1>5 DEF SavedFrom, QueuedFrom, SameChoice
<1>7. CountedIn(r) /\ AgreedIn(r)
      BY <1>2, <1>5, <1>6, SameChoiceKeeps DEF InChoice
<1>8. ReportedIn(r, server')
      BY <1>6 DEF ReportedIn, SameChoice
<1>9. r.t.st = "CYCLING" /\ r.t.pending = tab.pending
      BY <1>2, <1>6 DEF SameChoice, InChoice
<1>10. AcceptedAsShown'
      BY <1>3, <1>9, AcceptedStays DEF TuningInv
<1>11. QED BY <1>3, <1>5, <1>7, <1>8, <1>9, <1>10, StepInv

\* A dot chooses without a report.
LEMMA ClickDotStep ==
  ASSUME TuningInv, NEW v \in Variants, ClickDot(v)
  PROVE  TuningInv'
<1> DEFINE r == Chosen(v)
<1>1. tab.st = "CYCLING" /\ v \in 1..tab.arrived
      BY DEF ClickDot
<1>2. r \in Pairs /\ InChoice(r) /\ r.t.pending = tab.pending
      BY <1>1, ChosenFacts
<1>3. tab' = r.t /\ page' = r.p /\ UNCHANGED <<server, looked>>
      /\ "dot" \in parted'
      BY DEF ClickDot, Chosen
<1> HIDE DEF r
<1>4. parted' \cap Silent # {}
      BY <1>3 DEF Silent, Unreported
<1>5. AcceptedAsShown'
      BY <1>2, <1>3, AcceptedStays DEF TuningInv, InChoice
<1>6. r.t.st = "CYCLING" /\ CountedIn(r) /\ AgreedIn(r)
      BY <1>2 DEF InChoice
<1>7. QED BY <1>2, <1>3, <1>4, <1>5, <1>6, StepInv

\* The popover applies the defaults on both sides.
LEMMA OpenTunePopoverStep ==
  ASSUME TuningInv, OpenTunePopover
  PROVE  TuningInv'
<1> DEFINE d == DefaultsApplied(Both)
           r == [d EXCEPT !.t.open = TRUE]
           x == [d.t EXCEPT !.open = TRUE]
<1>1. tab \in Tabs /\ page \in Documents /\ Both.t = tab /\ Both.p = page
      /\ Both \in Pairs
      BY BothParts DEF TuningInv
<1>2. /\ tab.st = "CYCLING" /\ tab.visible \in Tunable
      BY <1>1 DEF OpenTunePopover, HasParams
<1>3. /\ d \in Pairs /\ Keeps(d, Both) /\ d.p.shown = page.shown /\ Fits(d)
      /\ OpenIsTunable(d) /\ d.t.values = At(tab.visible, "default")
      /\ d.t.panel.variant = tab.visible /\ d.t.panel.mount = d.p.mount
      /\ At(d.t.panel.variant, d.t.panel.knob) = d.t.values
      <2>1. /\ d \in Pairs /\ Keeps(d, Both) /\ d.p.shown = page.shown /\ Fits(d)
            /\ OpenIsTunable(d) /\ d.t.values = At(tab.visible, "default")
            BY <1>1, <1>2, DefaultsFacts
      <2>2. d.t.panel = [variant |-> tab.visible, knob |-> "default", mount |-> page.mount]
            BY <1>1 DEF DefaultsApplied, Tabs
      <2>3. d.p.mount = page.mount
            BY <1>1, <2>1 DEF Keeps
      <2> HIDE DEF d
      <2>4. QED BY <2>1, <2>2, <2>3 DEF At
<1>4. tab' = r.t /\ page' = r.p /\ UNCHANGED <<server, looked>>
      /\ parted' = parted \cup IF tab.values = At(tab.visible, "default") THEN {}
                               ELSE {"reopened"}
      BY DEF OpenTunePopover, Becomes
<1> HIDE DEF d
<1>5. r = [d EXCEPT !.t = x]
      BY <1>3 DEF Pairs
<1>6. /\ x \in Tabs /\ x.open = TRUE /\ x.st = d.t.st /\ x.arrived = d.t.arrived
      /\ x.visible = d.t.visible /\ x.saved = d.t.saved /\ x.values = d.t.values
      /\ x.panel = d.t.panel /\ x.timer = d.t.timer /\ x.pending = d.t.pending
      /\ x.calling = d.t.calling
      BY <1>3 DEF Tabs, Pairs
<1> HIDE DEF x, r
<1>7. r \in Pairs /\ r.t = x /\ r.p = d.p
      BY <1>3, <1>5, <1>6 DEF Pairs
<1>8. /\ x.st = "CYCLING" /\ x.arrived = tab.arrived
      /\ x.visible = tab.visible /\ x.saved = tab.saved
      /\ x.timer = tab.timer /\ x.pending = tab.pending
      /\ x.calling = tab.calling /\ r.p.count = page.count /\ r.p.shown = page.shown
      /\ r.p.mount = page.mount /\ x.values = At(tab.visible, "default")
      BY <1>1, <1>2, <1>3, <1>6, <1>7 DEF Keeps
<1>9. CountedIn(r)
      BY <1>1, <1>2, <1>3, <1>6, <1>7, <1>8 DEF CountedIn, TuningInv
<1>10. Fits(r)
      BY <1>3, <1>6, <1>7 DEF Fits, MirrorOf
<1>11. "remount" \notin parted' => AgreedIn(r)
      BY <1>1, <1>4, <1>7, <1>8, <1>10 DEF AgreedIn, TuningInv
<1>12. parted' \cap Silent = {} => ReportedIn(r, server')
      <2> SUFFICES ASSUME parted' \cap Silent = {} PROVE ReportedIn(r, server')
          OBVIOUS
      <2>1. "reopened" \notin parted'
            BY DEF Silent, Unreported
      <2>2. tab.values = At(tab.visible, "default") /\ parted' = parted
            BY <1>4, <2>1
      <2>3. ReportedIn(Both, server)
            BY <2>2 DEF TuningInv
      <2>4. QED BY <1>1, <1>2, <1>4, <1>7, <1>8, <2>2, <2>3 DEF ReportedIn
<1>13. AcceptedAsShown'
      BY <1>4, <1>7, <1>8, AcceptedStays DEF TuningInv
<1>14. QED BY <1>4, <1>7, <1>8, <1>9, <1>11, <1>12, <1>13, StepInv

\* A knob of the open panel writes the mirror and the element it was built for.
LEMMA TurnKnobStep ==
  ASSUME TuningInv, NEW k \in Knobs, TurnKnob(k)
  PROVE  TuningInv'
<1> DEFINE v == tab.panel.variant
           t2 == [tab EXCEPT !.values = At(v, k), !.panel.knob = k]
           p2 == [page EXCEPT !.knobs[v] = k]
           p3 == IF tab.panel.mount = page.mount THEN p2 ELSE page
           s == [t |-> t2, p |-> p3]
           r == Queued(s)
<1>1. tab \in Tabs /\ page \in Documents /\ Both.t = tab /\ Both.p = page
      BY BothParts DEF TuningInv
<1>2. /\ tab.open /\ tab.st \in {"CYCLING", "SAVING"} /\ v \in Tunable
      BY <1>1 DEF TurnKnob, InSession, TuningInv, CountedIn
<1>3. v \in Variants /\ v \in 0..MaxVariants /\ v # 0 /\ At(v, k) \in ValueSets
      BY <1>2, ChoiceTypes
<1>4. /\ tab' = r.t /\ page' = r.p /\ UNCHANGED <<server, looked>>
      /\ parted' = parted \cup IF tab.st = "SAVING" THEN {"late knob"} ELSE {}
      BY DEF TurnKnob, Becomes
<1> DEFINE pan == [tab.panel EXCEPT !.knob = k]
<1>5. /\ pan \in Panels /\ pan.variant = v /\ pan.mount = tab.panel.mount /\ pan.knob = k
      BY <1>1 DEF Tabs, Panels
<1> HIDE DEF pan, v
<1>6. t2 = [tab EXCEPT !.values = At(v, k), !.panel = pan]
      BY <1>1 DEF pan, Tabs
<1>7. /\ t2 \in Tabs /\ t2.open = tab.open /\ t2.st = tab.st /\ t2.arrived = tab.arrived
      /\ t2.visible = tab.visible /\ t2.saved = tab.saved /\ t2.values = At(v, k)
      /\ t2.panel = pan /\ t2.pending = tab.pending
      /\ t2.calling = tab.calling
      <2> HIDE DEF t2
      <2>1. QED BY <1>1, <1>3, <1>5, <1>6 DEF Tabs
<1>8. /\ p2 \in Documents /\ p2.count = page.count /\ p2.shown = page.shown
      /\ p2.mount = page.mount /\ p2.knobs[v] = k
      BY <1>1, <1>3 DEF Documents
<1> HIDE DEF t2, p2
<1>9. s \in Pairs /\ s.t = t2 /\ s.p = p3 /\ p3 \in Documents
       /\ p3.count = page.count /\ p3.shown = page.shown
       /\ p3.mount = page.mount
       BY <1>1, <1>7, <1>8 DEF Pairs
<1> HIDE DEF s
<1>10. r \in Pairs /\ QueuedFrom(r, s)
       BY <1>9, QueuedKeeps
<1> HIDE DEF r
<1>11. CountedIn(r)
       BY <1>1, <1>2, <1>5, <1>7, <1>9, <1>10 DEF CountedIn, TuningInv, QueuedFrom, SameChoice
<1>12. ASSUME "remount" \notin parted'
       PROVE  AgreedIn(r)
       <2>1. "remount" \notin parted
             BY <1>4, <1>12
       <2>2. AgreedIn(Both) /\ Fits(Both)
             BY <1>1, <1>2, <2>1 DEF TuningInv, AgreedIn
       <2>3. tab.panel.mount = page.mount /\ v = tab.visible
             BY <1>1, <1>2, <1>3, <2>2 DEF Fits, MirrorOf, At, NoValues, v
       <2>4. p3 = p2
             BY <2>3
       <2>5. Fits(r)
             BY <1>2, <1>5, <1>7, <1>8, <1>9, <1>10, <2>3, <2>4
                DEF Fits, MirrorOf, QueuedFrom, SameChoice
       <2>6. QED BY <1>1, <1>7, <1>9, <1>10, <2>2, <2>5
                    DEF AgreedIn, QueuedFrom, SameChoice
<1>13. parted' \cap Silent = {} => ReportedIn(r, server')
       <2>1. parted' \cap Silent = {} => parted \cap Silent = {}
             BY <1>4
       <2>2. QED BY <1>1, <1>2, <1>7, <1>9, <1>10, <2>1
                    DEF TuningInv, ReportedIn, QueuedFrom, SameChoice
<1>14. AcceptedAsShown'
       <2>1. tab'.pending = tab.pending /\ tab'.st = tab.st
             BY <1>4, <1>7, <1>9, <1>10 DEF QueuedFrom, SameChoice
       <2>2. QED BY <1>4, <2>1, AcceptedStays DEF TuningInv
<1>15. r.t.st # "IDLE"
       BY <1>2, <1>7, <1>9, <1>10 DEF QueuedFrom, SameChoice
<1>16. QED BY <1>4, <1>10, <1>11, <1>12, <1>13, <1>14, <1>15, StepInv

-----------------------------------------------------------------------------
(* The two steps that resume a session.                                    *)

\* The pair c is b in another state of the session.
Restated(c, b, st) ==
  /\ c.p = b.p /\ c.t.st = st /\ c.t.arrived = b.t.arrived
  /\ c.t.visible = b.t.visible /\ c.t.values = b.t.values
  /\ c.t.panel = b.t.panel /\ c.t.open = b.t.open
  /\ c.t.pending = b.t.pending /\ c.t.calling = b.t.calling

\* Only the state changes.
LEMMA RestatedFacts ==
  ASSUME NEW b \in Pairs, NEW st \in {"IDLE", "GENERATING", "CYCLING", "SAVING", "OVER"}
  PROVE  [b EXCEPT !.t.st = st] \in Pairs /\ Restated([b EXCEPT !.t.st = st], b, st)
<1> DEFINE c == [b EXCEPT !.t.st = st]
           x == [b.t EXCEPT !.st = st]
<1>1. c = [t |-> x, p |-> b.p]
      BY DEF Pairs
<1>2. /\ x \in Tabs /\ x.st = st /\ x.arrived = b.t.arrived
      /\ x.visible = b.t.visible /\ x.values = b.t.values /\ x.panel = b.t.panel
      /\ x.open = b.t.open /\ x.pending = b.t.pending /\ x.calling = b.t.calling
      BY DEF Pairs, Tabs
<1> HIDE DEF c, x
<1>3. c \in Pairs /\ c.t = x /\ c.p = b.p
      BY <1>1, <1>2 DEF Pairs
<1>4. Restated(c, b, st)
      BY <1>2, <1>3 DEF Restated
<1>5. QED BY <1>3, <1>4 DEF c

\* A session resumed with all its variants shows the one that it chooses.
LEMMA ResumedFacts ==
  ASSUME NEW b \in Pairs, b.t.visible \in 1..MaxVariants,
         b.t.arrived = MaxVariants, b.p.count = MaxVariants
  PROVE  LET c == [Shown(b, b.t.visible) EXCEPT !.t.st = "CYCLING"]
             r == Refreshed(c)
         IN  r \in Pairs /\ InChoice(r) /\ r.t.pending = b.t.pending
<1> DEFINE sh == Shown(b, b.t.visible)
           c == [sh EXCEPT !.t.st = "CYCLING"]
           r == Refreshed(c)
<1>1. b.t.visible \in 0..MaxVariants
      BY ChoiceTypes
<1>2. /\ sh \in Pairs /\ Keeps(sh, b)
      /\ sh.p.shown = IF b.t.visible \in 1..b.p.count THEN b.t.visible ELSE 0
      BY <1>1, ShownFacts
<1> HIDE DEF sh
<1>3. c \in Pairs /\ Restated(c, sh, "CYCLING")
      BY <1>2, RestatedFacts
<1> HIDE DEF c
<1>4. /\ r \in Pairs /\ Keeps(r, c) /\ r.p.shown = c.p.shown
      /\ OpenIsTunable(r)
      /\ c.t.st = "CYCLING" /\ c.t.visible \in 1..c.p.count => Fits(r)
      BY <1>3, RefreshedFacts
<1> HIDE DEF r
<1>5. /\ r.t.st = "CYCLING" /\ r.t.arrived = MaxVariants
      /\ r.t.visible = b.t.visible /\ r.p.count = MaxVariants
      /\ r.p.shown = b.t.visible /\ Fits(r) /\ r.t.pending = b.t.pending
      BY <1>2, <1>3, <1>4 DEF Keeps, Restated
<1>6. CountedIn(r)
      BY <1>4, <1>5, ChoiceTypes DEF CountedIn, OpenIsTunable
<1>7. AgreedIn(r)
      BY <1>5 DEF AgreedIn
<1>8. QED BY <1>4, <1>5, <1>6, <1>7 DEF InChoice, r, c, sh

\* The fetched source brings tab and page together, unreported.
LEMMA SourceInjectedStep ==
  ASSUME TuningInv, SourceInjected
  PROVE  TuningInv'
<1> DEFINE v == IF tab.visible > 0 THEN tab.visible ELSE SavedOr1(MaxVariants)
           t1 == [tab EXCEPT !.fetching = FALSE, !.visible = v, !.arrived = MaxVariants]
           d == Rendered(MaxVariants)
           b == [t |-> t1, p |-> d]
           c == [Shown(b, v) EXCEPT !.t.st = "CYCLING"]
           f == Refreshed(c)
           r == Saved(f)
<1>1. tab \in Tabs /\ page \in Documents /\ Both.t = tab /\ Both.p = page
      BY BothParts DEF TuningInv
<1>2. v \in 1..MaxVariants /\ v \in 0..MaxVariants /\ MaxVariants \in 0..MaxVariants
      BY <1>1, ChoiceTypes DEF Tabs, SavedOr1
<1>3. d \in Documents /\ d.count = MaxVariants
      BY <1>2, RenderedFacts DEF SourceInjected
<1>4. tab' = r.t /\ page' = r.p /\ UNCHANGED <<server, looked>>
      /\ "source" \in parted'
      BY DEF SourceInjected, Becomes
<1> HIDE DEF v, d
<1>5. t1 \in Tabs /\ t1.visible = v /\ t1.arrived = MaxVariants
      /\ t1.pending = tab.pending
      BY <1>1, <1>2 DEF Tabs
<1> HIDE DEF t1
<1>6. b \in Pairs /\ b.t = t1 /\ b.p = d
      BY <1>3, <1>5 DEF Pairs
<1> HIDE DEF b
<1>7. c = [Shown(b, b.t.visible) EXCEPT !.t.st = "CYCLING"]
      BY <1>5, <1>6
<1> HIDE DEF c
<1>8. b.t.visible \in 1..MaxVariants /\ b.t.arrived = MaxVariants
      /\ b.p.count = MaxVariants
      BY <1>2, <1>3, <1>5, <1>6
<1>9. f \in Pairs /\ InChoice(f) /\ f.t.pending = b.t.pending
      BY <1>6, <1>7, <1>8, ResumedFacts
<1> HIDE DEF f
<1>10. r \in Pairs /\ SavedFrom(r, f)
       BY <1>9, SavedKeeps
<1> HIDE DEF r
<1>11. CountedIn(r) /\ AgreedIn(r) /\ r.t.st = "CYCLING" /\ r.t.pending = tab.pending
       BY <1>5, <1>6, <1>9, <1>10, SameChoiceKeeps DEF SavedFrom, SameChoice, InChoice
<1>12. parted' \cap Silent # {}
       BY <1>4 DEF Silent, Unreported
<1>13. AcceptedAsShown'
       BY <1>4, <1>11, AcceptedStays DEF TuningInv
<1>14. QED BY <1>4, <1>10, <1>11, <1>12, <1>13, StepInv

\* A reload brings them together and will report.
LEMMA ReloadStep ==
  ASSUME TuningInv, Reload
  PROVE  TuningInv'
<1> DEFINE n == page.count
           v == IF n = 0 THEN 0 ELSE SavedOr1(n)
           t1 == [tab EXCEPT !.arrived = n, !.visible = v, !.st = "IDLE",
                          !.values = NoValues, !.panel = NoPanel,
                          !.open = FALSE, !.pending = NoValues,
                          !.calling = FALSE, !.fetching = FALSE,
                          !.applying = FALSE]
           d == Rendered(n)
           b == [t |-> t1, p |-> d]
           redrawn == IF v > 0 THEN Shown(b, v) ELSE b
           st == IF n = MaxVariants THEN "CYCLING" ELSE "GENERATING"
           resumed == [redrawn EXCEPT !.t.st = st]
           last == IF n = MaxVariants THEN Refreshed(resumed) ELSE resumed
           s == Saved(last)
           r == Queued(s)
<1>1. tab \in Tabs /\ page \in Documents /\ Both.t = tab /\ Both.p = page
      BY BothParts DEF TuningInv
<1>2. /\ n \in 0..MaxVariants /\ v \in 0..n /\ v \in 0..MaxVariants
      /\ (v > 0) <=> (n > 0)
      /\ MaxVariants \in Nat \ {0}
      BY <1>1, ChoiceTypes DEF Tabs, Documents, SavedOr1
<1>3. d \in Documents /\ d.count = n /\ d.shown = IF n = 0 THEN 0 ELSE 1
      BY <1>2, RenderedFacts DEF Reload
<1>4. tab' = r.t /\ page' = last.p /\ UNCHANGED <<server, looked>>
      BY DEF Reload
<1> HIDE DEF n, v, d
<1>5. /\ t1 \in Tabs /\ t1.visible = v /\ t1.arrived = n /\ t1.st = "IDLE"
      /\ t1.open = FALSE /\ t1.pending = NoValues /\ t1.calling = FALSE
      BY <1>1, <1>2, ChoiceTypes DEF Tabs
<1> HIDE DEF t1
<1>6. b \in Pairs /\ b.t = t1 /\ b.p = d
      BY <1>3, <1>5 DEF Pairs
<1> HIDE DEF b
<1>7. /\ last \in Pairs /\ CountedIn(last) /\ AgreedIn(last)
      /\ last.t.pending = NoValues /\ last.t.st # "IDLE"
  <2>1. CASE n = MaxVariants
    <3>1. b.t.visible \in 1..MaxVariants /\ b.t.arrived = MaxVariants
          /\ b.p.count = MaxVariants /\ v > 0 /\ b.t.visible = v
          BY <1>2, <1>3, <1>5, <1>6, <2>1
    <3>2. redrawn = Shown(b, b.t.visible) /\ st = "CYCLING"
          BY <2>1, <3>1
    <3> HIDE DEF redrawn, st
    <3>3. resumed = [Shown(b, b.t.visible) EXCEPT !.t.st = "CYCLING"]
          BY <3>2
    <3> HIDE DEF resumed
    <3>4. last = Refreshed(resumed)
          BY <2>1
    <3> HIDE DEF last
    <3>5. last \in Pairs /\ InChoice(last) /\ last.t.pending = b.t.pending
          BY <1>6, <3>1, <3>3, <3>4, ResumedFacts
    <3>6. QED BY <1>5, <1>6, <3>5 DEF InChoice
  <2>2. CASE n # MaxVariants
    <3>1. /\ redrawn \in Pairs /\ redrawn.t.open = FALSE
          /\ redrawn.p.shown = v /\ redrawn.p.count = n
          /\ redrawn.t.visible = v /\ redrawn.t.arrived = n
          /\ redrawn.t.pending = NoValues /\ redrawn.t.calling = FALSE
      <4>1. CASE v > 0
        <5> DEFINE sh == Shown(b, v)
        <5>1. /\ sh \in Pairs /\ Keeps(sh, b)
              /\ sh.p.shown = IF v \in 1..b.p.count THEN v ELSE 0
              /\ b.t.st # "CYCLING" => ~sh.t.open
              BY <1>2, <1>6, ShownFacts
        <5>2. redrawn = sh
              BY <4>1
        <5> HIDE DEF redrawn, sh
        <5>3. sh.t.open = FALSE
              BY <1>5, <1>6, <5>1 DEF Pairs, Tabs
        <5>4. QED BY <1>2, <1>3, <1>5, <1>6, <4>1, <5>1, <5>2, <5>3 DEF Keeps
      <4>2. CASE v = 0
        <5>1. redrawn = b /\ n = 0
              BY <1>2, <4>2
        <5> HIDE DEF redrawn
        <5>2. QED BY <1>3, <1>5, <1>6, <4>2, <5>1
      <4>3. v > 0 \/ v = 0
            BY <1>2
      <4> HIDE DEF redrawn
      <4>4. QED BY <4>1, <4>2, <4>3
    <3>2. last = resumed /\ st = "GENERATING"
          BY <2>2
    <3> HIDE DEF redrawn, st, last
    <3>3. last \in Pairs /\ Restated(last, redrawn, "GENERATING")
          BY <3>1, <3>2, RestatedFacts
    <3>4. CountedIn(last)
          BY <1>2, <2>2, <3>1, <3>3 DEF CountedIn, Restated
    <3>5. AgreedIn(last)
          BY <3>1, <3>3 DEF AgreedIn, Restated
    <3>6. QED BY <3>1, <3>3, <3>4, <3>5 DEF Restated
  <2>3. QED BY <2>1, <2>2
<1> HIDE DEF last
<1>8. s \in Pairs /\ SavedFrom(s, last)
      BY <1>7, SavedKeeps
<1> HIDE DEF s
<1>9. r \in Pairs /\ QueuedFrom(r, s)
      BY <1>8, QueuedKeeps
<1> HIDE DEF r
<1>10. SameChoice(r, last) /\ r.t.saved = last.t.visible /\ r.t.timer = TRUE
      BY <1>8, <1>9 DEF SavedFrom, QueuedFrom, SameChoice
<1>11. CountedIn(r) /\ AgreedIn(r) /\ ReportedIn(r, server') /\ r.t.st # "IDLE"
       /\ r.t.pending = NoValues /\ r.p = last.p
       BY <1>7, <1>9, <1>10, SameChoiceKeeps DEF SameChoice, ReportedIn
<1>12. AcceptedAsShown'
       BY <1>4, <1>11 DEF AcceptedAsShown
<1>13. QED BY <1>4, <1>9, <1>11, <1>12, StepInv

-----------------------------------------------------------------------------
\* A session starts with nothing chosen.
LEMMA TuningStarts == TuningInit => TuningInv
<1> SUFFICES ASSUME TuningInit PROVE TuningInv
    OBVIOUS
<1>1. /\ tab \in Tabs /\ tab.st = "GENERATING" /\ tab.arrived = 0
      /\ tab.visible = 0 /\ tab.open = FALSE /\ tab.calling = FALSE
      /\ tab.pending = NoValues
      BY ChoiceTypes DEF TuningInit, Tabs
<1> DEFINE knobs == [v \in Variants |-> "plain"]
<1>2. knobs \in [Variants -> Knobs]
      BY DEF Knobs
<1>3. page \in Documents /\ page.count = 0 /\ page.shown = 0
      <2> HIDE DEF knobs
      <2>1. page = [mount |-> 0, count |-> 0, shown |-> 0, knobs |-> knobs]
            BY DEF TuningInit, knobs
      <2>2. QED BY <1>2, <2>1, ChoiceTypes DEF Documents
<1>4. Both \in Pairs /\ Both.t = tab /\ Both.p = page
      BY <1>1, <1>3 DEF Both, Pairs
<1>5. CountedIn(Both)
      BY <1>1, <1>3, <1>4, ChoiceTypes DEF CountedIn
<1>6. QED BY <1>1, <1>4, <1>5 DEF TuningInv, AgreedIn, ReportedIn, AcceptedAsShown

\* Every step of the choice keeps the invariant.
LEMMA TuningSteps ==
  ASSUME TuningInv, [TuningNext]_tuningVars
  PROVE  TuningInv'
<1>1. CASE Coming
      BY <1>1, ArriveStep, RemountStep, DoneStep, SourceInjectedStep,
         SourceFailsStep DEF Coming
<1>2. CASE Choosing
      BY <1>2, CycleVariantStep, ClickDotStep, OpenTunePopoverStep,
         CloseTunePopoverStep, TurnKnobStep, AcceptStep, AcceptAnsweredStep,
         AcceptFailsStep, CompleteStep DEF Choosing
<1>3. CASE Around
      BY <1>3, CheckpointSentStep, ReloadStep, ApplyStep DEF Around
<1>4. CASE UNCHANGED tuningVars
      BY <1>4 DEF tuningVars, TuningInv, Both, CountedIn, AgreedIn, Fits,
         MirrorOf, ReportedIn, AcceptedAsShown
<1>5. QED BY <1>1, <1>2, <1>3, <1>4 DEF TuningNext

\* The invariant is what the property says, and more.
LEMMA TuningImplies == TuningInv => OneChoiceEverywhere
<1> SUFFICES ASSUME TuningInv PROVE OneChoiceEverywhere
    OBVIOUS
<1>1. tab \in Tabs /\ page \in Documents /\ Both.t = tab /\ Both.p = page
      BY BothParts DEF TuningInv
<1>2. TunedIsShown
      BY <1>1, ChoiceTypes DEF TuningInv, CountedIn, AgreedIn, Fits, MirrorOf,
         TunedIsShown, Mirror, Tabs
<1>3. AcceptedAsShown
      BY DEF TuningInv
<1>4. ChoiceIsReported
      BY <1>1 DEF TuningInv, ReportedIn, ChoiceIsReported, Silent, Tabs
<1>5. QED BY <1>2, <1>3, <1>4 DEF OneChoiceEverywhere

Drawings == [id : Nat, text : Nat]
OpenNotes == [what : {"note"}, idx : Nat, original : Nat, typed : Nat]
Presses == [what : {"new"}, moved : BOOLEAN]
           \cup [what : {"pin"}, idx : Nat, pressed : Nat, slipped : BOOLEAN,
                 moved : BOOLEAN]

\* Every pin has its own note or none.
OwnNotes(ps) == \A i \in DOMAIN ps : ps[i].text \in {0, ps[i].id}

\* The open note ed is that of a pin of ps.
NoteIn(ed, ps) ==
  ed # Nothing => /\ ed.idx \in DOMAIN ps
                  /\ ed.typed \in {0, ps[ed.idx].id}
                  /\ ed.original \in {0, ps[ed.idx].id}

\* The places before `from` are the same pins in both.
SamePins(qs, ps, from) ==
  \A i \in DOMAIN qs : i < from => i \in DOMAIN ps /\ qs[i].id = ps[i].id

-----------------------------------------------------------------------------
(* The pins.                                                               *)

\* RemoveAt closes the gap.
LEMMA RemoveAtFacts ==
  ASSUME NEW S, NEW s \in Seq(S), NEW i \in DOMAIN s
  PROVE  /\ RemoveAt(s, i) \in Seq(S) /\ Len(RemoveAt(s, i)) = Len(s) - 1
         /\ \A j \in 1..(Len(s) - 1) :
               RemoveAt(s, i)[j] = IF j < i THEN s[j] ELSE s[j + 1]
<1> DEFINE a == SubSeq(s, 1, i - 1)
           b == SubSeq(s, i + 1, Len(s))
<1>1. i \in 1..Len(s) /\ Len(s) \in Nat /\ i \in Nat
      BY LenProperties
<1>2. /\ a \in Seq(S) /\ Len(a) = i - 1
      /\ \A j \in 1..(i - 1) : a[j] = s[j]
      BY <1>1
<1>3. /\ b \in Seq(S) /\ Len(b) = Len(s) - i
      /\ \A j \in 1..(Len(s) - i) : b[j] = s[j + i]
      BY <1>1
<1> HIDE DEF a, b
<1>4. a \o b \in Seq(S) /\ Len(a \o b) = Len(s) - 1
      BY <1>1, <1>2, <1>3
<1>5. ASSUME NEW j \in 1..(Len(s) - 1)
      PROVE  (a \o b)[j] = IF j < i THEN s[j] ELSE s[j + 1]
      <2>1. CASE j < i
            BY <1>1, <1>2, <1>3, <2>1
      <2>2. CASE ~(j < i)
            <3>1. j - (i - 1) \in 1..(Len(s) - i) /\ j > Len(a)
                  BY <1>1, <1>2, <2>2
            <3>2. (a \o b)[j] = b[j - (i - 1)]
                  BY <1>1, <1>2, <1>3, <3>1
            <3>3. b[j - (i - 1)] = s[(j - (i - 1)) + i]
                  BY <1>3, <3>1
            <3>4. QED BY <1>1, <2>2, <3>2, <3>3
      <2>3. QED BY <2>1, <2>2
<1>6. RemoveAt(s, i) = a \o b
      BY DEF RemoveAt, a, b
<1>7. QED BY <1>4, <1>5, <1>6

\* A pin taken away leaves the others theirs.
Removed(qs, ps, i) ==
  /\ qs \in Seq(Drawings) /\ OwnNotes(qs) /\ Len(qs) = Len(ps) - 1
  /\ SamePins(qs, ps, i)

\* splice of one pin.
LEMMA RemovalFacts ==
  ASSUME NEW ps \in Seq(Drawings), OwnNotes(ps), NEW i \in DOMAIN ps
  PROVE  Removed(RemoveAt(ps, i), ps, i)
<1> DEFINE qs == RemoveAt(ps, i)
<1>1. /\ qs \in Seq(Drawings) /\ Len(qs) = Len(ps) - 1
      /\ \A j \in 1..(Len(ps) - 1) : qs[j] = IF j < i THEN ps[j] ELSE ps[j + 1]
      BY RemoveAtFacts
<1>2. Len(ps) \in Nat /\ DOMAIN ps = 1..Len(ps) /\ i \in 1..Len(ps)
      BY LenProperties
<1> HIDE DEF qs
<1>3. DOMAIN qs = 1..(Len(ps) - 1)
      BY <1>1, LenProperties
<1>4. OwnNotes(qs)
      BY <1>1, <1>2, <1>3 DEF OwnNotes
<1>5. SamePins(qs, ps, i)
      BY <1>1, <1>2, <1>3 DEF SamePins
<1>6. Removed(qs, ps, i)
      BY <1>1, <1>4, <1>5 DEF Removed
<1>7. QED BY <1>6 DEF qs

\* A note written onto its pin.
Written(qs, ps, i, x) ==
  /\ qs \in Seq(Drawings) /\ OwnNotes(qs) /\ Len(qs) = Len(ps)
  /\ DOMAIN qs = DOMAIN ps /\ qs[i].text = x
  /\ \A j \in DOMAIN ps : qs[j].id = ps[j].id
  /\ \A j \in DOMAIN ps \ {i} : qs[j] = ps[j]

\* The note x of pin i.
LEMMA WrittenFacts ==
  ASSUME NEW ps \in Seq(Drawings), OwnNotes(ps), NEW i \in DOMAIN ps,
         NEW x, x \in {0, ps[i].id}
  PROVE  Written([ps EXCEPT ![i].text = x], ps, i, x)
<1> DEFINE p == [ps[i] EXCEPT !.text = x]
           qs == [ps EXCEPT ![i] = p]
<1>1. ps[i] \in Drawings /\ Len(ps) \in Nat /\ DOMAIN ps = 1..Len(ps)
      BY LenProperties, ElementOfSeq
<1>2. p \in Drawings /\ p.id = ps[i].id /\ p.text = x
      BY <1>1 DEF Drawings
<1>3. [ps EXCEPT ![i].text = x] = qs
      OBVIOUS
<1> HIDE DEF p
<1>4. qs \in Seq(Drawings) /\ Len(qs) = Len(ps) /\ DOMAIN qs = DOMAIN ps
      BY <1>1, <1>2, ExceptSeq
<1>5. qs[i] = p /\ \A j \in DOMAIN ps \ {i} : qs[j] = ps[j]
      BY <1>1
<1> HIDE DEF qs
<1>6. \A j \in DOMAIN ps : qs[j].id = ps[j].id
      BY <1>2, <1>5
<1>7. OwnNotes(qs)
      BY <1>2, <1>4, <1>5 DEF OwnNotes
<1>8. Written(qs, ps, i, x)
      BY <1>2, <1>4, <1>5, <1>6, <1>7 DEF Written
<1>9. QED BY <1>3, <1>8

\* What committing the note ed makes of the pins.
Committed(qs, ps, ed) ==
  /\ qs \in Seq(Drawings) /\ OwnNotes(qs) /\ Len(qs) <= Len(ps)
  /\ ed = Nothing => qs = ps
  /\ ed # Nothing => SamePins(qs, ps, ed.idx)
  /\ Len(qs) = Len(ps) => \A i \in DOMAIN qs : i \in DOMAIN ps /\ qs[i].id = ps[i].id

\* finalizeEditingPin writes the note, or takes its pin away.
LEMMA FinalizedFacts ==
  ASSUME NEW ps \in Seq(Drawings), OwnNotes(ps),
         NEW ed \in {Nothing} \cup OpenNotes, NoteIn(ed, ps)
  PROVE  Committed(Finalized(ps, ed), ps, ed)
<1> DEFINE qs == Finalized(ps, ed)
<1>1. Len(ps) \in Nat /\ DOMAIN ps = 1..Len(ps)
      BY LenProperties
<1>2. CASE ed = Nothing
      BY <1>1, <1>2 DEF Finalized, Committed
<1>3. CASE ed # Nothing /\ ed.typed # 0
      <2>1. ed.idx \in DOMAIN ps /\ ed.typed \in {0, ps[ed.idx].id}
            BY <1>3 DEF NoteIn
      <2>2. qs = [ps EXCEPT ![ed.idx].text = ed.typed]
            BY <1>3 DEF Finalized
      <2> HIDE DEF qs
      <2>3. Written(qs, ps, ed.idx, ed.typed)
            BY <2>1, <2>2, WrittenFacts
      <2>4. /\ qs \in Seq(Drawings) /\ OwnNotes(qs) /\ Len(qs) = Len(ps)
            /\ DOMAIN qs = DOMAIN ps
            /\ \A j \in DOMAIN ps : qs[j].id = ps[j].id
            BY <2>3 DEF Written
      <2>5. Committed(qs, ps, ed)
            BY <1>1, <1>3, <2>4 DEF Committed, SamePins
      <2>6. QED BY <2>5 DEF qs
<1>4. CASE ed # Nothing /\ ed.typed = 0
      <2>1. ed.idx \in DOMAIN ps
            BY <1>4 DEF NoteIn
      <2>2. qs = RemoveAt(ps, ed.idx)
            BY <1>4 DEF Finalized
      <2> HIDE DEF qs
      <2>3. Removed(qs, ps, ed.idx)
            BY <2>1, <2>2, RemovalFacts
      <2>4. /\ qs \in Seq(Drawings) /\ OwnNotes(qs) /\ Len(qs) = Len(ps) - 1
            /\ SamePins(qs, ps, ed.idx)
            BY <2>3 DEF Removed
      <2>5. Len(qs) <= Len(ps) /\ Len(qs) # Len(ps)
            <3>1. Len(qs) = Len(ps) - 1
                  BY <2>3 DEF Removed
            <3>2. Len(ps) \in Nat
                  BY LenProperties
            <3> DEFINE m == Len(ps)
                       n == Len(qs)
            <3>3. n = m - 1 /\ m \in Nat
                  BY <3>1, <3>2
            <3> HIDE DEF m, n
            <3>4. n <= m /\ n # m
                  BY <3>3
            <3>5. QED BY <3>4 DEF m, n
      <2>6. Committed(qs, ps, ed)
            BY <1>4, <2>4, <2>5 DEF Committed
      <2>7. QED BY <2>6 DEF qs
<1>5. QED BY <1>2, <1>3, <1>4

\* cancelEditingPin leaves no pin with a foreign note either.
LEMMA CancelledFacts ==
  ASSUME NEW ps \in Seq(Drawings), OwnNotes(ps),
         NEW ed \in OpenNotes, NoteIn(ed, ps)
  PROVE  /\ Cancelled(ps, ed) \in Seq(Drawings) /\ OwnNotes(Cancelled(ps, ed))
         /\ Len(Cancelled(ps, ed)) <= Len(ps)
<1> DEFINE qs == Cancelled(ps, ed)
<1>1. Len(ps) \in Nat /\ ed.idx \in DOMAIN ps /\ ed.original \in {0, ps[ed.idx].id}
      BY LenProperties DEF NoteIn, Nothing, OpenNotes
<1>2. CASE ed.original # 0
      <2>1. qs = [ps EXCEPT ![ed.idx].text = ed.original]
            BY <1>2 DEF Cancelled
      <2> HIDE DEF qs
      <2>2. Written(qs, ps, ed.idx, ed.original)
            BY <1>1, <2>1, WrittenFacts
      <2>3. qs \in Seq(Drawings) /\ OwnNotes(qs) /\ Len(qs) = Len(ps)
            BY <2>2 DEF Written
      <2>4. QED BY <1>1, <2>3 DEF qs
<1>3. CASE ed.original = 0
      <2>1. qs = RemoveAt(ps, ed.idx)
            BY <1>3 DEF Cancelled
      <2> HIDE DEF qs
      <2>2. Removed(qs, ps, ed.idx)
            BY <1>1, <2>1, RemovalFacts
      <2>3. qs \in Seq(Drawings) /\ OwnNotes(qs) /\ Len(qs) = Len(ps) - 1
            BY <2>2 DEF Removed
      <2>4. QED BY <1>1, <2>3 DEF qs
<1>4. QED BY <1>2, <1>3

-----------------------------------------------------------------------------
\* The places of the open note, of the pressed pin and of the last press are
\* those of the pins they were taken for; a note is open only while nothing
\* is held.
PlacesInv ==
  /\ pins \in Seq(Drawings) /\ OwnNotes(pins)
  /\ drawn \in Nat /\ lastPress \in Nat
  /\ editing \in {Nothing} \cup OpenNotes /\ NoteIn(editing, pins)
  /\ editing # Nothing => lastPress \in {0, editing.idx} /\ pointer = Nothing
  /\ pointer \in {Nothing} \cup Presses
  /\ pointer.what = "pin" =>
       /\ lastPress \in {0, pointer.idx}
       /\ ~pointer.slipped => /\ pointer.idx \in DOMAIN pins
                              /\ pins[pointer.idx].id = pointer.pressed

\* A step that leaves the layer alone.
LEMMA PlacesSame ==
  ASSUME PlacesInv, UNCHANGED <<pins, pointer, editing, lastPress, drawn>>
  PROVE  PlacesInv'
  BY DEF PlacesInv, NoteIn, OwnNotes

\* A cleared layer remembers no place.
LEMMA PlacesCleared ==
  ASSUME PlacesInv, ClearAnnotations, drawn' = drawn
  PROVE  PlacesInv'
<1>1. /\ pins' = <<>> /\ pointer' = Nothing /\ editing' = Nothing
      /\ lastPress' = 0 /\ drawn' \in Nat
      BY DEF ClearAnnotations, PlacesInv
<1>2. pins' \in Seq(Drawings) /\ OwnNotes(pins')
      BY <1>1 DEF OwnNotes
<1>3. QED BY <1>1, <1>2 DEF PlacesInv, NoteIn, Nothing

\* The open note is over.
LEMMA NoteOver ==
  ASSUME PlacesInv, editing' = Nothing, pins' \in Seq(Drawings),
         OwnNotes(pins'), editing = Nothing => pins' = pins,
         pointer' = pointer, lastPress' \in {0, lastPress}, drawn' = drawn
  PROVE  PlacesInv'
<1>1. NoteIn(editing', pins')
      BY DEF NoteIn
<1>2. pointer'.what = "pin" =>
       /\ lastPress' \in {0, pointer'.idx}
       /\ ~pointer'.slipped => /\ pointer'.idx \in DOMAIN pins'
                               /\ pins'[pointer'.idx].id = pointer'.pressed
      BY DEF PlacesInv, Nothing
<1>3. QED BY <1>1, <1>2 DEF PlacesInv

\* The layer is pressed with nothing held.
LEMMA PressParts ==
  ASSUME PlacesInv, CanPress
  PROVE  pointer = Nothing /\ pins \in Seq(Drawings) /\ OwnNotes(pins)
         /\ DOMAIN pins = 1..Len(pins) /\ Len(pins) \in Nat
  BY LenProperties DEF PlacesInv, CanPress

\* A press on a pin holds the pressed pin, or says that it slipped.
LEMMA PressPinStep ==
  ASSUME PlacesInv, NEW i \in Marks, PressPin(i)
  PROVE  PlacesInv'
<1> DEFINE left == Finalized(pins, editing)
           slipped == editing # Nothing /\ editing.idx < i /\ Len(left) < Len(pins)
<1>1. /\ pointer = Nothing /\ i \in DOMAIN pins /\ i \in Nat /\ i > 0
      /\ pins \in Seq(Drawings) /\ OwnNotes(pins)
      /\ DOMAIN pins = 1..Len(pins) /\ Len(pins) \in Nat
      /\ editing \in {Nothing} \cup OpenNotes /\ NoteIn(editing, pins)
      BY PressParts DEF PressPin, PlacesInv
<1>2. lastPress' = i /\ drawn' = drawn
      BY DEF PressPin
<1>3. CASE editing # Nothing /\ editing.idx = i
      <2>1. UNCHANGED <<pins, pointer, editing>>
            BY <1>3 DEF PressPin
      <2>2. QED BY <1>1, <1>2, <1>3, <2>1 DEF PlacesInv, NoteIn, OwnNotes, Nothing
<1>4. CASE ~(editing # Nothing /\ editing.idx = i)
      <2>1. /\ pins' = left /\ editing' = Nothing
            /\ pointer' = IF i \in DOMAIN left
                          THEN Holding(i, pins[i].id, slipped, FALSE)
                          ELSE Nothing
            BY <1>4 DEF PressPin
      <2>2. Committed(left, pins, editing)
            BY <1>1, FinalizedFacts
      <2> DEFINE q == pins[i].id
      <2>3. q \in Nat
            <3>1. pins[i] \in Drawings
                  BY <1>1, ElementOfSeq
            <3>2. QED BY <3>1 DEF Drawings
      <2> HIDE DEF left
      <2>4. left \in Seq(Drawings) /\ OwnNotes(left) /\ Len(left) <= Len(pins)
            /\ Len(left) \in Nat /\ DOMAIN left = 1..Len(left)
            BY <2>2, LenProperties DEF Committed
      <2>5. CASE i \notin DOMAIN left
            BY <1>1, <1>2, <2>1, <2>4, <2>5 DEF PlacesInv, NoteIn, Nothing
      <2>6. CASE i \in DOMAIN left
            <3>1. slipped \/ left[i].id = q
                  <4>1. CASE editing = Nothing
                        BY <2>2, <4>1 DEF Committed
                  <4>2. CASE editing # Nothing /\ Len(left) = Len(pins)
                        BY <2>2, <2>6, <4>2 DEF Committed
                  <4>3. CASE editing # Nothing /\ Len(left) # Len(pins)
                        <5>1. CASE editing.idx < i
                              <6> DEFINE m == Len(left)
                                         n == Len(pins)
                              <6>1. m \in Nat /\ n \in Nat /\ m <= n /\ m # n
                                    BY <1>1, <2>4, <4>3
                              <6> HIDE DEF m, n
                              <6>2. m < n
                                    BY <6>1
                              <6>3. QED BY <4>3, <5>1, <6>2 DEF m, n
                        <5>2. CASE ~(editing.idx < i)
                              <6>1. editing.idx \in Nat /\ editing.idx # i
                                    BY <1>4, <4>3, <1>1 DEF OpenNotes
                              <6>2. i < editing.idx
                                    BY <1>1, <5>2, <6>1
                              <6>3. SamePins(left, pins, editing.idx)
                                    BY <2>2, <4>3 DEF Committed
                              <6>4. QED BY <2>6, <6>2, <6>3 DEF SamePins
                        <5>3. QED BY <5>1, <5>2
                  <4>4. QED BY <4>1, <4>2, <4>3
            <3> DEFINE sl == slipped
            <3>2. sl \in BOOLEAN
                  OBVIOUS
            <3>3. pointer' = Holding(i, q, sl, FALSE)
                  BY <2>1, <2>6
            <3> HIDE DEF sl, q
            <3>4. /\ pointer' \in Presses /\ pointer'.idx = i
                  /\ pointer'.pressed = q /\ pointer'.slipped = sl
                  BY <1>1, <2>3, <3>2, <3>3 DEF Holding, Presses
            <3>5. ~pointer'.slipped => left[i].id = q
                  BY <3>1, <3>4 DEF sl
            <3>6. QED BY <1>1, <1>2, <2>1, <2>4, <2>6, <3>4, <3>5 DEF PlacesInv, NoteIn
      <2>7. QED BY <2>5, <2>6
<1>5. QED BY <1>3, <1>4

\* The pin deleted by a double press takes its open note with it.
LEMMA DoublePressPinStep ==
  ASSUME PlacesInv, NEW i \in Marks, DoublePressPin(i)
  PROVE  PlacesInv'
<1>1. /\ pointer = Nothing /\ i \in DOMAIN pins /\ lastPress = i /\ i > 0
      /\ pins \in Seq(Drawings) /\ OwnNotes(pins) /\ i \in Nat
      BY PressParts DEF DoublePressPin
<1>2. Removed(RemoveAt(pins, i), pins, i)
      BY <1>1, RemovalFacts
<1>3. pins' \in Seq(Drawings) /\ OwnNotes(pins')
      BY <1>2 DEF Removed, DoublePressPin
<1>4. editing' = Nothing
      BY <1>1 DEF DoublePressPin, PlacesInv
<1>5. lastPress' = 0 /\ pointer' = Nothing /\ drawn' = drawn
      BY <1>1 DEF DoublePressPin
<1>6. QED BY <1>3, <1>4, <1>5 DEF PlacesInv, NoteIn, Nothing

\* A press on the surface ends a note or starts a mark.
LEMMA PressSurfaceStep ==
  ASSUME PlacesInv, PressSurface
  PROVE  PlacesInv'
<1>1. CASE editing # Nothing
      <2>1. /\ pins' = Finalized(pins, editing) /\ editing' = Nothing
            /\ lastPress' = 0 /\ drawn' = drawn /\ pointer' = pointer
            BY <1>1 DEF PressSurface
      <2>2. Committed(Finalized(pins, editing), pins, editing)
            BY FinalizedFacts DEF PlacesInv
      <2>3. pins' \in Seq(Drawings) /\ OwnNotes(pins')
            BY <2>1, <2>2 DEF Committed
      <2>4. QED BY <1>1, <2>1, <2>3, NoteOver
<1>2. CASE editing = Nothing
      <2>1. /\ pins' = pins /\ editing' = Nothing /\ lastPress' = 0
            /\ drawn' = drawn /\ pointer' = NewMark(FALSE)
            BY <1>2 DEF PressSurface
      <2>2. pointer' \in Presses /\ pointer'.what = "new"
            BY <2>1 DEF NewMark, Presses
      <2>3. QED BY <2>1, <2>2 DEF PlacesInv, NoteIn, OwnNotes
<1>3. QED BY <1>1, <1>2

\* The other presses remember no place.
LEMMA PressOtherStep ==
  ASSUME PlacesInv, (\E s \in Marks : PressStroke(s)) \/ PressEdge \/ PressClear
  PROVE  PlacesInv'
<1>1. CASE (\E s \in Marks : PressStroke(s)) \/ PressEdge
      <2>1. /\ UNCHANGED <<pins, pointer, editing, drawn>> /\ lastPress' = 0
            BY <1>1 DEF PressStroke, PressEdge
      <2>2. QED BY <2>1 DEF PlacesInv, NoteIn, OwnNotes
<1>2. CASE PressClear
      BY <1>2, PlacesCleared DEF PressClear
<1>3. QED BY <1>1, <1>2

\* A drag holds what was held.
LEMMA DragStep ==
  ASSUME PlacesInv, Drag
  PROVE  PlacesInv'
<1>1. /\ pointer # Nothing /\ lastPress' = 0 /\ drawn' = drawn
      /\ pins' = pins /\ editing' = editing
      BY DEF Drag
<1>2. editing = Nothing /\ pointer \in Presses
      BY <1>1 DEF PlacesInv
<1>3. CASE pointer.what = "pin" /\ pointer.idx \notin DOMAIN pins
      <2>1. pointer' = Nothing
            BY <1>3 DEF Drag
      <2>2. QED BY <1>1, <1>2, <2>1 DEF PlacesInv, NoteIn, OwnNotes, Nothing
<1>4. CASE ~(pointer.what = "pin" /\ pointer.idx \notin DOMAIN pins)
      <2>1. pointer' = [pointer EXCEPT !.moved = TRUE]
            BY <1>4 DEF Drag
      <2>2. /\ pointer' \in Presses /\ pointer'.what = pointer.what
            /\ pointer.what = "pin" => /\ pointer'.idx = pointer.idx
                                       /\ pointer'.pressed = pointer.pressed
                                       /\ ~pointer'.slipped => ~pointer.slipped
            BY <1>2, <2>1 DEF Presses
      <2>3. pointer'.what = "pin" => (~pointer'.slipped =>
               pointer'.idx \in DOMAIN pins /\ pins[pointer'.idx].id = pointer'.pressed)
            BY <1>1, <2>2 DEF PlacesInv
      <2>4. NoteIn(editing', pins') /\ OwnNotes(pins')
            BY <1>1, <1>2 DEF PlacesInv, NoteIn, OwnNotes
      <2>5. QED BY <1>1, <1>2, <2>2, <2>3, <2>4 DEF PlacesInv
<1>5. QED BY <1>3, <1>4

\* A release opens the note of the pin that is held there.
LEMMA ReleasePinStep ==
  ASSUME PlacesInv, ReleasePin
  PROVE  PlacesInv'
<1>1. /\ pointer.what = "pin" /\ pointer' = Nothing /\ drawn' = drawn
      /\ pins' = pins
      BY DEF ReleasePin
<1>2. editing = Nothing /\ lastPress \in {0, pointer.idx}
      /\ pins \in Seq(Drawings) /\ OwnNotes(pins)
      BY <1>1 DEF PlacesInv, Nothing
<1>3. CASE pointer.moved
      <2>1. lastPress' = 0 /\ editing' = Nothing
            BY <1>2, <1>3 DEF ReleasePin
      <2>2. QED BY <1>1, <1>2, <2>1 DEF PlacesInv, NoteIn, Nothing
<1>4. CASE ~pointer.moved
      <2> DEFINE i == pointer.idx
                 x == pins[i].text
      <2>1. /\ editing' = IF i \in DOMAIN pins THEN NoteOf(i, x, x) ELSE Nothing
            /\ lastPress' = lastPress
            BY <1>2, <1>4 DEF ReleasePin, BeginEditPin
      <2>2. CASE i \notin DOMAIN pins
            BY <1>1, <1>2, <2>1, <2>2 DEF PlacesInv, NoteIn, Nothing
      <2>3. CASE i \in DOMAIN pins
            <3>1. x \in {0, pins[i].id} /\ x \in Nat /\ i \in Nat
                  <4>1. DOMAIN pins = 1..Len(pins) /\ Len(pins) \in Nat
                        BY <1>2, LenProperties
                  <4>2. i \in 1..Len(pins) /\ i \in Nat
                        BY <2>3, <4>1
                  <4>3. pins[i] \in Drawings
                        BY <1>2, <4>2, ElementOfSeq
                  <4>4. QED BY <1>2, <2>3, <4>2, <4>3 DEF OwnNotes, Drawings
            <3> HIDE DEF x, i
            <3>2. editing' \in OpenNotes /\ editing'.idx = i
                  /\ editing'.typed = x /\ editing'.original = x
                  BY <2>1, <2>3, <3>1 DEF NoteOf, OpenNotes
            <3>3. QED BY <1>1, <1>2, <2>1, <2>3, <3>1, <3>2
                         DEF PlacesInv, NoteIn, Nothing, i
      <2>4. QED BY <2>2, <2>3
<1>5. QED BY <1>3, <1>4

\* A new pin is the last one, and its note is opened.
LEMMA ReleaseMarkStep ==
  ASSUME PlacesInv, ReleaseMark
  PROVE  PlacesInv'
<1>1. /\ pointer.what = "new" /\ pointer' = Nothing /\ drawn' = drawn + 1
      /\ lastPress' = 0
      BY DEF ReleaseMark
<1>2. editing = Nothing /\ pins \in Seq(Drawings) /\ OwnNotes(pins)
      /\ drawn \in Nat
      BY <1>1 DEF PlacesInv, Nothing
<1>3. CASE pointer.moved
      <2>1. pins' = pins /\ editing' = Nothing
            BY <1>2, <1>3 DEF ReleaseMark
      <2>2. QED BY <1>1, <1>2, <2>1 DEF PlacesInv, NoteIn, Nothing
<1>4. CASE ~pointer.moved
      <2> DEFINE m == drawn + 1
                 ps == Append(pins, Pin(m))
                 n == Len(ps)
                 x == ps[n].text
      <2>1. /\ pins' = ps
            /\ editing' = IF n \in DOMAIN ps THEN NoteOf(n, x, x) ELSE Nothing
            BY <1>2, <1>4 DEF ReleaseMark, BeginEditPin
      <2>2. Pin(m) \in Drawings /\ Pin(m).text = 0
            BY <1>2 DEF Pin, Drawings
      <2>3. /\ ps \in Seq(Drawings) /\ n = Len(pins) + 1 /\ ps[n] = Pin(m)
            /\ Len(pins) \in Nat /\ DOMAIN pins = 1..Len(pins)
            /\ \A j \in 1..Len(pins) : ps[j] = pins[j]
            <3> DEFINE e == Pin(m)
            <3> HIDE DEF e
            <3>1. e \in Drawings
                  BY <2>2 DEF e
            <3>2. QED BY <1>2, <3>1, LenProperties, AppendProperties DEF e
      <2> HIDE DEF ps, n, x
      <2>4. DOMAIN ps = 1..n /\ n \in DOMAIN ps /\ n \in Nat
            <3>1. DOMAIN ps = 1..n
                  BY <2>3, LenProperties DEF n
            <3>2. QED BY <2>3, <3>1
      <2>5. OwnNotes(ps)
            BY <1>2, <2>2, <2>3, <2>4 DEF OwnNotes
      <2>6. x = 0
            BY <2>2, <2>3 DEF x
      <2>7. editing' \in OpenNotes /\ editing'.idx = n /\ editing'.typed = 0
            /\ editing'.original = 0
            BY <2>1, <2>4, <2>6 DEF NoteOf, OpenNotes
      <2>8. QED BY <1>1, <1>2, <2>1, <2>3, <2>4, <2>5, <2>7 DEF PlacesInv, NoteIn, Nothing
<1>5. QED BY <1>3, <1>4

\* What is typed is for the pin beside the input.
LEMMA TypeStep ==
  ASSUME PlacesInv, Type
  PROVE  PlacesInv'
<1>1. PICK x \in {0, pins[editing.idx].id} : editing' = [editing EXCEPT !.typed = x]
      BY DEF Type
<1>2. /\ editing # Nothing /\ lastPress' = 0
      /\ UNCHANGED <<pins, pointer, drawn>>
      BY DEF Type
<1>3. /\ editing \in OpenNotes /\ editing.idx \in DOMAIN pins /\ pointer = Nothing
      /\ editing.original \in {0, pins[editing.idx].id}
      /\ pins \in Seq(Drawings)
      BY <1>2 DEF PlacesInv, NoteIn
<1>4. x \in Nat
      <2>1. editing.idx \in 1..Len(pins)
            BY <1>3, LenProperties
      <2>2. pins[editing.idx] \in Drawings
            BY <1>3, <2>1, ElementOfSeq
      <2>3. QED BY <2>2 DEF Drawings
<1>5. /\ editing' \in OpenNotes /\ editing'.idx = editing.idx
      /\ editing'.typed = x /\ editing'.original = editing.original
      BY <1>1, <1>3, <1>4 DEF OpenNotes
<1>6. NoteIn(editing', pins') /\ OwnNotes(pins')
      BY <1>1, <1>2, <1>3, <1>5 DEF NoteIn, PlacesInv, OwnNotes
<1>7. QED BY <1>2, <1>3, <1>5, <1>6 DEF PlacesInv, Nothing

\* The ways an open note ends.
LEMMA NoteOverStep ==
  ASSUME PlacesInv, FinalizeEditingPin \/ CancelEditingPin \/ ServerLost
  PROVE  PlacesInv'
<1>1. CASE FinalizeEditingPin
      <2>1. Committed(Finalized(pins, editing), pins, editing)
            BY FinalizedFacts DEF PlacesInv
      <2>2. pins' \in Seq(Drawings) /\ OwnNotes(pins')
            BY <1>1, <2>1 DEF Committed, FinalizeEditingPin
      <2>3. QED BY <1>1, <2>2, NoteOver DEF FinalizeEditingPin
<1>2. CASE CancelEditingPin
      <2>1. /\ editing \in OpenNotes /\ pins \in Seq(Drawings)
            /\ OwnNotes(pins) /\ NoteIn(editing, pins)
            BY <1>2 DEF PlacesInv, CancelEditingPin
      <2>2. pins' \in Seq(Drawings) /\ OwnNotes(pins')
            BY <1>2, <2>1, CancelledFacts DEF CancelEditingPin
      <2>3. QED BY <1>2, <2>2, NoteOver DEF CancelEditingPin
<1>3. CASE ServerLost
      <2>1. pins' = pins /\ pointer' = pointer /\ lastPress' = lastPress
            /\ drawn' = drawn /\ editing' = Nothing
            BY <1>3 DEF ServerLost
      <2>2. pins' \in Seq(Drawings) /\ OwnNotes(pins')
            BY <2>1 DEF PlacesInv, OwnNotes
      <2>3. QED BY <2>1, <2>2, NoteOver
<1>4. QED BY <1>1, <1>2, <1>3

\* Create clears the layer, or only ends the note.
LEMMA HandleInsertCreatePlaces ==
  ASSUME PlacesInv, HandleInsertCreate
  PROVE  PlacesInv'
<1>1. CASE CanCreateInsert(Finalized(pins, editing), strokes, prompt)
      <2>1. ClearAnnotations /\ drawn' = drawn
            BY <1>1 DEF HandleInsertCreate, StartCapture
      <2>2. QED BY <2>1, PlacesCleared
<1>2. CASE ~CanCreateInsert(Finalized(pins, editing), strokes, prompt)
      <2>1. /\ pins' = Finalized(pins, editing) /\ editing' = Nothing
            /\ pointer' = pointer /\ lastPress' = lastPress /\ drawn' = drawn
            BY <1>2 DEF HandleInsertCreate
      <2>2. Committed(Finalized(pins, editing), pins, editing)
            BY FinalizedFacts DEF PlacesInv
      <2>3. pins' \in Seq(Drawings) /\ OwnNotes(pins')
            BY <2>1, <2>2 DEF Committed
      <2>4. editing = Nothing => pins' = pins
            BY <2>1, <2>2 DEF Committed
      <2>5. QED BY <2>1, <2>3, <2>4, NoteOver
<1>3. QED BY <1>1, <1>2

\* Every step of the layer keeps the places true.
LEMMA PlacesSteps ==
  ASSUME PlacesInv, [AnnotationsNext]_annotationVars
  PROVE  PlacesInv'
<1>1. CASE Pointing
      <2>1. CASE ReleaseEdge
            BY <2>1, PlacesSame DEF ReleaseEdge
      <2>2. QED BY <1>1, <2>1, PressOtherStep, DoublePressPinStep, PressPinStep,
                   PressSurfaceStep, DragStep, ReleasePinStep, ReleaseMarkStep
                DEF Pointing
<1>2. CASE Typing
      <2>1. CASE EditPrompt
            BY <2>1, PlacesSame DEF EditPrompt, layer
      <2>2. QED BY <1>2, <2>1, TypeStep, NoteOverStep DEF Typing
<1>3. CASE Surroundings
      <2>1. CASE (\E k \in {"replace", "insert"} : Configure(k)) \/ LeaveConfigure
                 \/ CancelEditingToPicking
            BY <2>1, PlacesCleared DEF Configure, LeaveConfigure, CancelEditingToPicking
      <2>2. CASE EnterEditingMode \/ CancelEditing \/ SessionEnds
            BY <2>2, PlacesSame DEF EnterEditingMode, CancelEditing, SessionEnds, layer
      <2>3. QED BY <1>3, <2>1, <2>2, NoteOverStep DEF Surroundings
<1>4. CASE Capturing
      <2>1. CASE HandleGo
            BY <2>1, PlacesCleared DEF HandleGo, StartCapture
      <2>2. CASE \E c \in captures : Decorate(c) \/ Shoot(c) \/ Upload(c)
            BY <2>2, PlacesSame DEF Decorate, Shoot, Upload, layer
      <2>3. QED BY <1>4, <2>1, <2>2, HandleInsertCreatePlaces DEF Capturing
<1>5. CASE UNCHANGED annotationVars
      BY <1>5, PlacesSame DEF annotationVars, layer
<1>6. QED BY <1>1, <1>2, <1>3, <1>4, <1>5 DEF AnnotationsNext

-----------------------------------------------------------------------------
(* The Create button.                                                      *)

\* Nothing that can be created is kept from it, and the texts of a page are
\* edited only beside an element to replace.
OfferInv == CreateIsOffered /\ (mode = "text" => kind = "replace")

\* Nothing is added to what could be created.
LEMMA OfferKept ==
  ASSUME OfferInv, UNCHANGED <<mode, kind, prompt, offered>>,
         pins' # <<>> => pins # <<>>, strokes' # {} => strokes # {}
  PROVE  OfferInv'
  BY DEF OfferInv, CreateIsOffered, CanCreateInsert

\* Taking away of a sequence leaves it empty, or it was not.
LEMMA ShorterFacts ==
  ASSUME NEW S, NEW s \in Seq(S), NEW t \in Seq(S), Len(t) <= Len(s)
  PROVE  t # <<>> => s # <<>>
<1> SUFFICES ASSUME s = <<>> PROVE t = <<>>
    OBVIOUS
<1>1. Len(t) = 0
      BY LenProperties
<1>2. QED BY <1>1, EmptySeq

\* Every step keeps what can be created on offer.
LEMMA OfferSteps ==
  ASSUME PlacesInv, OfferInv, [AnnotationsNext]_annotationVars
  PROVE  OfferInv'
<1>1. pins \in Seq(Drawings) /\ OwnNotes(pins) /\ NoteIn(editing, pins)
      /\ editing \in {Nothing} \cup OpenNotes
      BY DEF PlacesInv
<1>2. Finalized(pins, editing) # <<>> => pins # <<>>
      <2>1. Committed(Finalized(pins, editing), pins, editing)
            BY <1>1, FinalizedFacts
      <2>2. QED BY <1>1, <2>1, ShorterFacts DEF Committed
<1>3. CASE Pointing
      <2>1. CASE PressClear \/ (\E s \in Marks : PressStroke(s)) \/ PressEdge
                 \/ Drag \/ ReleasePin \/ ReleaseEdge
            BY <2>1, OfferKept DEF PressClear, PressStroke, PressEdge, Drag,
               ReleasePin, ReleaseEdge, Quietly, ClearAnnotations
      <2>2. ASSUME NEW i \in Marks, DoublePressPin(i) PROVE OfferInv'
            <3>1. pins # <<>>
                  BY <2>2 DEF DoublePressPin
            <3>2. QED BY <2>2, <3>1, OfferKept DEF DoublePressPin, Quietly
      <2>3. ASSUME NEW i \in Marks, PressPin(i) PROVE OfferInv'
            <3>1. pins # <<>>
                  BY <2>3 DEF PressPin
            <3>2. QED BY <2>3, <3>1, OfferKept DEF PressPin, Quietly
      <2>4. CASE PressSurface
            <3>1. pins' # <<>> => pins # <<>>
                  BY <1>2, <2>4 DEF PressSurface
            <3>2. QED BY <2>4, <3>1, OfferKept DEF PressSurface, Quietly
      <2>5. CASE ReleaseMark
            <3>1. /\ mode' = mode /\ kind' = kind /\ prompt' = prompt
                  /\ offered' = IF kind = "insert"
                                THEN CanCreateInsert(pins', strokes', prompt)
                                ELSE offered
                  BY <2>5 DEF ReleaseMark, SyncInsertCreateButton
            <3>2. QED BY <3>1 DEF OfferInv, CreateIsOffered
      <2>6. QED BY <1>3, <2>1, <2>2, <2>3, <2>4, <2>5 DEF Pointing
<1>4. CASE Typing
      <2>1. CASE Type
            BY <2>1, OfferKept DEF Type, Quietly
      <2>2. CASE FinalizeEditingPin
            BY <1>2, <2>2, OfferKept DEF FinalizeEditingPin, Quietly
      <2>3. CASE CancelEditingPin
            <3>1. editing \in OpenNotes
                  BY <1>1, <2>3 DEF CancelEditingPin
            <3>2. pins' # <<>> => pins # <<>>
                  BY <1>1, <2>3, <3>1, CancelledFacts, ShorterFacts DEF CancelEditingPin
            <3>3. QED BY <2>3, <3>2, OfferKept DEF CancelEditingPin, Quietly
      <2>4. CASE EditPrompt
            <3>1. /\ mode' = mode /\ kind' = kind /\ pins' = pins
                  /\ strokes' = strokes /\ prompt' = ~prompt
                  /\ offered' = IF kind = "insert"
                                THEN CanCreateInsert(pins, strokes, ~prompt)
                                ELSE offered
                  BY <2>4 DEF EditPrompt, SyncInsertCreateButton, layer
            <3>2. QED BY <3>1 DEF OfferInv, CreateIsOffered
      <2>5. QED BY <1>4, <2>1, <2>2, <2>3, <2>4 DEF Typing
<1>5. CASE Surroundings
      <2>1. ASSUME NEW k \in {"replace", "insert"}, Configure(k) PROVE OfferInv'
            BY <2>1 DEF Configure, ClearAnnotations, OfferInv, CreateIsOffered,
               CanCreateInsert
      <2>2. CASE LeaveConfigure \/ CancelEditingToPicking \/ ServerLost \/ SessionEnds
            BY <2>2 DEF LeaveConfigure, CancelEditingToPicking, ServerLost,
               SessionEnds, OfferInv, CreateIsOffered
      <2>3. CASE EnterEditingMode \/ CancelEditing
            BY <2>3 DEF EnterEditingMode, CancelEditing, OfferInv, CreateIsOffered
      <2>4. QED BY <1>5, <2>1, <2>2, <2>3 DEF Surroundings
<1>6. CASE Capturing
      <2>1. CASE StartCapture
            BY <2>1 DEF StartCapture, OfferInv, CreateIsOffered
      <2>2. CASE HandleGo
            BY <2>1, <2>2 DEF HandleGo
      <2>3. CASE HandleInsertCreate
            <3>1. CASE CanCreateInsert(Finalized(pins, editing), strokes, prompt)
                  BY <2>1, <2>3, <3>1 DEF HandleInsertCreate
            <3>2. CASE ~CanCreateInsert(Finalized(pins, editing), strokes, prompt)
                  BY <1>2, <2>3, <3>2, OfferKept DEF HandleInsertCreate, Quietly
            <3>3. QED BY <3>1, <3>2
      <2>4. CASE \E c \in captures : Decorate(c) \/ Shoot(c) \/ Upload(c)
            BY <2>4, OfferKept DEF Decorate, Shoot, Upload, layer
      <2>5. QED BY <1>6, <2>2, <2>3, <2>4 DEF Capturing
<1>7. CASE UNCHANGED annotationVars
      BY <1>7, OfferKept DEF annotationVars, layer
<1>8. QED BY <1>3, <1>4, <1>5, <1>6, <1>7 DEF AnnotationsNext

-----------------------------------------------------------------------------
(* The snapshot.                                                           *)

NotesOf(ps) == {<<ps[i].id, ps[i].text>> : i \in DOMAIN ps}
NoteText(i) == IF editing # Nothing /\ editing.idx = i
               THEN editing.typed ELSE pins[i].text
Noted == {j \in DOMAIN pins : editing # Nothing /\ editing.idx = j
                                => editing.typed # 0}

\* Go takes exactly the notes that the layer shows.
LEMMA SnapshotIsDisplayed ==
  ASSUME PlacesInv
  PROVE  Snapshot(Finalized(pins, editing), strokes) = Displayed
<1> DEFINE qs == Finalized(pins, editing)
           shownNotes == {<<pins[i].id, NoteText(i)>> : i \in Noted}
<1>1. Displayed = [notes |-> shownNotes, strokes |-> strokes]
      BY DEF Displayed, NoteText, Noted
<1>2. Snapshot(qs, strokes) = [notes |-> NotesOf(qs), strokes |-> strokes]
      BY DEF Snapshot, NotesOf
<1>3. pins \in Seq(Drawings) /\ OwnNotes(pins) /\ NoteIn(editing, pins)
      /\ editing \in {Nothing} \cup OpenNotes
      /\ DOMAIN pins = 1..Len(pins) /\ Len(pins) \in Nat
      BY LenProperties DEF PlacesInv
<1>4. NotesOf(qs) = shownNotes
  <2>1. CASE editing = Nothing
        <3>1. qs = pins
              BY <2>1 DEF Finalized
        <3>2. Noted = DOMAIN pins /\ \A i \in Noted : NoteText(i) = pins[i].text
              BY <2>1 DEF Noted, NoteText
        <3> HIDE DEF qs
        <3>3. QED BY <3>1, <3>2 DEF NotesOf
  <2>2. CASE editing # Nothing /\ editing.typed # 0
        <3> DEFINE k == editing.idx
                   x == editing.typed
        <3>1. k \in DOMAIN pins /\ x \in {0, pins[k].id}
              BY <1>3, <2>2 DEF NoteIn
        <3>2. qs = [pins EXCEPT ![k].text = x]
              BY <2>2 DEF Finalized
        <3> HIDE DEF qs, x, k
        <3>3. Written(qs, pins, k, x)
              BY <1>3, <3>1, <3>2, WrittenFacts
        <3>4. Noted = DOMAIN pins
              BY <2>2 DEF Noted
        <3>5. \A i \in DOMAIN pins : NoteText(i) = IF i = k THEN x ELSE pins[i].text
              BY <2>2 DEF NoteText, k, x
        <3>6. /\ DOMAIN qs = DOMAIN pins
              /\ \A i \in DOMAIN pins : qs[i].id = pins[i].id /\ qs[i].text = NoteText(i)
              BY <3>1, <3>3, <3>5 DEF Written
        <3>7. QED BY <3>4, <3>6 DEF NotesOf
  <2>3. CASE editing # Nothing /\ editing.typed = 0
        <3> DEFINE k == editing.idx
                   n == Len(pins)
        <3>1. k \in DOMAIN pins /\ k \in 1..n /\ k \in Nat /\ n \in Nat
              BY <1>3, <2>3 DEF NoteIn
        <3>2. qs = RemoveAt(pins, k)
              BY <2>3 DEF Finalized
        <3> HIDE DEF qs, k
        <3>3. /\ qs \in Seq(Drawings) /\ Len(qs) = n - 1
              /\ \A j \in 1..(n - 1) : qs[j] = IF j < k THEN pins[j] ELSE pins[j + 1]
              BY <1>3, <3>1, <3>2, RemoveAtFacts
        <3>4. Noted = DOMAIN pins \ {k}
              BY <2>3 DEF Noted, k
        <3>5. \A i \in Noted : NoteText(i) = pins[i].text
              BY <3>4 DEF NoteText, k
        <3>6. DOMAIN qs = 1..(n - 1) /\ DOMAIN pins = 1..n
              BY <1>3, <3>3, LenProperties
        <3> HIDE DEF n
        <3>7. ASSUME NEW j \in DOMAIN qs
              PROVE  \E i \in Noted : qs[j] = pins[i]
              <4>1. CASE j < k
                    BY <3>1, <3>3, <3>4, <3>6, <4>1
              <4>2. CASE ~(j < k)
                    <5>1. j + 1 \in Noted /\ qs[j] = pins[j + 1]
                          BY <3>1, <3>3, <3>4, <3>6, <4>2
                    <5>2. QED BY <5>1
              <4>3. QED BY <4>1, <4>2
        <3>8. ASSUME NEW i \in Noted
              PROVE  \E j \in DOMAIN qs : qs[j] = pins[i]
              <4>1. CASE i < k
                    BY <3>1, <3>3, <3>4, <3>6, <4>1
              <4>2. CASE ~(i < k)
                    <5>1. i - 1 \in DOMAIN qs /\ ~(i - 1 < k) /\ (i - 1) + 1 = i
                          BY <3>1, <3>4, <3>6, <4>2
                    <5>2. qs[i - 1] = pins[i]
                          BY <3>3, <3>6, <5>1
                    <5>3. QED BY <5>1, <5>2
              <4>3. QED BY <4>1, <4>2
        <3>9. QED BY <3>5, <3>7, <3>8 DEF NotesOf
  <2>4. QED BY <2>1, <2>2, <2>3
<1>5. QED BY <1>1, <1>2, <1>4

\* The snapshots.
Snapshots == [notes : SUBSET (Nat \X Nat), strokes : SUBSET Nat]

\* A snapshot is of its type.
LEMMA SnapshotType ==
  ASSUME PlacesInv, strokes \in SUBSET Nat
  PROVE  Snapshot(Finalized(pins, editing), strokes) \in Snapshots
<1> DEFINE qs == Finalized(pins, editing)
<1>1. Committed(qs, pins, editing)
      BY FinalizedFacts DEF PlacesInv
<1>2. qs \in Seq(Drawings)
      BY <1>1 DEF Committed
<1> HIDE DEF qs
<1>3. \A i \in DOMAIN qs : qs[i] \in Drawings
      BY <1>2, LenProperties, ElementOfSeq
<1>4. \A i \in DOMAIN qs : qs[i].id \in Nat /\ qs[i].text \in Nat
      BY <1>3 DEF Drawings
<1>5. NotesOf(qs) \in SUBSET (Nat \X Nat)
      BY <1>4 DEF NotesOf
<1>6. Snapshot(qs, strokes) = [notes |-> NotesOf(qs), strokes |-> strokes]
      BY DEF Snapshot, NotesOf
<1>7. QED BY <1>5, <1>6 DEF Snapshots, qs

-----------------------------------------------------------------------------
(* The captures.                                                           *)

Captures == [session : Nat, snap : Snapshots,
             stage : {"fonts", "shot", "upload"}, saved : {"none", "own"}]
Events == [session : Nat, snap : Snapshots, picture : {"none", "uploaded"}]
PageElements == [nodes : SUBSET Nat, position : {"own", "relative"}]

OnePerSession(cs) == \A c, d \in cs : c.session = d.session => c = d
HasSession(cs, s) == \E c \in cs : c.session = s
AsShown(cs) == \A c \in cs : c.session \in DOMAIN shown /\ c.snap = shown[c.session]

\* Every session is in one capture or in one event, with what was shown.
SessionsInv ==
  /\ strokes \in SUBSET Nat /\ shown \in Seq(Snapshots)
  /\ captures \in SUBSET Captures /\ sent \in SUBSET Events
  /\ OnePerSession(captures) /\ OnePerSession(sent)
  /\ \A c \in captures : ~HasSession(sent, c.session)
  /\ \A s \in DOMAIN shown : HasSession(captures, s) \/ HasSession(sent, s)
  /\ AsShown(captures) /\ AsShown(sent)

\* The marks in the page's element are those of the pictures being taken, and
\* one of these has its own position to put back.
ElementInv ==
  /\ element \in PageElements
  /\ \A s \in element.nodes : \E c \in captures : c.session = s /\ c.stage = "shot"
  /\ element.position = "relative" =>
       \E c \in captures : c.stage = "shot" /\ c.saved = "own"

\* Strokes are numbered.
LEMMA StrokesKept ==
  ASSUME strokes \in SUBSET Nat, PlacesInv, [AnnotationsNext]_annotationVars
  PROVE  strokes' \in SUBSET Nat
<1>1. drawn + 1 \in Nat
      BY DEF PlacesInv
<1>2. CASE Pointing
      BY <1>1, <1>2 DEF Pointing, PressClear, ClearAnnotations, PressStroke,
         DoublePressPin, PressPin, PressSurface, PressEdge, Drag, ReleasePin,
         ReleaseMark, ReleaseEdge
<1>3. CASE Typing
      BY <1>3 DEF Typing, Type, FinalizeEditingPin, CancelEditingPin, EditPrompt, layer
<1>4. CASE Surroundings
      BY <1>4 DEF Surroundings, Configure, LeaveConfigure, EnterEditingMode,
         CancelEditing, CancelEditingToPicking, ServerLost, SessionEnds,
         ClearAnnotations, layer
<1>5. CASE Capturing
      <2>1. CASE HandleGo
            BY <2>1 DEF HandleGo, StartCapture, ClearAnnotations
      <2>2. CASE HandleInsertCreate
            BY <2>2 DEF HandleInsertCreate, StartCapture, ClearAnnotations
      <2>3. CASE \E c \in captures : Decorate(c) \/ Shoot(c) \/ Upload(c)
            BY <2>3 DEF Decorate, Shoot, Upload, layer
      <2>4. QED BY <1>5, <2>1, <2>2, <2>3 DEF Capturing
<1>6. CASE UNCHANGED annotationVars
      BY <1>6 DEF annotationVars, layer
<1>7. QED BY <1>2, <1>3, <1>4, <1>5, <1>6 DEF AnnotationsNext

\* A step that leaves the captures alone.
LEMMA CapturesSame ==
  ASSUME SessionsInv, ElementInv, UNCHANGED <<captureVars, shown>>,
         strokes' \in SUBSET Nat
  PROVE  SessionsInv' /\ ElementInv'
  BY DEF SessionsInv, ElementInv, captureVars, OnePerSession, HasSession, AsShown

\* Go and Create start the capture of a new session, with what was shown.
LEMMA StartCaptureStep ==
  ASSUME PlacesInv, SessionsInv, ElementInv, StartCapture
  PROVE  SessionsInv' /\ ElementInv'
<1> DEFINE n == Len(shown) + 1
           snap == Snapshot(Finalized(pins, editing), strokes)
           c == [session |-> n, snap |-> snap, stage |-> "fonts", saved |-> "none"]
<1>1. /\ captures' = captures \cup {c} /\ shown' = Append(shown, Displayed)
      /\ strokes' = {} /\ element' = element /\ sent' = sent
      BY DEF StartCapture, ClearAnnotations
<1>2. snap \in Snapshots /\ snap = Displayed
      BY SnapshotType, SnapshotIsDisplayed DEF SessionsInv
<1> HIDE DEF snap
<1>3. shown \in Seq(Snapshots) /\ DOMAIN shown = 1..Len(shown) /\ Len(shown) \in Nat
      BY LenProperties DEF SessionsInv
<1>4. /\ shown' \in Seq(Snapshots) /\ Len(shown') = n /\ shown'[n] = snap
      /\ \A s \in 1..Len(shown) : shown'[s] = shown[s]
      BY <1>1, <1>2, <1>3, AppendProperties
<1>5. DOMAIN shown' = 1..n /\ n \in Nat /\ n \notin DOMAIN shown
      /\ DOMAIN shown' = DOMAIN shown \cup {n}
      BY <1>3, <1>4, LenProperties
<1>6. c \in Captures /\ c.session = n /\ c.snap = snap /\ c.stage = "fonts"
      BY <1>2, <1>5 DEF Captures
<1> HIDE DEF c, n
<1>7. \A d \in captures \cup sent : d.session # n
      BY <1>5 DEF SessionsInv, AsShown
<1>8. OnePerSession(captures') /\ OnePerSession(sent')
      BY <1>1, <1>6, <1>7 DEF SessionsInv, OnePerSession
<1>9. \A d \in captures' : ~HasSession(sent', d.session)
      BY <1>1, <1>6, <1>7 DEF SessionsInv, HasSession
<1>10. \A s \in DOMAIN shown' : HasSession(captures', s) \/ HasSession(sent', s)
      BY <1>1, <1>5, <1>6 DEF SessionsInv, HasSession
<1>11. AsShown(captures)' /\ AsShown(sent)'
      BY <1>1, <1>3, <1>4, <1>5, <1>6 DEF SessionsInv, AsShown
<1>12. SessionsInv'
      BY <1>1, <1>4, <1>6, <1>8, <1>9, <1>10, <1>11 DEF SessionsInv
<1>13. ElementInv'
      BY <1>1 DEF ElementInv
<1>14. QED BY <1>12, <1>13

\* A capture goes on to its next stage.
LEMMA Replaced ==
  ASSUME SessionsInv, NEW c \in captures, NEW d \in Captures, Becoming(c, d),
         d.session = c.session, d.snap = c.snap, UNCHANGED <<sent, shown, strokes>>
  PROVE  SessionsInv'
<1>1. captures' = (captures \ {c}) \cup {d} /\ sent' = sent /\ shown' = shown
      BY DEF Becoming
<1>2. captures' \in SUBSET Captures
      BY <1>1 DEF SessionsInv
<1>3. OnePerSession(captures')
      BY <1>1 DEF SessionsInv, OnePerSession
<1>4. \A e \in captures' : ~HasSession(sent', e.session)
      BY <1>1 DEF SessionsInv
<1>5. \A s : HasSession(captures, s) => HasSession(captures', s)
      BY <1>1 DEF HasSession
<1>6. AsShown(captures)'
      BY <1>1 DEF SessionsInv, AsShown
<1>7. AsShown(sent)'
      BY <1>1 DEF SessionsInv, AsShown
<1>8. QED BY <1>1, <1>2, <1>3, <1>4, <1>5, <1>6, <1>7 DEF SessionsInv

\* A capture is over with its event.
LEMMA Posted ==
  ASSUME SessionsInv, NEW c \in captures, Drop(c), NEW path \in {"none", "uploaded"},
         sent' = sent \cup {Picture(c, path)}, UNCHANGED <<shown, strokes>>
  PROVE  SessionsInv'
<1> DEFINE e == Picture(c, path)
<1>1. captures' = captures \ {c} /\ sent' = sent \cup {e} /\ shown' = shown
      BY DEF Drop
<1>2. c \in Captures
      BY DEF SessionsInv
<1>3. e \in Events /\ e.session = c.session /\ e.snap = c.snap
      BY <1>2 DEF Picture, Events, Captures
<1> HIDE DEF e
<1>4. OnePerSession(captures') /\ OnePerSession(sent')
      BY <1>1, <1>3 DEF SessionsInv, OnePerSession, HasSession
<1>5. \A d \in captures' : ~HasSession(sent', d.session)
      BY <1>1, <1>3 DEF SessionsInv, OnePerSession, HasSession
<1>6. \A s \in DOMAIN shown' : HasSession(captures', s) \/ HasSession(sent', s)
      BY <1>1, <1>3 DEF SessionsInv, HasSession
<1>7. AsShown(captures)' /\ AsShown(sent)'
      BY <1>1, <1>3 DEF SessionsInv, AsShown
<1>8. QED BY <1>1, <1>3, <1>4, <1>5, <1>6, <1>7 DEF SessionsInv

\* The marks go into the element, and its own position is kept for later.
LEMMA DecorateStep ==
  ASSUME SessionsInv, ElementInv, NEW c \in captures, Decorate(c)
  PROVE  SessionsInv' /\ ElementInv'
<1>1. /\ c \in Captures /\ c.stage = "fonts" /\ UNCHANGED <<sent, shown, strokes>>
      BY DEF Decorate, InStage, SessionsInv, layer
<1>2. CASE HasAnnotations(c.snap)
      <2> DEFINE own == IF element.position = "own" THEN "own" ELSE "none"
                 d == [c EXCEPT !.stage = "shot", !.saved = own]
      <2>1. /\ Becoming(c, d)
            /\ element' = [nodes |-> element.nodes \cup {c.session},
                           position |-> "relative"]
            BY <1>2 DEF Decorate
      <2>2. /\ d \in Captures /\ d.session = c.session /\ d.snap = c.snap
            /\ d.stage = "shot" /\ d.saved = own
            BY <1>1 DEF Captures
      <2> HIDE DEF d
      <2>3. SessionsInv'
            BY <1>1, <2>1, <2>2, Replaced
      <2>4. captures' = (captures \ {c}) \cup {d}
            BY <2>1 DEF Becoming
      <2>5. element' \in PageElements
            BY <1>1, <2>1 DEF ElementInv, PageElements, Captures
      <2>6. element'.nodes = element.nodes \cup {c.session}
            BY <2>1
      <2>7. \A s \in element'.nodes : \E x \in captures' : x.session = s /\ x.stage = "shot"
            BY <1>1, <2>2, <2>4, <2>6 DEF ElementInv
      <2>8. \E x \in captures' : x.stage = "shot" /\ x.saved = "own"
            <3>1. CASE element.position = "own"
                  BY <2>2, <2>4, <3>1
            <3>2. CASE element.position # "own"
                  <4>1. element.position = "relative"
                        BY <3>2 DEF ElementInv, PageElements
                  <4>2. QED BY <1>1, <2>4, <4>1 DEF ElementInv
            <3>3. QED BY <3>1, <3>2
      <2>9. QED BY <2>3, <2>5, <2>7, <2>8 DEF ElementInv
<1>3. CASE ~HasAnnotations(c.snap)
      <2> DEFINE d == [c EXCEPT !.stage = "shot"]
      <2>1. Becoming(c, d) /\ element' = element
            BY <1>3 DEF Decorate, Moves
      <2>2. /\ d \in Captures /\ d.session = c.session /\ d.snap = c.snap
            BY <1>1 DEF Captures
      <2> HIDE DEF d
      <2>3. SessionsInv'
            BY <1>1, <2>1, <2>2, Replaced
      <2>4. captures' = (captures \ {c}) \cup {d}
            BY <2>1 DEF Becoming
      <2>5. QED BY <1>1, <2>1, <2>3, <2>4 DEF ElementInv
<1>4. QED BY <1>2, <1>3

\* The page's element is put back when the picture of c is over.
LEMMA PutBack ==
  ASSUME SessionsInv, ElementInv, NEW c \in captures, element' = Undecorated(c),
         \A d \in captures \ {c} : d \in captures'
  PROVE  ElementInv'
<1>1. /\ c \in Captures /\ element \in PageElements
      BY DEF SessionsInv, ElementInv
<1>2. /\ element'.nodes = element.nodes \ {c.session}
      /\ element'.position = IF c.saved = "none" THEN element.position ELSE c.saved
      BY DEF Undecorated
<1>3. element' \in PageElements
      BY <1>1 DEF Undecorated, PageElements, Captures
<1>4. \A s \in element'.nodes : \E x \in captures' : x.session = s /\ x.stage = "shot"
      BY <1>2 DEF ElementInv
<1>5. ASSUME element'.position = "relative"
      PROVE  \E x \in captures' : x.stage = "shot" /\ x.saved = "own"
      <2>1. c.saved = "none" /\ element.position = "relative"
            BY <1>1, <1>2, <1>5 DEF Captures
      <2>2. QED BY <2>1 DEF ElementInv
<1>6. QED BY <1>3, <1>4, <1>5 DEF ElementInv

\* The picture is over, taken or not.
LEMMA ShootStep ==
  ASSUME SessionsInv, ElementInv, NEW c \in captures, Shoot(c)
  PROVE  SessionsInv' /\ ElementInv'
<1>1. /\ c \in Captures /\ UNCHANGED <<shown, strokes>>
      /\ element' = Undecorated(c)
      BY DEF Shoot, SessionsInv, layer
<1>2. CASE HasAnnotations(c.snap) /\ Moves(c, "upload") /\ UNCHANGED sent
      <2> DEFINE d == [c EXCEPT !.stage = "upload"]
      <2>1. Becoming(c, d)
            BY <1>2 DEF Moves
      <2>2. /\ d \in Captures /\ d.session = c.session /\ d.snap = c.snap
            BY <1>1 DEF Captures
      <2> HIDE DEF d
      <2>3. SessionsInv'
            BY <1>1, <1>2, <2>1, <2>2, Replaced
      <2>4. \A x \in captures \ {c} : x \in captures'
            BY <2>1 DEF Becoming
      <2>5. QED BY <1>1, <2>3, <2>4, PutBack
<1>3. CASE Drop(c) /\ sent' = sent \cup {Picture(c, "none")}
      <2>1. SessionsInv'
            BY <1>1, <1>3, Posted
      <2>2. \A x \in captures \ {c} : x \in captures'
            BY <1>3 DEF Drop
      <2>3. QED BY <1>1, <2>1, <2>2, PutBack
<1>4. QED BY <1>2, <1>3 DEF Shoot

\* The upload is over, done or not.
LEMMA UploadStep ==
  ASSUME SessionsInv, ElementInv, NEW c \in captures, Upload(c)
  PROVE  SessionsInv' /\ ElementInv'
<1>1. /\ UNCHANGED <<shown, strokes>> /\ element' = element
      /\ c.stage = "upload" /\ captures' = captures \ {c} /\ Drop(c)
      BY DEF Upload, InStage, layer, Drop
<1>2. PICK path \in {"none", "uploaded"} : sent' = sent \cup {Picture(c, path)}
      BY DEF Upload
<1>3. SessionsInv'
      BY <1>1, <1>2, Posted
<1>4. ElementInv'
      BY <1>1 DEF ElementInv
<1>5. QED BY <1>3, <1>4

\* Every step keeps one capture or event per session.
LEMMA CapturesSteps ==
  ASSUME PlacesInv, SessionsInv, ElementInv, [AnnotationsNext]_annotationVars
  PROVE  SessionsInv' /\ ElementInv'
<1>1. strokes' \in SUBSET Nat
      BY StrokesKept DEF SessionsInv
<1>2. CASE Pointing
      <2>1. UNCHANGED <<captureVars, shown>>
            BY <1>2 DEF Pointing, PressClear, PressStroke, DoublePressPin, PressPin,
               PressSurface, PressEdge, Drag, ReleasePin, ReleaseMark, ReleaseEdge,
               Quietly
      <2>2. QED BY <1>1, <2>1, CapturesSame
<1>3. CASE Typing
      <2>1. UNCHANGED <<captureVars, shown>>
            BY <1>3 DEF Typing, Type, FinalizeEditingPin, CancelEditingPin,
               EditPrompt, Quietly
      <2>2. QED BY <1>1, <2>1, CapturesSame
<1>4. CASE Surroundings
      <2>1. UNCHANGED <<captureVars, shown>>
            BY <1>4 DEF Surroundings, Configure, LeaveConfigure, EnterEditingMode,
               CancelEditing, CancelEditingToPicking, ServerLost, SessionEnds
      <2>2. QED BY <1>1, <2>1, CapturesSame
<1>5. CASE Capturing
      <2>1. CASE HandleGo
            BY <2>1, StartCaptureStep DEF HandleGo
      <2>2. CASE HandleInsertCreate
            <3>1. CASE CanCreateInsert(Finalized(pins, editing), strokes, prompt)
                  BY <2>2, <3>1, StartCaptureStep DEF HandleInsertCreate
            <3>2. CASE ~CanCreateInsert(Finalized(pins, editing), strokes, prompt)
                  BY <1>1, <2>2, <3>2, CapturesSame DEF HandleInsertCreate, Quietly
            <3>3. QED BY <3>1, <3>2
      <2>3. QED BY <1>5, <2>1, <2>2, DecorateStep, ShootStep, UploadStep DEF Capturing
<1>6. CASE UNCHANGED annotationVars
      BY <1>1, <1>6, CapturesSame DEF annotationVars
<1>7. QED BY <1>2, <1>3, <1>4, <1>5, <1>6 DEF AnnotationsNext

-----------------------------------------------------------------------------
AnnotationsInv == PlacesInv /\ OfferInv /\ SessionsInv /\ ElementInv

\* The layer starts empty.
LEMMA AnnotationsStart == AnnotationsInit => AnnotationsInv
<1> SUFFICES ASSUME AnnotationsInit PROVE AnnotationsInv
    OBVIOUS
<1>1. PlacesInv
      <2>1. pins \in Seq(Drawings) /\ OwnNotes(pins)
            BY EmptySeq DEF AnnotationsInit, OwnNotes
      <2>2. QED BY <2>1 DEF AnnotationsInit, PlacesInv, NoteIn, Nothing
<1>2. OfferInv
      BY DEF AnnotationsInit, OfferInv, CreateIsOffered
<1>3. SessionsInv
      <2>1. shown \in Seq(Snapshots) /\ DOMAIN shown = {}
            BY EmptySeq DEF AnnotationsInit
      <2>2. QED BY <2>1 DEF AnnotationsInit, SessionsInv, OnePerSession,
                   HasSession, AsShown
<1>4. ElementInv
      BY DEF AnnotationsInit, ElementInv, PageElements
<1>5. QED BY <1>1, <1>2, <1>3, <1>4 DEF AnnotationsInv

\* Every step of the layer and of its captures keeps the invariant.
LEMMA AnnotationsSteps ==
  ASSUME AnnotationsInv, [AnnotationsNext]_annotationVars
  PROVE  AnnotationsInv'
  BY PlacesSteps, OfferSteps, CapturesSteps DEF AnnotationsInv

\* The one of a session.
LEMMA CountOne ==
  ASSUME NEW cs, OnePerSession(cs), NEW s
  PROVE  Cardinality({c \in cs : c.session = s}) = IF HasSession(cs, s) THEN 1 ELSE 0
<1> DEFINE ones == {c \in cs : c.session = s}
<1>1. CASE HasSession(cs, s)
      <2>1. PICK c \in cs : c.session = s
            BY <1>1 DEF HasSession
      <2>2. ones = {c}
            BY <2>1 DEF OnePerSession
      <2>3. QED BY <1>1, <2>2, FS_Singleton
<1>2. CASE ~HasSession(cs, s)
      <2>1. ones = {}
            BY <1>2 DEF HasSession
      <2>2. QED BY <1>2, <2>1, FS_EmptySet
<1>3. QED BY <1>1, <1>2

\* The invariant is what the property says, and more.
LEMMA AnnotationsImply == AnnotationsInv => MarksReachTheAgent
<1> SUFFICES ASSUME AnnotationsInv PROVE MarksReachTheAgent
    OBVIOUS
<1>1. PlacesStayTrue
      BY DEF AnnotationsInv, PlacesInv, PlacesStayTrue, OwnNotes, NoteIn
<1>2. CreateIsOffered
      BY DEF AnnotationsInv, OfferInv
<1>3. SentIsWhatWasDrawn
      <2> USE DEF AnnotationsInv
      <2>1. ASSUME NEW s \in DOMAIN shown
            PROVE  Cardinality({c \in captures : c.session = s})
                     + Cardinality({e \in sent : e.session = s}) = 1
            <3>1. /\ HasSession(captures, s) \/ HasSession(sent, s)
                  /\ ~(HasSession(captures, s) /\ HasSession(sent, s))
                  BY DEF SessionsInv, HasSession
            <3>2. OnePerSession(captures) /\ OnePerSession(sent)
                  BY DEF SessionsInv
            <3>3. /\ Cardinality({c \in captures : c.session = s})
                       = IF HasSession(captures, s) THEN 1 ELSE 0
                  /\ Cardinality({e \in sent : e.session = s})
                       = IF HasSession(sent, s) THEN 1 ELSE 0
                  BY <3>2, CountOne
            <3>4. QED BY <3>1, <3>3
      <2>2. \A e \in sent : e.snap = shown[e.session]
            BY DEF SessionsInv, AsShown
      <2>3. ASSUME \A c \in captures : c.stage # "shot"
            PROVE  element = [nodes |-> {}, position |-> "own"]
            <3>1. element \in PageElements /\ element.nodes = {} /\ element.position = "own"
                  BY <2>3 DEF ElementInv, PageElements
            <3>2. QED BY <3>1 DEF PageElements
      <2>4. QED BY <2>1, <2>2, <2>3 DEF SentIsWhatWasDrawn
<1>4. QED BY <1>1, <1>2, <1>3 DEF MarksReachTheAgent

-----------------------------------------------------------------------------
(* The detector and the Detect toggle (LiveDetect).                         *)

Groupings == [Elements -> SUBSET Kinds]
Toggles == [active : BOOLEAN, loaded : BOOLEAN, ready : BOOLEAN,
            wants : BOOLEAN, current : Nat, pending : Nat, count : Nat,
            pick : BOOLEAN, applying : BOOLEAN, exited : BOOLEAN]
Detectors == [here : BOOLEAN, generation : Nat, groups : Groupings,
              pageLevel : BOOLEAN, visual : BOOLEAN, rendered : BOOLEAN,
              lazy : SUBSET Elements, told : SUBSET Elements,
              missed : SUBSET Elements, styled : BOOLEAN, hidden : BOOLEAN,
              spot : Nat, backdrop : BOOLEAN, dimmed : SUBSET Elements,
              through : SUBSET Elements]
Webs == [flawed : SUBSET Elements, inView : SUBSET Elements,
         faint : SUBSET Elements, pageLevel : BOOLEAN]
Uses == [scans : Nat, commands : Nat, changes : Nat]
Jobs == [generation : Nat, how : {"scan", "async"}, id : Nat,
         todo : SUBSET Elements, failing : SUBSET Elements,
         outside : SUBSET Elements]
Waits == [el : Elements, generation : Nat]
Commands == {"scan", "remove", "toggle-overlays", "highlight", "unhighlight"}
Mails == {m \in [what : Commands \cup {"results", "ready"}, id : Nat, count : Nat] :
            m.what = "highlight" => m.id \in Elements}

DetectTypes ==
  /\ host \in {"tab", "panel", "script"}
  /\ toggle \in Toggles /\ mail \in Seq(Mails) /\ detector \in Detectors
  /\ overlays \in Groupings /\ jobs \in SUBSET Jobs /\ waiting \in SUBSET Waits
  /\ web \in Webs /\ used \in Uses

\* The smallest text of a set is one of it.
LEMMA Smallest ==
  ASSUME NEW T \in SUBSET Nat, T # {}
  PROVE  Min(T) \in T
<1> DEFINE Less == OpToRel(<, Nat)
<1>1. IsWellFoundedOn(Less, Nat)
      BY NatLessThanWellFounded
<1>2. \A x, y \in Nat : <<x, y>> \in Less <=> x < y
      BY SMT DEF OpToRel
<1> HIDE DEF Less
<1>3. \E x \in T : \A y \in T : ~ (<<y, x>> \in Less)
      BY <1>1, WFMin
<1>4. PICK x \in T : \A y \in T : ~ (<<y, x>> \in Less)
      BY <1>3
<1>5. \A y \in T : x <= y
  <2> TAKE y \in T
  <2>1. x \in Nat /\ y \in Nat
        OBVIOUS
  <2>2. ~ (y < x)
        BY <1>2, <1>4, <2>1
  <2>3. QED BY <2>1, <2>2
<1>6. QED BY <1>5 DEF Min

\* A page without overlays is a grouping like any other.
LEMMA Pictures ==
  /\ Bare \in Groupings /\ NoGroups \in Groupings /\ Bare = NoGroups
  /\ \A g \in Groupings : {e \in Elements : g[e] # {}} \in SUBSET Elements
BY DEF Bare, NoGroups, Groupings

\* The badge's number is a natural number, the elements being finitely many.
LEMMA CountIsNat ==
  ASSUME NEW d \in Detectors
  PROVE  Count(d) \in Nat
<1> DEFINE es == {e \in Elements : d.groups[e] # {}}
<1>1. es \in SUBSET Elements /\ IsFiniteSet(Elements)
      BY DetectAssumption
<1>2. Cardinality(es) \in Nat
      BY <1>1, FS_Subset, FS_CardinalityType
<1> HIDE DEF es
<1>3. Count(d) = Cardinality(es) + (IF d.pageLevel THEN 1 ELSE 0)
      BY DEF Count, es
<1>4. QED BY <1>2, <1>3

\* What a scan or a removal begins with.
LEMMA ClearedFacts ==
  ASSUME NEW d \in Detectors
  PROVE  /\ Cleared(d) \in Detectors /\ Cleared(d).generation = d.generation + 1
         /\ Cleared(d).lazy = {} /\ Cleared(d).told = {} /\ Cleared(d).missed = {}
         /\ Cleared(d).groups = NoGroups /\ Cleared(d).pageLevel = FALSE
         /\ Cleared(d).rendered = FALSE /\ Cleared(d).visual = FALSE
         /\ Cleared(d).dimmed = {} /\ Cleared(d).through = {}
         /\ Cleared(d).here = d.here /\ Cleared(d).styled = d.styled
         /\ Cleared(d).hidden = d.hidden /\ Cleared(d).spot = d.spot
         /\ Cleared(d).backdrop = d.backdrop
<1> DEFINE n == d.generation + 1
<1>1. n \in Nat
      BY DEF Detectors
<1>2. NoGroups \in Groupings
      BY Pictures
<1>3. Cleared(d) =
        [d EXCEPT !.generation = n, !.lazy = {}, !.told = {}, !.missed = {},
              !.groups = NoGroups, !.pageLevel = FALSE, !.rendered = FALSE,
              !.visual = FALSE, !.dimmed = {}, !.through = {}]
      BY DEF Cleared
<1> HIDE DEF n
<1>4. /\ Cleared(d) \in Detectors /\ Cleared(d).generation = n
         /\ Cleared(d).lazy = {} /\ Cleared(d).told = {} /\ Cleared(d).missed = {}
         /\ Cleared(d).groups = NoGroups /\ Cleared(d).pageLevel = FALSE
         /\ Cleared(d).rendered = FALSE /\ Cleared(d).visual = FALSE
         /\ Cleared(d).dimmed = {} /\ Cleared(d).through = {}
         /\ Cleared(d).here = d.here /\ Cleared(d).styled = d.styled
         /\ Cleared(d).hidden = d.hidden /\ Cleared(d).spot = d.spot
         /\ Cleared(d).backdrop = d.backdrop
      BY <1>1, <1>2, <1>3 DEF Detectors
<1>5. QED BY <1>4 DEF n

\* A new scan's detector.
Rescanned(d, r, rendered, visual) ==
  /\ r \in Detectors /\ r.generation = d.generation + 1
  /\ r.lazy = {} /\ r.told = {} /\ r.missed = {} /\ r.dimmed = {}
  /\ r.through = {} /\ r.rendered = rendered /\ r.visual = visual
  /\ r.here = d.here /\ r.styled = d.styled /\ r.hidden = d.hidden

\* scan and scanAsync start from it with nothing of the scan before.
LEMMA RescannedFacts ==
  ASSUME DetectTypes, NEW visual \in BOOLEAN,
         NEW c, c = Collected(Cleared(detector))
  PROVE  /\ Rescanned(detector, [c EXCEPT !.rendered = TRUE, !.visual = visual],
                      TRUE, visual)
         /\ Rescanned(detector, [c EXCEPT !.visual = TRUE], FALSE, TRUE)
<1> DEFINE d == Cleared(detector)
           g == [e \in Elements |-> IF e \in web.flawed THEN {"rule"} ELSE {}]
<1>1. /\ d \in Detectors /\ d.generation = detector.generation + 1
      /\ d.lazy = {} /\ d.told = {} /\ d.missed = {} /\ d.dimmed = {}
      /\ d.through = {} /\ d.rendered = FALSE
      /\ d.here = detector.here /\ d.styled = detector.styled
      /\ d.hidden = detector.hidden
      BY ClearedFacts DEF DetectTypes
<1>2. g \in Groupings /\ web.pageLevel \in BOOLEAN
      BY DEF Groupings, Kinds, DetectTypes, Webs
<1>3. c = [d EXCEPT !.groups = g, !.pageLevel = web.pageLevel]
      BY DEF Collected
<1> HIDE DEF d, g
<1>4. /\ c \in Detectors /\ c.generation = d.generation
      /\ c.lazy = d.lazy /\ c.told = d.told /\ c.missed = d.missed
      /\ c.dimmed = d.dimmed /\ c.through = d.through
      /\ c.rendered = d.rendered /\ c.here = d.here /\ c.styled = d.styled
      /\ c.hidden = d.hidden
      BY <1>1, <1>2, <1>3 DEF Detectors
<1>5. QED BY <1>1, <1>4 DEF Rescanned, Detectors

\* The messages.
LEMMA TailTypes ==
  ASSUME NEW m \in Seq(Mails), m # <<>>
  PROVE  /\ Head(m) \in Mails /\ Tail(m) \in Seq(Mails)
         /\ Head(m) = m[1] /\ 1 \in DOMAIN m
         /\ \A i \in DOMAIN Tail(m) : i + 1 \in DOMAIN m /\ Tail(m)[i] = m[i + 1]
         /\ \A i \in DOMAIN m : i # 1 => i - 1 \in DOMAIN Tail(m)
<1>1. /\ Head(m) \in Mails /\ Tail(m) \in Seq(Mails)
      /\ Len(Tail(m)) = Len(m) - 1
      /\ \A i \in 1..Len(Tail(m)) : Tail(m)[i] = m[i + 1]
      BY HeadTailProperties
<1>2. Len(m) \in Nat /\ DOMAIN m = 1..Len(m) /\ Len(m) # 0
      BY EmptySeq, LenProperties
<1>3. DOMAIN Tail(m) = 1..Len(Tail(m))
      BY <1>1, LenProperties
<1>4. Head(m) = m[1]
      OBVIOUS
<1>5. QED BY <1>1, <1>2, <1>3, <1>4

\* A message that is added is the last.
LEMMA AppendTypes ==
  ASSUME NEW m \in Seq(Mails), NEW x \in Mails
  PROVE  /\ Append(m, x) \in Seq(Mails) /\ m \o <<x>> = Append(m, x)
         /\ \A i \in DOMAIN m : i \in DOMAIN Append(m, x) /\ Append(m, x)[i] = m[i]
         /\ \E n \in DOMAIN Append(m, x) :
              /\ Append(m, x)[n] = x /\ n \notin DOMAIN m
              /\ \A i \in DOMAIN Append(m, x) : i \in DOMAIN m \/ i = n
              /\ \A i \in DOMAIN m : i < n
<1>1. /\ Append(m, x) \in Seq(Mails) /\ Len(Append(m, x)) = Len(m) + 1
      /\ \A i \in 1..Len(m) : Append(m, x)[i] = m[i]
      /\ Append(m, x)[Len(m) + 1] = x
      BY AppendProperties
<1>2. Len(m) \in Nat /\ DOMAIN m = 1..Len(m)
      BY LenProperties
<1>3. DOMAIN Append(m, x) = 1..(Len(m) + 1)
      BY <1>1, LenProperties
<1>4. m \o <<x>> = Append(m, x)
      BY AppendIsConcat
<1>5. QED BY <1>1, <1>2, <1>3, <1>4
-----------------------------------------------------------------------------
(* Types.                                                                  *)

\* What one message adds to the mail.
LEMMA PostTypes ==
  ASSUME DetectTypes, NEW x \in Mails
  PROVE  /\ Post(<<x>>) => mail' = Append(mail, x) /\ mail' \in Seq(Mails)
         /\ mail # <<>> => Tail(mail) \in Seq(Mails)
                           /\ Append(Tail(mail), x) \in Seq(Mails)
<1>1. mail \in Seq(Mails)
      BY DEF DetectTypes
<1>2. mail \o <<x>> = Append(mail, x) /\ Append(mail, x) \in Seq(Mails)
      BY <1>1, AppendTypes
<1>3. mail # <<>> => Tail(mail) \in Seq(Mails)
      BY <1>1, TailTypes
<1>4. ASSUME mail # <<>>
      PROVE  Append(Tail(mail), x) \in Seq(Mails)
      BY <1>3, <1>4, AppendTypes
<1>5. QED BY <1>2, <1>3, <1>4 DEF Post

\* Only elements are marked.
LEMMA MarkedType ==
  ASSUME DetectTypes PROVE Marked \in SUBSET Elements
  BY DEF Marked

\* Results are a message.
LEMMA ResultsType ==
  ASSUME NEW d \in Detectors, NEW id \in Nat
  PROVE  /\ Results(d, id) \in Mails /\ Results(d, id).what = "results"
         /\ Results(d, id).id = id /\ Results(d, id).count = Count(d)
  BY CountIsNat DEF Results, Mails

\* So are what the tab and the panel ask for.
LEMMA AskedTypes ==
  ASSUME DetectTypes
  PROVE  /\ ScanMessage \in Mails /\ ScanMessage.what = "scan"
         /\ ScanMessage.id = used.scans + 1
         /\ RemoveMessage \in Mails /\ RemoveMessage.what = "remove"
         /\ RemoveMessage.id = 0
         /\ used.scans + 1 \in Nat
<1>1. used.scans \in Nat
      BY DEF DetectTypes, Uses
<1>2. QED BY <1>1 DEF ScanMessage, RemoveMessage, Mails, Commands

\* Only what lets clicks through changes with the bar.
LEMMA BarFacts ==
  ASSUME DetectTypes, NEW t \in Toggles, BarStateUpdated(t)
  PROVE  /\ detector' = [detector EXCEPT !.through = IF t.pick THEN Marked ELSE {}]
         /\ detector' \in Detectors
         /\ detector'.through = IF t.pick THEN Marked ELSE {}
<1> DEFINE es == IF t.pick THEN Marked ELSE {}
<1>1. es \in SUBSET Elements
      BY MarkedType
<1>2. detector' = [detector EXCEPT !.through = es]
      BY DEF BarStateUpdated
<1> HIDE DEF es
<1>3. detector' \in Detectors /\ detector'.through = es
      BY <1>1, <1>2 DEF DetectTypes, Detectors
<1>4. QED BY <1>2, <1>3 DEF es

\* An element's new overlay.
LEMMA FreshFacts ==
  ASSUME NEW d \in Detectors, NEW es
  PROVE  /\ Fresh(d, es) \in Detectors
         /\ Fresh(d, es).dimmed = d.dimmed \ es
         /\ Fresh(d, es).groups = d.groups /\ Fresh(d, es).rendered = d.rendered
         /\ Fresh(d, es).generation = d.generation
         /\ Fresh(d, es).lazy = d.lazy /\ Fresh(d, es).told = d.told
         /\ Fresh(d, es).missed = d.missed /\ Fresh(d, es).visual = d.visual
         /\ Fresh(d, es).backdrop = d.backdrop /\ Fresh(d, es).spot = d.spot
  BY DEF Fresh, Detectors

\* A scan that is obeyed.
LEMMA ScanFacts ==
  ASSUME DetectTypes, NEW visual \in BOOLEAN, NEW id \in Nat, mail # <<>>,
         Scan(visual, id)
  PROVE  /\ Rescanned(detector, detector', TRUE, visual)
         /\ overlays' = detector'.groups
         /\ mail' = Append(Tail(mail), Results(detector', id))
         /\ mail' \in Seq(Mails)
         /\ jobs' = IF visual THEN jobs \cup {Job(detector', "scan", id)} ELSE jobs
<1> DEFINE c == Collected(Cleared(detector))
           d == [c EXCEPT !.rendered = TRUE, !.visual = visual]
<1>1. Rescanned(detector, d, TRUE, visual)
      BY RescannedFacts
<1>2. /\ detector' = d /\ overlays' = d.groups
      /\ mail' = Append(Tail(mail), Results(d, id))
      /\ jobs' = IF visual THEN jobs \cup {Job(d, "scan", id)} ELSE jobs
      BY DEF Scan
<1> HIDE DEF d
<1>3. Results(d, id) \in Mails
      BY <1>1, ResultsType DEF Rescanned
<1>4. QED BY <1>1, <1>2, <1>3, PostTypes

\* scanAsync draws nothing yet and samples every text.
LEMMA ScanAsyncFacts ==
  ASSUME DetectTypes, ScanAsync
  PROVE  /\ Rescanned(detector, detector', FALSE, TRUE) /\ overlays' = Bare
         /\ jobs' = jobs \cup {Job(detector', "async", used.scans + 1)}
         /\ UNCHANGED <<host, toggle, mail, waiting, web>> /\ host = "script"
         /\ used' = [used EXCEPT !.scans = @ + 1]
<1> DEFINE c == Collected(Cleared(detector))
           d == [c EXCEPT !.visual = TRUE]
<1>1. Rescanned(detector, d, FALSE, TRUE)
      BY RescannedFacts
<1>2. /\ detector' = d /\ overlays' = Bare
      /\ jobs' = jobs \cup {Job(d, "async", used.scans + 1)}
      BY DEF ScanAsync
<1> HIDE DEF d
<1>3. QED BY <1>1, <1>2 DEF ScanAsync

\* A new analysis has every text before it.
LEMMA JobFacts ==
  ASSUME NEW d \in Detectors, NEW how \in {"scan", "async"}, NEW id \in Nat
  PROVE  /\ Job(d, how, id) \in Jobs /\ Job(d, how, id).todo = Elements
         /\ Job(d, how, id).generation = d.generation
  BY DEF Job, Jobs, Detectors

\* One text after the other: it is set aside, found failing, or good.
LEMMA AnalyzeFacts ==
  ASSUME DetectTypes, NEW job \in jobs, Analyze(job)
  PROVE  \E next \in Jobs :
           /\ jobs' = (jobs \ {job}) \cup {next}
           /\ next.generation = job.generation
           /\ web.faint \cap (job.todo \cup job.failing \cup job.outside)
                \subseteq next.todo \cup next.failing \cup next.outside
<1> DEFINE e == Min(job.todo)
           todo == job.todo \ {e}
<1>1. job \in Jobs
      BY DEF DetectTypes
<1>2. e \in Elements
  <2>1. job.todo \in SUBSET Nat /\ job.todo # {} /\ job.todo \subseteq Elements
        BY <1>1, DetectAssumption DEF Jobs, Analyze
  <2>2. QED BY <2>1, Smallest
<1>3. \/ jobs' = (jobs \ {job}) \cup {[job EXCEPT !.todo = todo, !.outside = @ \cup {e}]}
      \/ jobs' = (jobs \ {job}) \cup {[job EXCEPT !.todo = todo, !.failing = @ \cup {e}]}
      \/ /\ e \notin web.faint
         /\ jobs' = (jobs \ {job}) \cup {[job EXCEPT !.todo = todo]}
      BY DEF Analyze
<1> HIDE DEF e
<1>4. CASE jobs' = (jobs \ {job}) \cup {[job EXCEPT !.todo = todo, !.outside = @ \cup {e}]}
  <2> DEFINE next == [job EXCEPT !.todo = todo, !.outside = @ \cup {e}]
  <2>1. /\ next \in Jobs /\ next.todo = todo /\ next.failing = job.failing
        /\ next.outside = job.outside \cup {e} /\ next.generation = job.generation
        BY <1>1, <1>2 DEF Jobs
  <2>2. jobs' = (jobs \ {job}) \cup {next}
        BY <1>4
  <2> HIDE DEF next
  <2>3. QED BY <2>1, <2>2
<1>5. CASE jobs' = (jobs \ {job}) \cup {[job EXCEPT !.todo = todo, !.failing = @ \cup {e}]}
  <2> DEFINE next == [job EXCEPT !.todo = todo, !.failing = @ \cup {e}]
  <2>1. /\ next \in Jobs /\ next.todo = todo /\ next.outside = job.outside
        /\ next.failing = job.failing \cup {e} /\ next.generation = job.generation
        BY <1>1, <1>2 DEF Jobs
  <2>2. jobs' = (jobs \ {job}) \cup {next}
        BY <1>5
  <2> HIDE DEF next
  <2>3. QED BY <2>1, <2>2
<1>6. CASE /\ e \notin web.faint
           /\ jobs' = (jobs \ {job}) \cup {[job EXCEPT !.todo = todo]}
  <2> DEFINE next == [job EXCEPT !.todo = todo]
  <2>1. /\ next \in Jobs /\ next.todo = todo /\ next.outside = job.outside
        /\ next.failing = job.failing /\ next.generation = job.generation
        BY <1>1 DEF Jobs
  <2>2. jobs' = (jobs \ {job}) \cup {next}
        BY <1>6
  <2> HIDE DEF next
  <2>3. QED BY <1>6, <2>1, <2>2
<1>7. QED BY <1>3, <1>4, <1>5, <1>6

\* The end of a scan's texts: nothing, for an earlier scan.
LEMMA JobEndsFacts ==
  ASSUME DetectTypes, NEW job \in jobs, JobEnds(job)
  PROVE  \/ job.generation # detector.generation
            /\ UNCHANGED <<detector, overlays, mail>>
         \/ /\ job.generation = detector.generation
            /\ detector' \in Detectors
            /\ detector'.generation = detector.generation
            /\ detector'.groups = [e \in Elements |->
                 IF e \in job.failing THEN detector.groups[e] \cup {"contrast"}
                 ELSE detector.groups[e]]
            /\ detector'.lazy = job.outside /\ detector'.told = {}
            /\ detector'.missed = detector.missed
            /\ detector'.rendered = TRUE /\ detector'.visual = detector.visual
            /\ detector'.dimmed = detector.dimmed \ job.failing
            /\ detector'.backdrop = detector.backdrop
            /\ detector'.spot = detector.spot
            /\ overlays' = detector'.groups
            /\ mail' = Append(mail, Results(detector', job.id))
            /\ mail' \in Seq(Mails)
<1>1. CASE job.generation # detector.generation
      BY <1>1 DEF JobEnds
<1>2. CASE job.generation = detector.generation
  <2> DEFINE f == Fresh(detector, job.failing)
             g == [e \in Elements |->
                     IF e \in job.failing THEN f.groups[e] \cup {"contrast"}
                     ELSE f.groups[e]]
             d == [f EXCEPT !.groups = g, !.lazy = job.outside, !.told = {},
                            !.rendered = TRUE]
  <2>1. job \in Jobs /\ detector \in Detectors
        BY DEF DetectTypes
  <2>2. /\ f \in Detectors /\ f.dimmed = detector.dimmed \ job.failing
        /\ f.groups = detector.groups /\ f.generation = detector.generation
        /\ f.missed = detector.missed /\ f.visual = detector.visual
        /\ f.backdrop = detector.backdrop /\ f.spot = detector.spot
        BY <2>1, FreshFacts
  <2>3. /\ detector' = d /\ overlays' = d.groups
        /\ Post(<<Results(d, job.id)>>)
    <3>1. detector' = [f EXCEPT !.groups = [e \in Elements |->
                            IF e \in job.failing THEN @[e] \cup {"contrast"}
                            ELSE @[e]],
                        !.lazy = job.outside, !.told = {}, !.rendered = TRUE]
          BY <1>2 DEF JobEnds
    <3>2. detector' = d
          BY <2>2, <3>1 DEF Detectors
    <3>3. overlays' = detector'.groups /\ Post(<<Results(detector', job.id)>>)
          BY <1>2 DEF JobEnds
    <3>4. QED BY <3>2, <3>3
  <2>4. g \in Groupings
        BY <2>2 DEF Groupings, Kinds, Detectors
  <2> HIDE DEF f, g
  <2>5. /\ d \in Detectors /\ d.groups = g /\ d.lazy = job.outside /\ d.told = {}
        /\ d.rendered = TRUE /\ d.generation = f.generation
        /\ d.missed = f.missed /\ d.visual = f.visual
        /\ d.dimmed = f.dimmed /\ d.backdrop = f.backdrop /\ d.spot = f.spot
        BY <2>1, <2>2, <2>4 DEF Detectors, Jobs
  <2>6. g = [e \in Elements |->
                 IF e \in job.failing THEN detector.groups[e] \cup {"contrast"}
                 ELSE detector.groups[e]]
        BY <2>2 DEF g
  <2> HIDE DEF d
  <2>7. Results(d, job.id) \in Mails
        BY <2>1, <2>5, ResultsType DEF Jobs
  <2>8. QED BY <1>2, <2>2, <2>3, <2>5, <2>6, <2>7, PostTypes
<1>3. QED BY <1>1, <1>2

\* A text that scrolled in is sampled, or passed over as it still is.
LEMMA LazyFiresFacts ==
  ASSUME DetectTypes, NEW e \in Elements, LazyFires(e)
  PROVE  /\ detector' \in Detectors
         /\ detector'.generation = detector.generation
         /\ detector'.groups = detector.groups
         /\ detector'.rendered = detector.rendered
         /\ detector'.visual = detector.visual
         /\ detector'.dimmed = detector.dimmed
         /\ detector'.backdrop = detector.backdrop
         /\ detector'.spot = detector.spot
         /\ detector'.told = detector.told \cup {e} /\ e \in detector.lazy
         /\ \/ /\ detector'.lazy = detector.lazy
               /\ detector'.missed = detector.missed \cup {e}
               /\ waiting' = waiting
            \/ /\ detector'.lazy = detector.lazy \ {e}
               /\ detector'.missed = detector.missed
               /\ waiting' = waiting \cup
                    {[el |-> e, generation |-> detector.generation]}
         /\ waiting' \in SUBSET Waits
         /\ UNCHANGED <<host, toggle, mail, overlays, jobs, web, used>>
<1>1. detector \in Detectors /\ waiting \in SUBSET Waits
      BY DEF DetectTypes
<1>2. [el |-> e, generation |-> detector.generation] \in Waits
      BY <1>1 DEF Waits, Detectors
<1>3. CASE \E w \in waiting : w.el = e
  <2>1. detector' = [detector EXCEPT !.told = @ \cup {e}, !.lazy = @,
                                     !.missed = @ \cup {e}]
        BY <1>3 DEF LazyFires
  <2>2. waiting' = waiting /\ e \in detector.lazy
        BY <1>3 DEF LazyFires
  <2>3. UNCHANGED <<host, toggle, mail, overlays, jobs, web, used>>
        BY DEF LazyFires
  <2>4. QED BY <1>1, <2>1, <2>2, <2>3 DEF Detectors
<1>4. CASE ~ \E w \in waiting : w.el = e
  <2>1. detector' = [detector EXCEPT !.told = @ \cup {e}, !.lazy = @ \ {e},
                                     !.missed = @]
        BY <1>4 DEF LazyFires
  <2>2. /\ waiting' = waiting \cup
                    {[el |-> e, generation |-> detector.generation]}
        /\ e \in detector.lazy
        BY <1>4 DEF LazyFires
  <2>3. UNCHANGED <<host, toggle, mail, overlays, jobs, web, used>>
        BY DEF LazyFires
  <2>4. QED BY <1>1, <1>2, <2>1, <2>2, <2>3 DEF Detectors
<1>5. QED BY <1>3, <1>4

\* Its sampling ends: for an earlier scan, with a mark, or without.
LEMMA LazyResolvesFacts ==
  ASSUME DetectTypes, NEW w \in waiting, LazyResolves(w)
  PROVE  \/ w.generation # detector.generation
            /\ UNCHANGED <<detector, overlays, mail>>
         \/ /\ w.generation = detector.generation
            /\ detector' \in Detectors
            /\ detector'.generation = detector.generation
            /\ detector'.groups =
                 [detector.groups EXCEPT ![w.el] = @ \cup {"contrast"}]
            /\ detector'.lazy = detector.lazy /\ detector'.told = detector.told
            /\ detector'.missed = detector.missed
            /\ detector'.rendered = detector.rendered
            /\ detector'.visual = detector.visual
            /\ detector'.dimmed = detector.dimmed \ {w.el}
            /\ detector'.backdrop = detector.backdrop
            /\ detector'.spot = detector.spot
            /\ overlays' = [overlays EXCEPT ![w.el] = detector'.groups[w.el]]
            /\ mail' = Append(mail, Results(detector', 0))
            /\ mail' \in Seq(Mails)
         \/ /\ w.generation = detector.generation
            /\ detector' \in Detectors
            /\ detector'.generation = detector.generation
            /\ detector'.groups = detector.groups
            /\ detector'.lazy = detector.lazy /\ detector'.told = detector.told
            /\ detector'.rendered = detector.rendered
            /\ detector'.visual = detector.visual
            /\ detector'.dimmed = detector.dimmed
            /\ detector'.backdrop = detector.backdrop
            /\ detector'.spot = detector.spot
            /\ detector.missed \subseteq detector'.missed
            /\ \/ w.el \in detector'.missed
               \/ w.el \notin web.faint
               \/ "contrast" \in detector.groups[w.el]
            /\ UNCHANGED <<overlays, mail>>
<1>1. CASE w.generation # detector.generation
      BY <1>1 DEF LazyResolves
<1>2. CASE /\ w.generation = detector.generation
           /\ w.el \in web.inView \cap web.faint
           /\ "contrast" \notin detector.groups[w.el]
  <2> DEFINE f == Fresh(detector, {w.el})
             g == [f.groups EXCEPT ![w.el] = @ \cup {"contrast"}]
             d == [f EXCEPT !.groups = g]
  <2>1. w \in Waits /\ detector \in Detectors
        BY DEF DetectTypes
  <2>2. /\ f \in Detectors /\ f.dimmed = detector.dimmed \ {w.el}
        /\ f.groups = detector.groups /\ f.generation = detector.generation
        /\ f.missed = detector.missed /\ f.visual = detector.visual
        /\ f.lazy = detector.lazy /\ f.told = detector.told
        /\ f.rendered = detector.rendered
        /\ f.backdrop = detector.backdrop /\ f.spot = detector.spot
        BY <2>1, FreshFacts
  <2>3. /\ detector' = d /\ overlays' = [overlays EXCEPT ![w.el] = d.groups[w.el]]
        /\ Post(<<Results(d, 0)>>)
    <3>1. detector' = [f EXCEPT !.groups[w.el] = @ \cup {"contrast"}]
          BY <1>2 DEF LazyResolves
    <3>2. detector' = d
          BY <2>2, <3>1 DEF Detectors
    <3>3. /\ overlays' = [overlays EXCEPT ![w.el] = detector'.groups[w.el]]
          /\ Post(<<Results(detector', 0)>>)
          BY <1>2 DEF LazyResolves
    <3>4. QED BY <3>2, <3>3
  <2>4. g \in Groupings
        BY <2>1, <2>2 DEF Groupings, Kinds, Detectors
  <2>5. g = [detector.groups EXCEPT ![w.el] = @ \cup {"contrast"}]
        BY <2>2
  <2> HIDE DEF f, g
  <2>6. /\ d \in Detectors /\ d.groups = g /\ d.lazy = f.lazy /\ d.told = f.told
        /\ d.rendered = f.rendered /\ d.generation = f.generation
        /\ d.missed = f.missed /\ d.visual = f.visual
        /\ d.dimmed = f.dimmed /\ d.backdrop = f.backdrop /\ d.spot = f.spot
        BY <2>2, <2>4 DEF Detectors
  <2> HIDE DEF d
  <2>7. Results(d, 0) \in Mails
        BY <2>6, ResultsType
  <2>8. QED BY <1>2, <2>2, <2>3, <2>5, <2>6, <2>7, PostTypes
<1>3. CASE /\ w.generation = detector.generation
           /\ ~ (/\ w.el \in web.inView \cap web.faint
                 /\ "contrast" \notin detector.groups[w.el])
  <2>1. w \in Waits /\ detector \in Detectors
        BY DEF DetectTypes
  <2>2. /\ detector' = IF w.el \in web.inView THEN detector
                       ELSE [detector EXCEPT !.missed = @ \cup {w.el}]
        /\ UNCHANGED <<overlays, mail>>
        BY <1>3 DEF LazyResolves
  <2>3. CASE w.el \in web.inView
        BY <1>3, <2>1, <2>2, <2>3
  <2>4. CASE w.el \notin web.inView
    <3>1. detector' = [detector EXCEPT !.missed = @ \cup {w.el}]
          BY <2>2, <2>4
    <3>2. w.el \in Elements
          BY <2>1 DEF Waits
    <3>3. QED BY <1>3, <2>1, <2>2, <3>1, <3>2 DEF Detectors
  <2>5. QED BY <2>3, <2>4
<1>4. QED BY <1>1, <1>2, <1>3

\* What a removal, a hiding and a spotlight leave of the detector.
LEMMA RemoveFacts ==
  ASSUME DetectTypes, RemoveOverlays
  PROVE  /\ detector' \in Detectors
         /\ detector'.generation = detector.generation + 1
         /\ detector'.lazy = {} /\ detector'.told = {} /\ detector'.missed = {}
         /\ detector'.groups = NoGroups /\ detector'.pageLevel = FALSE
         /\ detector'.rendered = FALSE /\ detector'.visual = FALSE
         /\ detector'.dimmed = {} /\ detector'.hidden = FALSE
         /\ detector'.here = detector.here
         /\ overlays' = Bare /\ mail' = Tail(mail) /\ jobs' = jobs
<1> DEFINE d == Cleared(detector)
<1>1. /\ d \in Detectors /\ d.generation = detector.generation + 1
      /\ d.lazy = {} /\ d.told = {} /\ d.missed = {} /\ d.groups = NoGroups
      /\ d.pageLevel = FALSE /\ d.rendered = FALSE /\ d.visual = FALSE
      /\ d.dimmed = {} /\ d.here = detector.here
      BY ClearedFacts DEF DetectTypes
<1>2. detector' = [d EXCEPT !.styled = FALSE, !.backdrop = FALSE, !.hidden = FALSE]
      BY DEF RemoveOverlays
<1> HIDE DEF d
<1>3. QED BY <1>1, <1>2 DEF RemoveOverlays, Detectors

Redrawn(d, r) ==
  /\ r \in Detectors /\ r.generation = d.generation
  /\ r.lazy = d.lazy /\ r.told \subseteq d.told /\ r.missed = d.missed
  /\ r.groups = d.groups /\ r.pageLevel = d.pageLevel
  /\ r.rendered = d.rendered /\ r.visual = d.visual

\* toggle-overlays, highlight and unhighlight redraw nothing.
LEMMA SpotFacts ==
  ASSUME DetectTypes
  PROVE  /\ ToggleOverlays => /\ Redrawn(detector, detector')
                              /\ detector'.dimmed = detector.dimmed
                              /\ detector'.backdrop = detector.backdrop
                              /\ detector'.spot = detector.spot
         /\ \A e \in Elements : Highlight(e) =>
               /\ Redrawn(detector, detector') /\ detector'.dimmed = Marked \ {e}
               /\ detector'.backdrop = TRUE /\ detector'.spot = e
         /\ Unhighlight => Redrawn(detector, detector') /\ detector'.dimmed = {}
<1>1. detector \in Detectors /\ Marked \in SUBSET Elements
      BY MarkedType DEF DetectTypes
<1>2. ASSUME ToggleOverlays
      PROVE  /\ Redrawn(detector, detector')
             /\ detector'.dimmed = detector.dimmed
             /\ detector'.backdrop = detector.backdrop
             /\ detector'.spot = detector.spot
  <2> DEFINE b == ~detector.hidden
  <2>1. b \in BOOLEAN
        OBVIOUS
  <2>2. detector' = [detector EXCEPT !.hidden = b]
        BY <1>2 DEF ToggleOverlays
  <2> HIDE DEF b
  <2>3. QED BY <1>1, <2>1, <2>2 DEF Redrawn, Detectors
<1>3. ASSUME NEW e \in Elements, Highlight(e)
      PROVE  /\ Redrawn(detector, detector') /\ detector'.dimmed = Marked \ {e}
             /\ detector'.backdrop = TRUE /\ detector'.spot = e
  <2> DEFINE es == Marked \ {e}
  <2>1. es \in SUBSET Elements /\ e \in Nat
        BY <1>1, DetectAssumption
  <2>2. detector' = [detector EXCEPT !.spot = e, !.backdrop = TRUE, !.dimmed = es]
        BY <1>3 DEF Highlight
  <2> HIDE DEF es
  <2>3. /\ Redrawn(detector, detector') /\ detector'.dimmed = es
        /\ detector'.backdrop = TRUE /\ detector'.spot = e
        BY <1>1, <2>1, <2>2 DEF Redrawn, Detectors
  <2>4. QED BY <2>3 DEF es
<1>4. ASSUME Unhighlight
      PROVE  Redrawn(detector, detector') /\ detector'.dimmed = {}
  <2>1. detector' = [detector EXCEPT !.spot = 0, !.backdrop = FALSE, !.dimmed = {}]
        BY <1>4 DEF Unhighlight
  <2>2. QED BY <1>1, <2>1 DEF Redrawn, Detectors
<1>5. QED BY <1>2, <1>3, <1>4
-----------------------------------------------------------------------------
(* What is drawn, and what is still to be sampled.                         *)

\* The overlays are the last scan's, once it has drawn them.
DrawnAsFound ==
  /\ overlays = IF detector.rendered THEN detector.groups ELSE Bare
  /\ detector.dimmed \subseteq Marked
  /\ detector.dimmed # {} => detector.backdrop = TRUE /\ detector.spot # 0

\* No work is for a scan to come; what is sampled late was drawn before.
WorkIsKnown ==
  /\ \A job \in jobs : job.generation <= detector.generation
  /\ \A w \in waiting :
       /\ w.generation <= detector.generation
       /\ w.generation = detector.generation => detector.rendered = TRUE
  /\ detector.lazy # {} => detector.rendered = TRUE
  /\ detector.lazy \cap detector.told \subseteq detector.missed

\* Where the check of a faint text of the last scan may have got to.
Found(e) == "contrast" \in detector.groups[e]
SampledLate(e) == \E w \in waiting : w.el = e /\ w.generation = detector.generation
Accounted(e) ==
  Found(e) \/ e \in detector.missed \/ e \in detector.lazy \/ SampledLate(e)
JobsCover ==
  \A job \in jobs : job.generation = detector.generation =>
     web.faint \subseteq job.todo \cup job.failing \cup job.outside
FaintAreAccounted ==
  detector.visual = TRUE =>
    \/ \E job \in jobs : job.generation = detector.generation
    \/ \A e \in web.faint : Accounted(e)

DrawnInv == DetectTypes /\ DrawnAsFound /\ WorkIsKnown /\ JobsCover
            /\ FaintAreAccounted

\* A step that leaves scan and work alone.
LEMMA DrawnKept ==
  ASSUME DrawnInv, DetectTypes', Redrawn(detector, detector'),
         UNCHANGED <<overlays, jobs, waiting>>, web'.faint = web.faint,
         \/ detector'.dimmed = {}
         \/ detector'.dimmed \subseteq Marked /\ detector'.backdrop = TRUE
              /\ detector'.spot # 0
         \/ detector'.dimmed = detector.dimmed /\ detector'.spot = detector.spot
              /\ detector'.backdrop = detector.backdrop
  PROVE  DrawnInv'
<1>1. DrawnAsFound'
      BY DEF DrawnInv, DrawnAsFound, Redrawn, Marked
<1>2. WorkIsKnown'
      BY DEF DrawnInv, WorkIsKnown, Redrawn
<1>3. JobsCover'
      BY DEF DrawnInv, JobsCover, Redrawn
<1>4. FaintAreAccounted'
      BY DEF DrawnInv, FaintAreAccounted, Redrawn, Accounted, Found, SampledLate
<1>5. QED BY <1>1, <1>2, <1>3, <1>4 DEF DrawnInv

\* A new scan leaves the work of the earlier ones behind.
LEMMA DrawnAfresh ==
  ASSUME DrawnInv, DetectTypes', NEW rendered \in BOOLEAN, NEW visual \in BOOLEAN,
         detector'.generation = detector.generation + 1,
         detector'.lazy = {}, detector'.dimmed = {},
         detector'.rendered = rendered, detector'.visual = visual,
         overlays' = IF rendered THEN detector'.groups ELSE Bare,
         UNCHANGED waiting, web'.faint = web.faint,
         \/ jobs' = jobs /\ visual = FALSE
         \/ \E job \in Jobs : /\ jobs' = jobs \cup {job} /\ job.todo = Elements
                              /\ job.generation = detector'.generation
  PROVE  DrawnInv'
<1>1. /\ detector.generation \in Nat
      /\ \A job \in jobs : job.generation \in Nat
      /\ \A w \in waiting : w.generation \in Nat
      BY DEF DrawnInv, DetectTypes, Detectors, Jobs, Waits
<1>2. DrawnAsFound'
      BY DEF DrawnAsFound
<1>3. /\ \A job \in jobs : job.generation # detector'.generation
                           /\ job.generation <= detector'.generation
      /\ \A w \in waiting : w.generation # detector'.generation
                           /\ w.generation <= detector'.generation
      BY <1>1 DEF DrawnInv, WorkIsKnown
<1>4. WorkIsKnown'
  <2>1. \A job \in jobs' : job.generation <= detector'.generation
        BY <1>1, <1>3
  <2>2. QED BY <1>3, <2>1 DEF WorkIsKnown
<1>5. JobsCover'
  <2>1. web.faint \subseteq Elements
        BY DEF DrawnInv, DetectTypes, Webs
  <2>2. \A job \in jobs' : job.generation = detector'.generation =>
          web.faint \subseteq job.todo \cup job.failing \cup job.outside
        BY <1>3, <2>1
  <2>3. QED BY <2>2 DEF JobsCover
<1>6. FaintAreAccounted'
      BY DEF FaintAreAccounted
<1>7. QED BY <1>2, <1>4, <1>5, <1>6 DEF DrawnInv

\* The work on the last scan's texts goes on.
LEMMA AnalyzeKeeps ==
  ASSUME DrawnInv, NEW job \in jobs, Analyze(job)
  PROVE  DrawnInv'
<1>1. PICK next \in Jobs :
           /\ jobs' = (jobs \ {job}) \cup {next}
           /\ next.generation = job.generation
           /\ web.faint \cap (job.todo \cup job.failing \cup job.outside)
                \subseteq next.todo \cup next.failing \cup next.outside
      BY AnalyzeFacts DEF DrawnInv
<1>2. UNCHANGED <<host, toggle, mail, detector, overlays, waiting, web, used>>
      BY DEF Analyze
<1>3. DetectTypes'
      BY <1>1, <1>2 DEF DrawnInv, DetectTypes
<1>4. DrawnAsFound'
      BY <1>2 DEF DrawnInv, DrawnAsFound, Marked
<1>5. WorkIsKnown'
      BY <1>1, <1>2 DEF DrawnInv, WorkIsKnown
<1>6. JobsCover'
      BY <1>1, <1>2 DEF DrawnInv, JobsCover
<1>7. FaintAreAccounted'
  <2>1. \A e : Accounted(e) => Accounted(e)'
        BY <1>2 DEF Accounted, Found, SampledLate
  <2>2. (\E j \in jobs : j.generation = detector.generation) =>
           \E j \in jobs' : j.generation = detector'.generation
        BY <1>1, <1>2
  <2>3. QED BY <1>2, <2>1, <2>2 DEF DrawnInv, FaintAreAccounted
<1>8. QED BY <1>3, <1>4, <1>5, <1>6, <1>7 DEF DrawnInv

\* What an analysis found is drawn and accounted for, or was for another scan.
LEMMA JobEndsKeeps ==
  ASSUME DrawnInv, NEW job \in jobs, JobEnds(job)
  PROVE  DrawnInv'
<1>1. /\ jobs' = jobs \ {job} /\ job.todo = {}
      /\ UNCHANGED <<host, toggle, waiting, web, used>>
      BY DEF JobEnds
<1>2. DetectTypes /\ job \in Jobs
      BY DEF DrawnInv, DetectTypes
<1>3. CASE /\ job.generation # detector.generation
           /\ UNCHANGED <<detector, overlays, mail>>
  <2>1. DetectTypes'
        BY <1>1, <1>2, <1>3 DEF DetectTypes
  <2>2. DrawnAsFound'
        BY <1>3 DEF DrawnInv, DrawnAsFound, Marked
  <2>3. WorkIsKnown' /\ JobsCover'
        BY <1>1, <1>3 DEF DrawnInv, WorkIsKnown, JobsCover
  <2>4. \A e : Accounted(e) => Accounted(e)'
        BY <1>1, <1>3 DEF Accounted, Found, SampledLate
  <2>5. FaintAreAccounted'
        BY <1>1, <1>3, <2>4 DEF DrawnInv, FaintAreAccounted
  <2>6. QED BY <2>1, <2>2, <2>3, <2>5 DEF DrawnInv
<1>4. CASE /\ job.generation = detector.generation
           /\ detector' \in Detectors
           /\ detector'.generation = detector.generation
           /\ detector'.groups = [e \in Elements |->
                 IF e \in job.failing THEN detector.groups[e] \cup {"contrast"}
                 ELSE detector.groups[e]]
           /\ detector'.lazy = job.outside /\ detector'.told = {}
           /\ detector'.missed = detector.missed
           /\ detector'.rendered = TRUE /\ detector'.visual = detector.visual
           /\ detector'.dimmed = detector.dimmed \ job.failing
           /\ detector'.backdrop = detector.backdrop
           /\ detector'.spot = detector.spot
           /\ overlays' = detector'.groups
           /\ mail' \in Seq(Mails)
  <2>1. DetectTypes'
    <3>1. overlays' \in Groupings
          BY <1>4 DEF Detectors
    <3>2. QED BY <1>1, <1>2, <1>4, <3>1 DEF DetectTypes
  <2>2. DrawnAsFound'
    <3>1. overlays' = IF detector'.rendered THEN detector'.groups ELSE Bare
          BY <1>4
    <3>2. \A e \in Elements : overlays[e] # {} => overlays'[e] # {}
      <4>1. \A e \in Elements : Bare[e] = {}
            BY DEF Bare
      <4>2. QED BY <1>4, <4>1 DEF DrawnInv, DrawnAsFound
    <3>3. Marked \subseteq Marked'
          BY <3>2 DEF Marked
    <3>4. QED BY <1>4, <3>1, <3>3 DEF DrawnInv, DrawnAsFound
  <2>3. WorkIsKnown' /\ JobsCover'
        BY <1>1, <1>4 DEF DrawnInv, WorkIsKnown, JobsCover
  <2>4. \A e \in web.faint : Accounted(e)'
    <3> TAKE e \in web.faint
    <3>1. e \in job.failing \/ e \in job.outside
          BY <1>1, <1>4 DEF DrawnInv, JobsCover
    <3>2. e \in Elements
          BY <1>2 DEF DetectTypes, Webs
    <3>3. e \in job.failing => "contrast" \in detector'.groups[e]
          BY <1>4, <3>2
    <3>4. QED BY <1>4, <3>1, <3>3 DEF Accounted, Found
  <2>5. FaintAreAccounted'
        BY <1>1, <2>4 DEF FaintAreAccounted
  <2>6. QED BY <2>1, <2>2, <2>3, <2>5 DEF DrawnInv
<1>5. QED BY <1>2, <1>3, <1>4, JobEndsFacts

\* A text that is told of is being sampled or missed.
LEMMA LazyFiresKeeps ==
  ASSUME DrawnInv, NEW e \in Elements, LazyFires(e)
  PROVE  DrawnInv'
<1>1. DetectTypes
      BY DEF DrawnInv
<1>2. /\ detector' \in Detectors
      /\ detector'.generation = detector.generation
      /\ detector'.groups = detector.groups
      /\ detector'.rendered = detector.rendered
      /\ detector'.visual = detector.visual
      /\ detector'.dimmed = detector.dimmed
      /\ detector'.backdrop = detector.backdrop
      /\ detector'.spot = detector.spot
      /\ detector'.told = detector.told \cup {e} /\ e \in detector.lazy
      /\ waiting' \in SUBSET Waits
      /\ UNCHANGED <<host, toggle, mail, overlays, jobs, web, used>>
      BY <1>1, LazyFiresFacts
<1>3. \/ /\ detector'.lazy = detector.lazy
         /\ detector'.missed = detector.missed \cup {e}
         /\ waiting' = waiting
      \/ /\ detector'.lazy = detector.lazy \ {e}
         /\ detector'.missed = detector.missed
         /\ waiting' = waiting \cup
                    {[el |-> e, generation |-> detector.generation]}
      BY <1>1, LazyFiresFacts
<1>4. DetectTypes'
      BY <1>1, <1>2 DEF DetectTypes
<1>5. DrawnAsFound'
      BY <1>2 DEF DrawnInv, DrawnAsFound, Marked
<1>6. detector.generation \in Nat
      BY <1>1 DEF DetectTypes, Detectors
<1>7. WorkIsKnown'
  <2>1. detector.rendered = TRUE
        BY <1>2 DEF DrawnInv, WorkIsKnown
  <2>2. \A w \in waiting' : w.generation <= detector'.generation
        BY <1>2, <1>3, <1>6 DEF DrawnInv, WorkIsKnown
  <2>3. QED BY <1>2, <1>3, <2>1, <2>2 DEF DrawnInv, WorkIsKnown
<1>8. JobsCover'
      BY <1>2 DEF DrawnInv, JobsCover
<1>9. \A f : Accounted(f) => Accounted(f)'
  <2> TAKE f
  <2>1. Found(f) => Found(f)'
        BY <1>2 DEF Found
  <2>2. SampledLate(f) => SampledLate(f)'
        BY <1>2, <1>3 DEF SampledLate
  <2>3. f \in detector.missed => f \in detector'.missed
        BY <1>3
  <2>4. f \in detector.lazy => f \in detector'.lazy \/ SampledLate(f)'
    <3> DEFINE w == [el |-> e, generation |-> detector.generation]
    <3>1. w.el = e /\ w.generation = detector'.generation
          BY <1>2
    <3>2. f \notin detector.lazy \/ f \in detector'.lazy \/ f = e
          BY <1>3
    <3>3. w \in waiting' \/ detector'.lazy = detector.lazy
          BY <1>3
    <3> HIDE DEF w
    <3>4. QED BY <3>1, <3>2, <3>3 DEF SampledLate
  <2>5. QED BY <2>1, <2>2, <2>3, <2>4 DEF Accounted
<1>10. FaintAreAccounted'
      BY <1>2, <1>9 DEF DrawnInv, FaintAreAccounted
<1>11. QED BY <1>4, <1>5, <1>7, <1>8, <1>10 DEF DrawnInv

\* What it is sampled for is found, missed, or not faint.
LEMMA LazyResolvesKeeps ==
  ASSUME DrawnInv, NEW w \in waiting, LazyResolves(w)
  PROVE  DrawnInv'
<1>1. /\ waiting' = waiting \ {w}
      /\ UNCHANGED <<host, toggle, jobs, web, used>>
      BY DEF LazyResolves
<1>2. DetectTypes /\ w \in Waits /\ w.el \in Elements
      BY DEF DrawnInv, DetectTypes, Waits
<1>3. CASE /\ w.generation # detector.generation
           /\ UNCHANGED <<detector, overlays, mail>>
  <2>1. DetectTypes'
        BY <1>1, <1>2, <1>3 DEF DetectTypes
  <2>2. DrawnAsFound'
        BY <1>3 DEF DrawnInv, DrawnAsFound, Marked
  <2>3. WorkIsKnown' /\ JobsCover'
        BY <1>1, <1>3 DEF DrawnInv, WorkIsKnown, JobsCover
  <2>4. \A e : Accounted(e) => Accounted(e)'
    <3> TAKE e
    <3>1. SampledLate(e) => SampledLate(e)'
          BY <1>1, <1>3 DEF SampledLate
    <3>2. QED BY <1>3, <3>1 DEF Accounted, Found
  <2>5. FaintAreAccounted'
        BY <1>1, <1>3, <2>4 DEF DrawnInv, FaintAreAccounted
  <2>6. QED BY <2>1, <2>2, <2>3, <2>5 DEF DrawnInv
<1>4. ASSUME /\ detector' \in Detectors
             /\ detector'.generation = detector.generation
             /\ detector'.lazy = detector.lazy
             /\ detector'.told = detector.told
             /\ detector'.rendered = detector.rendered
             /\ detector'.visual = detector.visual
             /\ detector.missed \subseteq detector'.missed,
             \A e : Found(e) => Found(e)',
             w.el \in web.faint => Found(w.el)' \/ w.el \in detector'.missed,
             DrawnAsFound', DetectTypes'
      PROVE  DrawnInv'
  <2>1. WorkIsKnown'
        BY <1>1, <1>4 DEF DrawnInv, WorkIsKnown
  <2>2. JobsCover'
        BY <1>1, <1>4 DEF DrawnInv, JobsCover
  <2>3. \A e \in web.faint : Accounted(e) => Accounted(e)'
    <3> TAKE e \in web.faint
    <3>1. SampledLate(e) => SampledLate(e)' \/ e = w.el
          BY <1>1, <1>4 DEF SampledLate
    <3>2. QED BY <1>4, <3>1 DEF Accounted
  <2>4. FaintAreAccounted'
        BY <1>1, <1>4, <2>3 DEF DrawnInv, FaintAreAccounted
  <2>5. QED BY <1>4, <2>1, <2>2, <2>4 DEF DrawnInv
<1>5. CASE /\ w.generation = detector.generation
           /\ detector' \in Detectors
           /\ detector'.generation = detector.generation
           /\ detector'.groups =
                 [detector.groups EXCEPT ![w.el] = @ \cup {"contrast"}]
           /\ detector'.lazy = detector.lazy /\ detector'.told = detector.told
           /\ detector'.missed = detector.missed
           /\ detector'.rendered = detector.rendered
           /\ detector'.visual = detector.visual
           /\ detector'.dimmed = detector.dimmed \ {w.el}
           /\ detector'.backdrop = detector.backdrop
           /\ detector'.spot = detector.spot
           /\ overlays' = [overlays EXCEPT ![w.el] = detector'.groups[w.el]]
           /\ mail' \in Seq(Mails)
  <2>1. detector.groups \in Groupings /\ overlays \in Groupings
        BY <1>2 DEF DetectTypes, Detectors
  <2>2. /\ detector'.groups[w.el] = detector.groups[w.el] \cup {"contrast"}
        /\ \A e \in Elements : e # w.el => detector'.groups[e] = detector.groups[e]
        BY <1>2, <1>5, <2>1 DEF Groupings
  <2>3. detector.rendered = TRUE
        BY <1>5 DEF DrawnInv, WorkIsKnown
  <2>4. overlays = detector.groups
        BY <2>3 DEF DrawnInv, DrawnAsFound
  <2>5. overlays' = detector'.groups
        BY <1>2, <1>5, <2>1, <2>2, <2>4 DEF Groupings
  <2>6. overlays' \in Groupings
        BY <1>5, <2>5 DEF Detectors
  <2>7. DetectTypes'
        BY <1>1, <1>2, <1>5, <2>6 DEF DetectTypes
  <2>8. Marked \subseteq Marked'
        BY <2>2, <2>4, <2>5 DEF Marked
  <2>9. DrawnAsFound'
        BY <1>5, <2>3, <2>5, <2>8 DEF DrawnInv, DrawnAsFound
  <2>10. \A e : Found(e) => Found(e)'
    <3> TAKE e
    <3>1. CASE e \in Elements
          BY <2>2, <3>1 DEF Found
    <3>2. CASE e \notin Elements
          BY <1>2, <1>5, <2>1, <3>2 DEF Found, Groupings
    <3>3. QED BY <3>1, <3>2
  <2>11. Found(w.el)'
        BY <1>1, <2>2 DEF Found
  <2>12. QED BY <1>4, <1>5, <2>7, <2>9, <2>10, <2>11
<1>6. CASE /\ w.generation = detector.generation
           /\ detector' \in Detectors
           /\ detector'.generation = detector.generation
           /\ detector'.groups = detector.groups
           /\ detector'.lazy = detector.lazy /\ detector'.told = detector.told
           /\ detector'.rendered = detector.rendered
           /\ detector'.visual = detector.visual
           /\ detector'.dimmed = detector.dimmed
           /\ detector'.backdrop = detector.backdrop
           /\ detector'.spot = detector.spot
           /\ detector.missed \subseteq detector'.missed
           /\ \/ w.el \in detector'.missed
              \/ w.el \notin web.faint
              \/ "contrast" \in detector.groups[w.el]
           /\ UNCHANGED <<overlays, mail>>
  <2>1. DetectTypes'
        BY <1>1, <1>2, <1>6 DEF DetectTypes
  <2>2. DrawnAsFound'
        BY <1>6 DEF DrawnInv, DrawnAsFound, Marked
  <2>3. \A e : Found(e) => Found(e)'
        BY <1>6 DEF Found
  <2>4. w.el \in web.faint => Found(w.el)' \/ w.el \in detector'.missed
        BY <1>1, <1>6 DEF Found
  <2>5. QED BY <1>4, <1>6, <2>1, <2>2, <2>3, <2>4
<1>7. QED BY <1>2, <1>3, <1>5, <1>6, LazyResolvesFacts

\* The host's commands.
LEMMA CommandKeeps ==
  ASSUME DrawnInv, Command
  PROVE  DrawnInv'
<1> DEFINE m == Head(mail)
<1>1. /\ mail # <<>> /\ m.what \notin {"results", "ready"} /\ Obeys(m)
      /\ UNCHANGED <<host, toggle, waiting, web, used>>
      BY DEF Command
<1>2. DetectTypes /\ mail \in Seq(Mails)
      BY DEF DrawnInv, DetectTypes
<1>3. m \in Mails /\ Tail(mail) \in Seq(Mails)
      BY <1>1, <1>2, TailTypes
<1> HIDE DEF m
<1>4. m.id \in Nat /\ (m.what = "highlight" => m.id \in Elements)
      BY <1>3 DEF Mails
<1>5. ASSUME mail' = Tail(mail), UNCHANGED <<overlays, jobs>>, detector' \in Detectors
      PROVE  DetectTypes'
      BY <1>1, <1>2, <1>3, <1>5 DEF DetectTypes
<1>6. CASE ~detector.here
  <2>1. mail' = Tail(mail) /\ UNCHANGED <<detector, overlays, jobs>>
        BY <1>1, <1>6 DEF Obeys
  <2>2. detector \in Detectors
        BY <1>2 DEF DetectTypes
  <2>3. DetectTypes'
        BY <1>5, <2>1, <2>2
  <2>4. Redrawn(detector, detector')
        BY <2>1, <2>2 DEF Redrawn
  <2>5. QED BY <1>1, <2>1, <2>3, <2>4, DrawnKept
<1>7. CASE Scan(host = "panel", m.id)
  <2> DEFINE visual == (host = "panel")
  <2>1. visual \in BOOLEAN
        OBVIOUS
  <2> HIDE DEF visual
  <2>2. Scan(visual, m.id)
        BY <1>7 DEF visual
  <2>3. /\ Rescanned(detector, detector', TRUE, visual)
        /\ overlays' = detector'.groups /\ mail' \in Seq(Mails)
        /\ jobs' = IF visual THEN jobs \cup {Job(detector', "scan", m.id)} ELSE jobs
        BY <1>1, <1>2, <1>4, <2>1, <2>2, ScanFacts
  <2>4. detector' \in Detectors
        BY <2>3 DEF Rescanned
  <2>5. /\ Job(detector', "scan", m.id) \in Jobs
        /\ Job(detector', "scan", m.id).todo = Elements
        /\ Job(detector', "scan", m.id).generation = detector'.generation
        BY <1>4, <2>4, JobFacts
  <2>6. overlays' \in Groupings /\ jobs' \in SUBSET Jobs
        BY <1>2, <2>3, <2>4, <2>5 DEF DetectTypes, Detectors
  <2>7. DetectTypes'
        BY <1>1, <1>2, <2>3, <2>4, <2>6 DEF DetectTypes
  <2>8. /\ detector'.generation = detector.generation + 1
        /\ detector'.lazy = {} /\ detector'.dimmed = {}
        /\ detector'.rendered = TRUE /\ detector'.visual = visual
        BY <2>3 DEF Rescanned
  <2>9. \/ jobs' = jobs /\ visual = FALSE
        \/ \E job \in Jobs : /\ jobs' = jobs \cup {job} /\ job.todo = Elements
                             /\ job.generation = detector'.generation
        BY <2>1, <2>3, <2>5
  <2>10. QED BY <1>1, <2>1, <2>3, <2>7, <2>8, <2>9, DrawnAfresh
<1>8. CASE RemoveOverlays
  <2>1. /\ detector' \in Detectors
        /\ detector'.generation = detector.generation + 1
        /\ detector'.lazy = {} /\ detector'.dimmed = {}
        /\ detector'.rendered = FALSE /\ detector'.visual = FALSE
        /\ overlays' = Bare /\ mail' = Tail(mail) /\ jobs' = jobs
        BY <1>2, <1>8, RemoveFacts
  <2>2. DetectTypes'
        BY <1>1, <1>2, <1>3, <2>1, Pictures DEF DetectTypes
  <2>3. QED BY <1>1, <2>1, <2>2, DrawnAfresh
<1>9. CASE ToggleOverlays
  <2>1. /\ Redrawn(detector, detector') /\ detector'.dimmed = detector.dimmed
        /\ detector'.backdrop = detector.backdrop
        /\ detector'.spot = detector.spot
        BY <1>2, <1>9, SpotFacts
  <2>2. mail' = Tail(mail) /\ UNCHANGED <<overlays, jobs>>
        BY <1>9 DEF ToggleOverlays
  <2>3. DetectTypes'
        BY <1>5, <2>1, <2>2 DEF Redrawn
  <2>4. QED BY <1>1, <2>1, <2>2, <2>3, DrawnKept
<1>10. CASE m.what = "highlight" /\ Highlight(m.id)
  <2>1. /\ Redrawn(detector, detector') /\ detector'.dimmed = Marked \ {m.id}
        /\ detector'.backdrop = TRUE /\ detector'.spot = m.id
        BY <1>2, <1>4, <1>10, SpotFacts
  <2>2. mail' = Tail(mail) /\ UNCHANGED <<overlays, jobs>>
        BY <1>10 DEF Highlight
  <2>3. DetectTypes'
        BY <1>5, <2>1, <2>2 DEF Redrawn
  <2>4. detector'.dimmed \subseteq Marked /\ detector'.spot # 0
        BY <1>4, <1>10, <2>1, DetectAssumption
  <2>5. QED BY <1>1, <2>1, <2>2, <2>3, <2>4, DrawnKept
<1>11. CASE Unhighlight
  <2>1. Redrawn(detector, detector') /\ detector'.dimmed = {}
        BY <1>2, <1>11, SpotFacts
  <2>2. mail' = Tail(mail) /\ UNCHANGED <<overlays, jobs>>
        BY <1>11 DEF Unhighlight
  <2>3. DetectTypes'
        BY <1>5, <2>1, <2>2 DEF Redrawn
  <2>4. QED BY <1>1, <2>1, <2>2, <2>3, DrawnKept
<1>12. QED BY <1>1, <1>6, <1>7, <1>8, <1>9, <1>10, <1>11 DEF Obeys
-----------------------------------------------------------------------------
(* The steps of the tab, of the panel and of the page.                     *)

\* A bar that is updated redraws nothing but lets clicks through.
Bared(t) ==
  /\ detector' \in Detectors /\ Redrawn(detector, detector')
  /\ detector'.here = detector.here /\ detector'.hidden = detector.hidden
  /\ detector'.styled = detector.styled /\ detector'.dimmed = detector.dimmed
  /\ detector'.backdrop = detector.backdrop /\ detector'.spot = detector.spot
  /\ detector'.through = IF t.pick THEN Marked ELSE {}

\* updateGlobalBarState is such a step.
LEMMA BarRedraws ==
  ASSUME DetectTypes, NEW t \in Toggles, BarStateUpdated(t)
  PROVE  Bared(t)
<1> DEFINE es == IF t.pick THEN Marked ELSE {}
<1>1. /\ detector' = [detector EXCEPT !.through = es]
      /\ detector' \in Detectors /\ detector'.through = es
      BY BarFacts
<1>2. detector \in Detectors
      BY DEF DetectTypes
<1> HIDE DEF es
<1>3. Redrawn(detector, detector')
      BY <1>1, <1>2 DEF Redrawn, Detectors
<1>4. /\ detector'.here = detector.here /\ detector'.hidden = detector.hidden
      /\ detector'.styled = detector.styled /\ detector'.dimmed = detector.dimmed
      /\ detector'.backdrop = detector.backdrop /\ detector'.spot = detector.spot
      BY <1>1, <1>2 DEF Detectors
<1>5. QED BY <1>1, <1>3, <1>4 DEF Bared, es

ScanAsked ==
  /\ toggle'.current = used.scans + 1
  /\ mail' = Append(mail, ScanMessage) /\ used' \in Uses
  /\ used'.scans = used.scans + 1

\* Detect is switched on: a scan is asked for, or waits for the script.
LEMMA DetectOnFacts ==
  ASSUME DetectTypes, DetectOn
  PROVE  /\ toggle' \in Toggles /\ toggle'.active = TRUE /\ toggle.active = FALSE
         /\ toggle'.pick = toggle.pick /\ toggle'.ready = toggle.ready
         /\ toggle'.exited = FALSE /\ toggle.exited = FALSE
         /\ \/ toggle.ready = TRUE /\ ScanAsked
            \/ /\ toggle.ready = FALSE \/ toggle.loaded = FALSE
               /\ toggle'.current = toggle.current /\ UNCHANGED <<mail, used>>
               /\ toggle'.loaded = TRUE
         /\ toggle.loaded = TRUE => toggle'.loaded = TRUE
         /\ mail' \in Seq(Mails) /\ used' \in Uses /\ Bared(toggle)
         /\ UNCHANGED <<host, overlays, jobs, waiting, web>>
<1>1. toggle \in Toggles /\ used \in Uses /\ mail \in Seq(Mails)
      BY DEF DetectTypes
<1>2. Bared(toggle)
      BY <1>1, BarRedraws DEF DetectOn
<1>3. CASE toggle.loaded /\ toggle.ready
  <2> DEFINE n == used.scans + 1
  <2>1. n \in Nat /\ ScanMessage \in Mails
        BY AskedTypes
  <2>2. toggle' = [toggle EXCEPT !.active = TRUE, !.current = n, !.pending = n]
        BY <1>3 DEF DetectOn, ScanRequested
  <2>3. used' = [used EXCEPT !.scans = n] /\ Post(<<ScanMessage>>)
        BY <1>3 DEF DetectOn
  <2>4. mail' = Append(mail, ScanMessage) /\ mail' \in Seq(Mails)
        BY <2>1, <2>3, PostTypes
  <2> HIDE DEF n
  <2>5. used' \in Uses /\ used'.scans = n
        BY <1>1, <2>1, <2>3 DEF Uses
  <2>6. /\ toggle' \in Toggles /\ toggle'.active = TRUE /\ toggle'.current = n
        /\ toggle'.pick = toggle.pick /\ toggle'.ready = toggle.ready
        /\ toggle'.exited = toggle.exited /\ toggle'.loaded = toggle.loaded
        BY <1>1, <2>1, <2>2 DEF Toggles
  <2>7. ScanAsked
        BY <2>4, <2>5, <2>6 DEF ScanAsked, n
  <2>8. QED BY <1>1, <1>2, <1>3, <2>4, <2>5, <2>6, <2>7
            DEF DetectOn, CanUseBar, Toggles
<1>4. CASE ~(toggle.loaded /\ toggle.ready)
  <2>1. toggle' = [toggle EXCEPT !.active = TRUE, !.wants = TRUE, !.loaded = TRUE]
        BY <1>4 DEF DetectOn
  <2>2. UNCHANGED <<mail, used>>
        BY <1>4 DEF DetectOn
  <2>3. /\ toggle' \in Toggles /\ toggle'.active = TRUE
        /\ toggle'.current = toggle.current /\ toggle'.loaded = TRUE
        /\ toggle'.pick = toggle.pick /\ toggle'.ready = toggle.ready
        /\ toggle'.exited = toggle.exited
        BY <1>1, <2>1 DEF Toggles
  <2>4. QED BY <1>1, <1>2, <1>4, <2>2, <2>3 DEF DetectOn, CanUseBar, Toggles
<1>5. QED BY <1>3, <1>4

\* Detect is switched off: the overlays' removal is asked for.
LEMMA DetectOffFacts ==
  ASSUME DetectTypes, DetectOff
  PROVE  /\ toggle' \in Toggles /\ toggle'.active = FALSE
         /\ toggle'.current = 0 /\ toggle'.ready = toggle.ready
         /\ toggle'.loaded = toggle.loaded
         /\ mail' = Append(mail, RemoveMessage) /\ mail' \in Seq(Mails)
         /\ used' \in Uses /\ used'.scans = used.scans /\ Bared(toggle)
         /\ UNCHANGED <<host, overlays, jobs, waiting, web>>
<1>1. toggle \in Toggles /\ used \in Uses
      BY DEF DetectTypes
<1>2. Bared(toggle)
      BY <1>1, BarRedraws DEF DetectOff
<1>3. mail' = Append(mail, RemoveMessage) /\ mail' \in Seq(Mails)
      BY AskedTypes, PostTypes DEF DetectOff
<1>4. toggle' = [toggle EXCEPT !.active = FALSE, !.current = 0, !.pending = 0,
                               !.count = 0]
      BY DEF DetectOff
<1> DEFINE n == used.commands + 1
<1>5. used' = [used EXCEPT !.commands = n] /\ n \in Nat
      BY <1>1 DEF DetectOff, Uses
<1> HIDE DEF n
<1>6. used' \in Uses /\ used'.scans = used.scans
      BY <1>1, <1>5 DEF Uses
<1>7. /\ toggle' \in Toggles /\ toggle'.active = FALSE /\ toggle'.current = 0
      /\ toggle'.ready = toggle.ready /\ toggle'.loaded = toggle.loaded
      BY <1>1, <1>4 DEF Toggles
<1>8. UNCHANGED <<host, overlays, jobs, waiting, web>>
      BY DEF DetectOff
<1>9. QED BY <1>2, <1>3, <1>6, <1>7, <1>8

\* The script is ready: the scan that waited for it is asked for.
LEMMA ReadyFacts ==
  ASSUME DetectTypes, Ready
  PROVE  /\ toggle' \in Toggles /\ toggle'.active = toggle.active
         /\ toggle'.exited = toggle.exited /\ toggle'.pick = toggle.pick
         /\ toggle'.loaded = toggle.loaded
         /\ mail # <<>> /\ Head(mail).what = "ready" /\ mail' \in Seq(Mails)
         /\ \/ /\ toggle.exited = FALSE /\ toggle.active = TRUE
               /\ toggle'.ready = TRUE
               /\ toggle'.current = used.scans + 1
               /\ mail' = Append(Tail(mail), ScanMessage)
               /\ used'.scans = used.scans + 1
            \/ /\ toggle'.current = toggle.current /\ mail' = Tail(mail)
               /\ toggle'.pending = toggle.pending
               /\ toggle'.count = toggle.count
               /\ toggle'.ready = TRUE \/ toggle'.ready = toggle.ready
               /\ used' = used
         /\ used' \in Uses
         /\ UNCHANGED <<host, detector, overlays, jobs, waiting, web>>
<1>1. toggle \in Toggles /\ used \in Uses /\ mail \in Seq(Mails)
      BY DEF DetectTypes
<1>2. /\ mail # <<>> /\ Head(mail).what = "ready"
      /\ UNCHANGED <<host, detector, overlays, jobs, waiting, web>>
      BY DEF Ready
<1>3. /\ ScanMessage \in Mails /\ used.scans + 1 \in Nat
      /\ Tail(mail) \in Seq(Mails) /\ Append(Tail(mail), ScanMessage) \in Seq(Mails)
      BY <1>2, AskedTypes, PostTypes
<1> DEFINE n == used.scans + 1
           asks == ~toggle.exited /\ toggle.wants /\ toggle.active
                     /\ used.scans < MaxScans
<1>4. CASE asks
  <2>1. /\ toggle' = [toggle EXCEPT !.ready = TRUE, !.wants = FALSE,
                                    !.current = n, !.pending = n]
        /\ mail' = Append(Tail(mail), ScanMessage)
        /\ used' = [used EXCEPT !.scans = n]
        BY <1>4 DEF Ready, ScanRequested
  <2>2. toggle.exited = FALSE /\ toggle.active = TRUE /\ n \in Nat
        BY <1>1, <1>3, <1>4 DEF Toggles
  <2> HIDE DEF n
  <2>3. used' \in Uses /\ used'.scans = n
        BY <1>1, <2>1, <2>2 DEF Uses
  <2>4. /\ toggle' \in Toggles /\ toggle'.active = toggle.active
        /\ toggle'.exited = toggle.exited /\ toggle'.pick = toggle.pick
        /\ toggle'.ready = TRUE /\ toggle'.current = n
        /\ toggle'.loaded = toggle.loaded
        BY <1>1, <2>1, <2>2 DEF Toggles
  <2>5. QED BY <1>2, <1>3, <2>1, <2>2, <2>3, <2>4 DEF n
<1>5. CASE ~asks
  <2>1. /\ toggle' = IF toggle.exited THEN toggle
                     ELSE [toggle EXCEPT !.ready = TRUE]
        /\ mail' = Tail(mail) /\ used' = used
        BY <1>5 DEF Ready
  <2>2. /\ toggle' \in Toggles /\ toggle'.active = toggle.active
        /\ toggle'.exited = toggle.exited /\ toggle'.pick = toggle.pick
        /\ toggle'.current = toggle.current /\ toggle'.loaded = toggle.loaded
        /\ toggle'.pending = toggle.pending
        /\ toggle'.count = toggle.count
        /\ toggle'.ready = TRUE \/ toggle'.ready = toggle.ready
        BY <1>1, <2>1 DEF Toggles
  <2>3. QED BY <1>1, <1>2, <1>3, <2>1, <2>2
<1>6. QED BY <1>4, <1>5

\* Results come: they count, or they are of another scan.
LEMMA ResultsFacts ==
  ASSUME DetectTypes, ResultsArrive
  PROVE  /\ toggle' \in Toggles /\ toggle'.active = toggle.active
         /\ toggle'.exited = toggle.exited /\ toggle'.pick = toggle.pick
         /\ toggle'.ready = toggle.ready /\ toggle'.current = toggle.current
         /\ toggle'.loaded = toggle.loaded
         /\ mail # <<>> /\ Head(mail).what = "results"
         /\ mail' = Tail(mail) /\ mail' \in Seq(Mails)
         /\ \/ /\ host = "tab" /\ Counted(toggle, Head(mail)) /\ Bared(toggle)
               /\ toggle.exited = FALSE
               /\ toggle'.count = Head(mail).count /\ toggle'.pending = 0
            \/ /\ ~(host = "tab" /\ ~toggle.exited /\ Counted(toggle, Head(mail)))
               /\ UNCHANGED <<toggle, detector>>
         /\ UNCHANGED <<host, overlays, jobs, waiting, web, used>>
<1>1. toggle \in Toggles /\ mail \in Seq(Mails)
      BY DEF DetectTypes
<1>2. /\ mail # <<>> /\ Head(mail).what = "results" /\ mail' = Tail(mail)
      /\ UNCHANGED <<host, overlays, jobs, waiting, web, used>>
      BY DEF ResultsArrive
<1>3. Head(mail) \in Mails /\ Tail(mail) \in Seq(Mails)
      BY <1>1, <1>2, TailTypes
<1> DEFINE n == Head(mail).count
<1>4. n \in Nat
      BY <1>3 DEF Mails
<1>5. CASE host = "tab" /\ ~toggle.exited /\ Counted(toggle, Head(mail))
  <2>1. toggle' = [toggle EXCEPT !.count = n, !.pending = 0]
        BY <1>5 DEF ResultsArrive
  <2>2. Bared(toggle)
        BY <1>1, <1>5, BarRedraws DEF ResultsArrive
  <2> HIDE DEF n
  <2>3. /\ toggle' \in Toggles /\ toggle'.active = toggle.active
        /\ toggle'.exited = toggle.exited /\ toggle'.pick = toggle.pick
        /\ toggle'.ready = toggle.ready /\ toggle'.current = toggle.current
        /\ toggle'.loaded = toggle.loaded
        /\ toggle'.count = n /\ toggle'.pending = 0
        BY <1>1, <1>4, <2>1 DEF Toggles
  <2>4. QED BY <1>1, <1>2, <1>3, <1>5, <2>2, <2>3 DEF Toggles, n
<1>6. CASE ~(host = "tab" /\ ~toggle.exited /\ Counted(toggle, Head(mail)))
  <2>1. UNCHANGED <<toggle, detector>>
        BY <1>6 DEF ResultsArrive
  <2>2. QED BY <1>1, <1>2, <1>3, <1>6, <2>1
<1>7. QED BY <1>5, <1>6

\* Pick, the lock of an Apply, and leaving.
LEMMA BarStepFacts ==
  ASSUME DetectTypes, TogglePicking \/ LockBar
  PROVE  /\ toggle' \in Toggles /\ toggle'.active = toggle.active
         /\ toggle'.exited = toggle.exited /\ toggle'.ready = toggle.ready
         /\ toggle'.current = toggle.current /\ toggle'.loaded = toggle.loaded
         /\ toggle'.pending = toggle.pending /\ toggle'.count = toggle.count
         /\ used' \in Uses /\ used'.scans = used.scans /\ Bared(toggle')
         /\ UNCHANGED <<host, mail, overlays, jobs, waiting, web>>
<1>1. toggle \in Toggles /\ used \in Uses
      BY DEF DetectTypes
<1>2. CASE TogglePicking
  <2> DEFINE b == ~toggle.pick
             n == used.changes + 1
  <2>1. b \in BOOLEAN /\ n \in Nat
        BY <1>1 DEF Uses
  <2>2. /\ toggle' = [toggle EXCEPT !.pick = b]
        /\ used' = [used EXCEPT !.changes = n] /\ BarStateUpdated(toggle')
        /\ UNCHANGED <<host, mail, overlays, jobs, waiting, web>>
        BY <1>2 DEF TogglePicking
  <2> HIDE DEF b, n
  <2>3. used' \in Uses /\ used'.scans = used.scans
        BY <1>1, <2>1, <2>2 DEF Uses
  <2>4. /\ toggle' \in Toggles /\ toggle'.active = toggle.active
        /\ toggle'.exited = toggle.exited /\ toggle'.ready = toggle.ready
        /\ toggle'.current = toggle.current /\ toggle'.loaded = toggle.loaded
        /\ toggle'.pending = toggle.pending /\ toggle'.count = toggle.count
        BY <1>1, <2>1, <2>2 DEF Toggles
  <2>5. QED BY <2>2, <2>3, <2>4, BarRedraws
<1>3. CASE LockBar
  <2> DEFINE b == ~toggle.applying
  <2>1. b \in BOOLEAN
        OBVIOUS
  <2>2. /\ toggle' = [toggle EXCEPT !.applying = b] /\ BarStateUpdated(toggle)
        /\ UNCHANGED <<host, mail, overlays, jobs, waiting, web, used>>
        BY <1>3 DEF LockBar
  <2> HIDE DEF b
  <2>3. /\ toggle' \in Toggles /\ toggle'.active = toggle.active
        /\ toggle'.exited = toggle.exited /\ toggle'.ready = toggle.ready
        /\ toggle'.current = toggle.current /\ toggle'.pick = toggle.pick
        /\ toggle'.loaded = toggle.loaded
        /\ toggle'.pending = toggle.pending /\ toggle'.count = toggle.count
        BY <1>1, <2>1, <2>2 DEF Toggles
  <2>4. Bared(toggle)
        BY <1>1, <2>2, BarRedraws
  <2>5. Bared(toggle')
        BY <2>3, <2>4 DEF Bared
  <2>6. QED BY <1>1, <2>2, <2>3, <2>5
<1>4. QED BY <1>2, <1>3

\* Live mode is left: the removal is asked for, too.
LEMMA TeardownFacts ==
  ASSUME DetectTypes, Teardown
  PROVE  /\ toggle' \in Toggles /\ toggle'.exited = TRUE
         /\ toggle'.ready = toggle.ready /\ toggle'.current = toggle.current
         /\ toggle'.active = toggle.active /\ toggle'.loaded = toggle.loaded
         /\ mail' = Append(mail, RemoveMessage) /\ mail' \in Seq(Mails)
         /\ UNCHANGED <<host, detector, overlays, jobs, waiting, web, used>>
<1>1. toggle \in Toggles
      BY DEF DetectTypes
<1>2. mail' = Append(mail, RemoveMessage) /\ mail' \in Seq(Mails)
      BY AskedTypes, PostTypes DEF Teardown
<1>3. toggle' = [toggle EXCEPT !.exited = TRUE]
      BY DEF Teardown
<1>4. QED BY <1>1, <1>2, <1>3 DEF Teardown, Toggles

\* The script has run: the detector is there and says so.
LEMMA ScriptRunsFacts ==
  ASSUME DetectTypes, ScriptRuns
  PROVE  /\ Redrawn(detector, detector') /\ detector'.here = TRUE
         /\ detector.here = FALSE /\ detector'.through = detector.through
         /\ detector'.hidden = detector.hidden /\ detector'.dimmed = detector.dimmed
         /\ detector'.backdrop = detector.backdrop /\ detector'.spot = detector.spot
         /\ \E x \in Mails : x.what = "ready" /\ mail' = Append(mail, x)
                             /\ mail' \in Seq(Mails)
         /\ UNCHANGED <<host, toggle, overlays, jobs, waiting, web, used>>
<1> DEFINE x == [what |-> "ready", id |-> 0, count |-> 0]
<1>1. x \in Mails /\ x.what = "ready"
      BY DEF Mails
<1>2. Post(<<x>>)
      BY DEF ScriptRuns
<1> HIDE DEF x
<1>3. mail' = Append(mail, x) /\ mail' \in Seq(Mails)
      BY <1>1, <1>2, PostTypes
<1>4. detector \in Detectors
      BY DEF DetectTypes
<1>5. detector' = [detector EXCEPT !.here = TRUE]
      BY DEF ScriptRuns
<1>6. /\ Redrawn(detector, detector') /\ detector'.here = TRUE
      /\ detector'.through = detector.through
      /\ detector'.hidden = detector.hidden /\ detector'.dimmed = detector.dimmed
      /\ detector'.backdrop = detector.backdrop /\ detector'.spot = detector.spot
      BY <1>4, <1>5 DEF Redrawn, Detectors
<1>7. QED BY <1>1, <1>3, <1>4, <1>6 DEF ScriptRuns, Detectors

\* The extension's panel asks for a scan.
LEMMA PanelScansFacts ==
  ASSUME DetectTypes, PanelScans
  PROVE  /\ host = "panel" /\ mail' \in Seq(Mails) /\ used' \in Uses
         /\ UNCHANGED <<host, toggle, detector, overlays, jobs, waiting, web>>
<1> DEFINE n == used.scans + 1
<1>1. used \in Uses /\ n \in Nat
      BY AskedTypes DEF DetectTypes
<1>2. mail' \in Seq(Mails)
      BY AskedTypes, PostTypes DEF PanelScans
<1>3. used' = [used EXCEPT !.scans = n]
      BY DEF PanelScans
<1> HIDE DEF n
<1>4. used' \in Uses
      BY <1>1, <1>3 DEF Uses
<1>5. QED BY <1>2, <1>4 DEF PanelScans

\* The extension's panel asks for something else.
LEMMA PanelAsksFacts ==
  ASSUME DetectTypes, PanelAsks
  PROVE  /\ host = "panel" /\ mail' \in Seq(Mails) /\ used' \in Uses
         /\ UNCHANGED <<host, toggle, detector, overlays, jobs, waiting, web>>
<1> DEFINE n == used.commands + 1
<1>1. used \in Uses /\ n \in Nat
      BY DEF DetectTypes, Uses
<1>2. PICK m \in [what : {"remove", "toggle-overlays", "unhighlight"},
                  id : {0}, count : {0}]
              \cup [what : {"highlight"}, id : Elements, count : {0}] :
          Post(<<m>>)
      BY DEF PanelAsks
<1>3. m \in Mails
  <2>1. CASE m \in [what : {"remove", "toggle-overlays", "unhighlight"},
                    id : {0}, count : {0}]
        BY <2>1 DEF Mails, Commands
  <2>2. CASE m \in [what : {"highlight"}, id : Elements, count : {0}]
    <3>1. m.id \in Elements /\ m.id \in Nat /\ m.count = 0
          BY <2>2, DetectAssumption
    <3>2. m \in [what : Commands \cup {"results", "ready"}, id : Nat, count : Nat]
          BY <2>2, <3>1 DEF Commands
    <3>3. QED BY <3>1, <3>2 DEF Mails
  <2>3. QED BY <2>1, <2>2
<1>4. mail' \in Seq(Mails)
      BY <1>2, <1>3, PostTypes
<1>5. /\ used' = [used EXCEPT !.commands = n] /\ host = "panel"
      /\ UNCHANGED <<host, toggle, detector, overlays, jobs, waiting, web>>
      BY DEF PanelAsks
<1> HIDE DEF n
<1>6. used' \in Uses
      BY <1>1, <1>5 DEF Uses
<1>7. QED BY <1>4, <1>5, <1>6

\* A scroll changes the view of the texts alone.
LEMMA ScrollFacts ==
  ASSUME DetectTypes, NEW e \in Elements, Scroll(e)
  PROVE  /\ host # "tab" /\ web' \in Webs /\ web'.faint = web.faint
         /\ Redrawn(detector, detector') /\ detector'.dimmed = detector.dimmed
         /\ detector'.backdrop = detector.backdrop
         /\ detector'.spot = detector.spot /\ used' \in Uses
         /\ UNCHANGED <<host, toggle, mail, overlays, jobs, waiting>>
<1> DEFINE n == used.changes + 1
           seen == IF e \in web.inView THEN web.inView \ {e}
                   ELSE web.inView \cup {e}
<1>1. used \in Uses /\ n \in Nat /\ web \in Webs /\ detector \in Detectors
      BY DEF DetectTypes, Uses
<1>2. seen \in SUBSET Elements
      BY <1>1 DEF Webs
<1>3. /\ web' = [web EXCEPT !.inView = seen]
      /\ used' = [used EXCEPT !.changes = n]
      /\ detector' = [detector EXCEPT !.told = @ \ {e}]
      /\ host # "tab"
      /\ UNCHANGED <<host, toggle, mail, overlays, jobs, waiting>>
      BY DEF Scroll
<1> HIDE DEF n, seen
<1>4. web' \in Webs /\ web'.faint = web.faint
      BY <1>1, <1>2, <1>3 DEF Webs
<1>5. used' \in Uses
      BY <1>1, <1>3 DEF Uses
<1>6. /\ Redrawn(detector, detector') /\ detector'.dimmed = detector.dimmed
      /\ detector'.backdrop = detector.backdrop
      /\ detector'.spot = detector.spot
      BY <1>1, <1>3 DEF Redrawn, Detectors
<1>7. QED BY <1>3, <1>4, <1>5, <1>6

\* An edit of the page changes no text's contrast.
LEMMA EditPageFacts ==
  ASSUME DetectTypes, NEW e \in Elements, EditPage(e)
  PROVE  /\ web' \in Webs /\ web'.faint = web.faint /\ used' \in Uses
         /\ used'.scans = used.scans
         /\ UNCHANGED <<host, toggle, mail, detector, overlays, jobs, waiting>>
<1> DEFINE n == used.changes + 1
           bad == IF e \in web.flawed THEN web.flawed \ {e}
                  ELSE web.flawed \cup {e}
<1>1. used \in Uses /\ n \in Nat /\ web \in Webs
      BY DEF DetectTypes, Uses
<1>2. bad \in SUBSET Elements
      BY <1>1 DEF Webs
<1>3. /\ web' = [web EXCEPT !.flawed = bad]
      /\ used' = [used EXCEPT !.changes = n]
      /\ UNCHANGED <<host, toggle, mail, detector, overlays, jobs, waiting>>
      BY DEF EditPage
<1> HIDE DEF n, bad
<1>4. web' \in Webs /\ web'.faint = web.faint
      BY <1>1, <1>2, <1>3 DEF Webs
<1>5. used' \in Uses /\ used'.scans = used.scans
      BY <1>1, <1>3 DEF Uses
<1>6. QED BY <1>3, <1>4, <1>5

-----------------------------------------------------------------------------
\* A page that has not been scanned.
LEMMA DrawnStarts == DetectInit => DrawnInv
<1> SUFFICES ASSUME DetectInit PROVE DrawnInv
    OBVIOUS
<1>1. toggle \in Toggles
      BY DEF DetectInit, Toggles
<1>2. mail \in Seq(Mails)
      BY DEF DetectInit
<1> DEFINE b == (host # "tab")
<1>3. detector = [here |-> b, generation |-> 0,
                   groups |-> NoGroups, pageLevel |-> FALSE, visual |-> FALSE,
                   rendered |-> FALSE, lazy |-> {}, told |-> {},
                   missed |-> {}, styled |-> TRUE, hidden |-> FALSE,
                   spot |-> 0, backdrop |-> FALSE, dimmed |-> {},
                   through |-> {}]
      BY DEF DetectInit
<1>4. b \in BOOLEAN
      OBVIOUS
<1> HIDE DEF b
<1>5. /\ detector \in Detectors /\ detector.rendered = FALSE
      /\ detector.lazy = {} /\ detector.dimmed = {} /\ detector.visual = FALSE
      /\ detector.told = {}
      BY <1>3, <1>4, Pictures DEF Detectors
<1>6. /\ overlays = Bare /\ overlays \in Groupings /\ jobs = {} /\ waiting = {}
      BY Pictures DEF DetectInit
<1>7. web \in Webs
  <2> DEFINE c == (host = "tab")
             fs == IF c THEN {{}} ELSE SUBSET Elements
  <2>1. web \in [flawed : {{}, Elements}, inView : {{}, Elements},
                 faint : fs, pageLevel : {c}]
        BY DEF DetectInit
  <2>2. fs \subseteq SUBSET Elements /\ c \in BOOLEAN
        OBVIOUS
  <2> HIDE DEF fs, c
  <2>3. QED BY <2>1, <2>2 DEF Webs
<1>8. used \in Uses /\ host \in {"tab", "panel", "script"}
      BY DEF DetectInit, Uses
<1>9. DetectTypes
      BY <1>1, <1>2, <1>5, <1>6, <1>7, <1>8 DEF DetectTypes
<1>10. QED BY <1>5, <1>6, <1>9 DEF DrawnInv, DrawnAsFound, WorkIsKnown,
           JobsCover, FaintAreAccounted

\* A scan of a script: its texts are all still to be sampled.
LEMMA ScanAsyncKeeps ==
  ASSUME DrawnInv, ScanAsync
  PROVE  DrawnInv'
<1>1. DetectTypes
      BY DEF DrawnInv
<1> DEFINE job == Job(detector', "async", used.scans + 1)
           n == used.scans + 1
<1>2. /\ Rescanned(detector, detector', FALSE, TRUE) /\ overlays' = Bare
      /\ jobs' = jobs \cup {job}
      /\ UNCHANGED <<host, toggle, mail, waiting, web>>
      /\ used' = [used EXCEPT !.scans = n]
      BY <1>1, ScanAsyncFacts
<1>3. detector' \in Detectors /\ n \in Nat
      BY <1>1, <1>2, AskedTypes DEF Rescanned
<1>4. /\ job \in Jobs /\ job.todo = Elements
      /\ job.generation = detector'.generation
      BY <1>3, JobFacts
<1> HIDE DEF job, n
<1>5. used' \in Uses
      BY <1>1, <1>2, <1>3 DEF DetectTypes, Uses
<1>6. DetectTypes'
      BY <1>1, <1>2, <1>3, <1>4, <1>5, Pictures DEF DetectTypes
<1>7. /\ detector'.generation = detector.generation + 1
      /\ detector'.lazy = {} /\ detector'.dimmed = {}
      /\ detector'.rendered = FALSE /\ detector'.visual = TRUE
      BY <1>2 DEF Rescanned
<1>8. QED BY <1>2, <1>4, <1>6, <1>7, DrawnAfresh

\* Every step keeps the overlays and the account of the texts.
LEMMA DrawnSteps ==
  ASSUME DrawnInv, [DetectNext]_detectVars
  PROVE  DrawnInv'
<1>1. DetectTypes /\ detector \in Detectors
      BY DEF DrawnInv, DetectTypes
<1>2. ASSUME NEW t \in Toggles, Bared(t), toggle' \in Toggles,
             mail' \in Seq(Mails), used' \in Uses,
             UNCHANGED <<host, overlays, jobs, waiting, web>>
      PROVE  DrawnInv'
  <2>1. DetectTypes'
        BY <1>1, <1>2 DEF DetectTypes, Bared
  <2>2. QED BY <1>2, <2>1, DrawnKept DEF Bared
<1>3. ASSUME UNCHANGED <<host, detector, overlays, jobs, waiting>>,
             web' \in Webs, web'.faint = web.faint, toggle' \in Toggles,
             mail' \in Seq(Mails), used' \in Uses
      PROVE  DrawnInv'
  <2>1. DetectTypes'
        BY <1>1, <1>3 DEF DetectTypes
  <2>2. Redrawn(detector, detector')
        BY <1>1, <1>3 DEF Redrawn
  <2>3. QED BY <1>3, <2>1, <2>2, DrawnKept
<1>4. web \in Webs /\ toggle \in Toggles /\ used \in Uses /\ mail \in Seq(Mails)
      BY <1>1 DEF DetectTypes
<1>5. CASE Detecting
      BY <1>5, CommandKeeps, ScanAsyncKeeps, AnalyzeKeeps, JobEndsKeeps,
         LazyFiresKeeps, LazyResolvesKeeps DEF Detecting
<1>6. CASE DetectOn
      BY <1>1, <1>2, <1>4, <1>6, DetectOnFacts
<1>7. CASE DetectOff
      BY <1>1, <1>2, <1>4, <1>7, DetectOffFacts
<1>8. CASE ScriptRuns
  <2>1. /\ Redrawn(detector, detector')
        /\ detector'.dimmed = detector.dimmed
        /\ detector'.backdrop = detector.backdrop /\ detector'.spot = detector.spot
        /\ mail' \in Seq(Mails)
        /\ UNCHANGED <<host, toggle, overlays, jobs, waiting, web, used>>
        BY <1>1, <1>8, ScriptRunsFacts
  <2>2. DetectTypes'
        BY <1>1, <2>1 DEF DetectTypes, Redrawn
  <2>3. QED BY <2>1, <2>2, DrawnKept
<1>9. CASE Ready
  <2>1. /\ toggle' \in Toggles /\ mail' \in Seq(Mails) /\ used' \in Uses
        /\ UNCHANGED <<host, detector, overlays, jobs, waiting, web>>
        BY <1>1, <1>9, ReadyFacts
  <2>2. QED BY <1>3, <1>4, <2>1
<1>10. CASE ResultsArrive
  <2>1. /\ toggle' \in Toggles /\ mail' \in Seq(Mails)
        /\ Bared(toggle) \/ UNCHANGED <<toggle, detector>>
        /\ UNCHANGED <<host, overlays, jobs, waiting, web, used>>
        BY <1>1, <1>10, ResultsFacts
  <2>2. QED BY <1>2, <1>3, <1>4, <2>1
<1>11. CASE TogglePicking \/ LockBar
  <2>1. /\ toggle' \in Toggles /\ used' \in Uses /\ Bared(toggle')
        /\ UNCHANGED <<host, mail, overlays, jobs, waiting, web>>
        BY <1>1, <1>11, BarStepFacts
  <2>2. QED BY <1>2, <1>4, <2>1
<1>12. CASE Teardown
  <2>1. /\ toggle' \in Toggles /\ mail' \in Seq(Mails)
        /\ UNCHANGED <<host, detector, overlays, jobs, waiting, web, used>>
        BY <1>1, <1>12, TeardownFacts
  <2>2. QED BY <1>3, <1>4, <2>1
<1>13. CASE PanelScans \/ PanelAsks
  <2>1. /\ mail' \in Seq(Mails) /\ used' \in Uses
        /\ UNCHANGED <<host, toggle, detector, overlays, jobs, waiting, web>>
        BY <1>1, <1>13, PanelScansFacts, PanelAsksFacts
  <2>2. QED BY <1>3, <1>4, <2>1
<1>14. CASE \E e \in Elements : Scroll(e)
  <2> PICK e \in Elements : Scroll(e)
      BY <1>14
  <2>1. /\ web' \in Webs /\ web'.faint = web.faint
        /\ Redrawn(detector, detector') /\ detector'.dimmed = detector.dimmed
        /\ detector'.backdrop = detector.backdrop
        /\ detector'.spot = detector.spot /\ used' \in Uses
        /\ UNCHANGED <<host, toggle, mail, overlays, jobs, waiting>>
        BY <1>1, ScrollFacts
  <2>2. DetectTypes'
        BY <1>1, <2>1 DEF DetectTypes, Redrawn
  <2>3. QED BY <2>1, <2>2, DrawnKept
<1>15. CASE \E e \in Elements : EditPage(e)
  <2> PICK e \in Elements : EditPage(e)
      BY <1>15
  <2>1. /\ web' \in Webs /\ web'.faint = web.faint /\ used' \in Uses
        /\ UNCHANGED <<host, toggle, mail, detector, overlays, jobs, waiting>>
        BY <1>1, EditPageFacts
  <2>2. QED BY <1>3, <1>4, <2>1
<1>16. CASE UNCHANGED detectVars
      BY <1>3, <1>4, <1>16 DEF detectVars
<1>17. QED BY <1>5, <1>6, <1>7, <1>8, <1>9, <1>10, <1>11, <1>12, <1>13, <1>14,
          <1>15, <1>16 DEF DetectNext, Toggling, Outer

\* The invariant is what the two properties say, and more.
LEMMA DrawnImplies ==
  DrawnInv => OverlaysAreTheLastScans /\ VisibleTextIsChecked
<1> SUFFICES ASSUME DrawnInv
             PROVE  OverlaysAreTheLastScans /\ VisibleTextIsChecked
    OBVIOUS
<1>1. OverlaysAreTheLastScans
      BY DEF DrawnInv, DrawnAsFound, OverlaysAreTheLastScans
<1>2. VisibleTextIsChecked
  <2>1. SUFFICES ASSUME detector.rendered, detector.visual, jobs = {},
                        waiting = {},
                        detector.lazy \cap web.inView \subseteq detector.told,
                        NEW e \in (web.faint \cap web.inView) \ detector.missed
                 PROVE  "contrast" \in overlays[e]
        BY DEF VisibleTextIsChecked
  <2>2. detector.visual = TRUE
        BY <2>1 DEF DrawnInv, DetectTypes, Detectors
  <2>3. Accounted(e)
        BY <2>1, <2>2 DEF DrawnInv, FaintAreAccounted
  <2>4. e \notin detector.lazy
        BY <2>1 DEF DrawnInv, WorkIsKnown
  <2>5. Found(e)
        BY <2>1, <2>3, <2>4 DEF Accounted, SampledLate
  <2>6. QED BY <2>1, <2>5 DEF Found, DrawnInv, DrawnAsFound
<1>3. QED BY <1>1, <1>2
-----------------------------------------------------------------------------
(* The badge.  What the mail says is told by its last call to the detector  *)
(* and by the numbers of scans and of their results.                        *)

Calls == {"scan", "remove"}
Talk == {"scan", "results"}
NoneOf(m, whats) == \A i \in DOMAIN m : m[i].what \notin whats
EndsIn(m, what, id) ==
  \E i \in DOMAIN m : /\ m[i].what = what /\ m[i].id = id
                      /\ \A j \in DOMAIN m : j > i => m[j].what \notin Calls
Brings(m, id, n) ==
  \E i \in DOMAIN m : m[i].what = "results" /\ m[i].id = id /\ m[i].count = n
SilentOn(m, id) == \A i \in DOMAIN m : m[i].what \in Talk => m[i].id # id
TalksOnce(m) ==
  \A i, j \in DOMAIN m :
     m[i].what \in Talk /\ m[j].what \in Talk /\ m[i].id = m[j].id => i = j
UpTo(m, n) ==
  \A i \in DOMAIN m : m[i].what \in Talk => 0 < m[i].id /\ m[i].id <= n

\* The first message is taken.
LEMMA MailTaken ==
  ASSUME NEW m \in Seq(Mails), m # <<>>
  PROVE  /\ \A whats : NoneOf(m, whats) => NoneOf(Tail(m), whats)
                                           /\ Head(m).what \notin whats
         /\ \A what, id : EndsIn(m, what, id) =>
              \/ EndsIn(Tail(m), what, id)
              \/ /\ Head(m).what = what /\ Head(m).id = id
                 /\ NoneOf(Tail(m), Calls)
         /\ \A id, n : Brings(m, id, n) =>
              \/ Brings(Tail(m), id, n)
              \/ Head(m).what = "results" /\ Head(m).id = id /\ Head(m).count = n
         /\ \A id : SilentOn(m, id) =>
              /\ SilentOn(Tail(m), id)
              /\ Head(m).what \in Talk => Head(m).id # id
         /\ TalksOnce(m) => TalksOnce(Tail(m))
         /\ TalksOnce(m) /\ Head(m).what \in Talk => SilentOn(Tail(m), Head(m).id)
         /\ \A n : UpTo(m, n) =>
              /\ UpTo(Tail(m), n)
              /\ Head(m).what \in Talk => 0 < Head(m).id /\ Head(m).id <= n
<1> DEFINE t == Tail(m)
           h == Head(m)
<1>1. /\ h = m[1] /\ 1 \in DOMAIN m
      /\ \A i \in DOMAIN t : i + 1 \in DOMAIN m /\ t[i] = m[i + 1]
      /\ \A i \in DOMAIN m : i # 1 => i - 1 \in DOMAIN t
      BY TailTypes
<1>2. /\ \A i \in DOMAIN m : i \in Int /\ i >= 1
      /\ \A i \in DOMAIN t : i \in Int /\ i >= 1
  <2>1. DOMAIN m = 1..Len(m) /\ Len(m) \in Nat
        BY LenProperties
  <2>2. DOMAIN t = 1..Len(t) /\ Len(t) \in Nat
        BY TailTypes, LenProperties
  <2>3. QED BY <2>1, <2>2
<1> HIDE DEF t, h
<1>3. \A i \in DOMAIN m : i = 1 \/ (i - 1 \in DOMAIN t /\ t[i - 1] = m[i])
      BY <1>1, <1>2
<1>4. \A whats : NoneOf(m, whats) => NoneOf(t, whats) /\ h.what \notin whats
      BY <1>1 DEF NoneOf
<1>5. ASSUME NEW what, NEW id, EndsIn(m, what, id)
      PROVE  \/ EndsIn(t, what, id)
             \/ h.what = what /\ h.id = id /\ NoneOf(t, Calls)
  <2>1. PICK i \in DOMAIN m : /\ m[i].what = what /\ m[i].id = id
                       /\ \A j \in DOMAIN m : j > i => m[j].what \notin Calls
        BY <1>5 DEF EndsIn
  <2>2. CASE i = 1
    <3>1. \A j \in DOMAIN t : t[j].what \notin Calls
          BY <1>1, <1>2, <2>1, <2>2
    <3>2. QED BY <1>1, <2>1, <2>2, <3>1 DEF NoneOf
  <2>3. CASE i # 1
    <3>1. i - 1 \in DOMAIN t /\ t[i - 1] = m[i]
          BY <1>3, <2>3
    <3>2. \A j \in DOMAIN t : j > i - 1 => t[j].what \notin Calls
          BY <1>1, <1>2, <2>1
    <3>3. QED BY <2>1, <3>1, <3>2 DEF EndsIn
  <2>4. QED BY <2>2, <2>3
<1>6. ASSUME NEW id, NEW n, Brings(m, id, n)
      PROVE  \/ Brings(t, id, n)
             \/ h.what = "results" /\ h.id = id /\ h.count = n
      BY <1>1, <1>3, <1>6 DEF Brings
<1>7. \A id : SilentOn(m, id) =>
         SilentOn(t, id) /\ (h.what \in Talk => h.id # id)
      BY <1>1 DEF SilentOn
<1>8. ASSUME TalksOnce(m)
      PROVE  TalksOnce(t) /\ (h.what \in Talk => SilentOn(t, h.id))
  <2>1. TalksOnce(t)
    <3>1. SUFFICES ASSUME NEW i \in DOMAIN t, NEW j \in DOMAIN t,
                          t[i].what \in Talk, t[j].what \in Talk,
                          t[i].id = t[j].id
                   PROVE  i = j
          BY DEF TalksOnce
    <3>2. i + 1 = j + 1
          BY <1>1, <1>8, <3>1 DEF TalksOnce
    <3>3. QED BY <1>2, <3>2
  <2>2. ASSUME h.what \in Talk
        PROVE  SilentOn(t, h.id)
    <3>1. SUFFICES ASSUME NEW i \in DOMAIN t, t[i].what \in Talk, t[i].id = h.id
                   PROVE  FALSE
          BY DEF SilentOn
    <3>2. i + 1 = 1
          BY <1>1, <1>8, <2>2, <3>1 DEF TalksOnce
    <3>3. QED BY <1>2, <3>2
  <2>3. QED BY <2>1, <2>2
<1>9. \A n : UpTo(m, n) =>
         UpTo(t, n) /\ (h.what \in Talk => 0 < h.id /\ h.id <= n)
      BY <1>1 DEF UpTo
<1>10. QED BY <1>4, <1>5, <1>6, <1>7, <1>8, <1>9 DEF t, h

\* A message is added.
LEMMA MailAdded ==
  ASSUME NEW m \in Seq(Mails), NEW x \in Mails
  PROVE  /\ \A whats : NoneOf(m, whats) /\ x.what \notin whats
                         => NoneOf(Append(m, x), whats)
         /\ \A what, id : EndsIn(m, what, id) /\ x.what \notin Calls
                            => EndsIn(Append(m, x), what, id)
         /\ EndsIn(Append(m, x), x.what, x.id)
         /\ \A id, n : Brings(m, id, n) => Brings(Append(m, x), id, n)
         /\ x.what = "results" => Brings(Append(m, x), x.id, x.count)
         /\ \A id : SilentOn(m, id) /\ (x.what \in Talk => x.id # id)
                      => SilentOn(Append(m, x), id)
         /\ TalksOnce(m) /\ (x.what \in Talk => SilentOn(m, x.id))
              => TalksOnce(Append(m, x))
<1> DEFINE a == Append(m, x)
<1>1. \A i \in DOMAIN m : i \in DOMAIN a /\ a[i] = m[i] /\ i \in Int
      BY AppendTypes, LenProperties
<1>2. PICK k \in DOMAIN a :
              /\ a[k] = x /\ k \notin DOMAIN m
              /\ \A i \in DOMAIN a : i \in DOMAIN m \/ i = k
              /\ \A i \in DOMAIN m : i < k
      BY AppendTypes
<1>3. k \in Int
      BY AppendTypes, LenProperties
<1> HIDE DEF a
<1>4. \A whats : NoneOf(m, whats) /\ x.what \notin whats => NoneOf(a, whats)
      BY <1>1, <1>2 DEF NoneOf
<1>5. ASSUME NEW what, NEW id, EndsIn(m, what, id), x.what \notin Calls
      PROVE  EndsIn(a, what, id)
      BY <1>1, <1>2, <1>5 DEF EndsIn
<1>6. EndsIn(a, x.what, x.id)
  <2>1. \A j \in DOMAIN a : ~(j > k)
        BY <1>1, <1>2, <1>3
  <2>2. QED BY <1>2, <2>1 DEF EndsIn
<1>7. \A id, n : Brings(m, id, n) => Brings(a, id, n)
      BY <1>1 DEF Brings
<1>8. x.what = "results" => Brings(a, x.id, x.count)
      BY <1>2 DEF Brings
<1>9. \A id : SilentOn(m, id) /\ (x.what \in Talk => x.id # id) => SilentOn(a, id)
      BY <1>1, <1>2 DEF SilentOn
<1>10. TalksOnce(m) /\ (x.what \in Talk => SilentOn(m, x.id)) => TalksOnce(a)
      BY <1>1, <1>2 DEF SilentOn, TalksOnce
<1>11. QED BY <1>4, <1>5, <1>6, <1>7, <1>8, <1>9, <1>10 DEF a

\* Numbers are given out one by one.
LEMMA NumbersAdded ==
  ASSUME NEW m \in Seq(Mails), NEW n \in Nat, UpTo(m, n)
  PROVE  /\ SilentOn(m, n + 1)
         /\ \A x \in Mails : x.what \notin Talk \/ (0 < x.id /\ x.id <= n)
                               => UpTo(Append(m, x), n)
         /\ \A x \in Mails : x.id = n + 1 => UpTo(Append(m, x), n + 1)
<1>1. \A i \in DOMAIN m : m[i].id \in Nat
  <2> TAKE i \in DOMAIN m
  <2>1. m[i] \in Mails
        BY LenProperties, ElementOfSeq
  <2>2. QED BY <2>1 DEF Mails
<1>2. SilentOn(m, n + 1)
      BY <1>1 DEF UpTo, SilentOn
<1>3. ASSUME NEW x \in Mails, x.what \notin Talk \/ (0 < x.id /\ x.id <= n)
      PROVE  UpTo(Append(m, x), n)
  <2>1. /\ \A i \in DOMAIN m : Append(m, x)[i] = m[i]
        /\ \E k \in DOMAIN Append(m, x) : /\ Append(m, x)[k] = x
              /\ \A i \in DOMAIN Append(m, x) : i \in DOMAIN m \/ i = k
        BY AppendTypes
  <2>2. QED BY <1>3, <2>1 DEF UpTo
<1>4. ASSUME NEW x \in Mails, x.id = n + 1
      PROVE  UpTo(Append(m, x), n + 1)
  <2>1. /\ \A i \in DOMAIN m : Append(m, x)[i] = m[i]
        /\ \E k \in DOMAIN Append(m, x) : /\ Append(m, x)[k] = x
              /\ \A i \in DOMAIN Append(m, x) : i \in DOMAIN m \/ i = k
        BY AppendTypes
  <2>2. \A i \in DOMAIN m : m[i].what \in Talk => 0 < m[i].id /\ m[i].id <= n + 1
        BY <1>1 DEF UpTo
  <2>3. QED BY <1>4, <2>1, <2>2 DEF UpTo
<1>5. QED BY <1>2, <1>3, <1>4

\* What is left when a page was never scanned, or was cleared.
Unmarked == detector.groups = NoGroups /\ detector.pageLevel = FALSE
TabQuiet ==
  /\ jobs = {} /\ waiting = {} /\ detector.lazy = {} /\ detector.hidden = FALSE
  /\ NoneOf(mail, {"toggle-overlays", "highlight", "unhighlight"})
TabBegun ==
  /\ used.scans = 0 => Unmarked
  /\ toggle.ready = FALSE => used.scans = 0
  /\ detector.here = FALSE => toggle.ready = FALSE /\ NoneOf(mail, {"ready"})
  /\ detector.here = TRUE => toggle.loaded = TRUE
TabNumbers == TalksOnce(mail) /\ UpTo(mail, used.scans)

\* The badge is right, or its results are under way, or their scan is.
ClicksThrough == toggle.pick = TRUE => Marked \subseteq detector.through
Settled ==
  /\ SilentOn(mail, toggle.current)
  /\ toggle.pending = 0 /\ toggle.count = Count(detector) /\ ClicksThrough
Shows ==
  \/ EndsIn(mail, "scan", toggle.current)
  \/ /\ NoneOf(mail, Calls)
     /\ Brings(mail, toggle.current, Count(detector)) \/ Settled
Vanishes == EndsIn(mail, "remove", 0) \/ (NoneOf(mail, Calls) /\ Unmarked)
TabTold ==
  /\ toggle.active = FALSE => toggle.current = 0
  /\ toggle.active = TRUE /\ toggle.exited = FALSE =>
       /\ toggle.current = 0 => used.scans = 0
       /\ toggle.current # 0 => Shows
  /\ toggle.active = FALSE \/ toggle.exited = TRUE => Vanishes

TabInv == host = "tab" => TabQuiet /\ TabBegun /\ TabNumbers /\ TabTold

\* The count is that of the groups.
LEMMA CountKept ==
  ASSUME detector'.groups = detector.groups,
         detector'.pageLevel = detector.pageLevel
  PROVE  Count(detector') = Count(detector)
  BY DEF Count

\* Before the first scan nothing of one is in the mail.
LEMMA NoTalk ==
  ASSUME NEW m \in Seq(Mails), UpTo(m, 0)
  PROVE  NoneOf(m, Talk)
<1>1. \A i \in DOMAIN m : m[i] \in Mails
      BY LenProperties, ElementOfSeq
<1>2. \A i \in DOMAIN m : m[i].id \in Nat
      BY <1>1 DEF Mails
<1>3. QED BY <1>2 DEF UpTo, NoneOf

\* A tab before Detect is ever used.
LEMMA TabStarts == DetectInit => TabInv
<1> SUFFICES ASSUME DetectInit, host = "tab" PROVE TabInv
    BY DEF TabInv
<1>1. /\ mail = <<>> /\ jobs = {} /\ waiting = {} /\ used.scans = 0
      /\ toggle.active = FALSE /\ toggle.ready = FALSE /\ toggle.current = 0
      BY DEF DetectInit
<1>2. /\ detector.lazy = {} /\ detector.hidden = FALSE /\ detector.here = FALSE
      /\ Unmarked
      BY DEF DetectInit, Unmarked
<1>3. DOMAIN mail = {}
      BY <1>1
<1>4. /\ \A whats : NoneOf(mail, whats)
      /\ TalksOnce(mail) /\ UpTo(mail, 0)
      BY <1>3 DEF NoneOf, TalksOnce, UpTo
<1>5. TabQuiet
      BY <1>1, <1>2, <1>4 DEF TabQuiet
<1>6. TabBegun
      BY <1>1, <1>2, <1>4 DEF TabBegun
<1>7. TabNumbers
      BY <1>1, <1>4 DEF TabNumbers
<1>8. TabTold
      BY <1>1, <1>2, <1>4 DEF TabTold, Vanishes
<1>9. QED BY <1>5, <1>6, <1>7, <1>8 DEF TabInv

\* What a scan in the mail says of the tab.
LEMMA ScansFollow ==
  ASSUME DetectTypes, TabBegun, TabNumbers, mail # <<>>, Head(mail).what = "scan"
  PROVE  /\ detector.here = TRUE /\ used.scans # 0
         /\ 0 < Head(mail).id /\ Head(mail).id <= used.scans
<1>1. /\ mail \in Seq(Mails) /\ Head(mail) \in Mails /\ used.scans \in Nat
      /\ detector.here \in BOOLEAN
      BY TailTypes DEF DetectTypes, Uses, Detectors
<1>2. Head(mail).id \in Nat
      BY <1>1 DEF Mails
<1>3. UpTo(mail, used.scans) => 0 < Head(mail).id /\ Head(mail).id <= used.scans
      BY <1>1, MailTaken DEF Talk
<1>4. 0 < Head(mail).id /\ Head(mail).id <= used.scans
      BY <1>3 DEF TabNumbers
<1>5. used.scans # 0
      BY <1>1, <1>2, <1>4
<1>6. QED BY <1>1, <1>4, <1>5 DEF TabBegun

\* A scan is obeyed: its results follow it in the mail.
LEMMA ScanTab ==
  ASSUME DetectTypes, TabInv, host = "tab", mail # <<>>,
         Head(mail).what = "scan", Scan(FALSE, Head(mail).id),
         UNCHANGED <<host, toggle, waiting, web, used>>
  PROVE  TabInv'
<1> DEFINE m == Head(mail)
           x == Results(detector', m.id)
<1>1. TabQuiet /\ TabBegun /\ TabNumbers /\ TabTold
      BY DEF TabInv
<1>2. mail \in Seq(Mails) /\ m \in Mails /\ Tail(mail) \in Seq(Mails)
      BY TailTypes DEF DetectTypes
<1>3. m.id \in Nat /\ m.what \in Calls /\ m.what \in Talk /\ m.what # "remove"
      BY <1>2 DEF Mails, Calls, Talk
<1>4. /\ detector.here = TRUE /\ used.scans # 0
      /\ 0 < m.id /\ m.id <= used.scans
      BY <1>1, ScansFollow
<1>5. /\ Rescanned(detector, detector', TRUE, FALSE)
      /\ mail' = Append(Tail(mail), x) /\ jobs' = jobs
      BY <1>3, ScanFacts
<1>6. /\ detector' \in Detectors /\ detector'.lazy = {}
      /\ detector'.here = detector.here /\ detector'.hidden = detector.hidden
      BY <1>5 DEF Rescanned
<1>7. /\ x \in Mails /\ x.what = "results" /\ x.id = m.id
      /\ x.count = Count(detector')
      BY <1>3, <1>6, ResultsType
<1>8. x.what \notin Calls /\ x.what \in Talk
      BY <1>7 DEF Calls, Talk
<1>9. used.scans \in Nat
      BY DEF DetectTypes, Uses
<1> HIDE DEF x, m
<1>10. TabQuiet'
  <2> DEFINE spots == {"toggle-overlays", "highlight", "unhighlight"}
  <2>1. NoneOf(mail, spots) => NoneOf(Tail(mail), spots)
        BY <1>2, MailTaken
  <2>2. x.what \notin spots
        BY <1>7
  <2> HIDE DEF spots
  <2>3. NoneOf(Tail(mail), spots) => NoneOf(Append(Tail(mail), x), spots)
        BY <1>2, <1>7, <2>2, MailAdded
  <2>4. NoneOf(mail, spots)
        BY <1>1 DEF TabQuiet, spots
  <2>5. NoneOf(mail', spots)
        BY <1>5, <2>1, <2>3, <2>4
  <2>6. QED BY <1>1, <1>5, <1>6, <2>5 DEF TabQuiet, spots
<1>11. TabBegun'
      BY <1>1, <1>4, <1>6 DEF TabBegun
<1>12. TabNumbers'
  <2>1. TalksOnce(Tail(mail)) /\ SilentOn(Tail(mail), m.id)
    <3>1. TalksOnce(mail) => TalksOnce(Tail(mail))
          BY <1>2, MailTaken
    <3>2. TalksOnce(mail) => SilentOn(Tail(mail), m.id)
          BY <1>2, <1>3, MailTaken DEF m
    <3>3. QED BY <1>1, <3>1, <3>2 DEF TabNumbers
  <2>2. UpTo(Tail(mail), used.scans)
    <3>1. UpTo(mail, used.scans) => UpTo(Tail(mail), used.scans)
          BY <1>2, MailTaken
    <3>2. QED BY <1>1, <3>1 DEF TabNumbers
  <2>3. TalksOnce(mail')
        BY <1>2, <1>5, <1>7, <2>1, MailAdded
  <2>4. UpTo(mail', used.scans)
        BY <1>2, <1>4, <1>5, <1>7, <1>9, <2>2, NumbersAdded
  <2>5. QED BY <2>3, <2>4 DEF TabNumbers
<1>13. ~NoneOf(mail, Calls)
      BY <1>2, <1>3, MailTaken DEF m
<1>14. ASSUME Shows PROVE Shows'
  <2> DEFINE c == toggle.current
  <2>1. EndsIn(mail, "scan", c)
        BY <1>13, <1>14 DEF Shows
  <2>2. \/ EndsIn(Tail(mail), "scan", c)
        \/ m.id = c /\ NoneOf(Tail(mail), Calls)
        BY <1>2, <2>1, MailTaken DEF m
  <2>3. CASE EndsIn(Tail(mail), "scan", c)
    <3>1. EndsIn(mail', "scan", c)
          BY <1>2, <1>5, <1>7, <1>8, <2>3, MailAdded
    <3>2. QED BY <3>1 DEF Shows
  <2>4. CASE m.id = c /\ NoneOf(Tail(mail), Calls)
    <3>1. NoneOf(mail', Calls)
          BY <1>2, <1>5, <1>7, <1>8, <2>4, MailAdded
    <3>2. Brings(mail', c, Count(detector'))
          BY <1>2, <1>5, <1>7, <2>4, MailAdded
    <3>3. QED BY <3>1, <3>2 DEF Shows
  <2>5. QED BY <2>2, <2>3, <2>4
<1>15. ASSUME Vanishes PROVE Vanishes'
  <2>1. EndsIn(mail, "remove", 0)
        BY <1>13, <1>15 DEF Vanishes
  <2>2. EndsIn(Tail(mail), "remove", 0)
        BY <1>2, <1>3, <2>1, MailTaken DEF m
  <2>3. EndsIn(mail', "remove", 0)
        BY <1>2, <1>5, <1>7, <1>8, <2>2, MailAdded
  <2>4. QED BY <2>3 DEF Vanishes
<1>16. TabTold'
      BY <1>1, <1>14, <1>15 DEF TabTold
<1>17. QED BY <1>10, <1>11, <1>12, <1>16 DEF TabInv

\* A removal is taken: nothing of a scan is left.
LEMMA RemoveTab ==
  ASSUME DetectTypes, TabInv, host = "tab", mail # <<>>,
         Head(mail).what = "remove", mail' = Tail(mail), jobs' = jobs,
         detector'.lazy = {}, detector'.hidden = FALSE,
         detector'.here = detector.here, Unmarked',
         UNCHANGED <<host, toggle, waiting, web, used>>
  PROVE  TabInv'
<1>1. TabQuiet /\ TabBegun /\ TabNumbers /\ TabTold
      BY DEF TabInv
<1>2. mail \in Seq(Mails) /\ Tail(mail) \in Seq(Mails)
      BY TailTypes DEF DetectTypes
<1>3. Head(mail).what \in Calls
      BY DEF Calls
<1>4. \A whats : NoneOf(mail, whats) => NoneOf(mail', whats)
      BY <1>2, MailTaken
<1>5. TabQuiet'
      BY <1>1, <1>4 DEF TabQuiet
<1>6. TabBegun'
      BY <1>1, <1>4 DEF TabBegun
<1>7. TabNumbers'
  <2>1. TalksOnce(mail) => TalksOnce(Tail(mail))
        BY <1>2, MailTaken
  <2>2. UpTo(mail, used.scans) => UpTo(Tail(mail), used.scans)
        BY <1>2, MailTaken
  <2>3. QED BY <1>1, <2>1, <2>2 DEF TabNumbers
<1>8. ~NoneOf(mail, Calls)
      BY <1>2, <1>3, MailTaken
<1>9. ASSUME Shows PROVE Shows'
  <2>1. EndsIn(mail, "scan", toggle.current)
        BY <1>8, <1>9 DEF Shows
  <2>2. EndsIn(mail', "scan", toggle.current)
        BY <1>2, <2>1, MailTaken
  <2>3. QED BY <2>2 DEF Shows
<1>10. ASSUME Vanishes PROVE Vanishes'
  <2>1. EndsIn(mail, "remove", 0)
        BY <1>8, <1>10 DEF Vanishes
  <2>2. EndsIn(mail', "remove", 0) \/ NoneOf(mail', Calls)
        BY <1>2, <2>1, MailTaken
  <2>3. QED BY <2>2 DEF Vanishes
<1>11. TabTold'
      BY <1>1, <1>9, <1>10 DEF TabTold
<1>12. QED BY <1>5, <1>6, <1>7, <1>11 DEF TabInv

\* Of the tab's commands there are two, and both are accounted for.
LEMMA CommandTab ==
  ASSUME DetectTypes, TabInv, host = "tab", Command
  PROVE  TabInv'
<1> DEFINE m == Head(mail)
<1>1. /\ mail # <<>> /\ m.what \notin {"results", "ready"} /\ Obeys(m)
      /\ UNCHANGED <<host, toggle, waiting, web, used>>
      BY DEF Command
<1>2. mail \in Seq(Mails) /\ m \in Mails
      BY <1>1, TailTypes DEF DetectTypes
<1>3. TabQuiet /\ TabBegun /\ TabNumbers
      BY DEF TabInv
<1>4. m.what \notin {"toggle-overlays", "highlight", "unhighlight"}
      BY <1>1, <1>2, <1>3, MailTaken DEF TabQuiet
<1> HIDE DEF m
<1>5. m.what \in {"scan", "remove"}
      BY <1>1, <1>2, <1>4 DEF Mails, Commands
<1>6. CASE m.what = "scan"
  <2>1. detector.here = TRUE
        BY <1>1, <1>3, <1>6, ScansFollow DEF m
  <2> DEFINE visual == (host = "panel")
  <2>2. visual = FALSE
        OBVIOUS
  <2> HIDE DEF visual
  <2>3. Scan(visual, m.id)
        BY <1>1, <1>6, <2>1 DEF Obeys, visual
  <2>4. Scan(FALSE, m.id)
        BY <2>2, <2>3
  <2>5. QED BY <1>1, <1>6, <2>4, ScanTab DEF m
<1>7. CASE m.what = "remove" /\ detector.here
  <2>1. RemoveOverlays
        BY <1>1, <1>7 DEF Obeys
  <2>2. /\ detector'.lazy = {} /\ detector'.groups = NoGroups
        /\ detector'.pageLevel = FALSE /\ detector'.hidden = FALSE
        /\ detector'.here = detector.here /\ mail' = Tail(mail) /\ jobs' = jobs
        BY <2>1, RemoveFacts
  <2>3. Unmarked'
        BY <2>2 DEF Unmarked
  <2>4. QED BY <1>1, <1>7, <2>2, <2>3, RemoveTab DEF m
<1>8. CASE m.what = "remove" /\ ~detector.here
  <2>1. mail' = Tail(mail) /\ UNCHANGED <<detector, overlays, jobs>>
        BY <1>1, <1>8 DEF Obeys
  <2>2. detector.here = FALSE
        BY <1>8 DEF DetectTypes, Detectors
  <2>3. Unmarked'
        BY <1>3, <2>1, <2>2 DEF TabBegun, Unmarked
  <2>4. detector'.lazy = {} /\ detector'.hidden = FALSE
        BY <1>3, <2>1 DEF TabQuiet
  <2>5. QED BY <1>1, <1>8, <2>1, <2>3, <2>4, RemoveTab DEF m
<1>9. QED BY <1>5, <1>6, <1>7, <1>8

\* The tab asks for a scan, with what is in the mail before it.
LEMMA AskTab ==
  ASSUME DetectTypes, host = "tab", NEW m \in Seq(Mails), TabQuiet,
         \A whats : NoneOf(mail, whats) => NoneOf(m, whats),
         TalksOnce(m), UpTo(m, used.scans), mail' = Append(m, ScanMessage),
         toggle'.current = used.scans + 1, used'.scans = used.scans + 1,
         toggle'.active = TRUE, toggle'.exited = FALSE, toggle'.ready = TRUE,
         detector.here = TRUE, toggle'.loaded = TRUE,
         detector'.lazy = detector.lazy, detector'.hidden = detector.hidden,
         detector'.here = detector.here, UNCHANGED <<host, jobs, waiting>>
  PROVE  TabInv'
<1> DEFINE x == ScanMessage
<1>1. x \in Mails /\ x.what = "scan" /\ x.id = used.scans + 1
      BY AskedTypes
<1>2. used.scans \in Nat
      BY DEF DetectTypes, Uses
<1> HIDE DEF x
<1>3. TabQuiet'
  <2> DEFINE spots == {"toggle-overlays", "highlight", "unhighlight"}
  <2>1. x.what \notin spots
        BY <1>1
  <2>2. NoneOf(mail, spots)
        BY DEF TabQuiet
  <2> HIDE DEF spots
  <2>3. NoneOf(m, spots)
        BY <2>2
  <2>4. NoneOf(mail', spots)
        BY <1>1, <2>1, <2>3, MailAdded DEF x
  <2>5. QED BY <2>4 DEF TabQuiet, spots
<1>4. TabBegun'
      BY <1>2 DEF TabBegun
<1>5. TabNumbers'
  <2>1. SilentOn(m, used.scans + 1) /\ UpTo(mail', used.scans + 1)
        BY <1>1, <1>2, NumbersAdded DEF x
  <2>2. TalksOnce(mail')
        BY <1>1, <2>1, MailAdded DEF x
  <2>3. QED BY <2>1, <2>2 DEF TabNumbers
<1>6. EndsIn(mail', "scan", toggle'.current)
      BY <1>1, MailAdded DEF x
<1>7. TabTold'
  <2>1. Shows'
        BY <1>6 DEF Shows
  <2>2. toggle'.current # 0
        BY <1>2
  <2>3. QED BY <2>1, <2>2 DEF TabTold
<1>8. QED BY <1>3, <1>4, <1>5, <1>7 DEF TabInv

\* The tab asks for a removal, or is left.
LEMMA LeaveTab ==
  ASSUME DetectTypes, TabInv, host = "tab", mail' = Append(mail, RemoveMessage),
         toggle'.active = FALSE \/ toggle'.exited = TRUE,
         toggle'.active = FALSE => toggle'.current = 0,
         toggle'.ready = toggle.ready, toggle'.loaded = toggle.loaded,
         used'.scans = used.scans,
         detector'.groups = detector.groups,
         detector'.pageLevel = detector.pageLevel,
         detector'.lazy = detector.lazy, detector'.hidden = detector.hidden,
         detector'.here = detector.here, UNCHANGED <<host, jobs, waiting>>
  PROVE  TabInv'
<1> DEFINE x == RemoveMessage
<1>1. x \in Mails /\ x.what = "remove" /\ x.id = 0
      BY AskedTypes
<1>2. TabQuiet /\ TabBegun /\ TabNumbers
      BY DEF TabInv
<1>3. mail \in Seq(Mails) /\ used.scans \in Nat
      BY DEF DetectTypes, Uses
<1> HIDE DEF x
<1>4. \A whats : NoneOf(mail, whats) /\ "remove" \notin whats => NoneOf(mail', whats)
      BY <1>1, <1>3, MailAdded DEF x
<1>5. x.what \notin Talk
      BY <1>1 DEF Talk
<1>6. TabQuiet'
      BY <1>2, <1>4 DEF TabQuiet
<1>7. TabBegun'
      BY <1>2, <1>4 DEF TabBegun, Unmarked
<1>8. TabNumbers'
  <2>1. UpTo(mail, used.scans) => UpTo(mail', used.scans)
        BY <1>1, <1>3, <1>5, NumbersAdded DEF x
  <2>2. TalksOnce(mail) => TalksOnce(mail')
        BY <1>1, <1>3, <1>5, MailAdded DEF x
  <2>3. QED BY <1>2, <2>1, <2>2 DEF TabNumbers
<1>9. EndsIn(mail', "remove", 0)
      BY <1>1, <1>3, MailAdded DEF x
<1>10. TabTold'
  <2>1. Vanishes'
        BY <1>9 DEF Vanishes
  <2>2. ~(toggle'.active = TRUE /\ toggle'.exited = FALSE)
        OBVIOUS
  <2>3. QED BY <2>1, <2>2 DEF TabTold
<1>11. QED BY <1>6, <1>7, <1>8, <1>10 DEF TabInv

\* A step that asks for nothing and is asked for nothing.
LEMMA TabKept ==
  ASSUME DetectTypes, TabInv, host = "tab",
         \/ mail' = mail
         \/ mail # <<>> /\ mail' = Tail(mail) /\ Head(mail).what \notin Calls,
         toggle'.active = toggle.active, toggle'.exited = toggle.exited,
         toggle'.current = toggle.current, toggle'.loaded = toggle.loaded,
         \/ toggle'.ready = toggle.ready
         \/ toggle'.ready = TRUE /\ detector.here = TRUE,
         used'.scans = used.scans,
         detector'.groups = detector.groups,
         detector'.pageLevel = detector.pageLevel,
         detector'.lazy = detector.lazy, detector'.hidden = detector.hidden,
         detector'.here = detector.here, UNCHANGED <<host, jobs, waiting>>,
         toggle.active = TRUE /\ toggle.exited = FALSE /\ toggle.current # 0 =>
           /\ Settled => Settled'
           /\ Brings(mail, toggle.current, Count(detector)) =>
                Settled' \/ Brings(mail', toggle.current, Count(detector))
  PROVE  TabInv'
<1>1. TabQuiet /\ TabBegun /\ TabNumbers /\ TabTold
      BY DEF TabInv
<1>2. mail \in Seq(Mails)
      BY DEF DetectTypes
<1>3. \A whats : NoneOf(mail, whats) => NoneOf(mail', whats)
      BY <1>2, MailTaken
<1>4. TabQuiet'
      BY <1>1, <1>3 DEF TabQuiet
<1>5. TabBegun'
      BY <1>1, <1>3 DEF TabBegun, Unmarked
<1>6. TabNumbers'
  <2>1. TalksOnce(mail) => TalksOnce(mail')
        BY <1>2, MailTaken
  <2>2. UpTo(mail, used.scans) => UpTo(mail', used.scans)
        BY <1>2, MailTaken
  <2>3. QED BY <1>1, <2>1, <2>2 DEF TabNumbers
<1>7. \A what, id : what \in Calls /\ EndsIn(mail, what, id) => EndsIn(mail', what, id)
      BY <1>2, MailTaken
<1>8. Count(detector') = Count(detector)
      BY CountKept
<1>9. ASSUME Shows, toggle.active = TRUE, toggle.exited = FALSE, toggle.current # 0
      PROVE  Shows'
  <2>1. CASE EndsIn(mail, "scan", toggle.current)
    <3>1. EndsIn(mail', "scan", toggle'.current)
          BY <1>7, <2>1 DEF Calls
    <3>2. QED BY <3>1 DEF Shows
  <2>2. CASE NoneOf(mail, Calls) /\ Brings(mail, toggle.current, Count(detector))
    <3>1. NoneOf(mail', Calls)
          BY <1>3, <2>2
    <3>2. Settled' \/ Brings(mail', toggle'.current, Count(detector'))
          BY <1>8, <1>9, <2>2
    <3>3. QED BY <3>1, <3>2 DEF Shows
  <2>3. CASE NoneOf(mail, Calls) /\ Settled
    <3>1. NoneOf(mail', Calls) /\ Settled'
          BY <1>3, <1>9, <2>3
    <3>2. QED BY <3>1 DEF Shows
  <2>4. QED BY <1>9, <2>1, <2>2, <2>3 DEF Shows
<1>10. ASSUME Vanishes PROVE Vanishes'
  <2>1. EndsIn(mail, "remove", 0) => EndsIn(mail', "remove", 0)
        BY <1>7 DEF Calls
  <2>2. QED BY <1>3, <1>10, <2>1 DEF Vanishes, Unmarked
<1>11. TabTold'
      BY <1>1, <1>9, <1>10 DEF TabTold
<1>12. QED BY <1>4, <1>5, <1>6, <1>11 DEF TabInv

\* The badge stays right while nothing of it changes.
LEMMA SettledKept ==
  ASSUME DetectTypes, Settled, UNCHANGED overlays,
         mail' = mail \/ (mail # <<>> /\ mail' = Tail(mail)),
         detector'.groups = detector.groups,
         detector'.pageLevel = detector.pageLevel,
         toggle'.current = toggle.current, toggle'.pending = toggle.pending,
         toggle'.count = toggle.count, ClicksThrough'
  PROVE  Settled'
<1>1. Count(detector') = Count(detector)
      BY CountKept
<1>2. mail \in Seq(Mails)
      BY DEF DetectTypes
<1>3. SilentOn(mail', toggle.current)
      BY <1>2, MailTaken DEF Settled
<1>4. QED BY <1>1, <1>3 DEF Settled

\* Detect on: a scan is under way, or there was none before.
LEMMA DetectOnTab ==
  ASSUME DetectTypes, TabInv, host = "tab", DetectOn
  PROVE  TabInv'
<1>1. TabQuiet /\ TabBegun /\ TabNumbers /\ TabTold
      BY DEF TabInv
<1>2. /\ toggle'.active = TRUE /\ toggle.active = FALSE
      /\ toggle'.ready = toggle.ready /\ toggle'.exited = FALSE
      /\ Bared(toggle) /\ UNCHANGED <<host, overlays, jobs, waiting, web>>
      /\ toggle.loaded = TRUE => toggle'.loaded = TRUE
      BY DetectOnFacts
<1>3. /\ detector'.groups = detector.groups
      /\ detector'.pageLevel = detector.pageLevel
      /\ detector'.lazy = detector.lazy /\ detector'.hidden = detector.hidden
      /\ detector'.here = detector.here
      BY <1>2 DEF Bared, Redrawn
<1>4. /\ toggle.ready \in BOOLEAN /\ toggle.loaded \in BOOLEAN
      /\ detector.here \in BOOLEAN /\ mail \in Seq(Mails)
      BY DEF DetectTypes, Toggles, Detectors
<1>5. CASE toggle.ready = TRUE /\ ScanAsked
  <2>1. detector.here = TRUE /\ toggle'.loaded = TRUE
        BY <1>1, <1>2, <1>4, <1>5 DEF TabBegun
  <2>2. /\ toggle'.current = used.scans + 1 /\ used'.scans = used.scans + 1
        /\ mail' = Append(mail, ScanMessage)
        BY <1>5 DEF ScanAsked
  <2>3. TalksOnce(mail) /\ UpTo(mail, used.scans)
        BY <1>1 DEF TabNumbers
  <2>4. toggle'.ready = TRUE
        BY <1>2, <1>5
  <2>5. QED BY <1>1, <1>2, <1>3, <1>4, <2>1, <2>2, <2>3, <2>4, AskTab
<1>6. CASE /\ toggle.ready = FALSE \/ toggle.loaded = FALSE
           /\ toggle'.current = toggle.current /\ UNCHANGED <<mail, used>>
           /\ toggle'.loaded = TRUE
  <2>1. toggle.ready = FALSE
        BY <1>1, <1>4, <1>6 DEF TabBegun
  <2>2. used.scans = 0
        BY <1>1, <2>1 DEF TabBegun
  <2>3. toggle'.current = 0
        BY <1>1, <1>2, <1>6 DEF TabTold
  <2>4. TabQuiet'
        BY <1>1, <1>2, <1>3, <1>6 DEF TabQuiet
  <2>5. TabBegun'
        BY <1>1, <1>2, <1>3, <1>6 DEF TabBegun, Unmarked
  <2>6. TabNumbers'
        BY <1>1, <1>6 DEF TabNumbers
  <2>7. TabTold'
        BY <1>2, <1>6, <2>2, <2>3 DEF TabTold
  <2>8. QED BY <2>4, <2>5, <2>6, <2>7 DEF TabInv
<1>7. QED BY <1>5, <1>6, DetectOnFacts

\* Detect off, or live mode left: a removal is under way.
LEMMA OffTab ==
  ASSUME DetectTypes, TabInv, host = "tab", DetectOff \/ Teardown
  PROVE  TabInv'
<1>1. CASE DetectOff
  <2>1. /\ toggle'.active = FALSE /\ toggle'.current = 0
        /\ toggle'.ready = toggle.ready /\ toggle'.loaded = toggle.loaded
        /\ mail' = Append(mail, RemoveMessage) /\ used'.scans = used.scans
        /\ Bared(toggle) /\ UNCHANGED <<host, overlays, jobs, waiting, web>>
        BY <1>1, DetectOffFacts
  <2>2. /\ detector'.groups = detector.groups
        /\ detector'.pageLevel = detector.pageLevel
        /\ detector'.lazy = detector.lazy /\ detector'.hidden = detector.hidden
        /\ detector'.here = detector.here
        BY <2>1 DEF Bared, Redrawn
  <2>3. QED BY <2>1, <2>2, LeaveTab
<1>2. CASE Teardown
  <2>1. /\ toggle'.exited = TRUE /\ toggle'.active = toggle.active
        /\ toggle'.current = toggle.current
        /\ toggle'.ready = toggle.ready /\ toggle'.loaded = toggle.loaded
        /\ mail' = Append(mail, RemoveMessage)
        /\ UNCHANGED <<host, detector, jobs, waiting, used>>
        BY <1>2, TeardownFacts
  <2>2. toggle'.active = FALSE => toggle'.current = 0
        BY <2>1 DEF TabInv, TabTold
  <2>3. QED BY <2>1, <2>2, LeaveTab
<1>3. QED BY <1>1, <1>2

\* The detector's script announces itself.
LEMMA ScriptTab ==
  ASSUME DetectTypes, TabInv, host = "tab", ScriptRuns
  PROVE  TabInv'
<1>1. TabQuiet /\ TabBegun /\ TabNumbers /\ TabTold
      BY DEF TabInv
<1>2. /\ Redrawn(detector, detector') /\ detector'.here = TRUE
      /\ detector'.through = detector.through
      /\ detector'.hidden = detector.hidden
      /\ UNCHANGED <<host, toggle, overlays, jobs, waiting, web, used>>
      BY ScriptRunsFacts
<1>3. PICK x \in Mails : x.what = "ready" /\ mail' = Append(mail, x)
      BY ScriptRunsFacts
<1>4. /\ detector'.groups = detector.groups
      /\ detector'.pageLevel = detector.pageLevel
      /\ detector'.lazy = detector.lazy
      BY <1>2 DEF Redrawn
<1>5. mail \in Seq(Mails) /\ used.scans \in Nat
      BY DEF DetectTypes, Uses
<1>6. toggle.loaded = TRUE
      BY DEF ScriptRuns, DetectTypes, Toggles
<1>7. x.what \notin Talk /\ x.what \notin Calls
      BY <1>3 DEF Talk, Calls
<1>8. \A whats : NoneOf(mail, whats) /\ "ready" \notin whats => NoneOf(mail', whats)
      BY <1>3, <1>5, MailAdded
<1>9. TabQuiet'
      BY <1>1, <1>2, <1>4, <1>8 DEF TabQuiet
<1>10. TabBegun'
      BY <1>1, <1>2, <1>4, <1>6 DEF TabBegun, Unmarked
<1>11. TabNumbers'
  <2>1. UpTo(mail, used.scans) => UpTo(mail', used.scans)
        BY <1>3, <1>5, <1>7, NumbersAdded
  <2>2. TalksOnce(mail) => TalksOnce(mail')
        BY <1>3, <1>5, <1>7, MailAdded
  <2>3. QED BY <1>1, <1>2, <2>1, <2>2 DEF TabNumbers
<1>12. Count(detector') = Count(detector)
      BY <1>4, CountKept
<1>13. /\ \A what, id : EndsIn(mail, what, id) => EndsIn(mail', what, id)
       /\ \A id, n : Brings(mail, id, n) => Brings(mail', id, n)
       /\ \A id : SilentOn(mail, id) => SilentOn(mail', id)
      BY <1>3, <1>5, <1>7, MailAdded
<1>14. NoneOf(mail, Calls) => NoneOf(mail', Calls)
      BY <1>8 DEF Calls
<1>15. Settled => Settled'
      BY <1>2, <1>12, <1>13 DEF Settled, ClicksThrough, Marked
<1>16. Shows => Shows'
      BY <1>2, <1>12, <1>13, <1>14, <1>15 DEF Shows
<1>17. Vanishes => Vanishes'
      BY <1>4, <1>13, <1>14 DEF Vanishes, Unmarked
<1>18. TabTold'
      BY <1>1, <1>2, <1>16, <1>17 DEF TabTold
<1>19. QED BY <1>9, <1>10, <1>11, <1>18 DEF TabInv

\* The announcement is heard: a scan is asked for, or nothing changes.
LEMMA ReadyTab ==
  ASSUME DetectTypes, TabInv, host = "tab", Ready
  PROVE  TabInv'
<1>1. TabQuiet /\ TabBegun /\ TabNumbers
      BY DEF TabInv
<1>2. /\ toggle'.active = toggle.active /\ toggle'.exited = toggle.exited
      /\ toggle'.pick = toggle.pick /\ toggle'.loaded = toggle.loaded
      /\ mail # <<>> /\ Head(mail).what = "ready"
      /\ UNCHANGED <<host, detector, overlays, jobs, waiting, web>>
      BY ReadyFacts
<1>3. mail \in Seq(Mails) /\ Tail(mail) \in Seq(Mails) /\ detector.here \in BOOLEAN
      BY <1>2, TailTypes DEF DetectTypes, Detectors
<1>4. detector.here = TRUE
  <2>1. ~NoneOf(mail, {"ready"})
        BY <1>2, <1>3, MailTaken
  <2>2. QED BY <1>1, <1>3, <2>1 DEF TabBegun
<1>5. CASE /\ toggle.exited = FALSE /\ toggle.active = TRUE
           /\ toggle'.ready = TRUE /\ toggle'.current = used.scans + 1
           /\ mail' = Append(Tail(mail), ScanMessage)
           /\ used'.scans = used.scans + 1
  <2>1. \A whats : NoneOf(mail, whats) => NoneOf(Tail(mail), whats)
        BY <1>2, <1>3, MailTaken
  <2>2. TalksOnce(Tail(mail)) /\ UpTo(Tail(mail), used.scans)
    <3>1. TalksOnce(mail) => TalksOnce(Tail(mail))
          BY <1>2, <1>3, MailTaken
    <3>2. UpTo(mail, used.scans) => UpTo(Tail(mail), used.scans)
          BY <1>2, <1>3, MailTaken
    <3>3. QED BY <1>1, <3>1, <3>2 DEF TabNumbers
  <2>3. toggle'.loaded = TRUE
        BY <1>1, <1>2, <1>4 DEF TabBegun
  <2>4. toggle'.active = TRUE /\ toggle'.exited = FALSE
        BY <1>2, <1>5
  <2>5. QED BY <1>1, <1>2, <1>3, <1>4, <1>5, <2>1, <2>2, <2>3, <2>4, AskTab
<1>6. CASE /\ toggle'.current = toggle.current /\ mail' = Tail(mail)
           /\ toggle'.pending = toggle.pending /\ toggle'.count = toggle.count
           /\ toggle'.ready = TRUE \/ toggle'.ready = toggle.ready
           /\ used' = used
  <2>1. Head(mail).what \notin Calls
        BY <1>2 DEF Calls
  <2>2. Settled => Settled'
    <3>1. ClicksThrough => ClicksThrough'
          BY <1>2 DEF ClicksThrough, Marked
    <3>2. QED BY <1>2, <1>6, <3>1, SettledKept DEF Settled
  <2>3. Brings(mail, toggle.current, Count(detector)) =>
          Brings(mail', toggle.current, Count(detector))
        BY <1>2, <1>3, <1>6, MailTaken
  <2>4. QED BY <1>2, <1>4, <1>6, <2>1, <2>2, <2>3, TabKept
<1>7. QED BY <1>5, <1>6, ReadyFacts

\* Results that count make the badge right; others change nothing.
LEMMA ResultsTab ==
  ASSUME DetectTypes, TabInv, host = "tab", ResultsArrive
  PROVE  TabInv'
<1>1. TabNumbers
      BY DEF TabInv
<1>2. /\ toggle'.active = toggle.active /\ toggle'.exited = toggle.exited
      /\ toggle'.pick = toggle.pick /\ toggle'.ready = toggle.ready
      /\ toggle'.current = toggle.current /\ toggle'.loaded = toggle.loaded
      /\ mail # <<>> /\ Head(mail).what = "results" /\ mail' = Tail(mail)
      /\ UNCHANGED <<host, overlays, jobs, waiting, web, used>>
      BY ResultsFacts
<1>3. \/ /\ Counted(toggle, Head(mail)) /\ Bared(toggle)
         /\ toggle.exited = FALSE
         /\ toggle'.count = Head(mail).count /\ toggle'.pending = 0
      \/ /\ ~(~toggle.exited /\ Counted(toggle, Head(mail)))
         /\ UNCHANGED <<toggle, detector>>
      BY ResultsFacts
<1>4. /\ detector'.groups = detector.groups
      /\ detector'.pageLevel = detector.pageLevel
      /\ detector'.lazy = detector.lazy /\ detector'.hidden = detector.hidden
      /\ detector'.here = detector.here
      BY <1>3 DEF Bared, Redrawn
<1>5. Head(mail).what \notin Calls /\ Head(mail).what \in Talk
      BY <1>2 DEF Calls, Talk
<1>6. mail \in Seq(Mails) /\ toggle.active \in BOOLEAN /\ toggle.exited \in BOOLEAN
      BY DEF DetectTypes, Toggles
<1>7. ASSUME toggle.active = TRUE, toggle.exited = FALSE, toggle.current # 0
      PROVE  /\ Settled => Settled'
             /\ Brings(mail, toggle.current, Count(detector)) =>
                  Settled' \/ Brings(mail', toggle.current, Count(detector))
  <2>1. Counted(toggle, Head(mail)) <=> Head(mail).id = toggle.current
        BY <1>7 DEF Counted
  <2>2. CASE Head(mail).id # toggle.current
    <3>1. UNCHANGED <<toggle, detector>>
          BY <1>3, <2>1, <2>2
    <3>2. Settled => Settled'
      <4>1. ClicksThrough => ClicksThrough'
            BY <1>2, <3>1 DEF ClicksThrough, Marked
      <4>2. QED BY <1>2, <3>1, <4>1, SettledKept DEF Settled
    <3>3. Brings(mail, toggle.current, Count(detector)) =>
            Brings(mail', toggle.current, Count(detector))
          BY <1>2, <1>6, <2>2, MailTaken
    <3>4. QED BY <3>2, <3>3
  <2>3. CASE Head(mail).id = toggle.current
    <3>1. /\ Bared(toggle) /\ toggle'.count = Head(mail).count
          /\ toggle'.pending = 0
          BY <1>3, <1>7, <2>1, <2>3
    <3>2. SilentOn(mail', toggle.current)
          BY <1>1, <1>2, <1>5, <1>6, <2>3, MailTaken DEF TabNumbers
    <3>3. ClicksThrough'
      <4>1. detector'.through = IF toggle.pick THEN Marked ELSE {}
            BY <3>1 DEF Bared
      <4>2. Marked' = Marked
            BY <1>2 DEF Marked
      <4>3. QED BY <1>2, <4>1, <4>2 DEF ClicksThrough
    <3>4. Count(detector') = Count(detector)
          BY <1>4, CountKept
    <3>5. ~Settled
          BY <1>2, <1>5, <1>6, <2>3, MailTaken DEF Settled
    <3>6. ASSUME Brings(mail, toggle.current, Count(detector))
          PROVE  Settled'
      <4>1. ~Brings(mail', toggle.current, Count(detector))
            BY <3>2 DEF Brings, SilentOn, Talk
      <4>2. Head(mail).count = Count(detector)
            BY <1>2, <1>6, <3>6, <4>1, MailTaken
      <4>3. QED BY <1>2, <3>1, <3>2, <3>3, <3>4, <4>2 DEF Settled
    <3>7. QED BY <3>5, <3>6
  <2>4. QED BY <2>2, <2>3
<1>8. QED BY <1>2, <1>4, <1>5, <1>7, TabKept

\* Pick and the lock of an Apply leave the badge as it is.
LEMMA BarTab ==
  ASSUME DetectTypes, TabInv, host = "tab", TogglePicking \/ LockBar
  PROVE  TabInv'
<1>1. /\ toggle'.active = toggle.active /\ toggle'.exited = toggle.exited
      /\ toggle'.ready = toggle.ready /\ toggle'.current = toggle.current
      /\ toggle'.loaded = toggle.loaded /\ toggle'.pending = toggle.pending
      /\ toggle'.count = toggle.count /\ used'.scans = used.scans
      /\ Bared(toggle') /\ UNCHANGED <<host, mail, overlays, jobs, waiting, web>>
      BY BarStepFacts
<1>2. /\ detector'.groups = detector.groups
      /\ detector'.pageLevel = detector.pageLevel
      /\ detector'.lazy = detector.lazy /\ detector'.hidden = detector.hidden
      /\ detector'.here = detector.here
      BY <1>1 DEF Bared, Redrawn
<1>3. ClicksThrough'
  <2>1. detector'.through = IF toggle'.pick THEN Marked ELSE {}
        BY <1>1 DEF Bared
  <2>2. Marked' = Marked
        BY <1>1 DEF Marked
  <2>3. QED BY <2>1, <2>2 DEF ClicksThrough
<1>4. Settled => Settled'
      BY <1>1, <1>2, <1>3, SettledKept
<1>5. QED BY <1>1, <1>2, <1>4, TabKept

\* Every step of the tab, its detector and its page keeps the badge's account.
LEMMA TabSteps ==
  ASSUME DrawnInv, TabInv, [DetectNext]_detectVars
  PROVE  TabInv'
<1>1. DetectTypes
      BY DEF DrawnInv
<1>2. host' = host
  <2>1. CASE Detecting
        BY <2>1 DEF Detecting, Command, ScanAsync, Analyze, JobEnds, LazyFires,
                    LazyResolves
  <2>2. CASE Toggling
        BY <2>2 DEF Toggling, DetectOn, DetectOff, ScriptRuns, Ready,
                    ResultsArrive, TogglePicking, LockBar, Teardown
  <2>3. CASE Outer
        BY <2>3 DEF Outer, PanelScans, PanelAsks, Scroll, EditPage
  <2>4. CASE UNCHANGED detectVars
        BY <2>4 DEF detectVars
  <2>5. QED BY <2>1, <2>2, <2>3, <2>4 DEF DetectNext
<1>3. CASE host # "tab"
      BY <1>2, <1>3 DEF TabInv
<1>4. ASSUME host = "tab"
      PROVE  TabInv'
  <2>1. /\ jobs = {} /\ waiting = {} /\ detector.lazy = {}
        BY <1>4 DEF TabInv, TabQuiet
  <2>2. CASE Detecting
    <3>1. ~ScanAsync
          BY <1>4 DEF ScanAsync
    <3>2. \A e \in Elements : ~LazyFires(e)
          BY <2>1 DEF LazyFires
    <3>3. Command
          BY <2>1, <2>2, <3>1, <3>2 DEF Detecting
    <3>4. QED BY <1>1, <1>4, <3>3, CommandTab
  <2>3. CASE Toggling
        BY <1>1, <1>4, <2>3, DetectOnTab, OffTab, ScriptTab, ReadyTab,
           ResultsTab, BarTab DEF Toggling
  <2>4. ASSUME UNCHANGED <<host, toggle, mail, detector, overlays, jobs, waiting>>,
               used'.scans = used.scans
        PROVE  TabInv'
    <3>1. Settled => Settled'
          BY <2>4 DEF Settled, ClicksThrough, Marked, Count
    <3>2. QED BY <1>1, <1>4, <2>4, <3>1, TabKept
  <2>5. CASE Outer
    <3>1. ~PanelScans /\ ~PanelAsks /\ \A e \in Elements : ~Scroll(e)
          BY <1>4 DEF PanelScans, PanelAsks, Scroll
    <3>2. PICK e \in Elements : EditPage(e)
          BY <2>5, <3>1 DEF Outer
    <3>3. QED BY <1>1, <2>4, <3>2, EditPageFacts
  <2>6. CASE UNCHANGED detectVars
        BY <2>4, <2>6 DEF detectVars
  <2>7. QED BY <2>2, <2>3, <2>5, <2>6 DEF DetectNext
<1>5. QED BY <1>3, <1>4

\* With no mail left the account is what the property says.
LEMMA TabImplies == DrawnInv /\ TabInv => BadgeTellsTheTruth
<1> SUFFICES ASSUME DrawnInv, TabInv, host = "tab", mail = <<>>
             PROVE  IF toggle.active /\ ~toggle.exited
      THEN /\ toggle.current # 0 =>
                toggle.pending = 0 /\ toggle.count = Count(detector)
           /\ toggle.pick => detector.styled \/ Marked \subseteq detector.through
      ELSE Marked = {} /\ ~detector.pageLevel /\ ~detector.hidden
    BY DEF BadgeTellsTheTruth
<1>1. TabQuiet /\ TabBegun /\ TabTold
      BY DEF TabInv
<1>2. DOMAIN mail = {}
      OBVIOUS
<1>3. /\ \A what, id : ~EndsIn(mail, what, id)
      /\ \A id, n : ~Brings(mail, id, n)
      BY <1>2 DEF EndsIn, Brings
<1>4. Unmarked => Marked = {} /\ ~detector.pageLevel
      BY DEF Unmarked, Marked, NoGroups, Bare, DrawnInv, DrawnAsFound
<1>5. /\ toggle.active \in BOOLEAN /\ toggle.exited \in BOOLEAN
      /\ toggle.pick \in BOOLEAN
      BY DEF DrawnInv, DetectTypes, Toggles
<1>6. CASE toggle.active = TRUE /\ toggle.exited = FALSE
  <2>1. CASE toggle.current # 0
    <3>1. Settled
          BY <1>1, <1>3, <1>6, <2>1 DEF TabTold, Shows
    <3>2. QED BY <1>5, <1>6, <3>1 DEF Settled, ClicksThrough
  <2>2. CASE toggle.current = 0
    <3>1. Unmarked
          BY <1>1, <1>6, <2>2 DEF TabTold, TabBegun
    <3>2. QED BY <1>4, <1>6, <2>2, <3>1
  <2>3. QED BY <2>1, <2>2
<1>7. CASE toggle.active = FALSE \/ toggle.exited = TRUE
  <2>1. Unmarked
        BY <1>1, <1>3, <1>7 DEF TabTold, Vanishes
  <2>2. QED BY <1>1, <1>4, <1>7, <2>1 DEF TabQuiet
<1>8. QED BY <1>5, <1>6, <1>7

-----------------------------------------------------------------------------
(* The design panel and the mark of the agent (LiveDesign).                 *)

Sources == [present : BOOLEAN, md : Nat, json : Nat, stale : BOOLEAN,
            error : BOOLEAN]
Disks == [md : Nat, json : Nat, broken : BOOLEAN, mdIsNewer : BOOLEAN]
Readings == [present : {"unknown", "yes", "no"}, md : Nat, json : Nat,
             raw : Nat, stale : BOOLEAN, error : BOOLEAN]
DesignStates == [open : BOOLEAN, tab : {"visual", "raw"}, loading : BOOLEAN,
                 data : Readings, applying : BOOLEAN]
FetchPairs == [out : BOOLEAN, jsonIn : BOOLEAN, rawIn : BOOLEAN, raw : Nat,
               json : Sources]
Marks0 == [polling : BOOLEAN, connected : BOOLEAN, tip : BOOLEAN,
           watched : BOOLEAN]
Pasts == [writes : Nat, failures : Nat, asked : Nat, answered : Nat,
          changed : BOOLEAN, overtaken : BOOLEAN, turned : BOOLEAN,
          failed : BOOLEAN]

\* What a reading of the files as they are would show.
AsRead ==
  /\ design.data.md = disk.md /\ design.data.raw = disk.md
  /\ ~disk.broken => design.data.json = disk.json
  /\ design.data.stale = JsonAnswer.stale
  /\ (design.data.present = "no") = (disk.md = 0 /\ disk.json = 0)

ReadInv ==
  /\ disk \in Disks /\ design \in DesignStates /\ pair \in FetchPairs
  /\ past \in Pasts
  /\ design.loading = pair.out
  /\ pair.jsonIn = TRUE => pair.out = TRUE
  /\ past.changed = FALSE =>
       /\ pair.jsonIn = TRUE => pair.json = JsonAnswer
       /\ pair.rawIn = TRUE => pair.raw = disk.md
       /\ /\ past.failed = FALSE /\ design.loading = FALSE
          /\ design.data.present # "unknown"
          => AsRead

\* A panel that has read nothing.
LEMMA ReadStarts == DesignInit => ReadInv
<1> SUFFICES ASSUME DesignInit PROVE ReadInv
    OBVIOUS
<1>1. disk \in Disks
      BY DEF DesignInit, Disks
<1>2. Unread \in Readings /\ Unread.present = "unknown"
      BY DEF Unread, Readings
<1>3. /\ design \in DesignStates /\ design.loading = FALSE
      /\ design.data = Unread
      BY <1>2 DEF DesignInit, DesignStates
<1>4. /\ pair \in FetchPairs /\ pair.out = FALSE /\ pair.jsonIn = FALSE
      /\ pair.rawIn = FALSE
      BY DEF DesignInit, NoPair, Due, FetchPairs, Sources
<1>5. past \in Pasts
      BY DEF DesignInit, Pasts
<1>6. QED BY <1>1, <1>2, <1>3, <1>4, <1>5 DEF ReadInv

\* /design-system.json answers with a source.
LEMMA ServedIsSource == disk \in Disks => JsonAnswer \in Sources
BY DEF JsonAnswer, Sources, Disks

\* A fetch begins a history of its own.
LEMMA FetchStarts ==
  ASSUME ReadInv, NEW d \in DesignStates, Fetches(d), disk' = disk
  PROVE  ReadInv'
<1>1. /\ design' \in DesignStates /\ design'.loading = TRUE
      BY DEF Fetches, DesignStates, Readings
<1>2. /\ pair' \in FetchPairs /\ pair'.out = TRUE /\ pair'.jsonIn = FALSE
      /\ pair'.rawIn = FALSE
      BY DEF Fetches, Due, FetchPairs, Sources
<1>3. past' \in Pasts
      BY DEF Fetches, Pasts, ReadInv
<1>4. QED BY <1>1, <1>2, <1>3 DEF ReadInv

\* Opening, closing and turning the panel read nothing.
LEMMA PanelChanges ==
  ASSUME ReadInv, design' \in DesignStates, design'.loading = design.loading,
         design'.data = design.data, UNCHANGED <<disk, pair, past>>
  PROVE  ReadInv'
BY DEF ReadInv, AsRead, JsonAnswer

\* Every step of the files, the server and the panel keeps the reading's account.
LEMMA ReadSteps ==
  ASSUME ReadInv, [Reading]_designVars
  PROVE  ReadInv'
<1> USE DEF Disks, Pasts
<1>1. CASE WriteMd
  <2>1. disk' \in Disks
    <3>1. PICK late \in BOOLEAN :
            disk' = [disk EXCEPT !.md = @ + 1, !.mdIsNewer = @ \/ late]
          BY <1>1 DEF WriteMd
    <3> DEFINE b == (disk.mdIsNewer \/ late)
               n == disk.md + 1
    <3>2. b \in BOOLEAN /\ n \in Nat
          BY DEF ReadInv
    <3>3. disk' = [disk EXCEPT !.md = n, !.mdIsNewer = b]
          BY <3>1
    <3> HIDE DEF b, n
    <3>4. QED BY <3>2, <3>3 DEF ReadInv
  <2>2. past' \in Pasts /\ past'.changed = TRUE
    <3> DEFINE n == past.writes + 1
    <3>1. past' = [past EXCEPT !.writes = n, !.changed = TRUE]
          BY <1>1 DEF WriteMd
    <3>2. past \in Pasts /\ n \in Nat
          BY DEF ReadInv
    <3> HIDE DEF n
    <3>3. past' \in Pasts /\ past'.writes = n
          BY <3>1, <3>2
    <3>4. QED BY <3>1, <3>2, <3>3 DEF n
  <2>3. QED BY <1>1, <2>1, <2>2 DEF WriteMd, ReadInv
<1>2. CASE WriteJson
  <2>1. disk' \in Disks
    <3> DEFINE n == disk.json + 1
    <3>1. PICK broken \in BOOLEAN :
            disk' = [disk EXCEPT !.json = n, !.broken = broken,
                                 !.mdIsNewer = FALSE]
          BY <1>2 DEF WriteJson
    <3>2. n \in Nat
          BY DEF ReadInv
    <3> HIDE DEF n
    <3>3. QED BY <3>1, <3>2 DEF ReadInv
  <2>2. past' \in Pasts /\ past'.changed = TRUE
    <3> DEFINE n == past.writes + 1
    <3>1. past' = [past EXCEPT !.writes = n, !.changed = TRUE]
          BY <1>2 DEF WriteJson
    <3>2. past \in Pasts /\ n \in Nat
          BY DEF ReadInv
    <3> HIDE DEF n
    <3>3. past' \in Pasts /\ past'.writes = n
          BY <3>1, <3>2
    <3>4. QED BY <3>1, <3>2, <3>3 DEF n
  <2>3. QED BY <1>2, <2>1, <2>2 DEF WriteJson, ReadInv
<1>3. CASE ToggleDesignPanel
  <2> DEFINE d == [design EXCEPT !.open = ~@]
  <2>1. d \in DesignStates /\ d.loading = design.loading /\ d.data = design.data
        BY DEF ReadInv, DesignStates
  <2>2. disk' = disk
        BY <1>3 DEF ToggleDesignPanel
  <2>3. \/ Fetches(d)
        \/ design' = d /\ UNCHANGED <<pair, past>>
        BY <1>3 DEF ToggleDesignPanel
  <2> HIDE DEF d
  <2>4. QED BY <2>1, <2>2, <2>3, FetchStarts, PanelChanges
<1>4. CASE \E v \in {"visual", "raw"} : PickTab(v)
  <2> PICK v \in {"visual", "raw"} : PickTab(v)
      BY <1>4
  <2> DEFINE d == [design EXCEPT !.tab = v]
  <2>1. d \in DesignStates /\ d.loading = design.loading /\ d.data = design.data
        BY DEF ReadInv, DesignStates
  <2>2. disk' = disk
        BY DEF PickTab
  <2>3. \/ Fetches(d)
        \/ design' = d /\ UNCHANGED <<pair, past>>
        BY DEF PickTab
  <2> HIDE DEF d
  <2>4. QED BY <2>1, <2>2, <2>3, FetchStarts, PanelChanges
<1>5. CASE ServeJson
  <2>1. JsonAnswer \in Sources
        BY ServedIsSource DEF ReadInv
  <2>2. /\ pair' \in FetchPairs /\ pair'.json = JsonAnswer /\ pair'.out = TRUE
        /\ pair.out = TRUE /\ pair'.rawIn = pair.rawIn /\ pair'.raw = pair.raw
        BY <1>5, <2>1 DEF ServeJson, ReadInv, FetchPairs
  <2>3. QED BY <1>5, <2>2 DEF ServeJson, ReadInv, JsonAnswer, AsRead
<1>6. CASE ServeRaw
  <2>1. /\ pair' \in FetchPairs /\ pair'.raw = disk.md /\ pair'.out = TRUE
        /\ pair.out = TRUE /\ pair'.jsonIn = pair.jsonIn /\ pair'.json = pair.json
        BY <1>6 DEF ServeRaw, ReadInv, FetchPairs, RawAnswer
  <2>2. QED BY <1>6, <2>1 DEF ServeRaw, ReadInv, JsonAnswer, AsRead
<1>7. CASE Fetched
  <2>1. /\ pair' \in FetchPairs /\ pair'.out = FALSE /\ pair'.jsonIn = FALSE
        /\ pair'.rawIn = FALSE
        BY <1>7 DEF Fetched, NoPair, Due, FetchPairs, Sources
  <2>2. pair.json \in Sources /\ pair.raw \in Nat
        BY DEF ReadInv, FetchPairs
  <2> DEFINE j == pair.json
             read == [present |-> IF j.present THEN "yes" ELSE "no",
                      md |-> j.md, json |-> j.json, stale |-> j.stale,
                      raw |-> IF j.present THEN pair.raw ELSE 0,
                      error |-> j.error]
  <2>3. read \in Readings
        BY <2>2 DEF Readings, Sources
  <2>4. design' = [design EXCEPT !.loading = FALSE, !.data = read]
        BY <1>7 DEF Fetched
  <2>5. design' \in DesignStates /\ design'.loading = FALSE /\ design'.data = read
        BY <2>3, <2>4 DEF ReadInv, DesignStates
  <2>6. past.changed = FALSE => j = JsonAnswer /\ pair.raw = disk.md
        BY <1>7 DEF Fetched, ReadInv, FetchPairs
  <2>7. ASSUME past.changed = FALSE
        PROVE  AsRead'
    <3>1. UNCHANGED disk
          BY <1>7 DEF Fetched
    <3>2. /\ j.present = (disk.md # 0 \/ disk.json # 0) /\ j.md = disk.md
          /\ j.json = (IF disk.broken THEN 0 ELSE disk.json)
          /\ j.stale = JsonAnswer.stale
          BY <2>6, <2>7 DEF JsonAnswer
    <3>3. disk.md \in Nat /\ disk.json \in Nat
          BY DEF ReadInv
    <3>4. /\ design'.data.md = disk.md /\ design'.data.json = j.json
          /\ design'.data.stale = JsonAnswer.stale
          /\ design'.data.raw = (IF j.present THEN pair.raw ELSE 0)
          /\ design'.data.present = (IF j.present THEN "yes" ELSE "no")
          BY <2>5, <3>2
    <3>5. design'.data.raw = disk.md
          BY <2>6, <2>7, <3>2, <3>3, <3>4
    <3>6. (design'.data.present = "no") = (disk.md = 0 /\ disk.json = 0)
          BY <3>2, <3>4
    <3>7. ~disk.broken => design'.data.json = disk.json
          BY <3>2, <3>4
    <3>8. JsonAnswer' = JsonAnswer
          BY <3>1 DEF JsonAnswer
    <3>9. QED BY <3>1, <3>4, <3>5, <3>6, <3>7, <3>8 DEF AsRead
  <2>8. QED BY <1>7, <2>1, <2>5, <2>7 DEF Fetched, ReadInv
<1>8. CASE FetchFails
  <2>1. /\ pair' \in FetchPairs /\ pair'.out = FALSE /\ pair'.jsonIn = FALSE
        /\ pair'.rawIn = FALSE
        BY <1>8 DEF FetchFails, NoPair, Due, FetchPairs, Sources
  <2>2. design' \in DesignStates /\ design'.loading = FALSE
        BY <1>8 DEF FetchFails, ReadInv, DesignStates, Readings
  <2>3. past' \in Pasts /\ past'.failed = TRUE
    <3> DEFINE n == past.failures + 1
    <3>1. past' = [past EXCEPT !.failures = n, !.failed = TRUE]
          BY <1>8 DEF FetchFails
    <3>2. past \in Pasts /\ n \in Nat
          BY DEF ReadInv
    <3> HIDE DEF n
    <3>3. past' \in Pasts /\ past'.failures = n
          BY <3>1, <3>2
    <3>4. QED BY <3>1, <3>2, <3>3 DEF n
  <2>4. QED BY <1>8, <2>1, <2>2, <2>3 DEF FetchFails, ReadInv
<1>9. CASE LockPanel
  <2>1. /\ design' \in DesignStates /\ design'.loading = design.loading
        /\ design'.data = design.data
        BY <1>9 DEF LockPanel, ReadInv, DesignStates
  <2>2. QED BY <1>9, <2>1, PanelChanges DEF LockPanel
<1>10. CASE UNCHANGED designVars
      BY <1>10 DEF designVars, ReadInv, AsRead, JsonAnswer
<1>11. QED BY <1>1, <1>2, <1>3, <1>4, <1>5, <1>6, <1>7, <1>8, <1>9, <1>10
          DEF Reading

\* The account is what the property says, and more.
LEMMA ReadImplies == ReadInv => PanelMatchesTheFiles
BY DEF ReadInv, PanelMatchesTheFiles, AsRead, View, Pasts, DesignStates, Readings

-----------------------------------------------------------------------------
Questions == [no : Nat, says : {"due", "yes", "no"}]
Polling == IF agent.polling THEN "yes" ELSE "no"

MarkInv ==
  /\ agent \in Marks0 /\ polls \in SUBSET Questions /\ past \in Pasts
  /\ agent.tip = TRUE => agent.connected = FALSE /\ agent.watched = TRUE
  /\ past.answered <= past.asked
  /\ \A p \in polls : p.no <= past.asked /\ p.no # past.answered
  /\ \A p, q \in polls : p.no = q.no => p = q
  /\ past.turned = FALSE =>
       /\ \A p \in polls : p.no = past.asked /\ p.says # "due" => p.says = Polling
       /\ past.overtaken = FALSE /\ past.answered = past.asked /\ past.asked > 0
            => agent.connected = agent.polling

\* No question has been asked.
LEMMA MarkStarts == DesignInit => MarkInv
BY DEF DesignInit, MarkInv, Marks0, Pasts, Questions

\* Every question and answer keeps the account of the agent's mark.
LEMMA MarkSteps ==
  ASSUME MarkInv, [Watching]_designVars
  PROVE  MarkInv'
<1> USE DEF Marks0, Pasts
<1>1. CASE Poll
  <2> DEFINE q == [no |-> past.asked + 1, says |-> "due"]
  <2>1. q \in Questions /\ q.says = "due" /\ q.no = past.asked + 1
        BY DEF MarkInv, Questions
  <2>2. polls' = polls \cup {q} /\ agent' = agent
        BY <1>1 DEF Poll
  <2>3. /\ past' \in Pasts /\ past'.asked = past.asked + 1 /\ past.asked \in Nat
        /\ past'.answered = past.answered /\ past.answered \in Nat
        /\ past'.turned = FALSE /\ past'.overtaken = past.overtaken
    <3> DEFINE n == past.asked + 1
    <3>1. past' = [past EXCEPT !.asked = n, !.turned = FALSE]
          BY <1>1 DEF Poll
    <3>2. past \in Pasts /\ n \in Nat
          BY DEF MarkInv
    <3> HIDE DEF n
    <3>3. past' \in Pasts /\ past'.asked = n
          BY <3>1, <3>2
    <3>4. QED BY <3>1, <3>2, <3>3 DEF n
  <2>4. \A p \in polls : p.no \in Nat
        BY DEF MarkInv, Questions
  <2> HIDE DEF q
  <2>5. QED BY <2>1, <2>2, <2>3, <2>4 DEF MarkInv, Polling
<1>2. CASE \E p \in polls : PollServed(p)
  <2> PICK p \in polls : PollServed(p)
      BY <1>2
  <2> DEFINE r == [p EXCEPT !.says = IF agent.polling THEN "yes" ELSE "no"]
  <2>1. r \in Questions /\ r.no = p.no /\ r.says = Polling
        BY DEF MarkInv, Questions, Polling
  <2>2. polls' = (polls \ {p}) \cup {r} /\ UNCHANGED <<agent, past>>
        BY DEF PollServed
  <2> HIDE DEF r
  <2>3. QED BY <2>1, <2>2 DEF MarkInv, Polling
<1>3. CASE \E p \in polls : PollAnswered(p)
  <2> PICK p \in polls : PollAnswered(p)
      BY <1>3
  <2>1. p \in Questions /\ p.says # "due"
        BY DEF MarkInv, PollAnswered
  <2>2. /\ agent' \in Marks0 /\ agent'.connected = (p.says = "yes")
        /\ agent'.polling = agent.polling /\ agent'.watched = agent.watched
        /\ agent'.tip = (agent.tip /\ p.says = "no")
        BY DEF MarkInv, PollAnswered
  <2>3. /\ past' \in Pasts /\ past'.asked = past.asked
        /\ past'.answered = (IF p.no > past.answered THEN p.no ELSE past.answered)
        /\ past'.overtaken = (p.no < past.answered)
        /\ past'.turned = past.turned
    <3> DEFINE n == IF p.no > past.answered THEN p.no ELSE past.answered
               b == (p.no < past.answered)
    <3>1. n \in Nat /\ b \in BOOLEAN
          BY <2>1 DEF MarkInv, Questions
    <3>2. past' = [past EXCEPT !.answered = n, !.overtaken = b]
          BY DEF PollAnswered
    <3>3. past \in Pasts
          BY DEF MarkInv
    <3> HIDE DEF n, b
    <3>4. past' \in Pasts /\ past'.asked = past.asked /\ past'.answered = n
          /\ past'.overtaken = b /\ past'.turned = past.turned
          BY <3>1, <3>2, <3>3
    <3>5. QED BY <3>4 DEF n, b
  <2>4. polls' = polls \ {p}
        BY DEF PollAnswered
  <2>5. /\ p.no \in Nat /\ past.asked \in Nat /\ past.answered \in Nat
        /\ p.no <= past.asked /\ p.no # past.answered
        /\ \A q \in polls : q.no \in Nat
        BY DEF MarkInv, Questions
  <2>6. agent'.tip = TRUE => agent'.connected = FALSE /\ agent'.watched = TRUE
        BY <2>2 DEF MarkInv
  <2>7. past'.answered <= past'.asked
        BY <2>3, <2>5 DEF MarkInv
  <2>8. \A q \in polls' : q.no <= past'.asked /\ q.no # past'.answered
        BY <2>3, <2>4, <2>5 DEF MarkInv
  <2>9. ASSUME past'.turned = FALSE, past'.overtaken = FALSE,
               past'.answered = past'.asked
        PROVE  agent'.connected = agent'.polling
    <3>1. p.no = past.asked
          BY <2>3, <2>5, <2>9
    <3>2. p.says = Polling
          BY <2>1, <2>3, <2>9, <3>1 DEF MarkInv
    <3>3. QED BY <2>2, <3>2 DEF Polling, MarkInv
  <2>10. QED BY <2>2, <2>3, <2>4, <2>6, <2>7, <2>8, <2>9 DEF MarkInv, Polling
<1>4. CASE \E p \in polls : PollFails(p)
      BY <1>4 DEF PollFails, MarkInv, Polling
<1>5. CASE AgentComesOrGoes
  <2>1. /\ agent' \in Marks0 /\ agent'.tip = agent.tip
        /\ agent'.connected = agent.connected /\ agent'.watched = agent.watched
        BY <1>5 DEF AgentComesOrGoes, MarkInv
  <2>2. /\ past' \in Pasts /\ past'.turned = TRUE /\ past'.asked = past.asked
        /\ past'.answered = past.answered
        BY <1>5 DEF AgentComesOrGoes, MarkInv
  <2>3. QED BY <1>5, <2>1, <2>2 DEF AgentComesOrGoes, MarkInv
<1>6. CASE ShowTip \/ HideTip \/ StopPolling
  <2>1. /\ agent' \in Marks0 /\ agent'.polling = agent.polling
        /\ agent'.connected = agent.connected
        /\ agent'.tip = TRUE => agent.connected = FALSE /\ agent'.watched = TRUE
        BY <1>6 DEF ShowTip, HideTip, StopPolling, MarkInv
  <2>2. UNCHANGED <<polls, past>>
        BY <1>6 DEF ShowTip, HideTip, StopPolling
  <2>3. QED BY <2>1, <2>2 DEF MarkInv, Polling
<1>7. CASE UNCHANGED designVars
      BY <1>7 DEF designVars, MarkInv, Polling
<1>8. QED BY <1>1, <1>2, <1>3, <1>4, <1>5, <1>6, <1>7 DEF Watching

\* The account is what the property says, and more.
LEMMA MarkImplies == MarkInv => MarkFollowsTheAgent
BY DEF MarkInv, MarkFollowsTheAgent, Marks0, Pasts

\* The reading and the mark share the record of the past; the watch on the
\* agent does not touch the reading's part of it.
LEMMA WatchKeepsRead ==
  ASSUME ReadInv, MarkInv', [Watching]_designVars
  PROVE  ReadInv'
<1>1. past \in Pasts
      BY DEF ReadInv
<1>2. UNCHANGED <<disk, design, pair>>
      BY DEF Watching, Poll, PollServed, PollAnswered, PollFails,
             AgentComesOrGoes, ShowTip, HideTip, StopPolling, designVars
<1>3. past'.changed = past.changed /\ past'.failed = past.failed
  <2>1. CASE Poll
        BY <1>1, <2>1 DEF Poll, Pasts
  <2>2. CASE \E p \in polls : PollAnswered(p)
    <3> PICK p \in polls : PollAnswered(p)
        BY <2>2
    <3> DEFINE n == IF p.no > past.answered THEN p.no ELSE past.answered
               b == (p.no < past.answered)
    <3>1. past' = [past EXCEPT !.answered = n, !.overtaken = b]
          BY DEF PollAnswered
    <3> HIDE DEF n, b
    <3>2. QED BY <1>1, <3>1 DEF Pasts
  <2>3. CASE AgentComesOrGoes
        BY <1>1, <2>3 DEF AgentComesOrGoes, Pasts
  <2>4. CASE ~Poll /\ ~AgentComesOrGoes /\ ~(\E p \in polls : PollAnswered(p))
        BY <2>4 DEF Watching, PollServed, PollFails, ShowTip, HideTip,
                    StopPolling, designVars
  <2>5. QED BY <2>1, <2>2, <2>3, <2>4
<1>4. past' \in Pasts
      BY DEF MarkInv
<1>5. QED BY <1>2, <1>3, <1>4 DEF ReadInv, AsRead, JsonAnswer

\* Nor do the reading's steps touch the mark's part of it.
LEMMA ReadKeepsMark ==
  ASSUME MarkInv, ReadInv', [Reading]_designVars
  PROVE  MarkInv'
<1>1. past \in Pasts
      BY DEF MarkInv
<1>2. UNCHANGED <<agent, polls>>
      BY DEF Reading, WriteMd, WriteJson, ToggleDesignPanel, PickTab, ServeJson,
             ServeRaw, Fetched, FetchFails, LockPanel, designVars
<1>3. /\ past'.asked = past.asked /\ past'.answered = past.answered
      /\ past'.overtaken = past.overtaken /\ past'.turned = past.turned
  <2> DEFINE n == past.writes + 1
             f == past.failures + 1
  <2>1. \/ past' = past
        \/ past' = [past EXCEPT !.changed = FALSE, !.failed = FALSE]
        \/ past' = [past EXCEPT !.writes = n, !.changed = TRUE]
        \/ past' = [past EXCEPT !.failures = f, !.failed = TRUE]
        BY DEF Reading, WriteMd, WriteJson, ToggleDesignPanel, PickTab, Fetches,
               ServeJson, ServeRaw, Fetched, FetchFails, LockPanel, designVars
  <2> HIDE DEF n, f
  <2>2. QED BY <1>1, <2>1 DEF Pasts
<1>4. past' \in Pasts
      BY DEF ReadInv
<1>5. QED BY <1>2, <1>3, <1>4 DEF MarkInv, Polling

-----------------------------------------------------------------------------
-----------------------------------------------------------------------------
(* The style engine of the detector.                                       *)

\* What holds of 0, and of n + 1 if of n, holds of all numbers up to a bound.
LEMMA CountsUp ==
  ASSUME NEW L \in Nat, NEW T, 0 \in T, \A n \in Nat : n < L /\ n \in T => n + 1 \in T
  PROVE  \A n \in 0..L : n \in T
<1> DEFINE Less == OpToRel(<, Nat)
           Missing == {n \in Nat : n <= L /\ n \notin T}
<1>1. IsWellFoundedOn(Less, Nat)
      BY NatLessThanWellFounded
<1>2. \A x, y \in Nat : x < y => <<x, y>> \in Less
      BY DEF OpToRel
<1> HIDE DEF Less
<1>3. SUFFICES ASSUME Missing # {} PROVE FALSE
      OBVIOUS
<1>4. Missing \in SUBSET Nat
      OBVIOUS
<1>5. PICK n \in Missing : \A m \in Missing : ~(<<m, n>> \in Less)
      BY <1>1, <1>3, <1>4, WFMin
<1>6. n \in Nat /\ n # 0 /\ n <= L /\ n \notin T
      BY <1>5
<1>7. n - 1 \in Nat /\ n - 1 < n /\ n - 1 < L /\ n - 1 + 1 = n
      BY <1>6
<1>8. n - 1 \notin Missing
      BY <1>2, <1>5, <1>6, <1>7
<1>9. n - 1 \in T
      BY <1>6, <1>7, <1>8
<1>10. QED BY <1>6, <1>7, <1>9

\* The loops: each is the run of its step.
LEMMA AppliedRuns ==
  ASSUME NEW map, NEW d, NEW pairs, pairs = Expanded(d.prop, d.values), Len(pairs) \in Nat
  PROVE  \E g : /\ g[0] = map
                /\ \A n \in 1..Len(pairs) : g[n] = Offered(g[n - 1], Entry(d, pairs[n]))
                /\ Applied(map, d) = g[Len(pairs)]
<1> DEFINE L == Len(pairs)
           Runs(g, m) == g = [n \in 0..m |-> IF n = 0 THEN map ELSE Offered(g[n - 1], Entry(d, pairs[n]))]
           loop == CHOOSE g : Runs(g, L)
           T == {m \in Nat : \E g : Runs(g, m)}
<1>1. Applied(map, d) = loop[L]
      BY DEF Applied
<1>2. 0 \in T
      <2>1. PICK g : g = [n \in 0..0 |-> map]
            OBVIOUS
      <2>2. Runs(g, 0)
            BY <2>1
      <2>3. QED BY <2>2
<1>3. ASSUME NEW m \in Nat, m \in T PROVE m + 1 \in T
      <2>1. PICK g : Runs(g, m)
            BY <1>3
      <2>2. PICK h : h = [n \in 0..m + 1 |-> IF n <= m THEN g[n] ELSE Offered(g[m], Entry(d, pairs[n]))]
            OBVIOUS
      <2>3. ASSUME NEW n \in 0..m + 1
            PROVE  h[n] = IF n = 0 THEN map ELSE Offered(h[n - 1], Entry(d, pairs[n]))
            <3>1. CASE n <= m
                  <4>1. n \in 0..m /\ h[n] = g[n]
                        BY <2>2, <3>1
                  <4>2. n # 0 => n - 1 \in 0..m + 1 /\ n - 1 <= m
                        BY <3>1
                  <4>3. n # 0 => h[n - 1] = g[n - 1]
                        BY <2>2, <4>2
                  <4>4. g[n] = IF n = 0 THEN map ELSE Offered(g[n - 1], Entry(d, pairs[n]))
                        BY <2>1, <4>1
                  <4>5. QED BY <4>1, <4>3, <4>4
            <3>2. CASE ~(n <= m)
                  <4>1. n = m + 1 /\ n # 0 /\ n - 1 = m /\ m \in 0..m + 1 /\ m <= m
                        BY <3>2
                  <4>2. h[n] = Offered(g[m], Entry(d, pairs[n])) /\ h[m] = g[m]
                        BY <2>2, <3>2, <4>1
                  <4>3. QED BY <4>1, <4>2
            <3>3. QED BY <3>1, <3>2
      <2>4. Runs(h, m + 1)
            BY <2>2, <2>3
      <2>5. QED BY <2>4
<1>4. L \in T
      <2> HIDE DEF T
      <2>1. \A n \in 0..L : n \in T
            BY <1>2, <1>3, CountsUp DEF L
      <2>2. QED BY <2>1 DEF L
<1>5. PICK g : g = loop /\ Runs(g, L)
      BY <1>4
<1> HIDE DEF loop
<1>6. g[0] = map /\ \A n \in 1..L : g[n] = Offered(g[n - 1], Entry(d, pairs[n]))
      <2>1. 0 \in 0..L /\ \A n \in 1..L : n \in 0..L /\ n # 0
            OBVIOUS
      <2>2. QED BY <1>5, <2>1
<1>7. QED BY <1>1, <1>5, <1>6


LEMMA CustomRuns ==
  ASSUME NEW map, NEW parentCustom, Len(map) \in Nat
  PROVE  \E g : /\ g[0] = parentCustom
                /\ \A n \in 1..Len(map) : g[n] = WithCustom(g[n - 1], map[n])
                /\ CustomOf(map, parentCustom) = g[Len(map)]
<1> DEFINE L == Len(map)
           Runs(g, m) == g = [n \in 0..m |-> IF n = 0 THEN parentCustom ELSE WithCustom(g[n - 1], map[n])]
           loop == CHOOSE g : Runs(g, L)
           T == {m \in Nat : \E g : Runs(g, m)}
<1>1. CustomOf(map, parentCustom) = loop[L]
      BY DEF CustomOf
<1>2. 0 \in T
      <2>1. PICK g : g = [n \in 0..0 |-> parentCustom]
            OBVIOUS
      <2>2. Runs(g, 0)
            BY <2>1
      <2>3. QED BY <2>2
<1>3. ASSUME NEW m \in Nat, m \in T PROVE m + 1 \in T
      <2>1. PICK g : Runs(g, m)
            BY <1>3
      <2>2. PICK h : h = [n \in 0..m + 1 |-> IF n <= m THEN g[n] ELSE WithCustom(g[m], map[n])]
            OBVIOUS
      <2>3. ASSUME NEW n \in 0..m + 1
            PROVE  h[n] = IF n = 0 THEN parentCustom ELSE WithCustom(h[n - 1], map[n])
            <3>1. CASE n <= m
                  <4>1. n \in 0..m /\ h[n] = g[n]
                        BY <2>2, <3>1
                  <4>2. n # 0 => n - 1 \in 0..m + 1 /\ n - 1 <= m
                        BY <3>1
                  <4>3. n # 0 => h[n - 1] = g[n - 1]
                        BY <2>2, <4>2
                  <4>4. g[n] = IF n = 0 THEN parentCustom ELSE WithCustom(g[n - 1], map[n])
                        BY <2>1, <4>1
                  <4>5. QED BY <4>1, <4>3, <4>4
            <3>2. CASE ~(n <= m)
                  <4>1. n = m + 1 /\ n # 0 /\ n - 1 = m /\ m \in 0..m + 1 /\ m <= m
                        BY <3>2
                  <4>2. h[n] = WithCustom(g[m], map[n]) /\ h[m] = g[m]
                        BY <2>2, <3>2, <4>1
                  <4>3. QED BY <4>1, <4>2
            <3>3. QED BY <3>1, <3>2
      <2>4. Runs(h, m + 1)
            BY <2>2, <2>3
      <2>5. QED BY <2>4
<1>4. L \in T
      <2> HIDE DEF T
      <2>1. \A n \in 0..L : n \in T
            BY <1>2, <1>3, CountsUp DEF L
      <2>2. QED BY <2>1 DEF L
<1>5. PICK g : g = loop /\ Runs(g, L)
      BY <1>4
<1> HIDE DEF loop
<1>6. g[0] = parentCustom /\ \A n \in 1..L : g[n] = WithCustom(g[n - 1], map[n])
      <2>1. 0 \in 0..L /\ \A n \in 1..L : n \in 0..L /\ n # 0
            OBVIOUS
      <2>2. QED BY <1>5, <2>1
<1>7. QED BY <1>1, <1>5, <1>6

LEMMA StyleRuns ==
  ASSUME NEW map, NEW custom, NEW parent, Len(map) \in Nat,
         NEW begun, begun = [p \in DOMAIN Default |-> IF p \in Inherited THEN parent[p] ELSE Default[p]]
  PROVE  \E g : /\ g[0] = begun
                /\ \A n \in 1..Len(map) : g[n] = WithLonghand(g[n - 1], map[n], custom, parent)
                /\ StyleOf(map, custom, parent) = g[Len(map)]
<1> DEFINE L == Len(map)
           Runs(g, m) == g = [n \in 0..m |-> IF n = 0 THEN begun ELSE WithLonghand(g[n - 1], map[n], custom, parent)]
           loop == CHOOSE g : Runs(g, L)
           T == {m \in Nat : \E g : Runs(g, m)}
<1>1. StyleOf(map, custom, parent) = loop[L]
      BY DEF StyleOf
<1>2. 0 \in T
      <2>1. PICK g : g = [n \in 0..0 |-> begun]
            OBVIOUS
      <2>2. Runs(g, 0)
            BY <2>1
      <2>3. QED BY <2>2
<1>3. ASSUME NEW m \in Nat, m \in T PROVE m + 1 \in T
      <2>1. PICK g : Runs(g, m)
            BY <1>3
      <2>2. PICK h : h = [n \in 0..m + 1 |-> IF n <= m THEN g[n] ELSE WithLonghand(g[m], map[n], custom, parent)]
            OBVIOUS
      <2>3. ASSUME NEW n \in 0..m + 1
            PROVE  h[n] = IF n = 0 THEN begun ELSE WithLonghand(h[n - 1], map[n], custom, parent)
            <3>1. CASE n <= m
                  <4>1. n \in 0..m /\ h[n] = g[n]
                        BY <2>2, <3>1
                  <4>2. n # 0 => n - 1 \in 0..m + 1 /\ n - 1 <= m
                        BY <3>1
                  <4>3. n # 0 => h[n - 1] = g[n - 1]
                        BY <2>2, <4>2
                  <4>4. g[n] = IF n = 0 THEN begun ELSE WithLonghand(g[n - 1], map[n], custom, parent)
                        BY <2>1, <4>1
                  <4>5. QED BY <4>1, <4>3, <4>4
            <3>2. CASE ~(n <= m)
                  <4>1. n = m + 1 /\ n # 0 /\ n - 1 = m /\ m \in 0..m + 1 /\ m <= m
                        BY <3>2
                  <4>2. h[n] = WithLonghand(g[m], map[n], custom, parent) /\ h[m] = g[m]
                        BY <2>2, <3>2, <4>1
                  <4>3. QED BY <4>1, <4>2
            <3>3. QED BY <3>1, <3>2
      <2>4. Runs(h, m + 1)
            BY <2>2, <2>3
      <2>5. QED BY <2>4
<1>4. L \in T
      <2> HIDE DEF T
      <2>1. \A n \in 0..L : n \in T
            BY <1>2, <1>3, CountsUp DEF L
      <2>2. QED BY <2>1 DEF L
<1>5. PICK g : g = loop /\ Runs(g, L)
      BY <1>4
<1> HIDE DEF loop
<1>6. g[0] = begun /\ \A n \in 1..L : g[n] = WithLonghand(g[n - 1], map[n], custom, parent)
      <2>1. 0 \in 0..L /\ \A n \in 1..L : n \in 0..L /\ n # 0
            OBVIOUS
      <2>2. QED BY <1>5, <2>1
<1>7. QED BY <1>1, <1>5, <1>6

LEMMA NodesRun ==
  ASSUME NEW maps
  PROVE  \E g : /\ g[0] = [custom |-> <<>>, style |-> Default]
                /\ \A n \in 1..Depth : g[n] = NodeOf(maps[n], g[n - 1])
                /\ Computed(maps) = [e \in Nodes |-> g[e]]
<1> DEFINE L == Depth
           Runs(g, m) == g = [n \in 0..m |-> IF n = 0 THEN [custom |-> <<>>, style |-> Default] ELSE NodeOf(maps[n], g[n - 1])]
           loop == CHOOSE g : Runs(g, L)
           T == {m \in Nat : \E g : Runs(g, m)}
<1>1. Computed(maps) = [e \in Nodes |-> loop[e]]
      BY DEF Computed
<1>2. 0 \in T
      <2>1. PICK g : g = [n \in 0..0 |-> [custom |-> <<>>, style |-> Default]]
            OBVIOUS
      <2>2. Runs(g, 0)
            BY <2>1
      <2>3. QED BY <2>2
<1>3. ASSUME NEW m \in Nat, m \in T PROVE m + 1 \in T
      <2>1. PICK g : Runs(g, m)
            BY <1>3
      <2>2. PICK h : h = [n \in 0..m + 1 |-> IF n <= m THEN g[n] ELSE NodeOf(maps[n], g[m])]
            OBVIOUS
      <2>3. ASSUME NEW n \in 0..m + 1
            PROVE  h[n] = IF n = 0 THEN [custom |-> <<>>, style |-> Default] ELSE NodeOf(maps[n], h[n - 1])
            <3>1. CASE n <= m
                  <4>1. n \in 0..m /\ h[n] = g[n]
                        BY <2>2, <3>1
                  <4>2. n # 0 => n - 1 \in 0..m + 1 /\ n - 1 <= m
                        BY <3>1
                  <4>3. n # 0 => h[n - 1] = g[n - 1]
                        BY <2>2, <4>2
                  <4>4. g[n] = IF n = 0 THEN [custom |-> <<>>, style |-> Default] ELSE NodeOf(maps[n], g[n - 1])
                        BY <2>1, <4>1
                  <4>5. QED BY <4>1, <4>3, <4>4
            <3>2. CASE ~(n <= m)
                  <4>1. n = m + 1 /\ n # 0 /\ n - 1 = m /\ m \in 0..m + 1 /\ m <= m
                        BY <3>2
                  <4>2. h[n] = NodeOf(maps[n], g[m]) /\ h[m] = g[m]
                        BY <2>2, <3>2, <4>1
                  <4>3. QED BY <4>1, <4>2
            <3>3. QED BY <3>1, <3>2
      <2>4. Runs(h, m + 1)
            BY <2>2, <2>3
      <2>5. QED BY <2>4
<1>4. L \in T
      <2> HIDE DEF T
      <2>1. \A n \in 0..L : n \in T
            BY <1>2, <1>3, CountsUp, CascadeAssumption DEF L
      <2>2. QED BY <2>1, CascadeAssumption DEF L
<1>5. PICK g : g = loop /\ Runs(g, L)
      BY <1>4
<1> HIDE DEF loop
<1>6. g[0] = [custom |-> <<>>, style |-> Default] /\ \A n \in 1..L : g[n] = NodeOf(maps[n], g[n - 1])
      <2>1. 0 \in 0..L /\ \A n \in 1..L : n \in 0..L /\ n # 0
            BY CascadeAssumption
      <2>2. QED BY <1>5, <2>1
<1>7. QED BY <1>1, <1>5, <1>6

LEMMA SizesRun ==
  /\ SizeOf[0] = 16
  /\ \A n \in 1..Depth :
       SizeOf[n] = IF Speakers(n, "fontSize") = {} THEN SizeOf[n - 1]
                   ELSE IF WinningValue(n, "fontSize").unit = "em"
                   THEN WinningValue(n, "fontSize").n * SizeOf[n - 1] ELSE WinningValue(n, "fontSize").n
<1> DEFINE L == Depth
           Larger(n, size) == IF Speakers(n, "fontSize") = {} THEN size
                              ELSE LET v == WinningValue(n, "fontSize") IN
                                   IF v.unit = "em" THEN v.n * size ELSE v.n
           Runs(g, m) == g = [n \in 0..m |-> IF n = 0 THEN 16 ELSE Larger(n, g[n - 1])]
           loop == CHOOSE g : Runs(g, L)
           T == {m \in Nat : \E g : Runs(g, m)}
<1>1. SizeOf = loop
      BY DEF SizeOf
<1> HIDE DEF Larger
<1>2. 0 \in T
      <2>1. PICK g : g = [n \in 0..0 |-> 16]
            OBVIOUS
      <2>2. Runs(g, 0)
            BY <2>1
      <2>3. QED BY <2>2
<1>3. ASSUME NEW m \in Nat, m \in T PROVE m + 1 \in T
      <2>1. PICK g : Runs(g, m)
            BY <1>3
      <2>2. PICK h : h = [n \in 0..m + 1 |-> IF n <= m THEN g[n] ELSE Larger(n, g[m])]
            OBVIOUS
      <2>3. ASSUME NEW n \in 0..m + 1
            PROVE  h[n] = IF n = 0 THEN 16 ELSE Larger(n, h[n - 1])
            <3>1. CASE n <= m
                  <4>1. n \in 0..m /\ h[n] = g[n]
                        BY <2>2, <3>1
                  <4>2. n # 0 => n - 1 \in 0..m + 1 /\ n - 1 <= m
                        BY <3>1
                  <4>3. n # 0 => h[n - 1] = g[n - 1]
                        BY <2>2, <4>2
                  <4>4. g[n] = IF n = 0 THEN 16 ELSE Larger(n, g[n - 1])
                        BY <2>1, <4>1
                  <4>5. QED BY <4>1, <4>3, <4>4
            <3>2. CASE ~(n <= m)
                  <4>1. n = m + 1 /\ n # 0 /\ n - 1 = m /\ m \in 0..m + 1 /\ m <= m
                        BY <3>2
                  <4>2. h[n] = Larger(n, g[m]) /\ h[m] = g[m]
                        BY <2>2, <3>2, <4>1
                  <4>3. QED BY <4>1, <4>2
            <3>3. QED BY <3>1, <3>2
      <2>4. Runs(h, m + 1)
            BY <2>2, <2>3
      <2>5. QED BY <2>4
<1>4. L \in T
      <2> HIDE DEF T
      <2>1. \A n \in 0..L : n \in T
            BY <1>2, <1>3, CountsUp, CascadeAssumption DEF L
      <2>2. QED BY <2>1, CascadeAssumption DEF L
<1>5. PICK g : g = loop /\ Runs(g, L)
      BY <1>4
<1> HIDE DEF loop
<1>6. g[0] = 16 /\ \A n \in 1..L : g[n] = Larger(n, g[n - 1])
      <2>1. 0 \in 0..L /\ \A n \in 1..L : n \in 0..L /\ n # 0
            BY CascadeAssumption
      <2>2. QED BY <1>5, <2>1
<1>7. QED BY <1>1, <1>5, <1>6 DEF Larger

-----------------------------------------------------------------------------
\* What can be said, and what becomes of it: longhands of the page's subject,
\* each once, with what the declaration means for it.
Spoken(s) == Texts(s) \cup (IF s = "colours" THEN {Says("color", Var("--x"))} ELSE {})
Expands(pairs, d, s) ==
  /\ Len(pairs) \in 1..4 /\ DOMAIN pairs = 1..Len(pairs)
  /\ \A k, l \in DOMAIN pairs : pairs[k][1] = pairs[l][1] => k = l
  /\ \A k \in DOMAIN pairs :
       /\ pairs[k][1] \in LonghandsOf(s)
       /\ Names(d, pairs[k][1]) = pairs[k][2] /\ pairs[k][2] # None
  /\ \A p : Names(d, p) # None => \E k \in DOMAIN pairs : pairs[k][1] = p

LEMMA PlainFits ==
  ASSUME NEW s, NEW d, d.prop \notin {"border", "padding"}, Camel(d.prop) \in LonghandsOf(s), d.values[1] # None
  PROVE  Expands(Expanded(d.prop, d.values), d, s)
<1>1. PICK q : q = Expanded(d.prop, d.values)
      OBVIOUS
<1>2. PICK spoken : spoken = <<Camel(d.prop), d.values[1]>>
      OBVIOUS
<1>3. q = <<spoken>>
      BY <1>1, <1>2 DEF Expanded
<1>4. Len(q) = 1 /\ DOMAIN q = 1..1 /\ q[1] = spoken /\ spoken[1] = Camel(d.prop) /\ spoken[2] = d.values[1]
      BY <1>2, <1>3
<1>5. \A p : Names(d, p) = IF Camel(d.prop) = p THEN d.values[1] ELSE None
      BY DEF Names
<1>6. \A k \in DOMAIN q : k = 1
      BY <1>4
<1>7. 1 \in DOMAIN q
      BY <1>4
<1>8. QED BY <1>1, <1>4, <1>5, <1>6, <1>7 DEF Expands

LEMMA BorderFits ==
  ASSUME NEW d, d.prop = "border", d.values[1] # None
  PROVE  Expands(Expanded(d.prop, d.values), d, "boxes")
<1>1. PICK q : q = Expanded(d.prop, d.values)
      OBVIOUS
<1>2. PICK a : a = <<"borderWidth", d.values[1]>>
      OBVIOUS
<1>3. PICK b : b = <<"borderColor", d.values[2]>>
      OBVIOUS
<1>4. a[1] = "borderWidth" /\ a[2] = d.values[1] /\ b[1] = "borderColor" /\ b[2] = d.values[2]
      BY <1>2, <1>3
<1>5. \A p : Names(d, p) = IF p = "borderWidth" THEN d.values[1]
                           ELSE IF p = "borderColor" THEN d.values[2] ELSE None
      BY DEF Names
<1>6. {"borderWidth", "borderColor"} \subseteq LonghandsOf("boxes")
      BY DEF LonghandsOf
<1>7. CASE d.values[2] = None
      <2>1. q = <<a>>
            BY <1>1, <1>2, <1>7 DEF Expanded
      <2>2. Len(q) = 1 /\ DOMAIN q = 1..1 /\ q[1] = a
            BY <2>1
      <2>3. \A k \in DOMAIN q : k = 1
            BY <2>2
      <2>4. 1 \in DOMAIN q
            BY <2>2
      <2>5. QED BY <1>1, <1>4, <1>5, <1>6, <1>7, <2>2, <2>3, <2>4 DEF Expands
<1>8. CASE d.values[2] # None
      <2>1. q = <<a, b>>
            BY <1>1, <1>2, <1>3, <1>8 DEF Expanded
      <2>2. Len(q) = 2 /\ DOMAIN q = 1..2 /\ q[1] = a /\ q[2] = b
            BY <2>1
      <2>3. \A k \in DOMAIN q : k = 1 \/ k = 2
            BY <2>2
      <2>4. 1 \in DOMAIN q /\ 2 \in DOMAIN q
            BY <2>2
      <2>5. QED BY <1>1, <1>4, <1>5, <1>6, <1>8, <2>2, <2>3, <2>4 DEF Expands
<1>9. QED BY <1>7, <1>8

LEMMA PaddingFits ==
  ASSUME NEW d, d.prop = "padding", NEW a, NEW b, NEW c, d.values = <<a, b, c>>,
         a # None, b # None, c # None
  PROVE  Expands(Expanded(d.prop, d.values), d, "boxes")
<1>1. PICK q : q = Expanded(d.prop, d.values)
      OBVIOUS
<1>2. Len(d.values) = 3 /\ d.values[1] = a /\ d.values[2] = b /\ d.values[3] = c
      OBVIOUS
<1>3. BoxValues(d.values) = <<a, b, c, b>>
      BY <1>2 DEF BoxValues
<1>4. q = [i \in 1..4 |-> <<Sides[i], <<a, b, c, b>>[i]>>]
      BY <1>1, <1>3 DEF Expanded
<1>5. \A i \in 1..4 : i = 1 \/ i = 2 \/ i = 3 \/ i = 4
      OBVIOUS
<1>6. 1 \in 1..4 /\ 2 \in 1..4 /\ 3 \in 1..4 /\ 4 \in 1..4
      OBVIOUS
<1>7. /\ Sides[1] = "paddingTop" /\ Sides[2] = "paddingRight" /\ Sides[3] = "paddingBottom"
      /\ Sides[4] = "paddingLeft" /\ DOMAIN Sides = 1..4
      BY DEF Sides
<1>8. /\ q[1] = <<"paddingTop", a>> /\ q[2] = <<"paddingRight", b>>
      /\ q[3] = <<"paddingBottom", c>> /\ q[4] = <<"paddingLeft", b>>
      BY <1>4, <1>6, <1>7
<1>9. Len(q) = 4 /\ DOMAIN q = 1..4
      BY <1>4
<1>10. Range(Sides) = {"paddingTop", "paddingRight", "paddingBottom", "paddingLeft"}
       <2>1. Range(Sides) = {Sides[i] : i \in 1..4}
             BY <1>7 DEF Range
       <2>2. QED BY <1>5, <1>6, <1>7, <2>1
<1>11. \A i \in 1..4 : (CHOOSE k \in 1..4 : Sides[k] = Sides[i]) = i
       <2>1. \A i, k \in 1..4 : Sides[k] = Sides[i] => k = i
             BY <1>5, <1>7
       <2>2. ASSUME NEW i \in 1..4 PROVE (CHOOSE k \in 1..4 : Sides[k] = Sides[i]) = i
             <3>1. \E k \in 1..4 : Sides[k] = Sides[i]
                   OBVIOUS
             <3>2. QED BY <2>1, <3>1
       <2>3. QED BY <2>2
<1>12. ASSUME NEW i \in 1..4, NEW p, p = Sides[i]
       PROVE  Names(d, p) = d.values[IF i <= 3 THEN i ELSE IF i = 4 THEN 2 ELSE 1]
       <2>1. PICK n : n = (CHOOSE k \in 1..4 : Sides[k] = p) /\ n = i
             BY <1>11, <1>12
       <2>2. p \in Range(Sides)
             BY <1>7, <1>12 DEF Range
       <2>3. Names(d, p) = d.values[IF n <= Len(d.values) THEN n ELSE IF n = 4 /\ Len(d.values) > 1 THEN 2 ELSE 1]
             BY <2>1, <2>2 DEF Names
       <2>4. QED BY <1>2, <2>1, <2>3
<1>13. /\ Names(d, "paddingTop") = a /\ Names(d, "paddingRight") = b
       /\ Names(d, "paddingBottom") = c /\ Names(d, "paddingLeft") = b
       BY <1>2, <1>6, <1>7, <1>12
<1>14. ASSUME NEW p, Names(d, p) # None
       PROVE  p \in {"paddingTop", "paddingRight", "paddingBottom", "paddingLeft"}
       BY <1>10, <1>14 DEF Names
<1>15. Range(Sides) \subseteq LonghandsOf("boxes")
       BY DEF LonghandsOf
<1>16. /\ q[1][1] = "paddingTop" /\ q[2][1] = "paddingRight" /\ q[3][1] = "paddingBottom"
       /\ q[4][1] = "paddingLeft" /\ q[1][2] = a /\ q[2][2] = b /\ q[3][2] = c /\ q[4][2] = b
       BY <1>8
<1>17. \A k, l \in 1..4 : q[k][1] = q[l][1] => k = l
       BY <1>5, <1>16
<1>18. \A k \in 1..4 : q[k][1] \in LonghandsOf("boxes") /\ Names(d, q[k][1]) = q[k][2] /\ q[k][2] # None
       BY <1>5, <1>10, <1>13, <1>15, <1>16
<1>19. \A p : Names(d, p) # None => \E k \in 1..4 : q[k][1] = p
       BY <1>6, <1>14, <1>16
<1>20. QED BY <1>1, <1>9, <1>17, <1>18, <1>19 DEF Expands

LEMMA TextsFit ==
  ASSUME NEW s \in Subjects, NEW d, NEW t \in Spoken(s), d.prop = t.prop, d.values = t.values
  PROVE  Expands(Expanded(d.prop, d.values), d, s)
<1> USE DEF Spoken, Texts, Says, Px, Em, Tint, Var, Inherit, None
<1>1. CASE s = "sizes"
      <2>1. /\ d.prop \in {"font-size", "letter-spacing"}
            /\ d.values \in {<<Em(2)>>, <<Px(20)>>, <<Em(1)>>, <<Inherit>>}
            BY <1>1
      <2>2. d.values[1] # None
            BY <2>1
      <2>3. Camel(d.prop) \in LonghandsOf(s) /\ d.prop \notin {"border", "padding"}
            BY <1>1, <2>1 DEF Camel, LonghandsOf
      <2>4. QED BY <2>2, <2>3, PlainFits
<1>2. CASE s = "colours"
      <2>1. /\ d.prop \in {"color", "--x", "--y"}
            /\ d.values \in {<<Tint(1)>>, <<Tint(2)>>, <<Var("--y")>>, <<Tint(3)>>, <<Tint(4)>>, <<Var("--x")>>}
            BY <1>2
      <2>2. d.values[1] # None
            BY <2>1
      <2>3. Camel(d.prop) \in LonghandsOf(s) /\ d.prop \notin {"border", "padding"}
            BY <1>2, <2>1 DEF Camel, LonghandsOf, Custom
      <2>4. QED BY <2>2, <2>3, PlainFits
<1>3. CASE s = "boxes"
      <2>1. \/ d.prop = "border" /\ d.values \in {<<Px(1), Tint(1)>>, <<Px(2), None>>}
            \/ d.prop = "padding-left" /\ d.values = <<Px(9)>>
            \/ d.prop = "padding" /\ d.values = <<Px(1), Px(2), Px(3)>>
            BY <1>3
      <2>2. CASE d.prop = "border" /\ d.values \in {<<Px(1), Tint(1)>>, <<Px(2), None>>}
            <3>1. d.values[1] # None
                  BY <2>2
            <3>2. QED BY <1>3, <2>2, <3>1, BorderFits
      <2>3. CASE d.prop = "padding-left" /\ d.values = <<Px(9)>>
            <3>1. d.values[1] # None
                  BY <2>3
            <3>2. "paddingLeft" \in Range(Sides)
                  BY DEF Range, Sides
            <3>3. Camel(d.prop) \in LonghandsOf(s) /\ d.prop \notin {"border", "padding"}
                  BY <1>3, <2>3, <3>2 DEF Camel, LonghandsOf
            <3>4. QED BY <3>1, <3>3, PlainFits
      <2>4. CASE d.prop = "padding" /\ d.values = <<Px(1), Px(2), Px(3)>>
            <3>1. Px(1) # None /\ Px(2) # None /\ Px(3) # None
                  OBVIOUS
            <3>2. QED BY <1>3, <2>4, <3>1, PaddingFits
      <2>5. QED BY <2>1, <2>2, <2>3, <2>4
<1>4. QED BY <1>1, <1>2, <1>3 DEF Subjects

-----------------------------------------------------------------------------
\* What a declaration leaves of a map: a longhand keeps its place, and its
\* entry unless the new one takes it; the others follow.
Sound(map) ==
  /\ map \in Seq(ToSet(map))
  /\ \A i, j \in DOMAIN map : map[i].prop = map[j].prop => i = j
Lacks(map, p) == \A i \in DOMAIN map : map[i].prop # p
Merged(m, map, d, pairs, n) ==
  /\ Sound(m) /\ Len(map) <= Len(m) /\ Len(m) <= Len(map) + n
  /\ \A i \in DOMAIN map : m[i].prop = map[i].prop
  /\ \A i \in DOMAIN map :
       \/ m[i] = map[i] /\ \A k \in 1..n : pairs[k][1] # map[i].prop
       \/ \E k \in 1..n : pairs[k][1] = map[i].prop
            /\ m[i] = IF TakesPlace(map[i], Entry(d, pairs[k])) THEN Entry(d, pairs[k]) ELSE map[i]
  /\ \A i \in DOMAIN m \ DOMAIN map : \E k \in 1..n : Lacks(map, pairs[k][1]) /\ m[i] = Entry(d, pairs[k])
  /\ \A k \in 1..n : ~Lacks(m, pairs[k][1])

LEMMA OfferedMerges ==
  ASSUME NEW map, Sound(map), NEW d, NEW pairs, Len(pairs) \in Nat,
         \A k, l \in 1..Len(pairs) : pairs[k][1] = pairs[l][1] => k = l,
         NEW n \in Nat, n < Len(pairs), NEW m, Merged(m, map, d, pairs, n),
         NEW e, e = Entry(d, pairs[n + 1]), NEW r, r = Offered(m, e)
  PROVE  Merged(r, map, d, pairs, n + 1)
<1>1. /\ Len(map) \in Nat /\ DOMAIN map = 1..Len(map) /\ Len(m) \in Nat /\ DOMAIN m = 1..Len(m)
      /\ m \in Seq(ToSet(m)) /\ Len(map) <= Len(m) /\ Len(m) <= Len(map) + n
      /\ \A i, j \in DOMAIN m : m[i].prop = m[j].prop => i = j
      BY DEF Merged, Sound
<1>2. e.prop = pairs[n + 1][1]
      BY DEF Entry
<1>3. /\ n + 1 \in 1..Len(pairs) /\ n + 1 \in 1..n + 1 /\ 1..n \subseteq 1..n + 1 /\ 1..n \subseteq 1..Len(pairs)
      /\ \A k \in 1..n + 1 : k \in 1..n \/ k = n + 1
      OBVIOUS
<1>4. \A k \in 1..n : pairs[k][1] # pairs[n + 1][1]
      BY <1>3
<1>5. /\ \A i \in DOMAIN map : m[i].prop = map[i].prop
      /\ \A i \in DOMAIN map : i \in DOMAIN m
      BY <1>1 DEF Merged
<1>6. CASE Lacks(m, e.prop)
      <2>1. r = Append(m, e)
            BY <1>6 DEF Offered, Lacks
      <2>2. PICK X : X = ToSet(m) \cup {e}
            OBVIOUS
      <2>3. m \in Seq(X) /\ e \in X
            BY <1>1, <2>2
      <2>4. /\ r \in Seq(X) /\ Len(r) = Len(m) + 1 /\ DOMAIN r = 1..Len(m) + 1
            /\ r[Len(m) + 1] = e /\ \A i \in 1..Len(m) : r[i] = m[i]
            BY <1>1, <2>1, <2>3
      <2>5. r \in Seq(ToSet(r))
            <3>1. r \in [1..Len(r) -> ToSet(r)]
                  BY <2>4 DEF ToSet
            <3>2. QED BY <1>1, <2>4, <3>1
      <2>6. \A i \in DOMAIN r : (i \in DOMAIN m /\ r[i] = m[i]) \/ (i = Len(m) + 1 /\ r[i] = e /\ i \notin DOMAIN m)
            BY <1>1, <2>4
      <2>7. Sound(r)
            <3>1. ASSUME NEW i \in DOMAIN r, NEW j \in DOMAIN r, r[i].prop = r[j].prop PROVE i = j
                  BY <1>1, <1>6, <2>6, <3>1 DEF Lacks
            <3>2. QED BY <2>5, <3>1 DEF Sound
      <2>8. Lacks(map, e.prop)
            BY <1>5, <1>6 DEF Lacks
      <2>9. \A i \in DOMAIN map : r[i] = m[i]
            BY <1>1, <2>4
      <2>10. ASSUME NEW i \in DOMAIN map
             PROVE  \/ r[i] = map[i] /\ \A k \in 1..n + 1 : pairs[k][1] # map[i].prop
                    \/ \E k \in 1..n + 1 : pairs[k][1] = map[i].prop
                         /\ r[i] = IF TakesPlace(map[i], Entry(d, pairs[k])) THEN Entry(d, pairs[k]) ELSE map[i]
             <3>1. pairs[n + 1][1] # map[i].prop
                   BY <1>2, <2>8 DEF Lacks
             <3>2. CASE m[i] = map[i] /\ \A k \in 1..n : pairs[k][1] # map[i].prop
                   BY <1>3, <2>9, <3>1, <3>2
             <3>3. CASE \E k \in 1..n : pairs[k][1] = map[i].prop
                         /\ m[i] = IF TakesPlace(map[i], Entry(d, pairs[k])) THEN Entry(d, pairs[k]) ELSE map[i]
                   BY <1>3, <2>9, <3>3
             <3>4. QED BY <3>2, <3>3 DEF Merged
      <2>11. ASSUME NEW i \in DOMAIN r \ DOMAIN map
             PROVE  \E k \in 1..n + 1 : Lacks(map, pairs[k][1]) /\ r[i] = Entry(d, pairs[k])
             <3>1. CASE i \in DOMAIN m /\ r[i] = m[i]
                   BY <1>3, <3>1, <2>11 DEF Merged
             <3>2. CASE r[i] = e
                   BY <1>2, <1>3, <2>8, <3>2
             <3>3. QED BY <2>6, <3>1, <3>2
      <2>12. ASSUME NEW k \in 1..n + 1 PROVE ~Lacks(r, pairs[k][1])
             <3>1. CASE k = n + 1
                   <4>1. Len(m) + 1 \in DOMAIN r
                         BY <1>1, <2>4
                   <4>2. QED BY <1>2, <2>4, <3>1, <4>1 DEF Lacks
             <3>2. CASE k \in 1..n
                   <4>1. PICK i \in DOMAIN m : m[i].prop = pairs[k][1]
                         BY <3>2 DEF Merged, Lacks
                   <4>2. i \in DOMAIN r /\ r[i] = m[i]
                         BY <1>1, <2>4, <4>1
                   <4>3. QED BY <4>1, <4>2 DEF Lacks
             <3>3. QED BY <1>3, <3>1, <3>2
      <2>13. Len(map) <= Len(r) /\ Len(r) <= Len(map) + (n + 1)
             BY <1>1, <2>4
      <2>14. \A i \in DOMAIN map : r[i].prop = map[i].prop
             BY <1>5, <2>9
      <2>15. QED BY <2>7, <2>10, <2>11, <2>12, <2>13, <2>14 DEF Merged
<1>7. CASE ~Lacks(m, e.prop)
      <2>1. r = [i \in DOMAIN m |-> IF m[i].prop = e.prop /\ TakesPlace(m[i], e) THEN e ELSE m[i]]
            BY <1>7 DEF Offered, Lacks
      <2>2. DOMAIN r = 1..Len(m) /\ \A i \in DOMAIN m : r[i].prop = m[i].prop
            BY <1>1, <2>1
      <2>3. r \in Seq(ToSet(r)) /\ Len(r) = Len(m)
            <3>1. r \in [1..Len(m) -> ToSet(r)]
                  BY <2>1, <2>2 DEF ToSet
            <3>2. QED BY <1>1, <3>1
      <2>4. Sound(r)
            BY <1>1, <2>2, <2>3 DEF Sound
      <2>5. ASSUME NEW i \in DOMAIN m, m[i].prop # e.prop PROVE r[i] = m[i]
            BY <2>1, <2>5
      <2>6. ASSUME NEW i \in DOMAIN map
             PROVE  \/ r[i] = map[i] /\ \A k \in 1..n + 1 : pairs[k][1] # map[i].prop
                    \/ \E k \in 1..n + 1 : pairs[k][1] = map[i].prop
                         /\ r[i] = IF TakesPlace(map[i], Entry(d, pairs[k])) THEN Entry(d, pairs[k]) ELSE map[i]
             <3>0. i \in DOMAIN m /\ m[i].prop = map[i].prop
                   BY <1>5
             <3>1. CASE m[i] = map[i] /\ \A k \in 1..n : pairs[k][1] # map[i].prop
                   <4>1. CASE map[i].prop = e.prop
                         <5>1. r[i] = IF TakesPlace(map[i], e) THEN e ELSE map[i]
                               BY <2>1, <3>0, <3>1, <4>1
                         <5>2. QED BY <1>2, <1>3, <4>1, <5>1
                   <4>2. CASE map[i].prop # e.prop
                         BY <1>2, <1>3, <2>5, <3>0, <3>1, <4>2
                   <4>3. QED BY <4>1, <4>2
             <3>2. CASE \E k \in 1..n : pairs[k][1] = map[i].prop
                         /\ m[i] = IF TakesPlace(map[i], Entry(d, pairs[k])) THEN Entry(d, pairs[k]) ELSE map[i]
                   <4>1. map[i].prop # e.prop
                         BY <1>2, <1>4, <3>2
                   <4>2. r[i] = m[i]
                         BY <2>5, <3>0, <4>1
                   <4>3. QED BY <1>3, <3>2, <4>2
             <3>3. QED BY <3>1, <3>2 DEF Merged
      <2>7. ASSUME NEW i \in DOMAIN r \ DOMAIN map
             PROVE  \E k \in 1..n + 1 : Lacks(map, pairs[k][1]) /\ r[i] = Entry(d, pairs[k])
             <3>1. PICK k \in 1..n : Lacks(map, pairs[k][1]) /\ m[i] = Entry(d, pairs[k])
                   BY <1>1, <2>2 DEF Merged
             <3>2. m[i].prop # e.prop
                   BY <1>2, <1>4, <3>1 DEF Entry
             <3>3. r[i] = m[i]
                   BY <1>1, <2>2, <2>5, <3>2
             <3>4. QED BY <1>3, <3>1, <3>3
      <2>8. ASSUME NEW k \in 1..n + 1 PROVE ~Lacks(r, pairs[k][1])
             <3>1. ~Lacks(m, pairs[k][1])
                   BY <1>2, <1>3, <1>7 DEF Merged
             <3>2. QED BY <1>1, <2>2, <3>1 DEF Lacks
      <2>9. Len(map) <= Len(r) /\ Len(r) <= Len(map) + (n + 1)
             BY <1>1, <2>3
      <2>10. \A i \in DOMAIN map : r[i].prop = map[i].prop
             BY <1>5, <2>2
      <2>11. QED BY <2>4, <2>6, <2>7, <2>8, <2>9, <2>10 DEF Merged
<1>8. QED BY <1>6, <1>7

LEMMA AppliedMerges ==
  ASSUME NEW map, Sound(map), NEW d, NEW s, Expands(Expanded(d.prop, d.values), d, s)
  PROVE  Merged(Applied(map, d), map, d, Expanded(d.prop, d.values), Len(Expanded(d.prop, d.values)))
<1>1. PICK pairs : pairs = Expanded(d.prop, d.values)
      OBVIOUS
<1>2. /\ Len(pairs) \in Nat
      /\ \A k, l \in 1..Len(pairs) : pairs[k][1] = pairs[l][1] => k = l
      BY <1>1 DEF Expands
<1>3. PICK g : /\ g[0] = map
               /\ \A n \in 1..Len(pairs) : g[n] = Offered(g[n - 1], Entry(d, pairs[n]))
               /\ Applied(map, d) = g[Len(pairs)]
      BY <1>1, <1>2, AppliedRuns
<1>4. PICK T : T = {n \in Nat : n <= Len(pairs) => Merged(g[n], map, d, pairs, n)}
      OBVIOUS
<1>5. 0 \in T
      <2>1. Merged(map, map, d, pairs, 0)
            <3>1. Len(map) \in Nat
                  BY DEF Sound
            <3>2. QED BY <3>1 DEF Merged
      <2>2. QED BY <1>3, <1>4, <2>1
<1>6. ASSUME NEW n \in Nat, n < Len(pairs), n \in T PROVE n + 1 \in T
      <2>1. Merged(g[n], map, d, pairs, n)
            BY <1>2, <1>4, <1>6
      <2>2. n + 1 \in 1..Len(pairs) /\ n + 1 - 1 = n
            BY <1>2, <1>6
      <2>3. g[n + 1] = Offered(g[n], Entry(d, pairs[n + 1]))
            BY <1>3, <2>2
      <2>4. Merged(g[n + 1], map, d, pairs, n + 1)
            BY <1>2, <1>6, <2>1, <2>3, OfferedMerges
      <2>5. QED BY <1>4, <2>4
<1>7. Len(pairs) \in T
      <2>1. \A n \in 0..Len(pairs) : n \in T
            BY <1>2, <1>5, <1>6, CountsUp
      <2>2. QED BY <1>2, <2>1
<1>8. QED BY <1>1, <1>2, <1>3, <1>4, <1>7

-----------------------------------------------------------------------------
\* The cascade so far: each longhand that something said about an element is in
\* its map, once, with what the strongest of it says.
Declaration(d, s) ==
  /\ d.important \in BOOLEAN /\ d.inline \in BOOLEAN /\ d.specificity \in 1..2
  /\ d.order \in Nat /\ d.on \subseteq Nodes
  /\ \E t \in Spoken(s) : d.prop = t.prop /\ d.values = t.values
SpeakersOf(said, e, p) == {i \in DOMAIN said : e \in said[i].on /\ Names(said[i], p) # None}
WeightOf(d) == (IF d.important THEN 6 ELSE 0) + (IF d.inline THEN 3 ELSE 0) + d.specificity
Wins(said, e, p, k) ==
  /\ k \in SpeakersOf(said, e, p)
  /\ \A j \in SpeakersOf(said, e, p) :
       \/ WeightOf(said[j]) < WeightOf(said[k])
       \/ WeightOf(said[j]) = WeightOf(said[k]) /\ j <= k
Holds(entry, said, e) ==
  \E k : /\ Wins(said, e, entry.prop, k)
         /\ entry = Entry(said[k], <<entry.prop, Names(said[k], entry.prop)>>)
Cascaded(map, said, e, s) ==
  /\ Sound(map) /\ Len(map) <= 4 * Len(said)
  /\ \A i \in DOMAIN map : map[i].prop \in LonghandsOf(s) /\ Holds(map[i], said, e)
  /\ \A p : SpeakersOf(said, e, p) # {} => ~Lacks(map, p)

\* The order of the weights is that of compareStaticPriority, for what comes
\* later in the page.
LEMMA LaterTakes ==
  ASSUME NEW a, NEW b, a.important \in BOOLEAN, a.inline \in BOOLEAN, a.specificity \in 1..2,
         b.important \in BOOLEAN, b.inline \in BOOLEAN, b.specificity \in 1..2,
         a.order \in Nat, b.order \in Nat, a.order <= b.order
  PROVE  /\ TakesPlace(a, b) <=> WeightOf(a) <= WeightOf(b)
         /\ WeightOf(a) \in Nat /\ WeightOf(b) \in Nat
<1>1. WeightOf(a) \in Nat /\ WeightOf(b) \in Nat
      BY DEF WeightOf
<1>2. /\ a.important = TRUE \/ a.important = FALSE
      /\ b.important = TRUE \/ b.important = FALSE
      /\ a.inline = TRUE \/ a.inline = FALSE
      /\ b.inline = TRUE \/ b.inline = FALSE
      OBVIOUS
<1>3. CASE a.important = TRUE /\ b.important = FALSE
      <2>1. ~TakesPlace(a, b)
            BY <1>3 DEF TakesPlace
      <2>2. WeightOf(a) >= 7 /\ WeightOf(b) <= 5
            BY <1>3 DEF WeightOf
      <2>3. QED BY <1>1, <2>1, <2>2
<1>4. CASE a.important = FALSE /\ b.important = TRUE
      <2>1. TakesPlace(a, b)
            BY <1>4 DEF TakesPlace
      <2>2. WeightOf(b) >= 7 /\ WeightOf(a) <= 5
            BY <1>4 DEF WeightOf
      <2>3. QED BY <1>1, <2>1, <2>2
<1>5. CASE a.important = b.important /\ a.inline = TRUE /\ b.inline = FALSE
      <2>1. ~TakesPlace(a, b)
            BY <1>5 DEF TakesPlace
      <2>2. WeightOf(a) > WeightOf(b)
            BY <1>5 DEF WeightOf
      <2>3. QED BY <1>1, <2>1, <2>2
<1>6. CASE a.important = b.important /\ a.inline = FALSE /\ b.inline = TRUE
      <2>1. TakesPlace(a, b)
            BY <1>6 DEF TakesPlace
      <2>2. WeightOf(a) < WeightOf(b)
            BY <1>6 DEF WeightOf
      <2>3. QED BY <1>1, <2>1, <2>2
<1>7. CASE a.important = b.important /\ a.inline = b.inline
      <2>1. TakesPlace(a, b) <=> a.specificity <= b.specificity
            BY <1>7 DEF TakesPlace
      <2>2. WeightOf(a) <= WeightOf(b) <=> a.specificity <= b.specificity
            BY <1>7 DEF WeightOf
      <2>3. QED BY <1>1, <2>1, <2>2
<1>8. QED BY <1>2, <1>3, <1>4, <1>5, <1>6, <1>7

LEMMA CascadeGrows ==
  ASSUME NEW s \in Subjects, NEW said, said \in Seq(ToSet(said)),
         \A i \in DOMAIN said : Declaration(said[i], s),
         NEW d, Declaration(d, s), \A i \in DOMAIN said : said[i].order <= d.order,
         NEW e, NEW map, Cascaded(map, said, e, s),
         NEW t, t = Append(said, d), NEW r, r = IF e \in d.on THEN Applied(map, d) ELSE map
  PROVE  Cascaded(r, t, e, s)
<1> DEFINE n == Len(said)
<1>1. /\ n \in Nat /\ DOMAIN said = 1..n
      /\ Len(t) = n + 1 /\ DOMAIN t = 1..n + 1 /\ t[n + 1] = d
      /\ \A i \in 1..n : t[i] = said[i]
      <2>1. PICK X : X = ToSet(said) \cup {d}
            OBVIOUS
      <2>2. said \in Seq(X) /\ d \in X
            BY <2>1
      <2>3. QED BY <2>2
<1>2. \A p : /\ SpeakersOf(said, e, p) \subseteq 1..n
             /\ e \in d.on /\ Names(d, p) # None => SpeakersOf(t, e, p) = SpeakersOf(said, e, p) \cup {n + 1}
             /\ ~(e \in d.on /\ Names(d, p) # None) => SpeakersOf(t, e, p) = SpeakersOf(said, e, p)
      BY <1>1 DEF SpeakersOf
<1> HIDE DEF n
<1>3. /\ Sound(map) /\ Len(map) <= 4 * n /\ Len(map) \in Nat
      /\ \A i \in DOMAIN map : map[i].prop \in LonghandsOf(s) /\ Holds(map[i], said, e)
      /\ \A p : SpeakersOf(said, e, p) # {} => ~Lacks(map, p)
      BY DEF Cascaded, Sound, n
<1>4. ASSUME NEW p, ~(e \in d.on /\ Names(d, p) # None), NEW entry, entry.prop = p, Holds(entry, said, e)
      PROVE  Holds(entry, t, e)
      <2>1. PICK k : Wins(said, e, p, k) /\ entry = Entry(said[k], <<p, Names(said[k], p)>>)
            BY <1>4 DEF Holds
      <2>2. SpeakersOf(t, e, p) = SpeakersOf(said, e, p) /\ \A j \in SpeakersOf(said, e, p) : t[j] = said[j]
            BY <1>1, <1>2, <1>4
      <2>3. Wins(t, e, p, k) /\ t[k] = said[k]
            BY <2>1, <2>2 DEF Wins
      <2>4. QED BY <1>4, <2>1, <2>3 DEF Holds
<1>5. CASE e \notin d.on
      <2>1. r = map
            BY <1>5
      <2>2. \A i \in DOMAIN r : r[i].prop \in LonghandsOf(s) /\ Holds(r[i], t, e)
            BY <1>3, <1>4, <1>5, <2>1
      <2>3. \A p : SpeakersOf(t, e, p) # {} => ~Lacks(r, p)
            BY <1>2, <1>3, <1>5, <2>1
      <2>4. Len(r) <= 4 * Len(t)
            BY <1>1, <1>3, <2>1
      <2>5. QED BY <1>3, <2>1, <2>2, <2>3, <2>4 DEF Cascaded
<1>6. CASE e \in d.on
      <2>1. PICK pairs : pairs = Expanded(d.prop, d.values)
            OBVIOUS
      <2>2. Expands(pairs, d, s)
            BY <2>1, TextsFit DEF Declaration
      <2>3. r = Applied(map, d)
            BY <1>6
      <2>4. PICK m \in Nat : m = Len(pairs) /\ m <= 4 /\ DOMAIN pairs = 1..m
            <3>1. Len(pairs) \in 1..4 /\ DOMAIN pairs = 1..Len(pairs)
                  BY <2>2 DEF Expands
            <3>2. Len(pairs) \in Nat /\ Len(pairs) <= 4
                  BY <3>1
            <3>3. QED BY <3>1, <3>2
      <2>5. Merged(r, map, d, pairs, m)
            BY <1>3, <2>1, <2>2, <2>3, <2>4, AppliedMerges
      <2>6. ASSUME NEW k \in 1..m, NEW p, p = pairs[k][1]
            PROVE  /\ p \in LonghandsOf(s) /\ Names(d, p) # None
                   /\ Entry(d, pairs[k]) = Entry(d, <<p, Names(d, p)>>)
                   /\ Entry(d, pairs[k]).prop = p
                   /\ SpeakersOf(t, e, p) = SpeakersOf(said, e, p) \cup {n + 1}
            <3>1. p \in LonghandsOf(s) /\ Names(d, p) # None /\ Names(d, p) = pairs[k][2]
                  BY <2>2, <2>4, <2>6 DEF Expands
            <3>2. Entry(d, pairs[k]) = Entry(d, <<p, Names(d, p)>>) /\ Entry(d, pairs[k]).prop = p
                  BY <2>6, <3>1 DEF Entry
            <3>3. QED BY <1>2, <1>6, <3>1, <3>2
      <2>7. ASSUME NEW i \in DOMAIN map
            PROVE  r[i].prop \in LonghandsOf(s) /\ Holds(r[i], t, e)
            <3>1. PICK p : p = map[i].prop /\ r[i].prop = p /\ p \in LonghandsOf(s)
                  BY <1>3, <2>5 DEF Merged
            <3>2. Holds(map[i], said, e)
                  BY <1>3
            <3>3. CASE r[i] = map[i] /\ \A k \in 1..m : pairs[k][1] # p
                  <4>1. Names(d, p) = None
                        BY <2>2, <2>4, <3>3 DEF Expands
                  <4>2. QED BY <1>4, <3>1, <3>2, <3>3, <4>1
            <3>4. CASE \E k \in 1..m : pairs[k][1] = p
                         /\ r[i] = IF TakesPlace(map[i], Entry(d, pairs[k])) THEN Entry(d, pairs[k]) ELSE map[i]
                  <4>1. PICK k \in 1..m : pairs[k][1] = p
                          /\ r[i] = IF TakesPlace(map[i], Entry(d, pairs[k])) THEN Entry(d, pairs[k]) ELSE map[i]
                        BY <3>4
                  <4>2. PICK w : Wins(said, e, p, w) /\ map[i] = Entry(said[w], <<p, Names(said[w], p)>>)
                        BY <3>1, <3>2 DEF Holds
                  <4>3. w \in SpeakersOf(said, e, p) /\ w \in 1..n
                        BY <1>2, <4>2 DEF Wins
                  <4>4. PICK a : a = map[i] /\ a.important = said[w].important /\ a.inline = said[w].inline
                                 /\ a.specificity = said[w].specificity /\ a.order = said[w].order
                        BY <4>2 DEF Entry
                  <4>5. PICK b : b = Entry(d, pairs[k]) /\ b.important = d.important /\ b.inline = d.inline
                                 /\ b.specificity = d.specificity /\ b.order = d.order
                        <5>1. PICK b : b = Entry(d, pairs[k])
                              OBVIOUS
                        <5>2. /\ b.important = d.important /\ b.inline = d.inline
                              /\ b.specificity = d.specificity /\ b.order = d.order
                              BY <5>1 DEF Entry
                        <5>3. QED BY <5>1, <5>2
                  <4>6. TakesPlace(a, b) <=> WeightOf(said[w]) <= WeightOf(d)
                        <5>1. Declaration(said[w], s) /\ said[w].order <= d.order
                              BY <1>1, <4>3
                        <5>2. TakesPlace(a, b) <=> WeightOf(a) <= WeightOf(b)
                              BY <4>4, <4>5, <5>1, LaterTakes DEF Declaration
                        <5>3. WeightOf(a) = WeightOf(said[w]) /\ WeightOf(b) = WeightOf(d)
                              BY <4>4, <4>5 DEF WeightOf
                        <5>4. QED BY <5>2, <5>3
                  <4>7. /\ \A j \in SpeakersOf(said, e, p) : t[j] = said[j] /\ j \in 1..n /\ WeightOf(t[j]) \in Nat
                        /\ t[n + 1] = d /\ WeightOf(d) \in Nat
                        <5>1. ASSUME NEW c, Declaration(c, s) PROVE WeightOf(c) \in Nat
                              BY <5>1 DEF Declaration, WeightOf
                        <5>2. QED BY <1>1, <1>2, <5>1
                  <4>8. SpeakersOf(t, e, p) = SpeakersOf(said, e, p) \cup {n + 1}
                        BY <2>6, <4>1
                  <4>9. CASE TakesPlace(a, b)
                        <5>1. r[i] = Entry(d, <<p, Names(d, p)>>)
                              BY <2>6, <4>1, <4>4, <4>5, <4>9
                        <5>2. \A j \in SpeakersOf(said, e, p) : WeightOf(t[j]) <= WeightOf(d) /\ j <= n + 1
                              BY <1>1, <4>2, <4>3, <4>6, <4>7, <4>9 DEF Wins
                        <5>3. Wins(t, e, p, n + 1)
                              BY <1>1, <4>7, <4>8, <5>2 DEF Wins
                        <5>4. QED BY <3>1, <4>7, <5>1, <5>3 DEF Holds
                  <4>10. CASE ~TakesPlace(a, b)
                        <5>1. r[i] = map[i]
                              BY <4>1, <4>4, <4>5, <4>10
                        <5>2. WeightOf(d) < WeightOf(t[w]) /\ t[w] = said[w]
                              <6>1. t[w] = said[w] /\ WeightOf(said[w]) \in Nat /\ WeightOf(d) \in Nat
                                    BY <4>3, <4>7
                              <6>2. ~(WeightOf(said[w]) <= WeightOf(d))
                                    BY <4>6, <4>10
                              <6>3. QED BY <6>1, <6>2
                        <5>3. Wins(t, e, p, w)
                              BY <4>2, <4>3, <4>7, <4>8, <5>2 DEF Wins
                        <5>4. QED BY <3>1, <4>2, <5>1, <5>2, <5>3 DEF Holds
                  <4>11. QED BY <4>9, <4>10
            <3>5. QED BY <2>5, <3>1, <3>3, <3>4 DEF Merged
      <2>8. ASSUME NEW i \in DOMAIN r \ DOMAIN map
            PROVE  r[i].prop \in LonghandsOf(s) /\ Holds(r[i], t, e)
            <3>1. PICK k \in 1..m : Lacks(map, pairs[k][1]) /\ r[i] = Entry(d, pairs[k])
                  BY <2>5 DEF Merged
            <3>2. PICK p : p = pairs[k][1]
                  OBVIOUS
            <3>3. SpeakersOf(said, e, p) = {}
                  BY <1>3, <3>1, <3>2
            <3>4. SpeakersOf(t, e, p) = {n + 1} /\ r[i] = Entry(d, <<p, Names(d, p)>>) /\ r[i].prop = p
                  BY <2>6, <3>1, <3>2, <3>3
            <3>5. Wins(t, e, p, n + 1)
                  BY <1>1, <3>4 DEF Wins
            <3>6. QED BY <1>1, <2>6, <3>2, <3>4, <3>5 DEF Holds
      <2>9. ASSUME NEW p, SpeakersOf(t, e, p) # {} PROVE ~Lacks(r, p)
            <3>1. CASE SpeakersOf(said, e, p) # {}
                  <4>1. PICK i \in DOMAIN map : map[i].prop = p
                        BY <1>3, <3>1 DEF Lacks
                  <4>2. i \in DOMAIN r /\ r[i].prop = p
                        <5>1. /\ DOMAIN map = 1..Len(map) /\ DOMAIN r = 1..Len(r) /\ Len(r) \in Nat
                              /\ Len(map) <= Len(r)
                              BY <1>3, <2>5 DEF Merged, Sound
                        <5>2. r[i].prop = map[i].prop
                              BY <2>5 DEF Merged
                        <5>3. QED BY <1>3, <4>1, <5>1, <5>2
                  <4>3. QED BY <4>2 DEF Lacks
            <3>2. CASE SpeakersOf(said, e, p) = {}
                  <4>1. Names(d, p) # None
                        BY <1>2, <2>9, <3>2
                  <4>2. PICK k \in 1..m : pairs[k][1] = p
                        BY <2>2, <2>4, <4>1 DEF Expands
                  <4>3. QED BY <2>5, <4>2 DEF Merged
            <3>3. QED BY <3>1, <3>2
      <2>10. Len(r) <= 4 * Len(t) /\ Sound(r)
            <3>1. Sound(r) /\ Len(r) <= Len(map) + m /\ Len(r) \in Nat
                  BY <2>5 DEF Merged, Sound
            <3>2. QED BY <1>1, <1>3, <2>4, <3>1
      <2>11. QED BY <2>7, <2>8, <2>9, <2>10 DEF Cascaded
<1>7. QED BY <1>5, <1>6

-----------------------------------------------------------------------------
\* The state of the engine: what was said is said of the page's subject, later
\* rules have later orders, and every element's map is the cascade so far.
CascadeInv ==
  /\ css = [subject |-> css.subject, said |-> css.said]
  /\ css.subject \in Subjects /\ Said \in Seq(ToSet(Said))
  /\ \A i \in DOMAIN Said : /\ Declaration(Said[i], css.subject)
                            /\ Said[i].order <= Said[Len(Said)].order
  /\ DOMAIN specified = Nodes
  /\ \A e \in Nodes : Cascaded(specified[e], Said, e, css.subject)
  /\ styles = <<>> \/ styles = Computed(specified)

LEMMA NothingSaid ==
  ASSUME NEW e, NEW s
  PROVE  Cascaded(<<>>, <<>>, e, s)
<1>1. DOMAIN <<>> = {} /\ Len(<<>>) = 0 /\ <<>> \in Seq(ToSet(<<>>))
      OBVIOUS
<1>2. \A p : SpeakersOf(<<>>, e, p) = {}
      BY <1>1 DEF SpeakersOf
<1>3. QED BY <1>1, <1>2 DEF Cascaded, Sound

LEMMA CascadeStarts == CascadeInit => CascadeInv
<1> SUFFICES ASSUME CascadeInit PROVE CascadeInv
    OBVIOUS
<1>1. PICK s \in Subjects : css = [subject |-> s, said |-> Opening(s)]
      BY DEF CascadeInit
<1>2. css.subject = s /\ css.said = Opening(s) /\ styles = <<>> /\ DOMAIN specified = Nodes
      BY <1>1 DEF CascadeInit
<1>3. CASE s # "colours"
      <2>1. Said = <<>>
            BY <1>2, <1>3 DEF Opening, Said
      <2>2. \A e \in Nodes : specified[e] = <<>>
            BY <2>1 DEF CascadeInit, Said
      <2>3. \A e \in Nodes : Cascaded(specified[e], Said, e, css.subject)
            BY <2>1, <2>2, NothingSaid
      <2>4. Said \in Seq(ToSet(Said)) /\ DOMAIN Said = {}
            BY <2>1
      <2>5. QED BY <1>1, <1>2, <2>3, <2>4 DEF CascadeInv
<1>4. CASE s = "colours"
      <2>1. PICK d : d = [prop |-> "color", values |-> <<Var("--x")>>, important |-> FALSE,
                          on |-> Nodes, inline |-> FALSE, specificity |-> 1, order |-> 1]
            OBVIOUS
      <2>2. Declaration(d, s)
            <3>1. PICK t : t = Says("color", Var("--x"))
                  OBVIOUS
            <3>2. t \in Spoken(s) /\ d.prop = t.prop /\ d.values = t.values
                  BY <1>4, <2>1, <3>1 DEF Spoken, Says
            <3>3. /\ d.important \in BOOLEAN /\ d.inline \in BOOLEAN /\ d.specificity \in 1..2
                  /\ d.order \in Nat /\ d.on \subseteq Nodes
                  BY <2>1
            <3>4. QED BY <3>2, <3>3 DEF Declaration
      <2>3. Said = <<d>>
            BY <1>2, <1>4, <2>1 DEF Opening, Said
      <2>4. Len(Said) = 1 /\ DOMAIN Said = {1} /\ Said[1] = d /\ Said # <<>> /\ Said \in Seq(ToSet(Said))
            <3>1. Len(Said) = 1 /\ DOMAIN Said = {1} /\ Said[1] = d /\ Said # <<>> /\ Said \in Seq({d})
                  BY <2>3
            <3>2. ToSet(Said) = {d}
                  BY <3>1 DEF ToSet
            <3>3. QED BY <3>1, <3>2
      <2>5. \A e \in Nodes : specified[e] = Applied(<<>>, d) /\ e \in d.on
            BY <2>1, <2>4 DEF CascadeInit, Said
      <2>6. PICK none : none = <<>>
            OBVIOUS
      <2>7. none \in Seq(ToSet(none)) /\ DOMAIN none = {} /\ Said = Append(none, d)
            BY <2>3, <2>6
      <2>8. d.order = 1
            BY <2>1
      <2>9. ASSUME NEW e \in Nodes PROVE Cascaded(specified[e], Said, e, s)
            <3>1. Cascaded(none, none, e, s)
                  BY <2>6, NothingSaid
            <3>2. PICK r : r = IF e \in d.on THEN Applied(none, d) ELSE none
                  OBVIOUS
            <3>3. Cascaded(r, Said, e, s)
                  BY <2>2, <2>7, <3>1, <3>2, CascadeGrows
            <3>4. specified[e] = r
                  BY <2>5, <2>6, <3>2
            <3>5. QED BY <3>3, <3>4
      <2>10. \A i \in DOMAIN Said : Declaration(Said[i], s) /\ Said[i].order <= Said[Len(Said)].order
            BY <2>2, <2>4, <2>8
      <2>11. QED BY <1>1, <1>2, <2>4, <2>9, <2>10 DEF CascadeInv
<1>5. QED BY <1>3, <1>4

LEMMA OrdersGrow ==
  ASSUME CascadeInv
  PROVE  LastOrder \in Nat /\ \A i \in DOMAIN Said : Said[i].order <= LastOrder
<1>1. CASE Said = <<>>
      BY <1>1 DEF LastOrder
<1>2. CASE Said # <<>>
      <2>1. Said \in Seq(ToSet(Said)) /\ Len(Said) \in DOMAIN Said
            BY <1>2 DEF CascadeInv
      <2>2. LastOrder = Said[Len(Said)].order
            BY <1>2 DEF LastOrder, Last
      <2>3. QED BY <2>1, <2>2 DEF CascadeInv, Declaration
<1>3. QED BY <1>1, <1>2

LEMMA AddKeeps ==
  ASSUME CascadeInv, styles = <<>>, NEW d, Declaration(d, css.subject), d.order >= LastOrder, Add(d)
  PROVE  CascadeInv'
<1>1. PICK s \in Subjects : s = css.subject
      BY DEF CascadeInv
<1>2. PICK said : said = css.said /\ said \in Seq(ToSet(said))
      BY DEF CascadeInv, Said
<1>3. css = [subject |-> s, said |-> said]
      BY <1>1, <1>2 DEF CascadeInv
<1>4. PICK t : t = Append(said, d)
      OBVIOUS
<1>5. css' = [subject |-> s, said |-> t]
      BY <1>3, <1>4 DEF Add
<1>6. /\ Len(said) \in Nat /\ DOMAIN said = 1..Len(said) /\ Len(t) = Len(said) + 1 /\ DOMAIN t = 1..Len(said) + 1
      /\ t[Len(said) + 1] = d /\ \A i \in 1..Len(said) : t[i] = said[i]
      <2>1. PICK X : X = ToSet(said) \cup {d}
            OBVIOUS
      <2>2. said \in Seq(X) /\ d \in X
            BY <1>2, <2>1
      <2>3. QED BY <1>4, <2>2
<1>7. t \in Seq(ToSet(t))
      <2>1. t \in [1..Len(t) -> ToSet(t)]
            <3>1. \A i \in DOMAIN t : t[i] \in ToSet(t)
                  BY DEF ToSet
            <3>2. t = [i \in 1..Len(t) |-> t[i]]
                  BY <1>2, <1>4, <1>6
            <3>3. QED BY <1>6, <3>1, <3>2
      <2>2. QED BY <1>6, <2>1
<1>8. \A i \in DOMAIN said : Declaration(said[i], s) /\ said[i].order <= d.order /\ said[i].order \in Nat
      <2>1. ASSUME NEW i \in DOMAIN said PROVE said[i].order <= d.order /\ said[i].order \in Nat
            <3>1. said[i].order <= LastOrder /\ LastOrder \in Nat
                  BY <1>2, OrdersGrow DEF Said
            <3>2. Declaration(said[i], s)
                  BY <1>1, <1>2 DEF CascadeInv, Said
            <3>3. said[i].order \in Nat /\ d.order \in Nat
                  BY <3>2 DEF Declaration
            <3>4. QED BY <3>1, <3>3
      <2>2. QED BY <1>1, <1>2, <2>1 DEF CascadeInv, Said
<1>9. ASSUME NEW e \in Nodes PROVE Cascaded(specified'[e], t, e, s)
      <2>1. Cascaded(specified[e], said, e, s)
            BY <1>1, <1>2 DEF CascadeInv, Said
      <2>2. PICK r : r = IF e \in d.on THEN Applied(specified[e], d) ELSE specified[e]
            OBVIOUS
      <2>3. Cascaded(r, t, e, s)
            BY <1>1, <1>2, <1>4, <1>8, <2>1, <2>2, CascadeGrows
      <2>4. specified'[e] = r
            BY <2>2 DEF Add
      <2>5. QED BY <2>3, <2>4
<1>10. ASSUME NEW i \in DOMAIN t PROVE Declaration(t[i], s) /\ t[i].order <= t[Len(t)].order
      <2>1. t[Len(t)] = d /\ d.order \in Nat
            BY <1>6 DEF Declaration
      <2>2. CASE i \in DOMAIN said
            BY <1>6, <1>8, <2>1, <2>2
      <2>3. CASE i = Len(said) + 1
            BY <1>1, <1>6, <2>1, <2>3
      <2>4. QED BY <1>6, <2>2, <2>3
<1>11. DOMAIN specified' = Nodes /\ styles' = <<>>
      BY DEF Add
<1>12. css'.subject = s /\ css'.said = t
      BY <1>5
<1>13. QED BY <1>5, <1>7, <1>9, <1>10, <1>11, <1>12 DEF CascadeInv, Said

LEMMA CascadeSteps ==
  ASSUME CascadeInv, [CascadeNext]_cascadeVars
  PROVE  CascadeInv'
<1>1. CASE UNCHANGED cascadeVars
      BY <1>1 DEF cascadeVars, CascadeInv, Said
<1>2. CASE ComputeStyles
      BY <1>2 DEF ComputeStyles, CascadeInv, Said
<1>3. ASSUME MoreToRead, NEW text \in Texts(css.subject), NEW strength \in Strengths, NEW on \in SUBSET Nodes,
             ApplyRule(text, strength, on)
      PROVE  CascadeInv'
      <2>1. PICK order \in {LastOrder + 1, LastOrder} :
              Add([prop |-> text.prop, values |-> text.values,
                   important |-> strength.important, on |-> on, inline |-> FALSE,
                   specificity |-> strength.specificity, order |-> order])
            BY <1>3 DEF ApplyRule
      <2>2. PICK d : d = [prop |-> text.prop, values |-> text.values,
                   important |-> strength.important, on |-> on, inline |-> FALSE,
                   specificity |-> strength.specificity, order |-> order]
            OBVIOUS
      <2>3. order \in Nat /\ order >= LastOrder
            BY <2>1, OrdersGrow
      <2>4. strength.important \in BOOLEAN /\ strength.specificity \in 1..2
            <3>1. ASSUME NEW i \in BOOLEAN, NEW n \in 1..2, strength = [important |-> i, specificity |-> n]
                  PROVE  strength.important \in BOOLEAN /\ strength.specificity \in 1..2
                  BY <3>1
            <3>2. \/ strength = [important |-> FALSE, specificity |-> 1]
                  \/ strength = [important |-> FALSE, specificity |-> 2]
                  \/ strength = [important |-> TRUE, specificity |-> 1]
                  BY DEF Strengths
            <3>3. FALSE \in BOOLEAN /\ TRUE \in BOOLEAN /\ 1 \in 1..2 /\ 2 \in 1..2
                  OBVIOUS
            <3>4. QED BY <3>1, <3>2, <3>3
      <2>5. text \in Spoken(css.subject)
            BY DEF Spoken
      <2>6. /\ d.prop = text.prop /\ d.values = text.values /\ d.important = strength.important /\ d.on = on
            /\ d.inline = FALSE /\ d.specificity = strength.specificity /\ d.order = order
            BY <2>2
      <2>7. Declaration(d, css.subject)
            BY <2>3, <2>4, <2>5, <2>6 DEF Declaration
      <2>8. QED BY <1>3, <2>1, <2>2, <2>3, <2>6, <2>7, AddKeeps DEF MoreToRead
<1>4. ASSUME MoreToRead, NEW text \in Texts(css.subject), NEW important \in BOOLEAN, NEW e \in Nodes,
             ApplyInline(text, important, e)
      PROVE  CascadeInv'
      <2>1. PICK d : d = [prop |-> text.prop, values |-> text.values,
                          important |-> important, on |-> {e}, inline |-> TRUE,
                          specificity |-> 1, order |-> LastOrder + 1]
            OBVIOUS
      <2>2. Add(d)
            BY <1>4, <2>1 DEF ApplyInline
      <2>3. text \in Spoken(css.subject)
            BY DEF Spoken
      <2>4. /\ d.prop = text.prop /\ d.values = text.values /\ d.important = important /\ d.on = {e}
            /\ d.inline = TRUE /\ d.specificity = 1 /\ d.order = LastOrder + 1
            BY <2>1
      <2>5. Declaration(d, css.subject)
            <3>1. d.order \in Nat
                  BY <2>4, OrdersGrow
            <3>2. d.on \subseteq Nodes /\ d.specificity \in 1..2
                  BY <2>4
            <3>3. d.important \in BOOLEAN /\ d.inline \in BOOLEAN
                  BY <2>4
            <3>4. QED BY <2>3, <2>4, <3>1, <3>2, <3>3 DEF Declaration
      <2>6. QED BY <1>4, <2>2, <2>4, <2>5, OrdersGrow, AddKeeps DEF MoreToRead
<1>5. QED BY <1>1, <1>2, <1>3, <1>4 DEF CascadeNext

-----------------------------------------------------------------------------
\* The maps, once the cascade is over, against what CSS chooses.
LEMMA MeansNamed ==
  ASSUME NEW d, NEW p
  PROVE  /\ Names(d, p) # None => Means(d, p) = Names(d, p)
         /\ Means(d, p) # None /\ Names(d, p) = None => p = "borderColor" /\ Colourless(d)
BY DEF Means, Names, Colourless

Plain(e, p) == p # "borderColor" \/ ~KeepsItsColour(e)
LEMMA WinnerIs ==
  ASSUME CascadeInv, NEW e, NEW p, NEW k, Wins(Said, e, p, k)
  PROVE  /\ Speakers(e, p) # {} /\ k \in Speakers(e, p)
         /\ Plain(e, p) => Winner(e, p) = k /\ WinningValue(e, p) = Names(Said[k], p)
<1>1. SpeakersOf(Said, e, p) \subseteq Speakers(e, p)
      BY MeansNamed DEF Speakers, SpeakersOf
<1>2. k \in Speakers(e, p) /\ k \in SpeakersOf(Said, e, p) /\ Means(Said[k], p) = Names(Said[k], p)
      BY <1>1, MeansNamed DEF Wins, SpeakersOf
<1>3. \A j \in Speakers(e, p) : Weight(j) = WeightOf(Said[j]) /\ Weight(j) \in Nat /\ j \in Nat
      <2>1. ASSUME NEW j \in Speakers(e, p) PROVE Weight(j) = WeightOf(Said[j]) /\ Weight(j) \in Nat /\ j \in Nat
            <3>1. j \in DOMAIN Said /\ Said \in Seq(ToSet(Said))
                  BY DEF Speakers, CascadeInv
            <3>2. Said[j].specificity \in Nat
                  BY <3>1 DEF CascadeInv, Declaration
            <3>3. j \in Nat
                  BY <3>1
            <3>4. QED BY <3>2, <3>3 DEF Weight, WeightOf
      <2>2. QED BY <2>1
<1>4. \A j \in SpeakersOf(Said, e, p) : Outweighs(k, j)
      BY <1>1, <1>2, <1>3 DEF Wins, Outweighs
<1>5. ASSUME NEW j \in Speakers(e, p), j \notin SpeakersOf(Said, e, p), Plain(e, p)
      PROVE  Outweighs(k, j)
      <2>1. p = "borderColor" /\ Colourless(Said[j])
            BY <1>5, MeansNamed DEF Speakers, SpeakersOf
      <2>2. PICK i \in Speakers(e, p) : ~Colourless(Said[i]) /\ ~Outweighs(j, i)
            BY <1>5, <2>1 DEF KeepsItsColour, Plain
      <2>3. i \in SpeakersOf(Said, e, p)
            BY <2>2, MeansNamed DEF Speakers, SpeakersOf
      <2>4. Outweighs(k, i)
            BY <1>4, <2>3
      <2>5. QED BY <1>2, <1>3, <2>2, <2>4 DEF Outweighs
<1>6. ASSUME Plain(e, p), NEW i \in Speakers(e, p), \A j \in Speakers(e, p) : Outweighs(i, j)
      PROVE  i = k
      <2>1. Outweighs(i, k)
            BY <1>2, <1>6
      <2>2. Outweighs(k, i)
            BY <1>4, <1>5, <1>6
      <2>3. QED BY <1>2, <1>3, <2>1, <2>2 DEF Outweighs
<1>7. ASSUME Plain(e, p) PROVE Winner(e, p) = k
      BY <1>2, <1>4, <1>5, <1>6, <1>7 DEF Winner
<1>8. QED BY <1>2, <1>7 DEF WinningValue

\* One element's map: an entry for each longhand something is said of, and for
\* no other, with the winning value.
LEMMA MapsHold ==
  ASSUME CascadeInv, NEW e \in Nodes, NEW map, map = specified[e]
  PROVE  /\ Len(map) \in Nat /\ DOMAIN map = 1..Len(map)
         /\ \A i, j \in DOMAIN map : map[i].prop = map[j].prop => i = j
         /\ \A i \in DOMAIN map : /\ map[i].prop \in LonghandsOf(css.subject)
                                  /\ Speakers(e, map[i].prop) # {}
                                  /\ Plain(e, map[i].prop) => map[i].value = WinningValue(e, map[i].prop)
         /\ \A p : Plain(e, p) /\ Speakers(e, p) # {} =>
              Place(e, p) \in DOMAIN map /\ map[Place(e, p)].prop = p
<1>1. Cascaded(map, Said, e, css.subject)
      BY DEF CascadeInv
<1>2. Len(map) \in Nat /\ DOMAIN map = 1..Len(map) /\ \A i, j \in DOMAIN map : map[i].prop = map[j].prop => i = j
      BY <1>1 DEF Cascaded, Sound
<1>3. ASSUME NEW i \in DOMAIN map
      PROVE  /\ map[i].prop \in LonghandsOf(css.subject) /\ Speakers(e, map[i].prop) # {}
             /\ Plain(e, map[i].prop) => map[i].value = WinningValue(e, map[i].prop)
      <2>1. map[i].prop \in LonghandsOf(css.subject) /\ Holds(map[i], Said, e)
            BY <1>1 DEF Cascaded
      <2>2. PICK p : p = map[i].prop
            OBVIOUS
      <2>3. PICK k : Wins(Said, e, p, k) /\ map[i] = Entry(Said[k], <<p, Names(Said[k], p)>>)
            BY <2>1, <2>2 DEF Holds
      <2>4. map[i].value = Names(Said[k], p)
            BY <2>3 DEF Entry
      <2>5. QED BY <2>1, <2>2, <2>3, <2>4, WinnerIs
<1>4. ASSUME NEW p, Plain(e, p), Speakers(e, p) # {}
      PROVE  Place(e, p) \in DOMAIN map /\ map[Place(e, p)].prop = p
      <2>1. SpeakersOf(Said, e, p) # {}
            <3>1. PICK j \in Speakers(e, p) : Names(Said[j], p) # None
                  BY <1>4, MeansNamed DEF Speakers, Plain, KeepsItsColour
            <3>2. QED BY <3>1 DEF Speakers, SpeakersOf
      <2>2. \E i \in DOMAIN specified[e] : specified[e][i].prop = p
            BY <1>1, <2>1 DEF Cascaded, Lacks
      <2>3. QED BY <2>2 DEF Place
<1>5. QED BY <1>2, <1>3, <1>4

LEMMA CascadeChooses == CascadeInv => CascadeChoosesAsCss
<1> SUFFICES ASSUME CascadeInv PROVE CascadeChoosesAsCss
    OBVIOUS
<1>1. ASSUME NEW e \in Nodes, NEW map, map = specified[e]
      PROVE  /\ \A i \in DOMAIN map :
                  /\ map[i].prop \in LonghandsOf(css.subject)
                  /\ \A j \in DOMAIN map : map[i].prop = map[j].prop => i = j
             /\ \A p \in LonghandsOf(css.subject) :
                   \/ p = "borderColor" /\ KeepsItsColour(e)
                   \/ IF Speakers(e, p) = {} THEN \A i \in DOMAIN map : map[i].prop # p
                      ELSE \E i \in DOMAIN map : map[i].prop = p /\ map[i].value = WinningValue(e, p)
      <2>1. \A i \in DOMAIN map :
                  /\ map[i].prop \in LonghandsOf(css.subject)
                  /\ \A j \in DOMAIN map : map[i].prop = map[j].prop => i = j
            BY <1>1, MapsHold
      <2>2. ASSUME NEW p, Speakers(e, p) = {} PROVE \A i \in DOMAIN map : map[i].prop # p
            BY <1>1, <2>2, MapsHold
      <2>3. ASSUME NEW p, Plain(e, p), Speakers(e, p) # {}
            PROVE  \E i \in DOMAIN map : map[i].prop = p /\ map[i].value = WinningValue(e, p)
            <3>1. Place(e, p) \in DOMAIN map /\ map[Place(e, p)].prop = p
                  BY <1>1, <2>3, MapsHold
            <3>2. map[Place(e, p)].value = WinningValue(e, p)
                  BY <1>1, <2>3, <3>1, MapsHold
            <3>3. QED BY <3>1, <3>2
      <2>4. QED BY <2>1, <2>2, <2>3 DEF Plain
<1>2. QED BY <1>1 DEF CascadeChoosesAsCss

LEMMA CascadeTyped == CascadeInv => CascadeTypeOK
<1> SUFFICES ASSUME CascadeInv PROVE CascadeTypeOK
    OBVIOUS
<1>1. \A e \in Nodes : Len(specified[e]) <= 4 * Len(Said)
      BY DEF CascadeInv, Cascaded
<1>2. Len(styles) \in {0, Depth}
      <2>1. CASE styles = <<>>
            BY <2>1
      <2>2. CASE styles = Computed(specified)
            <3>1. PICK g : styles = [e \in Nodes |-> g[e]]
                  BY <2>2, NodesRun
            <3>2. PICK X : X = {g[e] : e \in Nodes}
                  OBVIOUS
            <3>3. styles \in [1..Depth -> X]
                  BY <3>1, <3>2 DEF Nodes
            <3>4. Depth \in Nat
                  BY CascadeAssumption
            <3>5. QED BY <3>3, <3>4
      <2>3. QED BY <2>1, <2>2 DEF CascadeInv
<1>3. QED BY <1>1, <1>2 DEF CascadeTypeOK

-----------------------------------------------------------------------------
\* What an entry leaves in the values being computed: its own longhand, against
\* what was known by then.
LEMMA CustomAt ==
  ASSUME NEW map, Len(map) \in Nat, \A i, j \in 1..Len(map) : map[i].prop = map[j].prop => i = j,
         NEW g, NEW parent, g[0] = parent, DOMAIN parent \subseteq Custom,
         \A n \in 1..Len(map) : g[n] = WithCustom(g[n - 1], map[n]),
         NEW n \in 0..Len(map), NEW c \in Custom
  PROVE  /\ DOMAIN g[n] \subseteq Custom
         /\ \A i \in 1..n : map[i].prop = c => c \in DOMAIN g[n] /\ g[n][c] = Resolved(map[i].value, g[i - 1])
         /\ (\A i \in 1..n : map[i].prop # c)
              => (c \in DOMAIN g[n] <=> c \in DOMAIN parent) /\ (c \in DOMAIN parent => g[n][c] = parent[c])
<1> DEFINE Left(m) ==
             /\ DOMAIN g[m] \subseteq Custom
             /\ \A i \in 1..m : map[i].prop = c => c \in DOMAIN g[m] /\ g[m][c] = Resolved(map[i].value, g[i - 1])
             /\ (\A i \in 1..m : map[i].prop # c)
                  => (c \in DOMAIN g[m] <=> c \in DOMAIN parent) /\ (c \in DOMAIN parent => g[m][c] = parent[c])
<1>1. PICK T : T = {m \in Nat : m <= Len(map) => Left(m)}
      OBVIOUS
<1>2. 0 \in T
      BY <1>1
<1>3. ASSUME NEW m \in Nat, m < Len(map), m \in T PROVE m + 1 \in T
      <2>1. PICK k : k = m + 1 /\ k \in 1..Len(map) /\ k - 1 = m /\ m \in 0..Len(map)
            BY <1>3
      <2>2. Left(m)
            BY <1>1, <1>3
      <2>3. g[k] = WithCustom(g[m], map[k])
            BY <2>1
      <2>4. \A i \in 1..k : i \in 1..m \/ i = k
            BY <2>1
      <2>5. 1..m \subseteq 1..k /\ k \in 1..k /\ 1..k \subseteq 1..Len(map) /\ k \notin 1..m
            BY <2>1
      <2>6. CASE map[k].prop = c
            <3>1. g[k] = [x \in DOMAIN g[m] \cup {c} |-> IF x = c THEN Resolved(map[k].value, g[m]) ELSE g[m][x]]
                  BY <2>3, <2>6 DEF WithCustom
            <3>2. DOMAIN g[k] \subseteq Custom /\ c \in DOMAIN g[k] /\ g[k][c] = Resolved(map[k].value, g[m])
                  BY <2>2, <3>1
            <3>3. \A i \in 1..k : map[i].prop = c => i = k
                  BY <2>5, <2>6
            <3>4. Left(k)
                  BY <2>1, <2>5, <2>6, <3>2, <3>3
            <3>5. QED BY <1>1, <2>1, <3>4
      <2>7. CASE map[k].prop # c
            <3>1. DOMAIN g[k] \subseteq Custom /\ (c \in DOMAIN g[k] <=> c \in DOMAIN g[m]) /\ (c \in DOMAIN g[m] => g[k][c] = g[m][c])
                  <4>1. CASE map[k].prop \notin Custom
                        BY <2>2, <2>3, <4>1 DEF WithCustom
                  <4>2. CASE map[k].prop \in Custom
                        <5>1. PICK x : x = map[k].prop
                              OBVIOUS
                        <5>2. g[k] = [y \in DOMAIN g[m] \cup {x} |-> IF y = x THEN Resolved(map[k].value, g[m]) ELSE g[m][y]]
                              BY <2>3, <4>2, <5>1 DEF WithCustom
                        <5>3. QED BY <2>2, <2>7, <4>2, <5>1, <5>2
                  <4>3. QED BY <4>1, <4>2
            <3>2. ASSUME NEW i \in 1..k, map[i].prop = c
                  PROVE  c \in DOMAIN g[k] /\ g[k][c] = Resolved(map[i].value, g[i - 1])
                  <4>1. i \in 1..m
                        BY <2>4, <2>7, <3>2
                  <4>2. QED BY <2>2, <3>1, <3>2, <4>1
            <3>3. ASSUME \A i \in 1..k : map[i].prop # c
                  PROVE  (c \in DOMAIN g[k] <=> c \in DOMAIN parent) /\ (c \in DOMAIN parent => g[k][c] = parent[c])
                  <4>1. \A i \in 1..m : map[i].prop # c
                        BY <2>5, <3>3
                  <4>2. QED BY <2>2, <3>1, <4>1
            <3>4. Left(k)
                  BY <3>1, <3>2, <3>3
            <3>5. QED BY <1>1, <2>1, <3>4
      <2>8. QED BY <2>6, <2>7
<1>4. n \in T
      <2>1. \A m \in 0..Len(map) : m \in T
            BY <1>2, <1>3, CountsUp
      <2>2. QED BY <2>1
<1>5. QED BY <1>1, <1>4

\* The run of StyleOf over a map that has no longhand twice.
StyleRun(map, g, custom, parent) ==
  /\ Len(map) \in Nat /\ \A i, j \in 1..Len(map) : map[i].prop = map[j].prop => i = j
  /\ \A i \in 1..Len(map) : map[i].prop \in DOMAIN Default \cup Custom
  /\ DOMAIN g[0] = DOMAIN Default
  /\ \A n \in 1..Len(map) : g[n] = WithLonghand(g[n - 1], map[n], custom, parent)

LEMMA StyleAt ==
  ASSUME NEW map, NEW g, NEW custom, NEW parent, StyleRun(map, g, custom, parent),
         NEW n \in 0..Len(map), NEW p \in DOMAIN Default, p \notin Custom
  PROVE  /\ \A i \in 1..n : map[i].prop = p => g[n][p] = Normalized(p, map[i].value, custom, parent, g[i - 1])
         /\ (\A i \in 1..n : map[i].prop # p) => g[n][p] = g[0][p]
<1> DEFINE Left(m) ==
             /\ DOMAIN g[m] = DOMAIN Default
             /\ \A i \in 1..m : map[i].prop = p => g[m][p] = Normalized(p, map[i].value, custom, parent, g[i - 1])
             /\ (\A i \in 1..m : map[i].prop # p) => g[m][p] = g[0][p]
<1>0. /\ Len(map) \in Nat /\ \A i, j \in 1..Len(map) : map[i].prop = map[j].prop => i = j
      /\ \A i \in 1..Len(map) : map[i].prop \in DOMAIN Default \cup Custom
      /\ DOMAIN g[0] = DOMAIN Default
      /\ \A m \in 1..Len(map) : g[m] = WithLonghand(g[m - 1], map[m], custom, parent)
      BY DEF StyleRun
<1>1. PICK T : T = {m \in Nat : m <= Len(map) => Left(m)}
      OBVIOUS
<1>2. 0 \in T
      BY <1>0, <1>1
<1>3. ASSUME NEW m \in Nat, m < Len(map), m \in T PROVE m + 1 \in T
      <2>1. PICK k : k = m + 1 /\ k \in 1..Len(map) /\ k - 1 = m /\ m \in 0..Len(map)
            BY <1>0, <1>3
      <2>2. Left(m)
            BY <1>1, <1>3
      <2>3. g[k] = WithLonghand(g[m], map[k], custom, parent)
            BY <1>0, <2>1
      <2>4. \A i \in 1..k : i \in 1..m \/ i = k
            BY <2>1
      <2>5. 1..m \subseteq 1..k /\ k \in 1..k /\ 1..k \subseteq 1..Len(map) /\ k \notin 1..m
            BY <2>1
      <2>6. CASE map[k].prop = p
            <3>1. g[k] = [g[m] EXCEPT ![p] = Normalized(p, map[k].value, custom, parent, g[m])]
                  BY <2>3, <2>6 DEF WithLonghand
            <3>2. DOMAIN g[k] = DOMAIN Default /\ g[k][p] = Normalized(p, map[k].value, custom, parent, g[m])
                  BY <2>2, <3>1
            <3>3. \A i \in 1..k : map[i].prop = p => i = k
                  BY <1>0, <2>5, <2>6
            <3>4. Left(k)
                  BY <2>1, <2>5, <2>6, <3>2, <3>3
            <3>5. QED BY <1>1, <2>1, <3>4
      <2>7. CASE map[k].prop # p
            <3>1. DOMAIN g[k] = DOMAIN Default /\ g[k][p] = g[m][p]
                  <4>1. CASE map[k].prop \in Custom
                        BY <2>2, <2>3, <4>1 DEF WithLonghand
                  <4>2. CASE map[k].prop \notin Custom
                        <5>1. PICK x : x = map[k].prop
                              OBVIOUS
                        <5>2. PICK v : v = Normalized(x, map[k].value, custom, parent, g[m])
                              OBVIOUS
                        <5>3. g[k] = [g[m] EXCEPT ![x] = v]
                              BY <2>3, <4>2, <5>1, <5>2 DEF WithLonghand
                        <5>4. QED BY <1>0, <2>1, <2>2, <2>7, <5>1, <5>3
                  <4>3. QED BY <4>1, <4>2
            <3>2. ASSUME NEW i \in 1..k, map[i].prop = p
                  PROVE  g[k][p] = Normalized(p, map[i].value, custom, parent, g[i - 1])
                  <4>1. i \in 1..m
                        BY <2>4, <2>7, <3>2
                  <4>2. QED BY <2>2, <3>1, <3>2, <4>1
            <3>3. ASSUME \A i \in 1..k : map[i].prop # p PROVE g[k][p] = g[0][p]
                  <4>1. \A i \in 1..m : map[i].prop # p
                        BY <2>5, <3>3
                  <4>2. QED BY <2>2, <3>1, <4>1
            <3>4. Left(k)
                  BY <3>1, <3>2, <3>3
            <3>5. QED BY <1>1, <2>1, <3>4
      <2>8. QED BY <2>6, <2>7
<1>4. n \in T
      <2>1. \A m \in 0..Len(map) : m \in T
            BY <1>0, <1>2, <1>3, CountsUp
      <2>2. QED BY <2>1
<1>5. QED BY <1>1, <1>4

\* The values a page can give, and what stands for them.
Values == {Em(1), Em(2), Px(20), Inherit, Tint(1), Tint(2), Tint(3), Tint(4), Var("--x"), Var("--y")}
ValuesOf(p) ==
  CASE p = "fontSize" -> {Em(2), Px(20)}
    [] p = "letterSpacing" -> {Em(1), Inherit}
    [] p = "color" -> {Tint(1), Var("--x")}
    [] p = "--x" -> {Tint(2), Var("--y")}
    [] p = "--y" -> {Tint(3), Tint(4)}

LEMMA TextValues ==
  ASSUME NEW s \in Subjects, NEW d, Declaration(d, s),
         NEW p \in {"fontSize", "letterSpacing", "color", "--x", "--y"}, Means(d, p) # None
  PROVE  Means(d, p) \in ValuesOf(p)
<1>1. PICK t \in Spoken(s) : d.prop = t.prop /\ d.values = t.values
      BY DEF Declaration
<1>2. p \notin Range(Sides) /\ p # "borderWidth" /\ p # "borderColor"
      <2>1. DOMAIN Sides = 1..4 /\ \A i \in 1..4 : Sides[i] \in {"paddingTop", "paddingRight", "paddingBottom", "paddingLeft"}
            BY DEF Sides
      <2>2. QED BY <2>1 DEF Range
<1>3. d.prop # "border" /\ d.prop # "padding" /\ Camel(d.prop) = p /\ Means(d, p) = d.values[1]
      BY <1>2 DEF Means, Names
<1>4. s # "boxes"
      <2>1. SUFFICES ASSUME s = "boxes" PROVE FALSE
            OBVIOUS
      <2>2. d.prop \in {"border", "padding", "padding-left"}
            BY <1>1, <2>1 DEF Spoken, Texts, Says
      <2>3. QED BY <1>3, <2>2 DEF Camel
<1>5. CASE s = "sizes"
      <2>1. \/ d.prop = "font-size" /\ d.values \in {<<Em(2)>>, <<Px(20)>>}
            \/ d.prop = "letter-spacing" /\ d.values \in {<<Em(1)>>, <<Inherit>>}
            BY <1>1, <1>5 DEF Spoken, Texts, Says
      <2>2. \/ d.prop = "font-size" /\ d.values[1] \in {Em(2), Px(20)}
            \/ d.prop = "letter-spacing" /\ d.values[1] \in {Em(1), Inherit}
            BY <2>1
      <2>3. QED BY <1>3, <2>2 DEF Camel, ValuesOf
<1>6. CASE s = "colours"
      <2>1. \/ d.prop = "color" /\ d.values \in {<<Tint(1)>>, <<Var("--x")>>}
            \/ d.prop = "--x" /\ d.values \in {<<Tint(2)>>, <<Var("--y")>>}
            \/ d.prop = "--y" /\ d.values \in {<<Tint(3)>>, <<Tint(4)>>}
            BY <1>1, <1>6 DEF Spoken, Texts, Says
      <2>2. \/ d.prop = "color" /\ d.values[1] \in {Tint(1), Var("--x")}
            \/ d.prop = "--x" /\ d.values[1] \in {Tint(2), Var("--y")}
            \/ d.prop = "--y" /\ d.values[1] \in {Tint(3), Tint(4)}
            BY <2>1
      <2>3. QED BY <1>3, <2>2 DEF Camel, ValuesOf
<1>7. QED BY <1>4, <1>5, <1>6 DEF Subjects

LEMMA WinningValues ==
  ASSUME CascadeInv, NEW e \in Nodes,
         NEW p \in {"fontSize", "letterSpacing", "color", "--x", "--y"}, Speakers(e, p) # {}
  PROVE  WinningValue(e, p) \in ValuesOf(p)
<1>1. PICK i : i \in DOMAIN specified[e] /\ specified[e][i].prop = p
      BY MapsHold DEF Plain
<1>2. Holds(specified[e][i], Said, e)
      BY <1>1 DEF CascadeInv, Cascaded
<1>3. PICK k : Wins(Said, e, p, k)
      BY <1>1, <1>2 DEF Holds
<1>4. WinningValue(e, p) = Means(Said[k], p) /\ k \in Speakers(e, p)
      BY <1>3, WinnerIs DEF Plain, Means
<1>5. k \in DOMAIN Said /\ Means(Said[k], p) # None
      BY <1>4 DEF Speakers
<1>6. Declaration(Said[k], css.subject) /\ css.subject \in Subjects
      BY <1>5 DEF CascadeInv
<1>7. QED BY <1>4, <1>5, <1>6, TextValues

\* A value that names nothing stands for itself; --y for what it holds, if that
\* is a colour.
LEMMA ResolvedPlain ==
  ASSUME NEW v, NEW custom, DOMAIN custom \subseteq Custom, v.unit \notin Custom
  PROVE  Resolved(v, custom) = v
BY DEF Resolved

LEMMA ResolvedName ==
  ASSUME NEW c \in Custom, NEW custom, DOMAIN custom \subseteq Custom, c \in DOMAIN custom, custom[c].unit \notin Custom
  PROVE  Resolved(Var(c), custom) = custom[c]
<1>1. Var(c).unit = c
      BY DEF Var
<1>2. QED BY <1>1 DEF Resolved

LEMMA Units ==
  /\ \A n : /\ Px(n).unit = "px" /\ Em(n).unit = "em" /\ Tint(n).unit = "tint"
            /\ Px(n).n = n /\ Em(n).n = n /\ Tint(n).n = n
  /\ \A c : Var(c).unit = c
  /\ Inherit.unit = "inherit" /\ None.unit = "none"
  /\ {"px", "em", "tint", "inherit", "none"} \cap Custom = {}
BY DEF Px, Em, Tint, Var, Inherit, None, Custom

-----------------------------------------------------------------------------
\* One element after its parent.
LEMMA CustomNode ==
  ASSUME CascadeInv, NEW e \in Nodes, NEW parent, DOMAIN parent \subseteq Custom,
         NEW C, C = CustomOf(specified[e], parent)
  PROVE  /\ DOMAIN C \subseteq Custom
         /\ \A c \in Custom : Speakers(e, c) = {} =>
              (c \in DOMAIN C <=> c \in DOMAIN parent) /\ (c \in DOMAIN parent => C[c] = parent[c])
         /\ \A c \in Custom : Speakers(e, c) # {} =>
              \E before : /\ DOMAIN before \subseteq Custom /\ c \in DOMAIN C
                          /\ C[c] = Resolved(WinningValue(e, c), before)
                          /\ \A b \in Custom \ {c} :
                               /\ Speakers(e, b) = {} =>
                                    /\ b \in DOMAIN before <=> b \in DOMAIN parent
                                    /\ b \in DOMAIN parent => before[b] = parent[b]
                               /\ Speakers(e, b) # {} /\ Place(e, b) < Place(e, c) =>
                                    b \in DOMAIN before /\ before[b] = C[b]
<1>1. PICK map : map = specified[e]
      OBVIOUS
<1>2. Len(map) \in Nat /\ DOMAIN map = 1..Len(map)
      BY <1>1, MapsHold
<1>3. \A i, j \in 1..Len(map) : map[i].prop = map[j].prop => i = j
      BY <1>1, <1>2, MapsHold
<1>4. PICK g : /\ g[0] = parent
               /\ \A n \in 1..Len(map) : g[n] = WithCustom(g[n - 1], map[n])
               /\ C = g[Len(map)]
      BY <1>1, <1>2, CustomRuns
<1>5. ASSUME NEW n \in 0..Len(map), NEW c \in Custom
      PROVE  /\ DOMAIN g[n] \subseteq Custom
             /\ \A i \in 1..n : map[i].prop = c => c \in DOMAIN g[n] /\ g[n][c] = Resolved(map[i].value, g[i - 1])
             /\ (\A i \in 1..n : map[i].prop # c)
                  => (c \in DOMAIN g[n] <=> c \in DOMAIN parent) /\ (c \in DOMAIN parent => g[n][c] = parent[c])
      BY <1>2, <1>3, <1>4, CustomAt
<1>6. Len(map) \in 0..Len(map) /\ "--x" \in Custom
      BY <1>2 DEF Custom
<1>7. DOMAIN C \subseteq Custom
      BY <1>4, <1>5, <1>6
<1>8. ASSUME NEW c, Speakers(e, c) = {} PROVE \A i \in 1..Len(map) : map[i].prop # c
      <2>1. \A i \in DOMAIN map : Speakers(e, map[i].prop) # {}
            BY <1>1, MapsHold
      <2>2. QED BY <1>2, <1>8, <2>1
<1>9. ASSUME NEW c \in Custom, Speakers(e, c) # {}
      PROVE  /\ Place(e, c) \in 1..Len(map) /\ map[Place(e, c)].prop = c
             /\ map[Place(e, c)].value = WinningValue(e, c)
      <2>1. Plain(e, c)
            BY DEF Custom, Plain
      <2>2. QED BY <1>1, <1>2, <1>9, <2>1, MapsHold
<1>10. ASSUME NEW c \in Custom, Speakers(e, c) # {}
       PROVE  \E before : /\ DOMAIN before \subseteq Custom /\ c \in DOMAIN C
                          /\ C[c] = Resolved(WinningValue(e, c), before)
                          /\ \A b \in Custom \ {c} :
                               /\ Speakers(e, b) = {} =>
                                    /\ b \in DOMAIN before <=> b \in DOMAIN parent
                                    /\ b \in DOMAIN parent => before[b] = parent[b]
                               /\ Speakers(e, b) # {} /\ Place(e, b) < Place(e, c) =>
                                    b \in DOMAIN before /\ before[b] = C[b]
       <2>1. PICK k \in 1..Len(map) : k = Place(e, c) /\ map[k].prop = c /\ map[k].value = WinningValue(e, c)
             BY <1>9, <1>10
       <2>2. k - 1 \in 0..Len(map) /\ k \in Nat /\ 1..k - 1 \subseteq 1..Len(map)
             BY <1>2
       <2>3. DOMAIN g[k - 1] \subseteq Custom
             BY <1>5, <1>6, <2>2
       <2>4. c \in DOMAIN C /\ C[c] = Resolved(WinningValue(e, c), g[k - 1])
             BY <1>4, <1>5, <1>6, <2>1
       <2>5. ASSUME NEW b \in Custom, Speakers(e, b) = {}
             PROVE  /\ b \in DOMAIN g[k - 1] <=> b \in DOMAIN parent
                    /\ b \in DOMAIN parent => g[k - 1][b] = parent[b]
             <3>1. \A i \in 1..k - 1 : map[i].prop # b
                   BY <1>8, <2>2, <2>5
             <3>2. QED BY <1>5, <2>2, <3>1
       <2>6. ASSUME NEW b \in Custom, Speakers(e, b) # {}, Place(e, b) < Place(e, c)
             PROVE  b \in DOMAIN g[k - 1] /\ g[k - 1][b] = C[b]
             <3>1. PICK i \in 1..Len(map) : i = Place(e, b) /\ map[i].prop = b
                   BY <1>9, <2>6
             <3>2. i \in 1..k - 1
                   BY <2>1, <2>2, <2>6, <3>1
             <3>3. b \in DOMAIN g[k - 1] /\ g[k - 1][b] = Resolved(map[i].value, g[i - 1])
                   BY <1>5, <2>2, <3>1, <3>2
             <3>4. C[b] = Resolved(map[i].value, g[i - 1])
                   BY <1>4, <1>5, <1>6, <3>1
             <3>5. QED BY <3>3, <3>4
       <2>7. QED BY <2>3, <2>4, <2>5, <2>6
<1>11. ASSUME NEW c \in Custom, Speakers(e, c) = {}
       PROVE  (c \in DOMAIN C <=> c \in DOMAIN parent) /\ (c \in DOMAIN parent => C[c] = parent[c])
       BY <1>4, <1>5, <1>6, <1>8, <1>11
<1>12. QED BY <1>7, <1>10, <1>11

LEMMA Longhands ==
  /\ \A s \in Subjects : LonghandsOf(s) \subseteq DOMAIN Default \cup Custom
  /\ Inherited \subseteq DOMAIN Default /\ Inherited \cap Custom = {}
<1>1. DOMAIN Default = {"color", "backgroundColor", "fontSize", "letterSpacing", "borderWidth", "borderColor",
                        "paddingTop", "paddingRight", "paddingBottom", "paddingLeft"}
      BY DEF Default
<1>2. Range(Sides) \subseteq {"paddingTop", "paddingRight", "paddingBottom", "paddingLeft"}
      <2>1. DOMAIN Sides = 1..4 /\ \A i \in 1..4 : Sides[i] \in {"paddingTop", "paddingRight", "paddingBottom", "paddingLeft"}
            BY DEF Sides
      <2>2. QED BY <2>1 DEF Range
<1>3. LonghandsOf("sizes") \subseteq DOMAIN Default \cup Custom
      BY <1>1 DEF LonghandsOf
<1>4. LonghandsOf("colours") \subseteq DOMAIN Default \cup Custom
      BY <1>1 DEF LonghandsOf
<1>5. LonghandsOf("boxes") \subseteq DOMAIN Default \cup Custom
      BY <1>1, <1>2 DEF LonghandsOf
<1>6. QED BY <1>1, <1>3, <1>4, <1>5 DEF Subjects, Inherited, Custom

\* What StyleOf gives an inherited longhand.
Styled(e, p, R, custom, parent) ==
  /\ Speakers(e, p) = {} => R[p] = parent[p]
  /\ Speakers(e, p) # {} =>
       \E before : /\ R[p] = Normalized(p, WinningValue(e, p), custom, parent, before)
                   /\ Speakers(e, "fontSize") = {} => before["fontSize"] = parent["fontSize"]
                   /\ Speakers(e, "fontSize") # {} /\ Place(e, "fontSize") < Place(e, p) =>
                        before["fontSize"] = R["fontSize"]

LEMMA StyleNode ==
  ASSUME CascadeInv, NEW e \in Nodes, NEW custom, NEW parent, NEW p \in Inherited
  PROVE  Styled(e, p, StyleOf(specified[e], custom, parent), custom, parent)
<1>0. PICK R : R = StyleOf(specified[e], custom, parent)
      OBVIOUS
<1>1. PICK map : map = specified[e]
      OBVIOUS
<1>2. Len(map) \in Nat /\ DOMAIN map = 1..Len(map)
      BY <1>1, MapsHold
<1>3. \A i, j \in 1..Len(map) : map[i].prop = map[j].prop => i = j
      BY <1>1, <1>2, MapsHold
<1>4. \A i \in 1..Len(map) : map[i].prop \in DOMAIN Default \cup Custom
      BY <1>1, <1>2, MapsHold, Longhands DEF CascadeInv
<1>5. PICK begun : begun = [q \in DOMAIN Default |-> IF q \in Inherited THEN parent[q] ELSE Default[q]]
      OBVIOUS
<1>6. PICK g : /\ g[0] = begun
               /\ \A n \in 1..Len(map) : g[n] = WithLonghand(g[n - 1], map[n], custom, parent)
               /\ R = g[Len(map)]
      <2>1. R = StyleOf(map, custom, parent)
            BY <1>0, <1>1
      <2>2. \E g : /\ g[0] = begun
                   /\ \A n \in 1..Len(map) : g[n] = WithLonghand(g[n - 1], map[n], custom, parent)
                   /\ StyleOf(map, custom, parent) = g[Len(map)]
            BY <1>2, <1>5, StyleRuns
      <2>3. QED BY <2>1, <2>2
<1>7. ASSUME NEW n \in 0..Len(map), NEW q \in Inherited
      PROVE  /\ \A i \in 1..n : map[i].prop = q => g[n][q] = Normalized(q, map[i].value, custom, parent, g[i - 1])
             /\ (\A i \in 1..n : map[i].prop # q) => g[n][q] = parent[q]
      <2>1. q \in DOMAIN Default /\ q \notin Custom /\ begun[q] = parent[q] /\ DOMAIN begun = DOMAIN Default
            BY <1>5, Longhands
      <2>2. /\ \A i \in 1..n : map[i].prop = q => g[n][q] = Normalized(q, map[i].value, custom, parent, g[i - 1])
            /\ (\A i \in 1..n : map[i].prop # q) => g[n][q] = g[0][q]
            <3>1. q \in DOMAIN Default /\ q \notin Custom /\ DOMAIN g[0] = DOMAIN Default
                  BY <1>6, <2>1
            <3>2. StyleRun(map, g, custom, parent)
                  BY <1>2, <1>3, <1>4, <1>6, <3>1 DEF StyleRun
            <3>3. QED BY <3>1, <3>2, StyleAt
      <2>3. QED BY <1>6, <2>1, <2>2
<1>8. Len(map) \in 0..Len(map) /\ "fontSize" \in Inherited
      BY <1>2 DEF Inherited
<1>9. ASSUME NEW c, Speakers(e, c) = {} PROVE \A i \in 1..Len(map) : map[i].prop # c
      <2>1. \A i \in DOMAIN map : Speakers(e, map[i].prop) # {}
            BY <1>1, MapsHold
      <2>2. QED BY <1>2, <1>9, <2>1
<1>10. ASSUME NEW c \in Inherited, Speakers(e, c) # {}
       PROVE  /\ Place(e, c) \in 1..Len(map) /\ map[Place(e, c)].prop = c
              /\ map[Place(e, c)].value = WinningValue(e, c)
       <2>0. Plain(e, c)
             BY DEF Inherited, Plain
       <2>1. Place(e, c) \in DOMAIN map /\ map[Place(e, c)].prop = c
             BY <1>1, <1>10, <2>0, MapsHold
       <2>2. \A i \in DOMAIN map : Plain(e, map[i].prop) => map[i].value = WinningValue(e, map[i].prop)
             BY <1>1, MapsHold
       <2>3. QED BY <1>2, <2>0, <2>1, <2>2
<1>11. CASE Speakers(e, p) = {}
       BY <1>0, <1>6, <1>7, <1>8, <1>9, <1>11 DEF Styled
<1>12. CASE Speakers(e, p) # {}
       <2>1. PICK k \in 1..Len(map) : k = Place(e, p) /\ map[k].prop = p /\ map[k].value = WinningValue(e, p)
             BY <1>10, <1>12
       <2>2. k - 1 \in 0..Len(map) /\ k \in Nat /\ 1..k - 1 \subseteq 1..Len(map)
             BY <1>2
       <2>3. R[p] = Normalized(p, WinningValue(e, p), custom, parent, g[k - 1])
             BY <1>6, <1>7, <1>8, <2>1
       <2>4. ASSUME Speakers(e, "fontSize") = {} PROVE g[k - 1]["fontSize"] = parent["fontSize"]
             <3>1. \A i \in 1..k - 1 : map[i].prop # "fontSize"
                   BY <1>9, <2>2, <2>4
             <3>2. QED BY <1>7, <1>8, <2>2, <3>1
       <2>5. ASSUME Speakers(e, "fontSize") # {}, Place(e, "fontSize") < Place(e, p)
             PROVE  g[k - 1]["fontSize"] = R["fontSize"]
             <3>1. PICK i \in 1..Len(map) : i = Place(e, "fontSize") /\ map[i].prop = "fontSize"
                   BY <1>8, <1>10, <2>5
             <3>2. i \in 1..k - 1
                   BY <2>1, <2>2, <2>5, <3>1
             <3>3. g[k - 1]["fontSize"] = Normalized("fontSize", map[i].value, custom, parent, g[i - 1])
                   BY <1>7, <1>8, <2>2, <3>1, <3>2
             <3>4. R["fontSize"] = Normalized("fontSize", map[i].value, custom, parent, g[i - 1])
                   BY <1>6, <1>7, <1>8, <3>1
             <3>5. QED BY <3>3, <3>4
       <2>6. QED BY <1>0, <1>12, <2>3, <2>4, <2>5 DEF Styled
<1>13. QED BY <1>11, <1>12

-----------------------------------------------------------------------------
\* What is inherited, from an element to its child.
LEMMA NearestHere ==
  ASSUME NEW e \in Nat, NEW S, S \subseteq 1..e, e \in S
  PROVE  Nearest(S) = e
<1>1. \A b \in S : b \in Nat /\ b <= e
      OBVIOUS
<1>2. \A a \in S : (\A b \in S : b <= a) => a = e
      BY <1>1
<1>3. QED BY <1>1, <1>2 DEF Nearest

LEMMA SpokenGrows ==
  ASSUME NEW e \in Nodes, NEW p
  PROVE  /\ e \in Nat /\ e - 1 \in Nat /\ SpokenAt(e - 1, p) \subseteq 1..e - 1 /\ SpokenAt(e, p) \subseteq 1..e
         /\ Speakers(e, p) = {} => SpokenAt(e, p) = SpokenAt(e - 1, p)
         /\ Speakers(e, p) # {} => /\ SpokenAt(e, p) = SpokenAt(e - 1, p) \cup {e}
                                   /\ Nearest(SpokenAt(e, p)) = e
<1>1. e \in Nat /\ e - 1 \in Nat /\ 1..e = (1..e - 1) \cup {e}
      BY CascadeAssumption DEF Nodes
<1>2. SpokenAt(e - 1, p) \subseteq 1..e - 1 /\ SpokenAt(e, p) \subseteq 1..e
      BY DEF SpokenAt
<1>3. SpokenAt(e, p) = IF Speakers(e, p) = {} THEN SpokenAt(e - 1, p) ELSE SpokenAt(e - 1, p) \cup {e}
      BY <1>1 DEF SpokenAt
<1>4. Speakers(e, p) # {} => Nearest(SpokenAt(e, p)) = e
      BY <1>1, <1>2, <1>3, NearestHere
<1>5. QED BY <1>1, <1>2, <1>3, <1>4

LEMMA BrowserSizes ==
  ASSUME NEW e \in Nodes
  PROVE  /\ Speakers(e, "fontSize") = {} => SizeOf[e] = SizeOf[e - 1]
         /\ Speakers(e, "fontSize") # {} /\ WinningValue(e, "fontSize") = Em(2) => SizeOf[e] = 2 * SizeOf[e - 1]
         /\ Speakers(e, "fontSize") # {} /\ WinningValue(e, "fontSize") = Px(20) => SizeOf[e] = 20
<1>1. SizeOf[e] = IF Speakers(e, "fontSize") = {} THEN SizeOf[e - 1]
                  ELSE IF WinningValue(e, "fontSize").unit = "em"
                  THEN WinningValue(e, "fontSize").n * SizeOf[e - 1] ELSE WinningValue(e, "fontSize").n
      BY SizesRun DEF Nodes
<1>2. Em(2).unit = "em" /\ Em(2).n = 2 /\ Px(20).unit # "em" /\ Px(20).n = 20
      BY Units
<1>3. QED BY <1>1, <1>2

LEMMA BrowserSpacing ==
  ASSUME CascadeInv, NEW e \in Nodes
  PROVE  /\ Speakers(e, "letterSpacing") = {} => SpacingOf(e) = SpacingOf(e - 1)
         /\ Speakers(e, "letterSpacing") # {} /\ WinningValue(e, "letterSpacing") = Inherit
              => SpacingOf(e) = SpacingOf(e - 1)
         /\ Speakers(e, "letterSpacing") # {} /\ WinningValue(e, "letterSpacing") = Em(1)
              => SpacingOf(e) = Px(1 * SizeOf[e])
<1> DEFINE Spaced(a) == {b \in SpokenAt(a, "letterSpacing") : WinningValue(b, "letterSpacing") # Inherit}
<1>1. \A a : SpacingOf(a) =
        IF Spaced(a) = {} THEN None
        ELSE Px(WinningValue(Nearest(Spaced(a)), "letterSpacing").n * SizeOf[Nearest(Spaced(a))])
      BY DEF SpacingOf
<1>2. CASE Speakers(e, "letterSpacing") = {} \/ WinningValue(e, "letterSpacing") = Inherit
      <2>1. Spaced(e) = Spaced(e - 1)
            BY <1>2, SpokenGrows
      <2>2. SpacingOf(e) = SpacingOf(e - 1)
            BY <1>1, <2>1
      <2>3. Inherit # Em(1)
            <3>1. Inherit.unit # Em(1).unit
                  BY Units
            <3>2. QED BY <3>1
      <2>4. QED BY <1>2, <2>2, <2>3
<1>3. CASE Speakers(e, "letterSpacing") # {} /\ WinningValue(e, "letterSpacing") = Em(1)
      <2>1. Inherit # Em(1)
            <3>1. Inherit.unit # Em(1).unit
                  BY Units
            <3>2. QED BY <3>1
      <2>2. Spaced(e) \subseteq 1..e /\ e \in Spaced(e) /\ e \in Nat
            BY <1>3, <2>1, SpokenGrows
      <2>3. Nearest(Spaced(e)) = e
            BY <2>2, NearestHere
      <2>4. SpacingOf(e) = Px(Em(1).n * SizeOf[e])
            BY <1>1, <1>3, <2>2, <2>3
      <2>5. Em(1).n = 1
            BY Units
      <2>6. QED BY <1>3, <2>1, <2>4, <2>5
<1>4. CASE ~(Speakers(e, "letterSpacing") = {} \/ WinningValue(e, "letterSpacing") = Inherit)
           /\ WinningValue(e, "letterSpacing") # Em(1)
      BY <1>4
<1>5. QED BY <1>2, <1>3, <1>4

\* The early places stay early further down.
LEMMA TooSoonBelow ==
  ASSUME NEW e \in Nodes
  PROVE  /\ SpacedTooSoon(e - 1) => SpacedTooSoon(e)
         /\ NamedTooSoon(e - 1) => NamedTooSoon(e)
         /\ ~SpacedTooSoon(e) => ~ /\ Speakers(e, "fontSize") # {} /\ Speakers(e, "letterSpacing") # {}
                                   /\ Place(e, "letterSpacing") < Place(e, "fontSize")
         /\ ~NamedTooSoon(e) => ~ /\ Speakers(e, "--x") # {} /\ WinningValue(e, "--x") = Var("--y")
                                  /\ Speakers(e, "--y") # {} /\ Place(e, "--x") < Place(e, "--y")
<1>1. e \in 1..e /\ 1..e - 1 \subseteq 1..e
      BY CascadeAssumption DEF Nodes
<1>2. QED BY <1>1 DEF SpacedTooSoon, NamedTooSoon


LEMMA BrowserColours ==
  ASSUME NEW e \in Nodes
  PROVE  /\ Speakers(e, "--y") = {} => YOf(e) = YOf(e - 1) /\ SpokenAt(e, "--y") = SpokenAt(e - 1, "--y")
         /\ Speakers(e, "--y") # {} => YOf(e) = WinningValue(e, "--y") /\ SpokenAt(e, "--y") # {}
         /\ Speakers(e, "--x") = {} => XOf(e) = XOf(e - 1)
         /\ Speakers(e, "--x") # {} =>
              XOf(e) = IF WinningValue(e, "--x") = Var("--y") THEN YOf(e) ELSE WinningValue(e, "--x")
         /\ Speakers(e, "color") = {} => ColourOf(e) = ColourOf(e - 1)
         /\ Speakers(e, "color") # {} =>
              ColourOf(e) = IF WinningValue(e, "color") = Var("--x") THEN XOf(e) ELSE WinningValue(e, "color")
<1>1. /\ Speakers(e, "--y") = {} => YOf(e) = YOf(e - 1) /\ SpokenAt(e, "--y") = SpokenAt(e - 1, "--y")
      /\ Speakers(e, "--y") # {} => YOf(e) = WinningValue(e, "--y") /\ SpokenAt(e, "--y") # {}
      BY SpokenGrows DEF YOf
<1>2. /\ Speakers(e, "--x") = {} => XOf(e) = XOf(e - 1)
      /\ Speakers(e, "--x") # {} =>
           XOf(e) = IF WinningValue(e, "--x") = Var("--y") THEN YOf(e) ELSE WinningValue(e, "--x")
      BY SpokenGrows DEF XOf
<1>3. /\ Speakers(e, "color") = {} => ColourOf(e) = ColourOf(e - 1)
      /\ Speakers(e, "color") # {} =>
           ColourOf(e) = IF WinningValue(e, "color") = Var("--x") THEN XOf(e) ELSE WinningValue(e, "color")
      BY SpokenGrows DEF ColourOf
<1>4. QED BY <1>1, <1>2, <1>3

\* An element computed as a browser would, but for the named cases.
SizesSettled(e, style) ==
  /\ style["fontSize"] = Px(SizeOf[e])
  /\ SpacedTooSoon(e) \/ style["letterSpacing"] = SpacingOf(e)
YSettled(e, custom) ==
  /\ SpokenAt(e, "--y") = {} => "--y" \notin DOMAIN custom
  /\ SpokenAt(e, "--y") # {} => "--y" \in DOMAIN custom /\ custom["--y"] = YOf(e) /\ YOf(e).unit = "tint"
XSettled(e, custom) ==
  XOf(e) = None \/ NamedTooSoon(e)
    \/ ("--x" \in DOMAIN custom /\ custom["--x"] = XOf(e) /\ XOf(e).unit = "tint")
ColourSettled(e, style) ==
  ColourOf(e) = None \/ NamedTooSoon(e) \/ style["color"] = ColourOf(e)
Reckoned(e, node) ==
  /\ DOMAIN node.custom \subseteq Custom
  /\ SizesSettled(e, node.style) /\ ColourSettled(e, node.style)
  /\ YSettled(e, node.custom) /\ XSettled(e, node.custom)

LEMMA YSettles ==
  ASSUME CascadeInv, NEW e \in Nodes, NEW parent, DOMAIN parent \subseteq Custom,
         YSettled(e - 1, parent), NEW C, C = CustomOf(specified[e], parent)
  PROVE  YSettled(e, C)
<1>1. "--y" \in Custom
      BY DEF Custom
<1>2. CASE Speakers(e, "--y") = {}
      <2>1. ("--y" \in DOMAIN C <=> "--y" \in DOMAIN parent) /\ ("--y" \in DOMAIN parent => C["--y"] = parent["--y"])
            BY <1>1, <1>2, CustomNode
      <2>2. YOf(e) = YOf(e - 1) /\ SpokenAt(e, "--y") = SpokenAt(e - 1, "--y")
            BY <1>2, BrowserColours
      <2>3. QED BY <2>1, <2>2 DEF YSettled
<1>3. CASE Speakers(e, "--y") # {}
      <2>1. PICK before : /\ DOMAIN before \subseteq Custom /\ "--y" \in DOMAIN C
                          /\ C["--y"] = Resolved(WinningValue(e, "--y"), before)
            BY <1>1, <1>3, CustomNode
      <2>2. WinningValue(e, "--y") \in {Tint(3), Tint(4)}
            BY <1>3, WinningValues DEF ValuesOf
      <2>3. WinningValue(e, "--y").unit = "tint" /\ "tint" \notin Custom
            BY <2>2, Units
      <2>4. C["--y"] = WinningValue(e, "--y")
            BY <2>1, <2>3, ResolvedPlain
      <2>5. YOf(e) = WinningValue(e, "--y") /\ SpokenAt(e, "--y") # {}
            BY <1>3, BrowserColours
      <2>6. QED BY <2>1, <2>3, <2>4, <2>5 DEF YSettled
<1>4. QED BY <1>2, <1>3

LEMMA XSettles ==
  ASSUME CascadeInv, NEW e \in Nodes, NEW parent, DOMAIN parent \subseteq Custom,
         YSettled(e - 1, parent), XSettled(e - 1, parent), NEW C, C = CustomOf(specified[e], parent)
  PROVE  XSettled(e, C)
<1>1. "--x" \in Custom /\ "--y" \in Custom \ {"--x"}
      BY DEF Custom
<1>2. CASE Speakers(e, "--x") = {}
      <2>1. ("--x" \in DOMAIN C <=> "--x" \in DOMAIN parent) /\ ("--x" \in DOMAIN parent => C["--x"] = parent["--x"])
            BY <1>1, <1>2, CustomNode
      <2>2. XOf(e) = XOf(e - 1)
            BY <1>2, BrowserColours
      <2>3. NamedTooSoon(e - 1) => NamedTooSoon(e)
            BY TooSoonBelow
      <2>4. QED BY <2>1, <2>2, <2>3 DEF XSettled
<1>3. CASE Speakers(e, "--x") # {}
      <2>1. PICK before : /\ DOMAIN before \subseteq Custom /\ "--x" \in DOMAIN C
                          /\ C["--x"] = Resolved(WinningValue(e, "--x"), before)
                          /\ Speakers(e, "--y") = {} =>
                               /\ "--y" \in DOMAIN before <=> "--y" \in DOMAIN parent
                               /\ "--y" \in DOMAIN parent => before["--y"] = parent["--y"]
                          /\ Speakers(e, "--y") # {} /\ Place(e, "--y") < Place(e, "--x") =>
                               "--y" \in DOMAIN before /\ before["--y"] = C["--y"]
            BY <1>1, <1>3, CustomNode
      <2>2. WinningValue(e, "--x") \in {Tint(2), Var("--y")}
            BY <1>3, WinningValues DEF ValuesOf
      <2>3. CASE WinningValue(e, "--x") = Tint(2)
            <3>1. Tint(2).unit = "tint" /\ Var("--y").unit = "--y" /\ "tint" \notin Custom /\ "tint" # "--y"
                  BY Units DEF Custom
            <3>2. C["--x"] = Tint(2)
                  BY <2>1, <2>3, <3>1, ResolvedPlain
            <3>3. XOf(e) = Tint(2)
                  BY <1>3, <2>3, <3>1, BrowserColours
            <3>4. QED BY <2>1, <3>1, <3>2, <3>3 DEF XSettled
      <2>4. CASE WinningValue(e, "--x") = Var("--y")
            <3>1. XOf(e) = YOf(e)
                  BY <1>3, <2>4, BrowserColours
            <3>2. SUFFICES ASSUME XOf(e) # None, ~NamedTooSoon(e)
                           PROVE  C["--x"] = XOf(e) /\ XOf(e).unit = "tint"
                  BY <2>1 DEF XSettled
            <3>3. SpokenAt(e, "--y") # {}
                  BY <3>1, <3>2 DEF YOf
            <3>4. YSettled(e, C)
                  BY YSettles
            <3>5. C["--y"] = YOf(e) /\ YOf(e).unit = "tint"
                  BY <3>3, <3>4 DEF YSettled
            <3>6. "--y" \in DOMAIN before /\ before["--y"] = YOf(e)
                  <4>1. CASE Speakers(e, "--y") = {}
                        <5>1. YOf(e) = YOf(e - 1) /\ SpokenAt(e - 1, "--y") # {}
                              BY <3>3, <4>1, BrowserColours
                        <5>2. QED BY <2>1, <4>1, <5>1 DEF YSettled
                  <4>2. CASE Speakers(e, "--y") # {}
                        <5>1. ~(Place(e, "--x") < Place(e, "--y"))
                              BY <1>3, <2>4, <3>2, <4>2, TooSoonBelow
                        <5>2. /\ Place(e, "--x") \in DOMAIN specified[e] /\ Place(e, "--y") \in DOMAIN specified[e]
                              /\ specified[e][Place(e, "--x")].prop = "--x"
                              /\ specified[e][Place(e, "--y")].prop = "--y"
                              BY <1>3, <4>2, MapsHold DEF Plain
                        <5>3. Place(e, "--x") \in Nat /\ Place(e, "--y") \in Nat
                              BY <5>2, MapsHold
                        <5>4. Place(e, "--x") # Place(e, "--y")
                              BY <5>2
                        <5>5. Place(e, "--y") < Place(e, "--x")
                              BY <5>1, <5>3, <5>4
                        <5>6. QED BY <2>1, <3>5, <4>2, <5>5
                  <4>3. QED BY <4>1, <4>2
            <3>7. before["--y"].unit \notin Custom
                  BY <3>5, <3>6, Units
            <3>8. C["--x"] = YOf(e)
                  BY <1>1, <2>1, <2>4, <3>6, <3>7, ResolvedName
            <3>9. QED BY <3>1, <3>5, <3>8
      <2>5. QED BY <2>2, <2>3, <2>4
<1>4. QED BY <1>2, <1>3

LEMMA SizesSettle ==
  ASSUME CascadeInv, NEW e \in Nodes, NEW parent, SizesSettled(e - 1, parent),
         NEW custom, DOMAIN custom \subseteq Custom, NEW R, R = StyleOf(specified[e], custom, parent)
  PROVE  SizesSettled(e, R)
<1>1. "fontSize" \in Inherited /\ "letterSpacing" \in Inherited
      BY DEF Inherited
<1>0. /\ Styled(e, "fontSize", R, custom, parent)
      /\ Styled(e, "letterSpacing", R, custom, parent)
      BY <1>1, StyleNode
<1>2. ASSUME NEW v, v.unit \notin Custom, NEW before
      PROVE  /\ v # Inherit => Normalized("fontSize", v, custom, parent, before) = InPx(v, parent["fontSize"])
             /\ v # Inherit => Normalized("letterSpacing", v, custom, parent, before) = InPx(v, before["fontSize"])
             /\ v = Inherit => Normalized("letterSpacing", v, custom, parent, before) = parent["letterSpacing"]
      <2>1. Resolved(v, custom) = v
            BY <1>2, ResolvedPlain
      <2>2. QED BY <2>1 DEF Normalized
<1>3. R["fontSize"] = Px(SizeOf[e])
      <2>1. parent["fontSize"] = Px(SizeOf[e - 1])
            BY DEF SizesSettled
      <2>2. CASE Speakers(e, "fontSize") = {}
            BY <1>0, <2>1, <2>2, BrowserSizes DEF Styled
      <2>3. CASE Speakers(e, "fontSize") # {}
            <3>1. PICK v, before : v = WinningValue(e, "fontSize")
                                   /\ R["fontSize"] = Normalized("fontSize", v, custom, parent, before)
                  BY <1>0, <2>3 DEF Styled
            <3>2. v \in {Em(2), Px(20)}
                  BY <2>3, <3>1, WinningValues DEF ValuesOf
            <3>3. /\ Em(2).unit = "em" /\ Em(2).n = 2 /\ Px(20).unit = "px" /\ Inherit.unit = "inherit"
                  /\ "em" \notin Custom /\ "px" \notin Custom /\ Px(SizeOf[e - 1]).n = SizeOf[e - 1]
                  BY Units
            <3>4. CASE v = Em(2)
                  <4>1. R["fontSize"] = InPx(v, Px(SizeOf[e - 1]))
                        BY <1>2, <2>1, <3>1, <3>3, <3>4
                  <4>2. R["fontSize"] = Px(2 * SizeOf[e - 1])
                        BY <3>3, <3>4, <4>1 DEF InPx
                  <4>3. QED BY <2>3, <3>1, <3>4, <4>2, BrowserSizes
            <3>5. CASE v = Px(20)
                  <4>1. R["fontSize"] = InPx(v, Px(SizeOf[e - 1]))
                        BY <1>2, <2>1, <3>1, <3>3, <3>5
                  <4>2. R["fontSize"] = Px(20)
                        BY <3>3, <3>5, <4>1 DEF InPx
                  <4>3. QED BY <2>3, <3>1, <3>5, <4>2, BrowserSizes
            <3>6. QED BY <3>2, <3>4, <3>5
      <2>4. QED BY <2>2, <2>3
<1>4. ASSUME ~SpacedTooSoon(e) PROVE R["letterSpacing"] = SpacingOf(e)
      <2>1. parent["letterSpacing"] = SpacingOf(e - 1)
            BY <1>4, TooSoonBelow DEF SizesSettled
      <2>2. CASE Speakers(e, "letterSpacing") = {}
            BY <1>0, <2>1, <2>2, BrowserSpacing DEF Styled
      <2>3. CASE Speakers(e, "letterSpacing") # {}
            <3>1. PICK v, before :
                    /\ v = WinningValue(e, "letterSpacing")
                    /\ R["letterSpacing"] = Normalized("letterSpacing", v, custom, parent, before)
                    /\ Speakers(e, "fontSize") = {} => before["fontSize"] = parent["fontSize"]
                    /\ Speakers(e, "fontSize") # {} /\ Place(e, "fontSize") < Place(e, "letterSpacing") =>
                         before["fontSize"] = R["fontSize"]
                  BY <1>0, <2>3 DEF Styled
            <3>2. v \in {Em(1), Inherit}
                  BY <2>3, <3>1, WinningValues DEF ValuesOf
            <3>3. /\ Em(1).unit = "em" /\ Em(1).n = 1 /\ Inherit.unit = "inherit" /\ "em" # "inherit"
                  /\ "em" \notin Custom /\ "inherit" \notin Custom /\ Px(SizeOf[e]).n = SizeOf[e]
                  BY Units
            <3>4. CASE v = Inherit
                  BY <1>2, <2>1, <2>3, <3>1, <3>3, <3>4, BrowserSpacing
            <3>5. CASE v = Em(1)
                  <4>1. before["fontSize"] = Px(SizeOf[e])
                        <5>1. CASE Speakers(e, "fontSize") = {}
                              BY <3>1, <5>1, BrowserSizes DEF SizesSettled
                        <5>2. CASE Speakers(e, "fontSize") # {}
                              <6>1. ~(Place(e, "letterSpacing") < Place(e, "fontSize"))
                                    BY <1>4, <2>3, <5>2, TooSoonBelow
                              <6>2. /\ Place(e, "letterSpacing") \in DOMAIN specified[e]
                                    /\ Place(e, "fontSize") \in DOMAIN specified[e]
                                    /\ specified[e][Place(e, "letterSpacing")].prop = "letterSpacing"
                                    /\ specified[e][Place(e, "fontSize")].prop = "fontSize"
                                    BY <2>3, <5>2, MapsHold DEF Plain
                              <6>3. Place(e, "letterSpacing") \in Nat /\ Place(e, "fontSize") \in Nat
                                    BY <6>2, MapsHold
                              <6>4. Place(e, "letterSpacing") # Place(e, "fontSize")
                                    BY <6>2
                              <6>5. Place(e, "fontSize") < Place(e, "letterSpacing")
                                    BY <6>1, <6>3, <6>4
                              <6>6. QED BY <1>3, <3>1, <5>2, <6>5
                        <5>3. QED BY <5>1, <5>2
                  <4>2. R["letterSpacing"] = InPx(v, Px(SizeOf[e]))
                        BY <1>2, <3>1, <3>3, <3>5, <4>1
                  <4>3. R["letterSpacing"] = Px(1 * SizeOf[e])
                        BY <3>3, <3>5, <4>2 DEF InPx
                  <4>4. QED BY <2>3, <3>1, <3>5, <4>3, BrowserSpacing
            <3>6. QED BY <3>2, <3>4, <3>5
      <2>4. QED BY <2>2, <2>3
<1>5. QED BY <1>3, <1>4 DEF SizesSettled

LEMMA ColourSettles ==
  ASSUME CascadeInv, NEW e \in Nodes, NEW parent, ColourSettled(e - 1, parent),
         NEW custom, DOMAIN custom \subseteq Custom, XSettled(e, custom),
         NEW R, R = StyleOf(specified[e], custom, parent)
  PROVE  ColourSettled(e, R)
<1>1. "color" \in Inherited /\ "--x" \in Custom
      BY DEF Inherited, Custom
<1>0. Styled(e, "color", R, custom, parent)
      BY <1>1, StyleNode
<1>2. CASE Speakers(e, "color") = {}
      <2>1. R["color"] = parent["color"] /\ ColourOf(e) = ColourOf(e - 1)
            BY <1>0, <1>2, BrowserColours DEF Styled
      <2>2. QED BY <2>1, TooSoonBelow DEF ColourSettled
<1>3. CASE Speakers(e, "color") # {}
      <2>1. PICK v, before : v = WinningValue(e, "color") /\ R["color"] = Normalized("color", v, custom, parent, before)
            BY <1>0, <1>3 DEF Styled
      <2>2. v \in {Tint(1), Var("--x")}
            BY <1>3, <2>1, WinningValues DEF ValuesOf
      <2>3. ASSUME NEW w, Resolved(v, custom) = w, w.unit = "tint" PROVE R["color"] = w
            <3>1. w # Inherit
                  BY <2>3, Units
            <3>2. QED BY <2>1, <2>3, <3>1 DEF Normalized
      <2>4. CASE v = Tint(1)
            <3>1. Tint(1).unit = "tint" /\ "tint" \notin Custom /\ Var("--x").unit = "--x" /\ "--x" # "tint"
                  BY Units DEF Custom
            <3>2. Resolved(v, custom) = v
                  BY <2>4, <3>1, ResolvedPlain
            <3>3. R["color"] = v
                  BY <2>3, <2>4, <3>1, <3>2
            <3>4. ColourOf(e) = v
                  BY <1>3, <2>1, <2>4, <3>1, BrowserColours
            <3>5. QED BY <3>3, <3>4 DEF ColourSettled
      <2>5. CASE v = Var("--x")
            <3>1. ColourOf(e) = XOf(e)
                  BY <1>3, <2>1, <2>5, BrowserColours
            <3>2. SUFFICES ASSUME XOf(e) # None, ~NamedTooSoon(e) PROVE R["color"] = XOf(e)
                  BY <3>1 DEF ColourSettled
            <3>3. "--x" \in DOMAIN custom /\ custom["--x"] = XOf(e) /\ XOf(e).unit = "tint"
                  BY <3>2 DEF XSettled
            <3>4. custom["--x"].unit \notin Custom
                  BY <3>3, Units
            <3>5. Resolved(v, custom) = XOf(e)
                  BY <1>1, <2>5, <3>3, <3>4, ResolvedName
            <3>6. QED BY <2>3, <3>3, <3>5
      <2>6. QED BY <2>2, <2>4, <2>5
<1>4. QED BY <1>2, <1>3

LEMMA NodeSettles ==
  ASSUME CascadeInv, NEW e \in Nodes, NEW parent, Reckoned(e - 1, parent), NEW node, node = NodeOf(specified[e], parent)
  PROVE  Reckoned(e, node)
<1>1. PICK C : C = CustomOf(specified[e], parent.custom)
      OBVIOUS
<1>2. PICK R : R = StyleOf(specified[e], C, parent.style)
      OBVIOUS
<1>3. node.custom = C /\ node.style = R
      BY <1>1, <1>2 DEF NodeOf
<1>4. DOMAIN parent.custom \subseteq Custom
      BY DEF Reckoned
<1>5. DOMAIN C \subseteq Custom
      BY <1>1, <1>4, CustomNode
<1>6. YSettled(e, C)
      BY <1>1, <1>4, YSettles DEF Reckoned
<1>7. XSettled(e, C)
      BY <1>1, <1>4, XSettles DEF Reckoned
<1>8. SizesSettled(e, R)
      BY <1>2, <1>5, SizesSettle DEF Reckoned
<1>9. ColourSettled(e, R)
      BY <1>2, <1>5, <1>7, ColourSettles DEF Reckoned
<1>10. QED BY <1>3, <1>5, <1>6, <1>7, <1>8, <1>9 DEF Reckoned

LEMMA RootSettled == Reckoned(0, [custom |-> <<>>, style |-> Default])
<1>1. PICK node : node = [custom |-> <<>>, style |-> Default]
      OBVIOUS
<1>2. node.custom = <<>> /\ node.style = Default /\ DOMAIN <<>> = {}
      BY <1>1
<1>3. \A p : SpokenAt(0, p) = {}
      BY DEF SpokenAt
<1>4. Default["fontSize"] = Px(16) /\ Default["letterSpacing"] = None /\ Default["color"] = Tint(0)
      BY DEF Default
<1>5. SizesSettled(0, Default)
      <2>1. SizeOf[0] = 16
            BY SizesRun
      <2>2. SpacingOf(0) = None
            BY <1>3 DEF SpacingOf
      <2>3. QED BY <1>4, <2>1, <2>2 DEF SizesSettled
<1>6. ColourSettled(0, Default)
      BY <1>3, <1>4 DEF ColourSettled, ColourOf
<1>7. YSettled(0, <<>>)
      BY <1>2, <1>3 DEF YSettled
<1>8. XSettled(0, <<>>)
      BY <1>3 DEF XSettled, XOf
<1>9. QED BY <1>1, <1>2, <1>5, <1>6, <1>7, <1>8 DEF Reckoned

LEMMA StylesSettled ==
  ASSUME CascadeInv, NEW e \in DOMAIN styles
  PROVE  e \in Nodes /\ Reckoned(e, styles[e])
<1>1. styles = Computed(specified)
      <2>1. styles # <<>>
            OBVIOUS
      <2>2. QED BY <2>1 DEF CascadeInv
<1>2. PICK g : /\ g[0] = [custom |-> <<>>, style |-> Default]
               /\ \A n \in 1..Depth : g[n] = NodeOf(specified[n], g[n - 1])
               /\ styles = [a \in Nodes |-> g[a]]
      BY <1>1, NodesRun
<1>3. PICK T : T = {n \in Nat : n <= Depth => Reckoned(n, g[n])}
      OBVIOUS
<1>4. 0 \in T
      BY <1>2, <1>3, RootSettled
<1>5. ASSUME NEW n \in Nat, n < Depth, n \in T PROVE n + 1 \in T
      <2>1. Reckoned(n, g[n])
            BY <1>3, <1>5, CascadeAssumption
      <2>2. PICK k \in Nodes : k = n + 1 /\ k - 1 = n
            BY <1>5, CascadeAssumption DEF Nodes
      <2>3. g[k] = NodeOf(specified[k], g[k - 1])
            BY <1>2 DEF Nodes
      <2>4. Reckoned(k, g[k])
            BY <2>1, <2>2, <2>3, NodeSettles
      <2>5. QED BY <1>3, <2>2, <2>4
<1>6. \A n \in 0..Depth : n \in T
      BY <1>4, <1>5, CountsUp, CascadeAssumption
<1>7. e \in Nodes /\ styles[e] = g[e]
      BY <1>2
<1>8. e \in 0..Depth /\ e \in Nat /\ e <= Depth
      BY <1>7, CascadeAssumption DEF Nodes
<1>9. QED BY <1>3, <1>6, <1>7, <1>8

LEMMA StylesRight == CascadeInv => StylesAreTheBrowsers
<1> SUFFICES ASSUME CascadeInv PROVE StylesAreTheBrowsers
    OBVIOUS
<1>1. ASSUME NEW e \in DOMAIN styles
      PROVE  /\ styles[e].style.fontSize = Px(SizeOf[e])
             /\ SpacedTooSoon(e) \/ styles[e].style.letterSpacing = SpacingOf(e)
             /\ ColourOf(e) = None \/ NamedTooSoon(e) \/ styles[e].style.color = ColourOf(e)
      BY StylesSettled DEF Reckoned, SizesSettled, ColourSettled
<1>2. QED BY <1>1, CascadeChooses DEF StylesAreTheBrowsers, SizesAreTheBrowsers, ColoursAreTheBrowsers

-----------------------------------------------------------------------------
(* The types.                                                              *)

\* The bounds of the drawing layer: a mark is named when it is released, and
\* its press was within the bound.
LayerBounded ==
  /\ mode \in {"off", "configure", "text", "session"} /\ kind \in {"replace", "insert"}
  /\ active \in BOOLEAN /\ resizing \in BOOLEAN /\ prompt \in BOOLEAN /\ offered \in BOOLEAN
  /\ drawn <= MaxMarks /\ lastPress <= MaxMarks /\ (pointer.what = "new" => drawn < MaxMarks)
  /\ strokes \subseteq 1..drawn /\ Len(shown) <= MaxGoes
Named(ps, n) == Len(ps) <= n /\ \A i \in DOMAIN ps : ps[i].id \in 1..n

\* What takes pins away, or writes their notes, names no others.
LEMMA RemovalNames ==
  ASSUME NEW ps \in Seq(Drawings), NEW i \in DOMAIN ps, NEW n \in Nat, Named(ps, n)
  PROVE  Named(RemoveAt(ps, i), n)
<1>1. PICK qs : qs = RemoveAt(ps, i)
      OBVIOUS
<1>2. /\ qs \in Seq(Drawings) /\ Len(qs) = Len(ps) - 1
      /\ \A j \in 1..(Len(ps) - 1) : qs[j] = IF j < i THEN ps[j] ELSE ps[j + 1]
      BY <1>1, RemoveAtFacts
<1>3. Len(ps) \in Nat /\ DOMAIN ps = 1..Len(ps) /\ i \in 1..Len(ps) /\ DOMAIN qs = 1..(Len(ps) - 1)
      BY <1>2, LenProperties
<1>4. ASSUME NEW j \in DOMAIN qs PROVE qs[j].id \in 1..n
      <2>1. j \in DOMAIN ps /\ j + 1 \in DOMAIN ps
            BY <1>3
      <2>2. qs[j] = ps[j] \/ qs[j] = ps[j + 1]
            BY <1>2, <1>3
      <2>3. QED BY <2>1, <2>2 DEF Named
<1>5. Len(qs) <= n
      BY <1>2, <1>3 DEF Named
<1>6. QED BY <1>1, <1>4, <1>5 DEF Named

LEMMA NoteNames ==
  ASSUME NEW ps \in Seq(Drawings), OwnNotes(ps), NEW n \in Nat, Named(ps, n),
         NEW ed \in {Nothing} \cup OpenNotes, NoteIn(ed, ps)
  PROVE  Named(Finalized(ps, ed), n) /\ (ed # Nothing => Named(Cancelled(ps, ed), n))
<1>1. ASSUME NEW i \in DOMAIN ps, NEW x \in {0, ps[i].id}
      PROVE  Named([ps EXCEPT ![i].text = x], n)
      <2>1. PICK qs : qs = [ps EXCEPT ![i].text = x]
            OBVIOUS
      <2>2. Written(qs, ps, i, x)
            BY <2>1, WrittenFacts
      <2>3. QED BY <2>1, <2>2 DEF Written, Named
<1>2. ed # Nothing => ed.idx \in DOMAIN ps /\ ed.typed \in {0, ps[ed.idx].id} /\ ed.original \in {0, ps[ed.idx].id}
      BY DEF NoteIn
<1>3. Named(Finalized(ps, ed), n)
      BY <1>1, <1>2, RemovalNames DEF Finalized
<1>4. ed # Nothing => Named(Cancelled(ps, ed), n)
      BY <1>1, <1>2, RemovalNames DEF Cancelled
<1>5. QED BY <1>3, <1>4

\* Every step keeps the names of the pins within those given.
LEMMA NamesKept ==
  ASSUME PlacesInv, Named(pins, drawn), [AnnotationsNext]_annotationVars
  PROVE  Named(pins', drawn')
<1>1. /\ pins \in Seq(Drawings) /\ OwnNotes(pins) /\ NoteIn(editing, pins) /\ drawn \in Nat
      /\ editing \in {Nothing} \cup OpenNotes
      BY DEF PlacesInv
<1>2. Named(Finalized(pins, editing), drawn) /\ (editing # Nothing => Named(Cancelled(pins, editing), drawn))
      BY <1>1, NoteNames
<1>3. Named(<<>>, drawn)
      BY <1>1 DEF Named
<1>4. \A i \in DOMAIN pins : Named(RemoveAt(pins, i), drawn)
      BY <1>1, RemovalNames
<1>5. CASE ReleaseMark
      <2>1. /\ drawn' = drawn + 1
            /\ pins' = IF pointer.moved THEN pins ELSE Append(pins, Pin(drawn + 1))
            BY <1>5 DEF ReleaseMark
      <2>2. CASE pins' = pins
            BY <1>1, <2>1, <2>2 DEF Named
      <2>3. CASE pins' = Append(pins, Pin(drawn + 1))
            <3>1. PICK p \in Drawings : p = Pin(drawn + 1) /\ p.id = drawn + 1
                  <4>1. PICK n \in Nat : n = drawn + 1
                        BY <1>1
                  <4>2. PICK p : p = [id |-> n, text |-> 0]
                        OBVIOUS
                  <4>3. p.id = n /\ p = Pin(n)
                        BY <4>2 DEF Pin
                  <4>4. p \in Drawings
                        BY <4>1, <4>2 DEF Drawings
                  <4>5. QED BY <4>1, <4>3, <4>4
            <3>2. /\ Len(pins) \in Nat /\ DOMAIN pins = 1..Len(pins)
                  /\ Len(pins') = Len(pins) + 1 /\ DOMAIN pins' = 1..Len(pins) + 1
                  /\ pins'[Len(pins) + 1] = p /\ \A i \in 1..Len(pins) : pins'[i] = pins[i]
                  BY <1>1, <2>3, <3>1
            <3>3. \A i \in DOMAIN pins' : pins'[i].id \in 1..drawn + 1
                  <4>1. ASSUME NEW i \in DOMAIN pins' PROVE pins'[i].id \in 1..drawn + 1
                        <5>1. CASE i \in DOMAIN pins
                              BY <1>1, <3>2, <5>1 DEF Named
                        <5>2. CASE i = Len(pins) + 1
                              BY <1>1, <3>1, <3>2, <5>2
                        <5>3. QED BY <3>2, <5>1, <5>2
                  <4>2. QED BY <4>1
            <3>4. QED BY <1>1, <2>1, <3>2, <3>3 DEF Named
      <2>4. QED BY <2>1, <2>2, <2>3
<1>6. CASE Pointing
      <2>1. CASE PressClear
            BY <1>3, <2>1 DEF PressClear, ClearAnnotations
      <2>2. CASE (\E s \in Marks : PressStroke(s)) \/ PressEdge \/ Drag \/ ReleasePin \/ ReleaseEdge
            BY <2>2 DEF PressStroke, PressEdge, Drag, ReleasePin, ReleaseEdge
      <2>3. CASE \E i \in Marks : DoublePressPin(i)
            BY <1>4, <2>3 DEF DoublePressPin
      <2>4. CASE \E i \in Marks : PressPin(i)
            BY <1>2, <2>4 DEF PressPin
      <2>5. CASE PressSurface
            BY <1>2, <2>5 DEF PressSurface
      <2>6. QED BY <1>5, <1>6, <2>1, <2>2, <2>3, <2>4, <2>5 DEF Pointing
<1>7. CASE Typing
      BY <1>2, <1>7 DEF Typing, Type, FinalizeEditingPin, CancelEditingPin, EditPrompt, layer
<1>8. CASE Surroundings
      BY <1>3, <1>8 DEF Surroundings, Configure, LeaveConfigure, EnterEditingMode,
         CancelEditing, CancelEditingToPicking, ServerLost, SessionEnds,
         ClearAnnotations, layer
<1>9. CASE Capturing
      <2>1. CASE HandleGo
            BY <1>3, <2>1 DEF HandleGo, StartCapture, ClearAnnotations
      <2>2. CASE HandleInsertCreate
            BY <1>2, <1>3, <2>2 DEF HandleInsertCreate, StartCapture, ClearAnnotations
      <2>3. CASE \E c \in captures : Decorate(c) \/ Shoot(c) \/ Upload(c)
            BY <2>3 DEF Decorate, Shoot, Upload, layer
      <2>4. QED BY <1>9, <2>1, <2>2, <2>3 DEF Capturing
<1>10. CASE UNCHANGED annotationVars
       BY <1>10 DEF annotationVars, layer
<1>11. QED BY <1>6, <1>7, <1>8, <1>9, <1>10 DEF AnnotationsNext

\* The bounds hold from the beginning, and every step keeps them.
LEMMA BoundedFromTheStart == AnnotationsInit => LayerBounded /\ Named(pins, drawn)
<1>1. AnnotationsInit => Named(pins, drawn)
      BY DEF AnnotationsInit, Named
<1>2. AnnotationsInit => LayerBounded
      <2>1. Len(<<>>) = 0 /\ 0 <= MaxMarks /\ 0 <= MaxGoes
            BY MarksAssumption
      <2>2. AnnotationsInit => shown = <<>> /\ drawn = 0 /\ lastPress = 0 /\ strokes = {} /\ pointer.what # "new"
            BY DEF AnnotationsInit, Nothing
      <2>3. QED BY <2>1, <2>2 DEF AnnotationsInit, LayerBounded
<1>3. QED BY <1>1, <1>2

LEMMA PointingBounded ==
  ASSUME PlacesInv, LayerBounded, Pointing
  PROVE  LayerBounded'
<1>1. MaxMarks \in Nat /\ drawn \in Nat /\ lastPress \in Nat /\ Nothing.what = "nothing"
      /\ Marks = 1..MaxMarks /\ pointer \in {Nothing} \cup Presses
      BY MarksAssumption DEF PlacesInv, Nothing, Marks
<1>2. CASE PressClear
      BY <1>1, <1>2 DEF PressClear, ClearAnnotations, Quietly, captureVars, LayerBounded
<1>3. ASSUME NEW s \in Marks, PressStroke(s) PROVE LayerBounded'
      BY <1>1, <1>3 DEF PressStroke, Quietly, captureVars, LayerBounded
<1>4. ASSUME NEW i \in Marks, DoublePressPin(i) PROVE LayerBounded'
      BY <1>1, <1>4 DEF DoublePressPin, Quietly, captureVars, LayerBounded
<1>5. ASSUME NEW i \in Marks, PressPin(i) PROVE LayerBounded'
      <2>1. /\ lastPress' = i /\ (pointer' = pointer \/ pointer'.what # "new")
            /\ UNCHANGED <<mode, kind, prompt, offered, shown, active, strokes, resizing, drawn>>
            BY <1>1, <1>5 DEF PressPin, Quietly, Holding, captureVars
      <2>2. QED BY <1>1, <2>1 DEF LayerBounded
<1>6. CASE PressSurface
      <2>1. /\ lastPress' = 0 /\ (pointer' = pointer \/ drawn < MaxMarks)
            /\ UNCHANGED <<mode, kind, prompt, offered, shown, active, strokes, resizing, drawn>>
            BY <1>6 DEF PressSurface, Quietly, captureVars
      <2>2. QED BY <1>1, <2>1 DEF LayerBounded
<1>7. CASE PressEdge
      BY <1>1, <1>7 DEF PressEdge, Quietly, captureVars, LayerBounded
<1>8. CASE Drag
      <2>1. /\ lastPress' = 0 /\ (pointer' = Nothing \/ pointer' = [pointer EXCEPT !.moved = TRUE])
            /\ pointer # Nothing
            /\ UNCHANGED <<mode, kind, prompt, offered, shown, active, strokes, resizing, drawn>>
            BY <1>8 DEF Drag, Quietly, captureVars
      <2>2. [pointer EXCEPT !.moved = TRUE].what = pointer.what
            BY <1>1, <2>1 DEF Presses
      <2>3. pointer'.what = "new" => pointer.what = "new"
            BY <1>1, <2>1, <2>2
      <2>4. QED BY <1>1, <2>1, <2>3 DEF LayerBounded
<1>9. CASE ReleasePin
      <2>1. /\ lastPress' \in {0, lastPress} /\ pointer' = Nothing
            /\ UNCHANGED <<mode, kind, prompt, offered, shown, active, strokes, resizing, drawn>>
            BY <1>9 DEF ReleasePin, Quietly, captureVars
      <2>2. QED BY <1>1, <2>1 DEF LayerBounded
<1>10. CASE ReleaseMark
       <2>1. /\ lastPress' = 0 /\ pointer' = Nothing /\ drawn' = drawn + 1
             /\ pointer.what = "new" /\ strokes' \in {strokes, strokes \cup {drawn + 1}}
             /\ UNCHANGED <<mode, kind, prompt, shown, active, resizing>>
             BY <1>10 DEF ReleaseMark
       <2>2. offered' \in BOOLEAN
             BY <1>10 DEF ReleaseMark, SyncInsertCreateButton, CanCreateInsert, LayerBounded
       <2>3. strokes' \subseteq 1..drawn'
             BY <1>1, <2>1 DEF LayerBounded
       <2>4. drawn' <= MaxMarks
             BY <1>1, <2>1 DEF LayerBounded
       <2>5. QED BY <1>1, <2>1, <2>2, <2>3, <2>4 DEF LayerBounded
<1>11. CASE ReleaseEdge
       BY <1>1, <1>11 DEF ReleaseEdge, Quietly, captureVars, LayerBounded
<1>12. QED BY <1>2, <1>3, <1>4, <1>5, <1>6, <1>7, <1>8, <1>9, <1>10, <1>11 DEF Pointing

\* What the other steps may do to what is bounded.
LEMMA BoundedIfCleared ==
  ASSUME PlacesInv, LayerBounded,
         mode' \in {"off", "configure", "text", "session"}, kind' \in {"replace", "insert"},
         active' \in BOOLEAN, resizing' \in BOOLEAN, prompt' \in BOOLEAN, offered' \in BOOLEAN,
         drawn' = drawn, lastPress' \in {0, lastPress}, pointer' \in {Nothing, pointer},
         strokes' \in {{}, strokes}, shown' = shown \/ Len(shown') <= MaxGoes
  PROVE  LayerBounded'
<1>1. MaxMarks \in Nat /\ drawn \in Nat /\ lastPress \in Nat /\ Nothing.what = "nothing"
      BY MarksAssumption DEF PlacesInv, Nothing
<1>2. lastPress' <= MaxMarks /\ (pointer'.what = "new" => pointer.what = "new")
      BY <1>1 DEF LayerBounded
<1>3. strokes' \subseteq 1..drawn'
      BY DEF LayerBounded
<1>4. QED BY <1>2, <1>3 DEF LayerBounded

LEMMA BoundedSteps ==
  ASSUME AnnotationsInv, LayerBounded, [AnnotationsNext]_annotationVars
  PROVE  LayerBounded'
<1>1. PlacesInv /\ MaxMarks \in Nat
      BY MarksAssumption DEF AnnotationsInv
<1>2. CASE Pointing
      BY <1>1, <1>2, PointingBounded
<1>3. CASE Typing
      <2>1. CASE EditPrompt
            <3>1. offered' \in BOOLEAN /\ prompt' \in BOOLEAN
                  BY <2>1 DEF EditPrompt, SyncInsertCreateButton, CanCreateInsert, LayerBounded
            <3>2. UNCHANGED <<mode, kind, active, resizing, drawn, lastPress, pointer, strokes, shown>>
                  BY <2>1 DEF EditPrompt, layer
            <3>3. QED BY <1>1, <3>1, <3>2, BoundedIfCleared DEF LayerBounded
      <2>2. CASE Type \/ FinalizeEditingPin \/ CancelEditingPin
            <3>1. lastPress' = 0 /\ UNCHANGED <<mode, kind, active, resizing, drawn, pointer, strokes, shown, prompt, offered>>
                  BY <2>2 DEF Type, FinalizeEditingPin, CancelEditingPin, Quietly
            <3>2. QED BY <1>1, <3>1, BoundedIfCleared DEF LayerBounded
      <2>3. QED BY <1>3, <2>1, <2>2 DEF Typing
<1>4. CASE Surroundings
      <2>1. /\ mode' \in {"off", "configure", "text"} /\ kind' \in {"replace", "insert"}
            /\ active' \in BOOLEAN /\ resizing' \in BOOLEAN
            BY <1>4 DEF Surroundings, Configure, LeaveConfigure, EnterEditingMode, CancelEditing,
               CancelEditingToPicking, ServerLost, SessionEnds, HideAnnotOverlay, layer, LayerBounded
      <2>2. /\ prompt' \in BOOLEAN /\ offered' \in BOOLEAN /\ drawn' = drawn /\ shown' = shown
            BY <1>4 DEF Surroundings, Configure, LeaveConfigure, EnterEditingMode, CancelEditing,
               CancelEditingToPicking, ServerLost, SessionEnds, layer, LayerBounded
      <2>3. /\ lastPress' \in {0, lastPress} /\ pointer' \in {Nothing, pointer}
            /\ strokes' \in {{}, strokes}
            BY <1>4 DEF Surroundings, Configure, LeaveConfigure, EnterEditingMode, CancelEditing,
               CancelEditingToPicking, ServerLost, SessionEnds, ClearAnnotations, layer
      <2>4. QED BY <1>1, <2>1, <2>2, <2>3, BoundedIfCleared
<1>5. CASE Capturing
      <2>1. CASE StartCapture
            <3>1. Len(shown') <= MaxGoes
                  BY <2>1, MarksAssumption DEF StartCapture, AnnotationsInv, SessionsInv
            <3>2. /\ mode' = "session" /\ active' = FALSE /\ resizing' = FALSE /\ lastPress' = 0
                  /\ pointer' = Nothing /\ strokes' = {} /\ UNCHANGED <<kind, prompt, offered, drawn>>
                  BY <2>1 DEF StartCapture, HideAnnotOverlay, ClearAnnotations
            <3>3. QED BY <1>1, <3>1, <3>2, BoundedIfCleared DEF LayerBounded
      <2>2. CASE HandleInsertCreate /\ ~StartCapture
            <3>1. UNCHANGED <<mode, kind, prompt, offered, shown, active, strokes, pointer, lastPress, resizing, drawn>>
                  BY <2>2 DEF HandleInsertCreate, Quietly
            <3>2. QED BY <1>1, <3>1, BoundedIfCleared DEF LayerBounded
      <2>3. CASE \E c \in captures : Decorate(c) \/ Shoot(c) \/ Upload(c)
            <3>1. UNCHANGED <<mode, kind, prompt, offered, shown, active, strokes, pointer, lastPress, resizing, drawn>>
                  BY <2>3 DEF Decorate, Shoot, Upload, layer
            <3>2. QED BY <1>1, <3>1, BoundedIfCleared DEF LayerBounded
      <2>4. QED BY <1>5, <2>1, <2>2, <2>3 DEF Capturing, HandleGo
<1>6. CASE UNCHANGED annotationVars
      <2>1. UNCHANGED <<mode, kind, prompt, offered, shown, active, strokes, pointer, lastPress, resizing, drawn>>
            BY <1>6 DEF annotationVars, layer
      <2>2. QED BY <1>1, <2>1, BoundedIfCleared DEF LayerBounded
<1>7. QED BY <1>2, <1>3, <1>4, <1>5, <1>6 DEF AnnotationsNext

\* What is bounded so is of its types.
LEMMA AnnotationsTyped ==
  AnnotationsInv /\ LayerBounded /\ Named(pins, drawn) => AnnotationsTypeOK
<1> SUFFICES ASSUME AnnotationsInv, LayerBounded, Named(pins, drawn)
             PROVE  AnnotationsTypeOK
    OBVIOUS
<1>0. MaxMarks \in Nat /\ drawn \in Nat /\ drawn <= MaxMarks /\ lastPress \in Nat /\ Marks = 1..MaxMarks
      /\ pins \in Seq(Drawings) /\ OwnNotes(pins)
      BY MarksAssumption DEF AnnotationsInv, PlacesInv, LayerBounded, Marks
<1>1. pins \in Seq(Notes)
      <2>1. ASSUME NEW i \in 1..Len(pins) PROVE pins[i] \in Notes
            <3>1. pins[i] \in Drawings /\ pins[i].id \in 1..drawn /\ pins[i].text \in {0, pins[i].id}
                  BY <1>0, <2>1 DEF OwnNotes, Named
            <3>2. pins[i].id \in Marks /\ pins[i].text \in 0..MaxMarks
                  BY <1>0, <3>1
            <3>3. pins[i] = [id |-> pins[i].id, text |-> pins[i].text]
                  BY <3>1 DEF Drawings
            <3>4. QED BY <3>2, <3>3 DEF Notes
      <2>2. QED BY <1>0, <2>1
<1>2. Cardinality(captures) <= Len(shown)
      <2>1. /\ shown \in Seq(Snapshots) /\ captures \in SUBSET Captures
            /\ OnePerSession(captures) /\ AsShown(captures)
            BY DEF AnnotationsInv, SessionsInv
      <2>2. Len(shown) \in Nat /\ DOMAIN shown = 1..Len(shown)
            BY <2>1
      <2>3. PICK f : f = [c \in captures |-> c.session]
            OBVIOUS
      <2>4. f \in Injection(captures, 1..Len(shown))
            <3>1. \A c \in captures : f[c] = c.session /\ c.session \in 1..Len(shown)
                  BY <2>1, <2>2, <2>3 DEF AsShown
            <3>2. f \in [captures -> 1..Len(shown)]
                  BY <2>3, <3>1
            <3>3. \A c, d \in captures : f[c] = f[d] => c = d
                  BY <2>1, <3>1 DEF OnePerSession
            <3>4. QED BY <3>2, <3>3 DEF Injection, IsInjective
      <2>5. IsFiniteSet(1..Len(shown)) /\ Cardinality(1..Len(shown)) = Len(shown)
            <3>1. 1 \in Int /\ Len(shown) \in Int
                  BY <2>2
            <3>2. IsFiniteSet(1..Len(shown))
                  BY <3>1, FS_Interval
            <3>3. Cardinality(1..Len(shown)) = IF 1 > Len(shown) THEN 0 ELSE Len(shown) - 1 + 1
                  BY <3>1, FS_Interval
            <3>4. QED BY <2>2, <3>2, <3>3
      <2>6. Cardinality(captures) <= Cardinality(1..Len(shown))
            BY <2>4, <2>5, FS_Injection
      <2>7. QED BY <2>5, <2>6
<1>3. pointer.what \in {"nothing", "new", "pin"} /\ editing.what \in {"nothing", "note"}
      BY DEF AnnotationsInv, PlacesInv, Nothing, Presses, OpenNotes
<1>4. element.position \in {"own", "relative"}
      BY DEF AnnotationsInv, ElementInv, PageElements
<1>5. drawn \in 0..MaxMarks /\ lastPress \in 0..MaxMarks /\ strokes \subseteq Marks /\ Len(pins) <= drawn
      BY <1>0 DEF LayerBounded, Named
<1>6. QED BY <1>1, <1>2, <1>3, <1>4, <1>5 DEF LayerBounded, AnnotationsTypeOK

\* The choice among the variants.
LEMMA TuningTyped == TuningInv => TuningTypeOK
<1> SUFFICES ASSUME TuningInv PROVE TuningTypeOK
    OBVIOUS
<1>1. tab \in Tabs /\ page \in Documents /\ tab.st # "IDLE" /\ CountedIn(Both)
      /\ Both.t = tab /\ Both.p = page
      BY BothParts DEF TuningInv
<1>2. /\ page.count = tab.arrived /\ page.shown <= page.count /\ tab.visible <= tab.arrived
      BY <1>1 DEF CountedIn
<1>3. /\ tab.arrived \in 0..MaxVariants /\ tab.visible \in 0..MaxVariants /\ page.shown \in 0..MaxVariants
      /\ tab.saved \in 0..MaxVariants /\ tab.st \in {"GENERATING", "CYCLING", "SAVING", "OVER"}
      /\ page.mount \in 0..MaxMounts /\ page.knobs \in [Variants -> Knobs] /\ tab.values \in ValueSets
      BY <1>1 DEF Tabs, Documents
<1>4. tab.values.knob \in Knobs
      BY <1>3 DEF ValueSets
<1>5. tab.visible \in 0..tab.arrived /\ page.shown \in 0..page.count
      BY <1>2, <1>3, TuningAssumption
<1>6. QED BY <1>2, <1>3, <1>4, <1>5 DEF TuningTypeOK

\* No more scans are asked for than MaxScans.
ScansBounded == used.scans <= MaxScans

LEMMA ScansStart == DetectInit => ScansBounded
<1> SUFFICES ASSUME DetectInit PROVE ScansBounded
    OBVIOUS
<1>1. used = [scans |-> 0, commands |-> 0, changes |-> 0]
      BY DEF DetectInit
<1>2. QED BY <1>1, DetectAssumption DEF ScansBounded

LEMMA ScansSteps ==
  ASSUME DetectTypes, ScansBounded, [DetectNext]_detectVars
  PROVE  ScansBounded'
<1>1. PICK n \in Nat : n = used.scans
      BY DEF DetectTypes, Uses
<1>2. used \in Uses /\ n <= MaxScans /\ MaxScans \in Nat
      BY <1>1, DetectAssumption DEF DetectTypes, ScansBounded
<1>3. ASSUME NEW k, n < MaxScans, used' = [used EXCEPT !.scans = k], k = n + 1 PROVE ScansBounded'
      <2>1. used'.scans = n + 1
            BY <1>2, <1>3 DEF Uses
      <2>2. QED BY <1>1, <1>2, <1>3, <2>1 DEF ScansBounded
<1>4. ASSUME NEW k, used' = [used EXCEPT !.commands = k] \/ used' = [used EXCEPT !.changes = k] PROVE ScansBounded'
      <2>1. used'.scans = n
            BY <1>1, <1>2, <1>4 DEF Uses
      <2>2. QED BY <1>2, <2>1 DEF ScansBounded
<1>5. CASE used' = used
      BY <1>5 DEF ScansBounded
<1>6. CASE ScanAsync
      BY <1>1, <1>3, <1>6 DEF ScanAsync
<1>7. CASE DetectOn
      BY <1>1, <1>3, <1>5, <1>7 DEF DetectOn
<1>8. CASE DetectOff
      BY <1>4, <1>8 DEF DetectOff
<1>9. CASE Ready
      BY <1>1, <1>3, <1>5, <1>9 DEF Ready
<1>10. CASE PanelScans
       BY <1>1, <1>3, <1>10 DEF PanelScans
<1>11. CASE PanelAsks
       BY <1>4, <1>11 DEF PanelAsks
<1>12. CASE TogglePicking
       BY <1>4, <1>12 DEF TogglePicking
<1>13. CASE \E e \in Elements : Scroll(e)
       BY <1>4, <1>13 DEF Scroll
<1>14. CASE \E e \in Elements : EditPage(e)
       BY <1>4, <1>14 DEF EditPage
<1>15. CASE LockBar \/ ScriptRuns \/ ResultsArrive \/ Teardown
       BY <1>5, <1>15 DEF LockBar, ScriptRuns, ResultsArrive, Teardown
<1>16. CASE Detecting /\ ~ScanAsync
       <2>1. CASE Command \/ (\E e \in Elements : LazyFires(e))
             BY <1>5, <2>1 DEF Command, LazyFires
       <2>2. CASE \E job \in jobs : Analyze(job) \/ JobEnds(job)
             BY <1>5, <2>2 DEF Analyze, JobEnds
       <2>3. CASE \E w \in waiting : LazyResolves(w)
             BY <1>5, <2>3 DEF LazyResolves
       <2>4. QED BY <1>16, <2>1, <2>2, <2>3 DEF Detecting
<1>17. CASE UNCHANGED detectVars
       BY <1>5, <1>17 DEF detectVars
<1>18. QED BY <1>6, <1>7, <1>8, <1>9, <1>10, <1>11, <1>12, <1>13, <1>14, <1>15, <1>16, <1>17
           DEF DetectNext, Toggling, Outer

\* The detector's state.
LEMMA DetectTyped == DrawnInv /\ ScansBounded => DetectTypeOK
<1> SUFFICES ASSUME DrawnInv, ScansBounded PROVE DetectTypeOK
    OBVIOUS
<1>1. DetectTypes /\ \A job \in jobs : job.generation <= detector.generation
      BY DEF DrawnInv, WorkIsKnown
<1>2. /\ host \in {"tab", "panel", "script"} /\ mail \in Seq(Mails) /\ detector \in Detectors
      /\ overlays \in Groupings
      BY <1>1 DEF DetectTypes
<1>3. \A m \in 1..Len(mail) : mail[m].id \in Nat /\ mail[m].count \in Nat
      <2>1. ASSUME NEW m \in 1..Len(mail) PROVE mail[m].id \in Nat /\ mail[m].count \in Nat
            <3>1. mail[m] \in Mails
                  BY <1>2, <2>1
            <3>2. QED BY <3>1 DEF Mails
      <2>2. QED BY <2>1
<1>4. /\ detector.groups \in Groupings /\ detector.generation \in Nat
      /\ detector.lazy \subseteq Elements /\ detector.told \subseteq Elements
      /\ detector.missed \subseteq Elements /\ detector.dimmed \subseteq Elements
      /\ detector.through \subseteq Elements
      BY <1>2 DEF Detectors
<1>5. detector.lazy \cup detector.told \cup detector.missed
        \cup detector.dimmed \cup detector.through \subseteq Elements
      BY <1>4
<1>6. QED BY <1>1, <1>2, <1>3, <1>4, <1>5 DEF DetectTypeOK, ScansBounded, Groupings

\* A version is a write, and what was read is a version; the requests under
\* way are at most MaxPolls.
FilesBounded ==
  /\ past.writes <= MaxWrites /\ disk.md <= past.writes /\ disk.json <= past.writes
  /\ pair.raw <= past.writes /\ design.data.raw <= past.writes
PollsBounded == IsFiniteSet(polls) /\ Cardinality(polls) <= MaxPolls

LEMMA FilesStart == DesignInit => FilesBounded /\ PollsBounded
<1> SUFFICES ASSUME DesignInit PROVE FilesBounded /\ PollsBounded
    OBVIOUS
<1>1. /\ past.writes = 0 /\ disk.md = 0 /\ disk.json = 0 /\ pair.raw = 0 /\ design.data.raw = 0
      BY DEF DesignInit, NoPair, Due, Unread
<1>2. polls = {}
      BY DEF DesignInit
<1>3. QED BY <1>1, <1>2, FS_EmptySet, DesignAssumption DEF FilesBounded, PollsBounded

LEMMA FilesSteps ==
  ASSUME ReadInv, FilesBounded, [Reading]_designVars
  PROVE  FilesBounded'
<1>1. /\ past.writes \in Nat /\ disk.md \in Nat /\ disk.json \in Nat /\ pair.raw \in Nat
      /\ design.data.raw \in Nat /\ MaxWrites \in Nat
      /\ disk \in Disks /\ design \in DesignStates /\ pair \in FetchPairs /\ past \in Pasts
      BY DesignAssumption DEF ReadInv, Disks, DesignStates, FetchPairs, Pasts, Readings
<1>2. ASSUME UNCHANGED disk, past'.writes = past.writes,
             pair'.raw \in {0, pair.raw, disk.md}, design'.data.raw \in {0, design.data.raw, pair.raw}
      PROVE  FilesBounded'
      BY <1>1, <1>2 DEF FilesBounded
<1>3. CASE WriteMd
      <2>1. PICK late \in BOOLEAN : disk' = [disk EXCEPT !.md = @ + 1, !.mdIsNewer = @ \/ late]
            BY <1>3 DEF WriteMd
      <2>2. past' = [past EXCEPT !.writes = @ + 1, !.changed = TRUE] /\ past.writes < MaxWrites
            /\ UNCHANGED <<design, pair>>
            BY <1>3 DEF WriteMd
      <2>3. disk'.md = disk.md + 1 /\ disk'.json = disk.json
            BY <1>1, <2>1 DEF Disks
      <2>4. past'.writes = past.writes + 1
            BY <1>1, <2>2 DEF Pasts
      <2>5. QED BY <1>1, <2>2, <2>3, <2>4 DEF FilesBounded
<1>4. CASE WriteJson
      <2>1. PICK broken \in BOOLEAN : disk' = [disk EXCEPT !.json = @ + 1, !.broken = broken, !.mdIsNewer = FALSE]
            BY <1>4 DEF WriteJson
      <2>2. past' = [past EXCEPT !.writes = @ + 1, !.changed = TRUE] /\ past.writes < MaxWrites
            /\ UNCHANGED <<design, pair>>
            BY <1>4 DEF WriteJson
      <2>3. disk'.json = disk.json + 1 /\ disk'.md = disk.md
            BY <1>1, <2>1 DEF Disks
      <2>4. past'.writes = past.writes + 1
            BY <1>1, <2>2 DEF Pasts
      <2>5. QED BY <1>1, <2>2, <2>3, <2>4 DEF FilesBounded
<1>5. ASSUME NEW d \in DesignStates, d.data.raw = design.data.raw, Fetches(d), disk' = disk
      PROVE  FilesBounded'
      <2>1. design'.data.raw = design.data.raw
            BY <1>5 DEF Fetches, DesignStates, Readings
      <2>2. pair'.raw = 0
            BY <1>5 DEF Fetches, Due
      <2>3. past'.writes = past.writes
            BY <1>1, <1>5 DEF Fetches, Pasts
      <2>4. QED BY <1>2, <1>5, <2>1, <2>2, <2>3
<1>6. ASSUME NEW d \in DesignStates, d.data.raw = design.data.raw, design' = d, disk' = disk, UNCHANGED <<pair, past>>
      PROVE  FilesBounded'
      BY <1>2, <1>6
<1>7. CASE ToggleDesignPanel
      <2>1. PICK d : d = [design EXCEPT !.open = ~@]
            OBVIOUS
      <2>2. d \in DesignStates /\ d.data.raw = design.data.raw
            BY <1>1, <2>1 DEF DesignStates
      <2>3. disk' = disk /\ (Fetches(d) \/ (design' = d /\ UNCHANGED <<pair, past>>))
            BY <1>7, <2>1 DEF ToggleDesignPanel
      <2>4. QED BY <1>5, <1>6, <2>2, <2>3
<1>8. ASSUME NEW t \in {"visual", "raw"}, PickTab(t) PROVE FilesBounded'
      <2>1. PICK d : d = [design EXCEPT !.tab = t]
            OBVIOUS
      <2>2. d \in DesignStates /\ d.data.raw = design.data.raw
            BY <1>1, <1>8, <2>1 DEF DesignStates
      <2>3. disk' = disk /\ (Fetches(d) \/ (design' = d /\ UNCHANGED <<pair, past>>))
            BY <1>8, <2>1 DEF PickTab
      <2>4. QED BY <1>5, <1>6, <2>2, <2>3
<1>9. CASE ServeJson
      <2>1. pair'.raw = pair.raw /\ UNCHANGED <<disk, design, past>>
            BY <1>1, <1>9 DEF ServeJson, FetchPairs
      <2>2. QED BY <1>2, <2>1
<1>10. CASE ServeRaw
      <2>1. pair'.raw = disk.md /\ UNCHANGED <<disk, design, past>>
            BY <1>1, <1>10 DEF ServeRaw, FetchPairs, RawAnswer
      <2>2. QED BY <1>2, <2>1
<1>11. CASE Fetched
      <2>1. design'.data.raw \in {0, pair.raw}
            BY <1>1, <1>11 DEF Fetched, DesignStates
      <2>2. pair'.raw = 0 /\ UNCHANGED <<disk, past>>
            BY <1>11 DEF Fetched, NoPair, Due
      <2>3. QED BY <1>2, <2>1, <2>2
<1>12. CASE FetchFails
      <2>1. design'.data.raw = design.data.raw
            BY <1>1, <1>12 DEF FetchFails, DesignStates, Readings
      <2>2. pair'.raw = 0 /\ UNCHANGED disk
            BY <1>12 DEF FetchFails, NoPair, Due
      <2>3. past'.writes = past.writes
            BY <1>1, <1>12 DEF FetchFails, Pasts
      <2>4. QED BY <1>2, <2>1, <2>2, <2>3
<1>13. CASE LockPanel
      <2>1. design'.data.raw = design.data.raw /\ UNCHANGED <<disk, pair, past>>
            BY <1>1, <1>13 DEF LockPanel, DesignStates
      <2>2. QED BY <1>2, <2>1
<1>14. CASE UNCHANGED designVars
      BY <1>2, <1>14 DEF designVars
<1>15. QED BY <1>3, <1>4, <1>7, <1>8, <1>9, <1>10, <1>11, <1>12, <1>13, <1>14 DEF Reading

LEMMA WatchKeepsFiles ==
  ASSUME ReadInv, FilesBounded, [Watching]_designVars
  PROVE  FilesBounded'
<1>1. UNCHANGED <<disk, design, pair>>
      BY DEF Watching, Poll, PollServed, PollAnswered, PollFails,
             AgentComesOrGoes, ShowTip, HideTip, StopPolling, designVars
<1>2. past \in Pasts
      BY DEF ReadInv
<1>3. past'.writes = past.writes
  <2>1. CASE Poll
        BY <1>2, <2>1 DEF Poll, Pasts
  <2>2. CASE \E p \in polls : PollAnswered(p)
    <3> PICK p \in polls : PollAnswered(p)
        BY <2>2
    <3>1. PICK n, b : past' = [past EXCEPT !.answered = n, !.overtaken = b]
          BY DEF PollAnswered
    <3>2. QED BY <1>2, <3>1 DEF Pasts
  <2>3. CASE AgentComesOrGoes
        BY <1>2, <2>3 DEF AgentComesOrGoes, Pasts
  <2>4. CASE ~Poll /\ ~AgentComesOrGoes /\ ~(\E p \in polls : PollAnswered(p))
        BY <2>4 DEF Watching, PollServed, PollFails, ShowTip, HideTip,
                    StopPolling, designVars
  <2>5. QED BY <2>1, <2>2, <2>3, <2>4
<1>4. QED BY <1>1, <1>3 DEF FilesBounded

LEMMA PollsSteps ==
  ASSUME PollsBounded, [Watching]_designVars \/ [Reading]_designVars
  PROVE  PollsBounded'
<1>1. MaxPolls \in Nat /\ IsFiniteSet(polls) /\ Cardinality(polls) \in Nat /\ Cardinality(polls) <= MaxPolls
      BY DesignAssumption, FS_CardinalityType DEF PollsBounded
<1>2. CASE polls' = polls
      BY <1>2 DEF PollsBounded
<1>3. ASSUME NEW p \in polls, polls' = polls \ {p} PROVE PollsBounded'
      <2>1. IsFiniteSet(polls \ {p}) /\ Cardinality(polls \ {p}) = Cardinality(polls) - 1
            BY <1>1, <1>3, FS_RemoveElement
      <2>2. QED BY <1>1, <1>3, <2>1 DEF PollsBounded
<1>4. CASE Poll
      <2>1. PICK q : polls' = polls \cup {q} /\ Cardinality(polls) < MaxPolls
            BY <1>4 DEF Poll
      <2>2. IsFiniteSet(polls \cup {q}) /\ Cardinality(polls \cup {q}) \in {Cardinality(polls), Cardinality(polls) + 1}
            BY <1>1, FS_AddElement
      <2>3. QED BY <1>1, <2>1, <2>2 DEF PollsBounded
<1>5. ASSUME NEW p \in polls, PollServed(p) PROVE PollsBounded'
      <2>1. PICK rest, q : rest = polls \ {p} /\ polls' = rest \cup {q}
            BY <1>5 DEF PollServed
      <2>2. IsFiniteSet(rest) /\ Cardinality(rest) = Cardinality(polls) - 1
            BY <1>1, <1>5, <2>1, FS_RemoveElement
      <2>3. IsFiniteSet(rest \cup {q}) /\ Cardinality(rest \cup {q}) \in {Cardinality(rest), Cardinality(rest) + 1}
            BY <2>2, FS_AddElement
      <2>4. QED BY <1>1, <2>1, <2>2, <2>3 DEF PollsBounded
<1>6. CASE [Reading]_designVars
      <2>1. polls' = polls
            BY <1>6 DEF Reading, WriteMd, WriteJson, ToggleDesignPanel, PickTab, Fetches,
               ServeJson, ServeRaw, Fetched, FetchFails, LockPanel, designVars
      <2>2. QED BY <1>2, <2>1
<1>7. CASE [Watching]_designVars
      <2>1. ASSUME NEW p \in polls, PollAnswered(p) \/ PollFails(p) PROVE PollsBounded'
            BY <1>3, <2>1 DEF PollAnswered, PollFails
      <2>2. CASE AgentComesOrGoes \/ ShowTip \/ HideTip \/ StopPolling \/ UNCHANGED designVars
            BY <1>2, <2>2 DEF AgentComesOrGoes, ShowTip, HideTip, StopPolling, designVars
      <2>3. QED BY <1>4, <1>5, <1>7, <2>1, <2>2 DEF Watching
<1>8. QED BY <1>6, <1>7

\* The panel's state and the mark's.
LEMMA DesignTyped == ReadInv /\ FilesBounded /\ PollsBounded => DesignTypeOK
<1> SUFFICES ASSUME ReadInv, FilesBounded, PollsBounded PROVE DesignTypeOK
    OBVIOUS
<1>1. /\ past.writes \in Nat /\ disk.md \in Nat /\ disk.json \in Nat /\ design.data.raw \in Nat
      /\ MaxWrites \in Nat /\ design.data.present \in {"unknown", "yes", "no"}
      BY DesignAssumption DEF ReadInv, Disks, DesignStates, Pasts, Readings
<1>2. disk.md \in 0..MaxWrites /\ disk.json \in 0..MaxWrites /\ design.data.raw \in 0..MaxWrites
      BY <1>1 DEF FilesBounded
<1>3. QED BY <1>1, <1>2 DEF DesignTypeOK, PollsBounded, ReadInv

-----------------------------------------------------------------------------
\* What the two properties of the other tools and of the panels rest on.
PanelsInv == DrawnInv /\ TabInv /\ ReadInv /\ MarkInv
BoundsInv ==
  /\ LayerBounded /\ Named(pins, drawn)
  /\ ScansBounded /\ FilesBounded /\ PollsBounded
ToolsInv == TuningInv /\ AnnotationsInv /\ PanelsInv /\ CascadeInv /\ BoundsInv

\* Every tool's state moves by the tool's own steps or not at all.
LEMMA ToolsMove ==
  ASSUME [Next]_toolVars
  PROVE  /\ [TuningNext]_tuningVars /\ [AnnotationsNext]_annotationVars
         /\ [DetectNext]_detectVars /\ [CascadeNext]_cascadeVars
         /\ [Reading]_designVars \/ [Watching]_designVars
<1>1. [TuningNext]_tuningVars
      BY DEF Next, AnnotationsMove, TuningMoves, DetectorMoves, DesignMoves,
         AgentMoves, CascadeMoves, toolVars
<1>2. [AnnotationsNext]_annotationVars
      BY DEF Next, AnnotationsMove, TuningMoves, DetectorMoves, DesignMoves,
         AgentMoves, CascadeMoves, toolVars
<1>3. [DetectNext]_detectVars
      BY DEF Next, AnnotationsMove, TuningMoves, DetectorMoves, DesignMoves,
         AgentMoves, CascadeMoves, toolVars
<1>4. [Reading]_designVars \/ [Watching]_designVars
      BY DEF Next, AnnotationsMove, TuningMoves, DetectorMoves, DesignMoves,
         AgentMoves, CascadeMoves, toolVars
<1>5. [CascadeNext]_cascadeVars
      BY DEF Next, AnnotationsMove, TuningMoves, DetectorMoves, DesignMoves,
         AgentMoves, CascadeMoves, toolVars
<1>6. QED BY <1>1, <1>2, <1>3, <1>4, <1>5

\* The detector's account, and the design panel's with the mark's.
LEMMA PanelsSteps ==
  ASSUME PanelsInv, [Next]_toolVars
  PROVE  PanelsInv'
<1>1. DrawnInv' /\ TabInv'
      BY ToolsMove, DrawnSteps, TabSteps DEF PanelsInv
<1>2. CASE [Reading]_designVars
  <2>1. ReadInv'
        BY <1>2, ReadSteps DEF PanelsInv
  <2>2. MarkInv'
        BY <1>2, <2>1, ReadKeepsMark DEF PanelsInv
  <2>3. QED BY <1>1, <2>1, <2>2 DEF PanelsInv
<1>3. CASE [Watching]_designVars
  <2>1. MarkInv'
        BY <1>3, MarkSteps DEF PanelsInv
  <2>2. ReadInv'
        BY <1>3, <2>1, WatchKeepsRead DEF PanelsInv
  <2>3. QED BY <1>1, <2>1, <2>2 DEF PanelsInv
<1>4. QED BY <1>2, <1>3, ToolsMove

\* The bounds of every tool.
LEMMA BoundsSteps ==
  ASSUME AnnotationsInv, PanelsInv, BoundsInv, [Next]_toolVars
  PROVE  BoundsInv'
<1>1. LayerBounded' /\ Named(pins, drawn)'
      <2>1. PlacesInv /\ [AnnotationsNext]_annotationVars
            BY ToolsMove DEF AnnotationsInv
      <2>2. LayerBounded'
            BY <2>1, BoundedSteps DEF BoundsInv
      <2>3. Named(pins', drawn')
            BY <2>1, NamesKept DEF BoundsInv
      <2>4. QED BY <2>2, <2>3 DEF Named
<1>2. ScansBounded'
      BY ToolsMove, ScansSteps DEF BoundsInv, PanelsInv, DrawnInv
<1>3. FilesBounded'
      BY ToolsMove, FilesSteps, WatchKeepsFiles DEF BoundsInv, PanelsInv
<1>4. PollsBounded'
      BY ToolsMove, PollsSteps DEF BoundsInv
<1>5. QED BY <1>1, <1>2, <1>3, <1>4 DEF BoundsInv

\* All the invariants hold in every state of the composition.
LEMMA ToolsInvariant == Spec => []ToolsInv
<1>1. Init => ToolsInv
  <2>1. Init => TuningInv /\ AnnotationsInv /\ PanelsInv /\ CascadeInv
        BY TuningStarts, AnnotationsStart, DrawnStarts, TabStarts, ReadStarts,
           MarkStarts, CascadeStarts DEF Init, PanelsInv
  <2>2. Init => BoundsInv
        BY BoundedFromTheStart, ScansStart, FilesStart DEF Init, BoundsInv
  <2>3. QED BY <2>1, <2>2 DEF ToolsInv
<1>2. ToolsInv /\ [Next]_toolVars => ToolsInv'
      BY ToolsMove, TuningSteps, AnnotationsSteps, PanelsSteps,
         CascadeSteps, BoundsSteps DEF ToolsInv
<1>3. QED BY <1>1, <1>2, PTL DEF Spec

\* Until one of the named steps parts them, the page, the tab, localStorage
\* and the server hold one choice, and an accept takes what the page shows:
\* cycleVariant, handleAccept, refreshParamsPanel and resumeSession agree.
THEOREM OneChoice == Spec => []OneChoiceEverywhere
<1>1. ToolsInv => OneChoiceEverywhere
      BY TuningImplies DEF ToolsInv
<1>2. QED BY <1>1, ToolsInvariant, PTL

\* A note stays with the pin it was typed for, what can be created is on
\* offer, and every Go is posted once with what the layer showed, the page's
\* element being put back: the pointer handlers and captureAndEmit.
THEOREM MarksAreSent == Spec => []MarksReachTheAgent
<1>1. ToolsInv => MarksReachTheAgent
      BY AnnotationsImply DEF ToolsInv
<1>2. QED BY <1>1, ToolsInvariant, PTL

\* The overlays are the last scan's, and every faint text in view is among
\* them; the Detect badge agrees with them once the mail is empty, and nothing
\* stays when Detect is off; the design panel shows what DESIGN.md and
\* design.json say, and the agent's mark what the server last said: scan,
\* remove and the lazy observer, onDetectMessage, fetchDesignSystem and
\* syncAgentPollingUi.
THEOREM PanelsAreTrue == Spec => []PanelsTellTheTruth
<1>1. DrawnInv => OverlaysAreTheLastScans /\ VisibleTextIsChecked
      BY DrawnImplies
<1>2. DrawnInv /\ TabInv => BadgeTellsTheTruth
      BY TabImplies
<1>3. ReadInv => PanelMatchesTheFiles
      BY ReadImplies
<1>4. MarkInv => MarkFollowsTheAgent
      BY MarkImplies
<1>5. ToolsInv => PanelsTellTheTruth
      BY <1>1, <1>2, <1>3, <1>4 DEF ToolsInv, PanelsInv, PanelsTellTheTruth
<1>6. QED BY <1>5, ToolsInvariant, PTL

\* For every set of declarations on the page, in every order, what the static
\* engine computes for an element is what a browser would: the winner by
\* importance, the style attribute, specificity and order, inheritance,
\* lengths and custom properties, but for the values the engine reads too
\* soon: setDecl, applyDeclaration, normalizeDeclaration and computeNode.
THEOREM StylesAreRight == Spec => []StylesAreTheBrowsers
<1>1. ToolsInv => StylesAreTheBrowsers
      BY StylesRight DEF ToolsInv
<1>2. QED BY <1>1, ToolsInvariant, PTL
\* Every tool's state keeps to its type: the marks are named once each and at
\* most MaxMarks, a capture is of a session that began, the page holds the
\* variants the tab counts, a job is of no later generation than the
\* detector's, and the panel waits exactly while its pair of answers is out.
THEOREM ToolsTyped == Spec => []LiveToolsTypeOK
<1>1. ToolsInv => AnnotationsTypeOK /\ TuningTypeOK /\ CascadeTypeOK
      BY AnnotationsTyped, TuningTyped, CascadeTyped DEF ToolsInv, BoundsInv
<1>2. ToolsInv => DetectTypeOK /\ DesignTypeOK
      BY DetectTyped, DesignTyped DEF ToolsInv, PanelsInv, BoundsInv
<1>3. ToolsInv => LiveToolsTypeOK
      BY <1>1, <1>2 DEF LiveToolsTypeOK
<1>4. QED BY <1>3, ToolsInvariant, PTL
=============================================================================
