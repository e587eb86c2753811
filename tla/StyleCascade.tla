----------------------------- MODULE StyleCascade -----------------------------
(***************************************************************************)
(* How the detector computes styles without a browser: the rules of a page *)
(* are walked once, in source order, every declaration is expanded into    *)
(* longhands and offered to the elements its selector matches, which keep  *)
(* the strongest; style attributes follow; then the elements are computed  *)
(* from the root down.                                                     *)
(*                                                                         *)
(* The elements are a chain, 1 the root and n + 1 the child of n.  Of the  *)
(* text of a declaration its property, its importance and a small value    *)
(* are kept: px lengths, multiples of the font size, colours (numbers),    *)
(* references to the custom properties --x and --y, and `inherit`.         *)
(* Selectors are the set they match and one number for the specificity.    *)
(***************************************************************************)
EXTENDS Integers, Sequences, SequencesExt

CONSTANTS
    Depth,              \* elements of the page
    MaxDeclarations     \* declarations of the page

ASSUME CascadeAssumption == Depth \in Nat \ {0} /\ MaxDeclarations \in Nat

VARIABLES
    css,        \* what the page says, in source order
    specified,  \* per element, a Map: the longhands in order of first entry
    styles      \* the computed styles, empty before they are computed

cascadeVars == <<css, specified, styles>>

Nodes == 1..Depth
Custom == {"--x", "--y"}
Sides == <<"paddingTop", "paddingRight", "paddingBottom", "paddingLeft">>

\* STATIC_INHERITED_PROPS and STATIC_DEFAULT_STYLE.
Inherited == {"color", "fontSize", "letterSpacing"}
Px(n) == [unit |-> "px", n |-> n]
Em(n) == [unit |-> "em", n |-> n]
Tint(n) == [unit |-> "tint", n |-> n]
Var(x) == [unit |-> x, n |-> 0]
\* The strength of a rule's declaration: its selector's, or !important.
Strengths == {[important |-> FALSE, specificity |-> 1],
              [important |-> FALSE, specificity |-> 2],
              [important |-> TRUE, specificity |-> 1]}
Inherit == [unit |-> "inherit", n |-> 0]
None == [unit |-> "none", n |-> 0]
Default ==
    [color |-> Tint(0), backgroundColor |-> None, fontSize |-> Px(16),
     letterSpacing |-> None, borderWidth |-> Px(0), borderColor |-> Tint(0),
     paddingTop |-> Px(0), paddingRight |-> Px(0), paddingBottom |-> Px(0),
     paddingLeft |-> Px(0)]

-----------------------------------------------------------------------------
(* Declarations and what they expand to.                                   *)

Says(prop, value) == [prop |-> prop, values |-> <<value>>]
\* A page is about one subject, which keeps the declarations to choose from
\* few.  A shorthand has several values; None is one it leaves out.
Subjects == {"sizes", "colours", "boxes"}
Texts(subject) ==
    CASE subject = "sizes" ->
           {Says("font-size", Em(2)), Says("font-size", Px(20)),
            Says("letter-spacing", Em(1)), Says("letter-spacing", Inherit)}
      [] subject = "colours" ->
           {Says("color", Tint(1)), Says("--x", Tint(2)),
            Says("--x", Var("--y")), Says("--y", Tint(3)),
            Says("--y", Tint(4))}
      [] subject = "boxes" ->
           {[prop |-> "border", values |-> <<Px(1), Tint(1)>>],
            [prop |-> "border", values |-> <<Px(2), None>>],
            Says("padding-left", Px(9)),
            [prop |-> "padding", values |-> <<Px(1), Px(2), Px(3)>>]}

\* cssPropToCamel.
Camel(prop) ==
    CASE prop = "font-size" -> "fontSize"
      [] prop = "letter-spacing" -> "letterSpacing"
      [] prop = "background-color" -> "backgroundColor"
      [] prop = "padding-left" -> "paddingLeft"
      [] OTHER -> prop

\* The left side taken from the top.
BoxValuesFromTop(tokens) ==
    CASE Len(tokens) = 1 -> <<tokens[1], tokens[1], tokens[1], tokens[1]>>
      [] Len(tokens) = 2 -> <<tokens[1], tokens[2], tokens[1], tokens[2]>>
      [] Len(tokens) = 3 -> <<tokens[1], tokens[2], tokens[3], tokens[1]>>
      [] OTHER -> SubSeq(tokens, 1, 4)

\* expandStaticBoxValues.
BoxValues(tokens) ==
    CASE Len(tokens) = 1 -> <<tokens[1], tokens[1], tokens[1], tokens[1]>>
      [] Len(tokens) = 2 -> <<tokens[1], tokens[2], tokens[1], tokens[2]>>
      [] Len(tokens) = 3 -> <<tokens[1], tokens[2], tokens[3], tokens[2]>>
      [] OTHER -> SubSeq(tokens, 1, 4)

\* expandStaticDeclaration: a list of longhands with their values.
Expanded(prop, values) ==
    CASE prop = "padding" ->
           [i \in 1..4 |-> <<Sides[i], BoxValues(values)[i]>>]
      [] prop = "border" /\ values[2] = None -> <<<<"borderWidth", values[1]>>>>
      [] prop = "border" /\ values[2] # None ->
           <<<<"borderWidth", values[1]>>, <<"borderColor", values[2]>>>>
      [] OTHER -> <<<<Camel(prop), values[1]>>>>

\* compareStaticPriority: whether b takes the place of a.
TakesPlace(a, b) ==
    IF a.important # b.important THEN b.important
    ELSE IF a.inline # b.inline THEN b.inline
    ELSE IF a.specificity # b.specificity THEN b.specificity > a.specificity
    ELSE b.order >= a.order

\* applyStaticDeclaration on the Map of one element: a longhand keeps the
\* place of its first entry whatever value it gets later.
Entry(d, pair) ==
    [prop |-> pair[1], value |-> pair[2], important |-> d.important,
     inline |-> d.inline, specificity |-> d.specificity, order |-> d.order]
Offered(map, entry) ==
    IF \A i \in DOMAIN map : map[i].prop # entry.prop THEN Append(map, entry)
    ELSE [i \in DOMAIN map |->
            IF map[i].prop = entry.prop /\ TakesPlace(map[i], entry)
            THEN entry ELSE map[i]]
Applied(map, d) ==
    LET pairs == Expanded(d.prop, d.values)
        after[n \in 0..Len(pairs)] ==
          IF n = 0 THEN map ELSE Offered(after[n - 1], Entry(d, pairs[n]))
    IN  after[Len(pairs)]

-----------------------------------------------------------------------------
(* The walk over the rules and the style attributes.                       *)

\* A page about colours begins with a rule for all elements.
Opening(subject) ==
    IF subject # "colours" THEN <<>>
    ELSE <<[prop |-> "color", values |-> <<Var("--x")>>, important |-> FALSE,
            on |-> Nodes, inline |-> FALSE, specificity |-> 1, order |-> 1]>>
CascadeInit ==
    /\ css \in {[subject |-> s, said |-> Opening(s)] : s \in Subjects}
    /\ specified = [e \in Nodes |->
                      IF css.said = <<>> THEN <<>> ELSE Applied(<<>>, css.said[1])]
    /\ styles = <<>>

Said == css.said
MoreToRead ==
    styles = <<>> /\ Len(Said) < MaxDeclarations + Len(Opening(css.subject))
Add(d) ==
    /\ css' = [css EXCEPT !.said = Append(@, d)]
    /\ specified' = [e \in Nodes |-> IF e \in d.on
                        THEN Applied(specified[e], d) ELSE specified[e]]
    /\ UNCHANGED styles

InlineBegun == \E i \in DOMAIN Said : Said[i].inline
LastOrder == IF Said = <<>> THEN 0 ELSE Last(Said).order

\* collectStaticCssRules and the matching: a rule of its own, or one more
\* declaration of the last one, which has its order.
ApplyRule(text, strength, on) ==
    /\ ~InlineBegun /\ on # {}
    /\ \E order \in {LastOrder + 1} \cup
          {o \in {LastOrder} : Said # <<>> /\ Last(Said).on = on
                     /\ Last(Said).specificity = strength.specificity} :
          Add([prop |-> text.prop, values |-> text.values,
               important |-> strength.important, on |-> on, inline |-> FALSE,
               specificity |-> strength.specificity, order |-> order])

\* parseStaticStyleAttribute, element by element in document order.
ApplyInline(text, important, e) ==
    /\ \A i \in DOMAIN Said : Said[i].inline => \A o \in Said[i].on : o <= e
    /\ Add([prop |-> text.prop, values |-> text.values,
            important |-> important, on |-> {e}, inline |-> TRUE,
            specificity |-> 1, order |-> LastOrder + 1])

-----------------------------------------------------------------------------
(* computeNode.                                                            *)

\* resolveVarRefs: a name that is not in the map stays as it is written.
Resolved(value, custom) ==
    LET once(v) == IF v.unit \in DOMAIN custom THEN custom[v.unit] ELSE v
    IN  once(once(value))

\* The custom properties of an element: the parent's, and its own resolved
\* one after the other, each against what is known by then.
WithCustom(custom, entry) ==
    IF entry.prop \notin Custom THEN custom
    ELSE [c \in DOMAIN custom \cup {entry.prop} |->
            IF c = entry.prop THEN Resolved(entry.value, custom) ELSE custom[c]]
CustomOf(map, parentCustom) ==
    LET after[n \in 0..Len(map)] ==
          IF n = 0 THEN parentCustom ELSE WithCustom(after[n - 1], map[n])
    IN  after[Len(map)]

\* resolveLengthPx; a length in em is of the size given as its base.
InPx(value, base) ==
    IF value.unit = "em" THEN Px(value.n * base.n) ELSE value

\* normalizeStaticCssValue.
Normalized(prop, value, custom, parent, current) ==
    LET v == Resolved(value, custom) IN
    IF v = Inherit THEN parent[prop]
    ELSE IF prop = "fontSize" THEN InPx(v, parent.fontSize)
    ELSE IF prop = "letterSpacing" THEN InPx(v, current.fontSize)
    ELSE v

\* Longhands are computed in the order of the Map.
WithLonghand(values, entry, custom, parent) ==
    IF entry.prop \in Custom THEN values
    ELSE [values EXCEPT ![entry.prop] =
            Normalized(entry.prop, entry.value, custom, parent, values)]
StyleOf(map, custom, parent) ==
    LET after[n \in 0..Len(map)] ==
          IF n = 0 THEN [p \in DOMAIN Default |->
                           IF p \in Inherited THEN parent[p] ELSE Default[p]]
          ELSE WithLonghand(after[n - 1], map[n], custom, parent)
    IN  after[Len(map)]

\* One element after its parent, from the root down.
NodeOf(map, parent) ==
    LET custom == CustomOf(map, parent.custom)
    IN  [custom |-> custom, style |-> StyleOf(map, custom, parent.style)]
Computed(maps) ==
    LET node[e \in 0..Depth] ==
          IF e = 0 THEN [custom |-> <<>>, style |-> Default]
          ELSE NodeOf(maps[e], node[e - 1])
    IN  [e \in Nodes |-> node[e]]

ComputeStyles ==
    /\ styles = <<>>
    /\ styles' = Computed(specified)
    /\ UNCHANGED <<css, specified>>

CascadeNext ==
    \/ /\ MoreToRead
       /\ \E text \in Texts(css.subject) :
            \/ \E strength \in Strengths, on \in SUBSET Nodes :
                 ApplyRule(text, strength, on)
            \/ \E important \in BOOLEAN, e \in Nodes :
                 ApplyInline(text, important, e)
    \/ ComputeStyles

-----------------------------------------------------------------------------
(* What a browser makes of the same page.                                  *)

\* What the text of a declaration gives a longhand; of a padding, the missing
\* left is the right, the missing right and bottom are the top.
Names(d, p) ==
    CASE d.prop = "border" ->
           IF p = "borderWidth" THEN d.values[1]
           ELSE IF p = "borderColor" THEN d.values[2] ELSE None
      [] d.prop = "padding" ->
           LET side(i) == d.values[IF i <= Len(d.values) THEN i
                                   ELSE IF i = 4 /\ Len(d.values) > 1 THEN 2
                                   ELSE 1]
           IN  IF p \in Range(Sides)
               THEN side(CHOOSE i \in 1..4 : Sides[i] = p) ELSE None
      [] OTHER -> IF Camel(d.prop) = p THEN d.values[1] ELSE None

\* What it means for the longhand: a border that names no colour resets the
\* colour to currentcolor.
Current == [unit |-> "currentcolor", n |-> 0]
Colourless(d) == d.prop = "border" /\ d.values[2] = None
Means(d, p) ==
    IF p = "borderColor" /\ Colourless(d) THEN Current ELSE Names(d, p)
Speakers(e, p) ==
    {i \in DOMAIN Said : e \in Said[i].on /\ Means(Said[i], p) # None}

\* CSS: importance, then the style attribute, then specificity, which is 1 or
\* 2 here, then order.
Weight(i) ==
    (IF Said[i].important THEN 6 ELSE 0) + (IF Said[i].inline THEN 3 ELSE 0)
      + Said[i].specificity
Outweighs(i, j) == Weight(j) < Weight(i) \/ (Weight(j) = Weight(i) /\ j <= i)
Winner(e, p) ==
    CHOOSE i \in Speakers(e, p) : \A j \in Speakers(e, p) : Outweighs(i, j)
WinningValue(e, p) == Means(Said[Winner(e, p)], p)

\* The type of the walk's state.
CascadeTypeOK ==
    /\ \A e \in Nodes : Len(specified[e]) <= 4 * Len(Said)
    /\ Len(styles) \in {0, Depth}

\* The longhands a page about a subject may set.
LonghandsOf(subject) ==
    CASE subject = "sizes" -> {"fontSize", "letterSpacing"}
      [] subject = "colours" -> {"color"} \cup Custom
      [] subject = "boxes" -> {"borderWidth", "borderColor"} \cup Range(Sides)

\* A border that names no colour wins over all that name one.
\* expandStaticDeclaration says nothing of the colour then, and the element
\* keeps the one it had, or the default.
KeepsItsColour(e) ==
    \E i \in Speakers(e, "borderColor") :
       /\ Colourless(Said[i])
       /\ \A j \in Speakers(e, "borderColor") :
             Colourless(Said[j]) \/ Outweighs(i, j)

\* Whatever the order in which rules, shorthands, important declarations and
\* style attributes come, each element ends with the declaration a browser's
\* cascade would choose for each longhand, and with no other, but for the
\* colour of a border in the named case.
CascadeChoosesAsCss ==
    styles # <<>> => \A e \in Nodes :
       LET map == specified[e] IN
       /\ \A i \in DOMAIN map :
            /\ map[i].prop \in LonghandsOf(css.subject)
            /\ \A j \in DOMAIN map : map[i].prop = map[j].prop => i = j
       /\ \A p \in LonghandsOf(css.subject) :
             \/ p = "borderColor" /\ KeepsItsColour(e)
             \/ IF Speakers(e, p) = {} THEN \A i \in DOMAIN map : map[i].prop # p
                ELSE \E i \in DOMAIN map : map[i].prop = p
                                           /\ map[i].value = WinningValue(e, p)

\* What is inherited comes from the nearest element that says something.
SpokenAt(e, p) == {a \in 1..e : Speakers(a, p) # {}}
Nearest(places) == CHOOSE a \in places : \A b \in places : b <= a

\* The font size a browser computes.
SizeOf[e \in 0..Depth] ==
    IF e = 0 THEN 16
    ELSE IF Speakers(e, "fontSize") = {} THEN SizeOf[e - 1]
    ELSE LET v == WinningValue(e, "fontSize") IN
         IF v.unit = "em" THEN v.n * SizeOf[e - 1] ELSE v.n
SpacingOf(e) ==
    LET spaced == {a \in SpokenAt(e, "letterSpacing") :
                     WinningValue(a, "letterSpacing") # Inherit}
    IN  IF spaced = {} THEN None
        ELSE Px(WinningValue(Nearest(spaced), "letterSpacing").n * SizeOf[Nearest(spaced)])

Place(e, p) == CHOOSE i \in DOMAIN specified[e] : specified[e][i].prop = p
\* Letter spacing that is entered before the font size of the same element is
\* computed with the size of the parent.
SpacedTooSoon(e) ==
    \E a \in 1..e :
       /\ Speakers(a, "fontSize") # {} /\ Speakers(a, "letterSpacing") # {}
       /\ Place(a, "letterSpacing") < Place(a, "fontSize")

\* The sizes the detector's rules read are those a browser would compute,
\* through inheritance and em at both ends, but for the named case.
SizesAreTheBrowsers ==
    \A e \in DOMAIN styles :
       /\ styles[e].style.fontSize = Px(SizeOf[e])
       /\ SpacedTooSoon(e) \/ styles[e].style.letterSpacing = SpacingOf(e)

\* The custom properties a browser computes: each element's own, with the
\* names in them replaced, before they are inherited.
YOf(e) ==
    IF SpokenAt(e, "--y") = {} THEN None
    ELSE WinningValue(Nearest(SpokenAt(e, "--y")), "--y")
XOf(e) ==
    LET a == Nearest(SpokenAt(e, "--x"))
        v == WinningValue(a, "--x")
    IN  IF SpokenAt(e, "--x") = {} THEN None
        ELSE IF v = Var("--y") THEN YOf(a) ELSE v
ColourOf(e) ==
    LET a == Nearest(SpokenAt(e, "color"))
        v == WinningValue(a, "color")
    IN  IF SpokenAt(e, "color") = {} THEN Tint(0)
        ELSE IF v = Var("--x") THEN XOf(a) ELSE v

\* --x names --y before the element's own --y is entered: it takes the one
\* that is inherited.
NamedTooSoon(e) ==
    \E a \in 1..e :
       /\ Speakers(a, "--x") # {} /\ WinningValue(a, "--x") = Var("--y")
       /\ Speakers(a, "--y") # {} /\ Place(a, "--x") < Place(a, "--y")

\* The colours are those a browser would compute, but for a name that stands
\* for nothing and for the named case.
ColoursAreTheBrowsers ==
    \A e \in DOMAIN styles :
       ColourOf(e) = None \/ NamedTooSoon(e)
         \/ styles[e].style.color = ColourOf(e)

\* The three together: the rules of the detector read what a browser would
\* have computed, and choose what it would have chosen.
StylesAreTheBrowsers ==
    CascadeChoosesAsCss /\ SizesAreTheBrowsers /\ ColoursAreTheBrowsers
=============================================================================
