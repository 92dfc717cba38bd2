---------------------------- MODULE ReaderProofs ------------------------------
(***************************************************************************)
(* Theorems about the reader, for any number of roadmaps, diagrams, sources *)
(* and history entries: the promises that outlive the diagrams never put a  *)
(* drawing where it does not belong; the page shows what its address says,  *)
(* and Back leads to what was shown; preferences that were saved are found; *)
(* and entries of the outline with a plain title arrive.                    *)
(***************************************************************************)
EXTENDS Reader, OutlineProofs

(* Everything the reader does to the diagrams.                              *)
Mounts == \E gs \in SUBSET Diagram : \E given \in [gs -> Source] : Mount(given)

DiagramsNext ==
    \/ Mounts
    \/ DiagramsReset
    \/ \E g \in Diagram, s \in Source : Edit(g, s)
    \/ LibrarySettles
    \/ \E s \in Source : RenderSettles(s)
    \/ \E w \in waiting : Deliver(w)
    \/ UNCHANGED diagramVars

LEMMA TextsAreMounted ==
    ASSUME NEW d \in Doc, MountText(d)
    PROVE  DiagramsNext
<1>1. CASE d = text
    BY <1>1 DEF MountText, DiagramsNext
<1>2. CASE d # text
    <2>1. Mount(DiagramsOf[d])
        BY <1>2 DEF MountText
    <2>2. \E gs \in SUBSET Diagram : DiagramsOf[d] \in [gs -> Source]
        BY ReaderAssumption DEF ReaderAssumption
    <2> QED
        BY <2>1, <2>2 DEF DiagramsNext, Mounts
<1> QED
    BY <1>1, <1>2

-----------------------------------------------------------------------------
(* What is known of a drawing that is kept, of one that is on its way, and  *)
(* of one that is shown.                                                    *)
Kept(s) == renders[s] = "svg" => library = "ready" /\ s \notin Faulty

Truthful(kind, s) == kind = "svg" => library = "ready" /\ s \notin Faulty

(* A callback that is not cancelled is about the source its diagram has.    *)
Live(w) == ~w.cancelled => w.source = source[w.diagram]

Owns(g) ==
    shown[g] # Nothing =>
        \/ shown[g].of = source[g]
        \/ \E w \in waiting : w.diagram = g /\ w.source = source[g] /\ ~w.cancelled

DiagramInv ==
    /\ DiagramsTypeOK
    /\ \A s \in Source : Kept(s)
    /\ \A w \in waiting : Live(w) /\ Truthful(w.outcome, w.source)
    /\ \A g \in Diagram : Owns(g) /\ Truthful(shown[g].kind, shown[g].of)

LEMMA EmptyDiagrams ==
    /\ DiagramsInit => DiagramInv
    /\ DiagramsReset => DiagramInv'
<1>1. DiagramsInit => DiagramInv
    BY DEF DiagramsInit, DiagramInv, DiagramsTypeOK, Kept, Owns, Truthful, Nothing, Result, Callback
<1>2. DiagramsReset => DiagramInv'
    BY DEF DiagramsReset, DiagramInv, DiagramsTypeOK, Kept, Owns, Truthful, Nothing, Result,
           Callback
<1> QED
    BY <1>1, <1>2

(* RenderMermaid: asking changes no drawing that is kept, and lets a        *)
(* library that is loaded be.                                               *)
LEMMA AskingKeepsDrawings ==
    ASSUME DiagramsTypeOK, NEW gs \in SUBSET Diagram, NEW given \in [gs -> Source],
           RenderMermaid(given)
    PROVE  /\ renders' \in [Source -> {"none", "pending", "svg"}]
           /\ \A s \in Source : renders'[s] = "svg" <=> renders[s] = "svg"
           /\ library' \in {"none", "loading", "ready", "failed"}
           /\ library' = library \/ (library = "none" /\ library' = "loading")
BY DEF RenderMermaid, DiagramsTypeOK

(* The callback of an effect that runs now.                                 *)
LEMMA SubscriptionsAreTruthful ==
    ASSUME DiagramInv, NEW g \in Diagram, NEW s \in Source, NEW dropped \in BOOLEAN
    PROVE  /\ Subscription(g, s, dropped) \in Callback
           /\ Truthful(Subscription(g, s, dropped).outcome, s)
           /\ Subscription(g, s, dropped).diagram = g
           /\ Subscription(g, s, dropped).source = s
<1>1. /\ Subscription(g, s, dropped).diagram = g
      /\ Subscription(g, s, dropped).source = s
    BY DEF Subscription
<1>2. Subscription(g, s, dropped).outcome = IF renders[s] = "svg" THEN "svg" ELSE "pending"
    BY DEF Subscription
<1>3. Kept(s)
    BY DEF DiagramInv
<1> QED
    BY <1>1, <1>2, <1>3 DEF Subscription, Callback, Kept, Truthful

(* Neither shown nor waiting drawings change their truth while the library  *)
(* loads, or settles.                                                       *)
LEMMA TruthLasts ==
    ASSUME NEW kind, NEW s, Truthful(kind, s),
           library' = library \/ library \in {"none", "loading"}
    PROVE  Truthful(kind, s)'
BY DEF Truthful

LEMMA MountsKeepDrawings ==
    ASSUME DiagramInv, NEW gs \in SUBSET Diagram, NEW given \in [gs -> Source], Mount(given)
    PROVE  DiagramInv'
<1>1. DiagramsTypeOK /\ RenderMermaid(given)
    BY DEF DiagramInv, Mount
<1>2. /\ renders' \in [Source -> {"none", "pending", "svg"}]
      /\ \A s \in Source : renders'[s] = "svg" <=> renders[s] = "svg"
      /\ library' \in {"none", "loading", "ready", "failed"}
      /\ library' = library \/ (library = "none" /\ library' = "loading")
    BY <1>1, AskingKeepsDrawings
<1>3. source' = [g \in Diagram |-> IF g \in gs THEN given[g] ELSE NoSource]
    BY DEF Mount
<1>4. shown' = [g \in Diagram |-> Nothing]
    BY DEF Mount
<1>5. ASSUME NEW w \in waiting'
      PROVE  \E g \in gs, dropped \in BOOLEAN : w = Subscription(g, given[g], dropped)
    <2>1. DOMAIN given = gs /\ (IF Dev THEN BOOLEAN ELSE {FALSE}) \subseteq BOOLEAN
        OBVIOUS
    <2>2. w \in Subscribe(given)
        BY DEF Mount
    <2>3. PICK g \in DOMAIN given, dropped \in (IF Dev THEN BOOLEAN ELSE {FALSE}) :
              w = Subscription(g, given[g], dropped)
        <3> DEFINE Drops == IF Dev THEN BOOLEAN ELSE {FALSE}
        <3>1. Subscribe(given) =
                  {Subscription(g, given[g], dropped) : g \in DOMAIN given, dropped \in Drops}
            BY SMT DEF Subscribe
        <3> HIDE DEF Drops
        <3>2. \E g \in DOMAIN given, dropped \in Drops : w = Subscription(g, given[g], dropped)
            BY <2>2, <3>1
        <3> QED
            BY <3>2 DEF Drops
    <2> QED
        BY <2>1, <2>3
<1>6. ASSUME NEW w \in waiting'
      PROVE  w \in Callback /\ Live(w)' /\ Truthful(w.outcome, w.source)'
    <2>1. PICK g \in gs, dropped \in BOOLEAN : w = Subscription(g, given[g], dropped)
        BY <1>5
    <2>2. /\ w \in Callback /\ w.diagram = g /\ w.source = given[g]
          /\ Truthful(w.outcome, w.source)
        BY <2>1, SubscriptionsAreTruthful
    <2>3. source'[g] = given[g]
        BY <1>3
    <2> QED
        BY <1>2, <2>2, <2>3, TruthLasts DEF Live
<1>7. DiagramsTypeOK'
    BY <1>2, <1>3, <1>4, <1>6 DEF DiagramsTypeOK, Result, Nothing
<1>8. ASSUME NEW s \in Source PROVE Kept(s)'
    BY <1>2 DEF DiagramInv, Kept
<1>9. ASSUME NEW g \in Diagram PROVE Owns(g)' /\ Truthful(shown[g].kind, shown[g].of)'
    BY <1>4 DEF Owns, Truthful, Nothing
<1> QED
    BY <1>6, <1>7, <1>8, <1>9 DEF DiagramInv

LEMMA EditsKeepDrawings ==
    ASSUME DiagramInv, NEW g \in Diagram, NEW s \in Source, Edit(g, s)
    PROVE  DiagramInv'
<1> DEFINE new == Subscription(g, s, FALSE)
           Dropped(w) == IF w.diagram = g THEN [w EXCEPT !.cancelled = TRUE] ELSE w
<1>1. RenderMermaid([h \in {g} |-> s])
    BY DEF Edit
<1>2. /\ renders' \in [Source -> {"none", "pending", "svg"}]
      /\ \A t \in Source : renders'[t] = "svg" <=> renders[t] = "svg"
      /\ library' \in {"none", "loading", "ready", "failed"}
      /\ library' = library \/ (library = "none" /\ library' = "loading")
    <2>1. [h \in {g} |-> s] \in [{g} -> Source] /\ {g} \in SUBSET Diagram
        OBVIOUS
    <2> QED
        BY <1>1, <2>1, AskingKeepsDrawings DEF DiagramInv
<1>3. source' = [source EXCEPT ![g] = s] /\ source \in [Diagram -> Source \union {NoSource}]
    BY DEF Edit, DiagramInv, DiagramsTypeOK
<1>4. shown' = shown /\ waiting' = {Dropped(w) : w \in waiting} \union {new}
    BY DEF Edit
<1>5. /\ new \in Callback /\ new.diagram = g /\ new.source = s /\ new.cancelled = FALSE
      /\ Truthful(new.outcome, new.source)
    <2> HIDE DEF new
    <2>1. FALSE \in BOOLEAN /\ new = Subscription(g, s, FALSE)
        BY DEF new
    <2>2. new.diagram = g /\ new.source = s /\ new.cancelled = FALSE
        BY <2>1 DEF Subscription
    <2>3. /\ Subscription(g, s, FALSE) \in Callback
          /\ Truthful(Subscription(g, s, FALSE).outcome, s)
        BY <2>1, SubscriptionsAreTruthful, Zenon
    <2> QED
        BY <2>1, <2>2, <2>3
<1>6. ASSUME NEW w \in waiting
      PROVE  LET v == Dropped(w) IN
             /\ v \in Callback /\ v.diagram = w.diagram /\ v.source = w.source
             /\ v.outcome = w.outcome
             /\ w.diagram = g => v.cancelled = TRUE
             /\ w.diagram # g => v = w
    BY DEF DiagramInv, DiagramsTypeOK, Callback
<1> HIDE DEF new, Dropped
<1>7. ASSUME NEW v \in waiting'
      PROVE  v \in Callback /\ Live(v)' /\ Truthful(v.outcome, v.source)'
    <2>1. CASE v = new
        BY <1>2, <1>3, <1>5, <2>1, TruthLasts DEF Live
    <2>2. CASE v # new
        <3>1. PICK w \in waiting : v = Dropped(w)
            BY <1>4, <2>2
        <3>2. Live(w) /\ Truthful(w.outcome, w.source) /\ w \in Callback
            BY DEF DiagramInv, DiagramsTypeOK
        <3>3. Truthful(v.outcome, v.source)' /\ v \in Callback
            BY <1>2, <1>6, <3>1, <3>2, TruthLasts
        <3>4. CASE w.diagram = g
            BY <1>6, <3>1, <3>3, <3>4 DEF Live
        <3>5. CASE w.diagram # g
            <4>1. v = w /\ w.diagram \in Diagram
                BY <1>6, <3>1, <3>2, <3>5 DEF Callback
            <4>2. source'[w.diagram] = source[w.diagram]
                BY <1>3, <3>5, <4>1
            <4> QED
                BY <3>2, <3>3, <4>1, <4>2 DEF Live
        <3> QED
            BY <3>4, <3>5
    <2> QED
        BY <2>1, <2>2
<1>8. DiagramsTypeOK'
    BY <1>2, <1>3, <1>4, <1>7 DEF DiagramInv, DiagramsTypeOK
<1>9. ASSUME NEW t \in Source PROVE Kept(t)'
    BY <1>2 DEF DiagramInv, Kept
<1>10. ASSUME NEW h \in Diagram PROVE Truthful(shown[h].kind, shown[h].of)'
    BY <1>2, <1>4, TruthLasts DEF DiagramInv
<1>11. ASSUME NEW h \in Diagram PROVE Owns(h)'
    <2>1. CASE h = g
        BY <1>3, <1>4, <1>5, <2>1 DEF Owns
    <2>2. CASE h # g
        <3>1. source'[h] = source[h] /\ shown'[h] = shown[h]
            BY <1>3, <1>4, <2>2
        <3>2. \A w \in waiting : w.diagram = h => w \in waiting'
            BY <1>4, <1>6, <2>2
        <3> QED
            BY <3>1, <3>2 DEF DiagramInv, Owns
    <2> QED
        BY <2>1, <2>2
<1> QED
    BY <1>7, <1>8, <1>9, <1>10, <1>11 DEF DiagramInv

LEMMA LibraryKeepsDrawings == DiagramInv /\ LibrarySettles => DiagramInv'
<1> SUFFICES ASSUME DiagramInv, LibrarySettles PROVE DiagramInv'
    OBVIOUS
<1>1. /\ library = "loading" /\ library' \in {"ready", "failed"}
      /\ UNCHANGED <<renders, source, shown, waiting>>
    BY DEF LibrarySettles
<1>2. DiagramsTypeOK'
    BY <1>1 DEF DiagramInv, DiagramsTypeOK
<1>3. ASSUME NEW s \in Source PROVE Kept(s)'
    BY <1>1 DEF DiagramInv, Kept
<1>4. ASSUME NEW w \in waiting' PROVE Live(w)' /\ Truthful(w.outcome, w.source)'
    BY <1>1, TruthLasts DEF DiagramInv, Live
<1>5. ASSUME NEW g \in Diagram PROVE Owns(g)' /\ Truthful(shown[g].kind, shown[g].of)'
    BY <1>1, TruthLasts DEF DiagramInv, Owns
<1> QED
    BY <1>2, <1>3, <1>4, <1>5 DEF DiagramInv

(* A drawing is settled once the library is: what is kept and what is       *)
(* handed to the callbacks is true of the source.                           *)
LEMMA SettlingKeepsDrawings ==
    ASSUME DiagramInv, NEW s \in Source, RenderSettles(s)
    PROVE  DiagramInv'
<1>1. UNCHANGED <<library, source, shown>>
    BY DEF RenderSettles
<1>2. PICK outcome \in {"svg", "error"} : Settle(s, outcome) /\ Truthful(outcome, s)
    BY DEF RenderSettles, Truthful
<1> DEFINE Settled(w) == IF w.source = s /\ w.outcome = "pending"
                         THEN [w EXCEPT !.outcome = outcome] ELSE w
<1>3. waiting' = {Settled(w) : w \in waiting}
    BY <1>2 DEF Settle
<1>4. renders' = [renders EXCEPT ![s] = IF outcome = "svg" THEN "svg" ELSE "none"]
    BY <1>2 DEF Settle
<1>5. ASSUME NEW w \in waiting
      PROVE  /\ Settled(w) \in Callback /\ Settled(w).diagram = w.diagram
             /\ Settled(w).source = w.source /\ Settled(w).cancelled = w.cancelled
             /\ Settled(w).outcome = w.outcome
                    \/ (w.source = s /\ Settled(w).outcome = outcome)
    BY DEF DiagramInv, DiagramsTypeOK, Callback
<1> HIDE DEF Settled
<1>6. ASSUME NEW v \in waiting'
      PROVE  v \in Callback /\ Live(v)' /\ Truthful(v.outcome, v.source)'
    <2>1. PICK w \in waiting : v = Settled(w)
        BY <1>3
    <2>2. Live(w) /\ Truthful(w.outcome, w.source)
        BY DEF DiagramInv
    <2>3. Truthful(v.outcome, v.source)
        BY <1>2, <1>5, <2>1, <2>2
    <2>4. Live(v)
        BY <1>5, <2>1, <2>2 DEF Live
    <2> QED
        BY <1>1, <1>5, <2>1, <2>3, <2>4 DEF Truthful, Live
<1>7. DiagramsTypeOK'
    BY <1>1, <1>4, <1>6 DEF DiagramInv, DiagramsTypeOK
<1>8. ASSUME NEW t \in Source PROVE Kept(t)'
    BY <1>1, <1>2, <1>4 DEF DiagramInv, DiagramsTypeOK, Kept, Truthful
<1>9. ASSUME NEW g \in Diagram PROVE Owns(g)' /\ Truthful(shown[g].kind, shown[g].of)'
    <2>1. Truthful(shown[g].kind, shown[g].of)'
        BY <1>1 DEF DiagramInv, Truthful
    <2>2. ASSUME NEW w \in waiting, w.diagram = g, w.source = source[g], ~w.cancelled
          PROVE  \E v \in waiting' : v.diagram = g /\ v.source = source[g] /\ ~v.cancelled
        BY <1>3, <1>5, <2>2
    <2> QED
        BY <1>1, <2>1, <2>2 DEF DiagramInv, Owns
<1> QED
    BY <1>6, <1>7, <1>8, <1>9 DEF DiagramInv

(* A callback that runs shows the drawing of the source its diagram has, or *)
(* is cancelled, and was then not the one the diagram waits for.            *)
LEMMA DeliveriesKeepDrawings ==
    ASSUME DiagramInv, NEW w \in waiting, Deliver(w)
    PROVE  DiagramInv'
<1>1. /\ UNCHANGED <<library, renders, source>> /\ waiting' = waiting \ {w}
      /\ w.outcome # "pending"
    BY DEF Deliver
<1>2. w \in Callback /\ Live(w) /\ Truthful(w.outcome, w.source)
    BY DEF DiagramInv, DiagramsTypeOK
<1>3. shown' = IF w.cancelled THEN shown
               ELSE [shown EXCEPT ![w.diagram] = [kind |-> w.outcome, of |-> w.source]]
    BY DEF Deliver
<1>4. w.diagram \in Diagram /\ w.source \in Source /\ w.outcome \in {"svg", "error"}
    BY <1>1, <1>2 DEF Callback
<1>5. shown \in [Diagram -> Result] /\ shown' \in [Diagram -> Result]
    BY <1>3, <1>4 DEF DiagramInv, DiagramsTypeOK, Result
<1>6. DiagramsTypeOK'
    BY <1>1, <1>5 DEF DiagramInv, DiagramsTypeOK
<1>7. ASSUME NEW s \in Source PROVE Kept(s)'
    BY <1>1 DEF DiagramInv, Kept
<1>8. ASSUME NEW v \in waiting' PROVE Live(v)' /\ Truthful(v.outcome, v.source)'
    BY <1>1 DEF DiagramInv, Live, Truthful
<1>9. ASSUME NEW g \in Diagram PROVE Owns(g)' /\ Truthful(shown[g].kind, shown[g].of)'
    <2>1. CASE ~w.cancelled /\ g = w.diagram
        <3>1. shown'[g] = [kind |-> w.outcome, of |-> w.source]
            BY <1>3, <1>5, <2>1
        <3>2. w.source = source[g]
            BY <1>2, <2>1 DEF Live
        <3> QED
            BY <1>1, <1>2, <3>1, <3>2 DEF Owns, Truthful
    <2>2. CASE w.cancelled \/ g # w.diagram
        <3>1. shown'[g] = shown[g]
            BY <1>3, <1>5, <2>2
        <3>2. \A v \in waiting : v.diagram = g /\ ~v.cancelled => v \in waiting'
            BY <1>1, <2>2
        <3> QED
            BY <1>1, <3>1, <3>2 DEF DiagramInv, Owns, Truthful
    <2> QED
        BY <2>1, <2>2
<1> QED
    BY <1>6, <1>7, <1>8, <1>9 DEF DiagramInv

LEMMA DiagramsKeepDrawings == DiagramInv /\ DiagramsNext => DiagramInv'
<1> SUFFICES ASSUME DiagramInv, DiagramsNext PROVE DiagramInv'
    OBVIOUS
<1>1. CASE Mounts
    BY <1>1, MountsKeepDrawings DEF Mounts
<1>2. CASE UNCHANGED diagramVars
    BY <1>2 DEF diagramVars, DiagramInv, DiagramsTypeOK, Kept, Live, Truthful, Owns
<1> QED
    BY <1>1, <1>2, EmptyDiagrams, EditsKeepDrawings, LibraryKeepsDrawings,
       SettlingKeepsDrawings, DeliveriesKeepDrawings DEF DiagramsNext

-----------------------------------------------------------------------------
(* What a step of the reader does to the diagrams.                          *)
LEMMA ShowingMounts ==
    ASSUME NEW d \in Doc, Show(d)
    PROVE  DiagramsNext
<1>1. MountText(d) \/ UNCHANGED diagramVars
    BY DEF Show
<1> QED
    BY <1>1, TextsAreMounted DEF DiagramsNext

(* The reader is always somewhere, and searches for something it can type.  *)
Somewhere == active \in Doc /\ panel \in Panel

LEMMA ClicksKeepPanel ==
    ASSUME panel \in Panel, NEW p \in Panel, Click(p)
    PROVE  panel' \in Panel
BY DEF Click, Panel, Blurred

LEMMA StaysSomewhere == Somewhere /\ [Next]_vars => Somewhere'
<1> SUFFICES ASSUME Somewhere, [Next]_vars PROVE Somewhere'
    OBVIOUS
<1>1. active \in Doc /\ panel \in Panel /\ ClosedPanel \in Panel
    BY DEF Somewhere, ClosedPanel, Panel
<1>2. documents[1] \in Doc
    BY FirstDocument
<1>3. \A route : resolveDocument(route) \in Doc
    BY <1>2 DEF resolveDocument
<1>4. CASE Sidebar
    <2>1. \A menu \in BOOLEAN : [panel EXCEPT !.menu = menu] \in Panel
        BY <1>1 DEF Panel
    <2>2. panel' \in Panel
        BY <1>1, <1>4, <2>1, ClicksKeepPanel DEF Sidebar, Panel
    <2>3. Filtered \subseteq Doc
        BY <1>1, ReaderAssumption DEF ReaderAssumption, Filtered, Panel
    <2>4. active' \in Doc
        BY <1>1, <1>2, <1>4, <2>3 DEF Sidebar, Navigate, Show, textVars
    <2> QED
        BY <2>2, <2>4 DEF Somewhere
<1>5. CASE TurnPage
    <2>1. [panel EXCEPT !.menu = FALSE] \in Panel
        BY <1>1 DEF Panel
    <2>2. panel' \in Panel
        BY <1>1, <1>5, <2>1, ClicksKeepPanel DEF TurnPage
    <2>3. Neighbours(active) \subseteq Doc /\ Links[active] \subseteq Doc
        BY <1>1, ReaderAssumption DEF ReaderAssumption, Neighbours
    <2>4. active' \in Doc
        BY <1>5, <2>3 DEF TurnPage, Navigate, Show
    <2> QED
        BY <2>2, <2>4 DEF Somewhere
<1>6. CASE FollowHash \/ RevealHints
    <2>1. Click(panel) /\ active' = active
        BY <1>6 DEF FollowHash, RevealHints, textVars
    <2> QED
        BY <1>1, <2>1, ClicksKeepPanel DEF Somewhere
<1>7. CASE Controls
    BY <1>1, <1>7 DEF Controls, Somewhere, Panel, Blurred, textVars
<1>8. CASE Keys
    <2>1. active' = active
        BY <1>8 DEF Keys, textVars
    <2>2. panel' \in Panel
        BY <1>1, <1>8 DEF Keys, Panel, ClosedPanel, Blurred
    <2> QED
        BY <1>1, <2>1, <2>2 DEF Somewhere
<1>9. CASE BackOrForward
    BY <1>1, <1>3, <1>9 DEF BackOrForward, PopState, Show, Somewhere, textVars
<1>10. CASE Reload
    BY <1>1, <1>3, <1>10 DEF Reload, Somewhere
<1>11. CASE AnimationFrame
    BY <1>1, <1>11 DEF AnimationFrame, Somewhere, Panel, textVars
<1>12. CASE UNCHANGED <<active, panel>>
    BY <1>1, <1>12 DEF Somewhere
<1>13. CASE \/ OtherTabSaves \/ PageFails \/ \E d \in Doc : ChunkSettles(d)
            \/ \E g \in Diagram, s \in Source : DiagramStep(Edit(g, s))
            \/ DiagramStep(LibrarySettles)
            \/ \E s \in Source : DiagramStep(RenderSettles(s))
            \/ \E w \in waiting : DiagramStep(Deliver(w))
    BY <1>12, <1>13 DEF OtherTabSaves, PageFails, ChunkSettles, DiagramStep, textVars
<1> QED
    BY <1>4, <1>5, <1>6, <1>7, <1>8, <1>9, <1>10, <1>11, <1>12, <1>13
        DEF Next, Readers, vars, textVars

LEMMA ReaderStepsDiagrams == Somewhere /\ [Next]_vars => DiagramsNext
<1> SUFFICES ASSUME Somewhere, [Next]_vars PROVE DiagramsNext
    OBVIOUS
<1>1. documents[1] \in Doc
    BY FirstDocument
<1>2. CASE UNCHANGED diagramVars
    BY <1>2 DEF DiagramsNext
<1>3. CASE Sidebar
    <2>1. Filtered \subseteq Doc
        BY ReaderAssumption DEF ReaderAssumption, Filtered, Somewhere, Panel
    <2>2. (\E d \in Doc : Navigate(d)) \/ UNCHANGED diagramVars
        BY <1>1, <1>3, <2>1 DEF Sidebar
    <2> QED
        BY <1>2, <2>2, ShowingMounts DEF Navigate
<1>4. CASE TurnPage
    <2>1. PICK d \in Neighbours(active) \union (IF BodyShown THEN Links[active] ELSE {}) :
              Navigate(d)
        BY <1>4 DEF TurnPage
    <2>2. d \in Doc
        BY <2>1, ReaderAssumption DEF ReaderAssumption, Neighbours, Somewhere
    <2> QED
        BY <2>1, <2>2, ShowingMounts DEF Navigate
<1>5. CASE FollowHash \/ RevealHints \/ Controls \/ Keys \/ OtherTabSaves \/ AnimationFrame
    BY <1>2, <1>5 DEF FollowHash, RevealHints, Controls, Keys, OtherTabSaves, AnimationFrame
<1>6. CASE BackOrForward
    <2>1. PICK i : PopState(i)
        BY <1>6 DEF BackOrForward
    <2>2. resolveDocument(history[i].doc) \in Doc
        BY <1>1 DEF resolveDocument
    <2> QED
        BY <1>2, <2>1, <2>2, ShowingMounts DEF PopState
<1>7. CASE Reload
    BY <1>7 DEF Reload, DiagramsNext
<1>8. CASE PageFails
    <2>1. Mount(NoDiagrams)
        BY <1>8 DEF PageFails
    <2>2. NoDiagrams \in [{} -> Source] /\ {} \in SUBSET Diagram
        BY DEF NoDiagrams
    <2> QED
        BY <2>1, <2>2 DEF DiagramsNext, Mounts
<1>9. ASSUME NEW d \in Doc, ChunkSettles(d) PROVE DiagramsNext
    <2>1. MountText(d) \/ UNCHANGED diagramVars
        BY <1>9 DEF ChunkSettles
    <2> QED
        BY <1>2, <2>1, TextsAreMounted
<1>10. CASE \/ \E g \in Diagram, s \in Source : DiagramStep(Edit(g, s))
            \/ DiagramStep(LibrarySettles)
            \/ \E s \in Source : DiagramStep(RenderSettles(s))
            \/ \E w \in waiting : DiagramStep(Deliver(w))
    BY <1>10 DEF DiagramStep, DiagramsNext
<1> QED
    BY <1>2, <1>3, <1>4, <1>5, <1>6, <1>7, <1>8, <1>9, <1>10 DEF Next, Readers, vars

(* mdx-components.tsx:387, the effect of Mermaid with its shared promises:  *)
(* whatever is navigated, edited and reloaded while the library is imported *)
(* and drawings are under way, a diagram shows the drawing of its own       *)
(* source or waits for it, and no drawing of a source that has an error.    *)
THEOREM DiagramsShowTheirOwn == Spec => []DiagramShowsItsOwn
<1>1. Init => DiagramInv /\ Somewhere
    <2> SUFFICES ASSUME Init PROVE DiagramInv /\ Somewhere
        OBVIOUS
    <2>1. DiagramsInit /\ active = resolveDocument(currentRoute) /\ panel = ClosedPanel
        BY DEF Init
    <2>2. resolveDocument(currentRoute) \in Doc
        BY FirstDocument DEF resolveDocument
    <2>3. ClosedPanel \in Panel
        BY DEF ClosedPanel, Panel
    <2> QED
        BY <2>1, <2>2, <2>3, EmptyDiagrams DEF Somewhere
<1>2. DiagramInv /\ Somewhere /\ [Next]_vars => (DiagramInv /\ Somewhere)'
    BY ReaderStepsDiagrams, DiagramsKeepDrawings, StaysSomewhere
<1>3. DiagramInv => DiagramShowsItsOwn
    <2> SUFFICES ASSUME DiagramInv, NEW g \in Diagram, shown[g] # Nothing
                 PROVE  /\ \/ shown[g].of = source[g]
                           \/ \E w \in waiting : w.diagram = g /\ w.source = source[g]
                                                    /\ ~w.cancelled
                        /\ shown[g].kind = "svg" => library = "ready" /\ shown[g].of \notin Faulty
        BY DEF DiagramShowsItsOwn
    <2>1. Owns(g) /\ Truthful(shown[g].kind, shown[g].of)
        BY DEF DiagramInv
    <2>2. shown[g].kind \in {"svg", "error"}
        BY DEF DiagramInv, DiagramsTypeOK, Result
    <2> QED
        BY <2>1, <2>2 DEF Owns, Truthful
<1> QED
    BY <1>1, <1>2, <1>3, PTL DEF Spec

-----------------------------------------------------------------------------
(* What a step does to the location, the text and the preferences: it moves *)
(* the reader or saves, and never both but when the page is loaded anew.    *)
Saves == \E chosen \in Preferences, texts, rest \in Nat : Save(chosen, texts, rest)

Moves ==
    \/ page = "up" /\ \E d \in Doc : Navigate(d)
    \/ \E i : PopState(i)
    \/ FollowHash /\ UNCHANGED <<here, textVars>>
    \/ UNCHANGED locationVars
           /\ (RevealHints \/ PageFails \/ \E d \in Doc : ChunkSettles(d))

ReaderNext ==
    \/ Moves /\ UNCHANGED preferenceVars
    \/ UNCHANGED <<locationVars, textVars>>
           /\ (Saves \/ OtherTabSaves \/ UNCHANGED preferenceVars)
    \/ Reload

LEMMA PreferencesCanBeChosen ==
    ASSUME preferences \in Preferences
    PROVE  /\ \A b \in BOOLEAN : /\ [preferences EXCEPT !.readerMode = b] \in Preferences
                                 /\ [preferences EXCEPT !.sidebarCollapsed = b] \in Preferences
           /\ \A size \in FontSize : [preferences EXCEPT !.fontSize = size] \in Preferences
           /\ [preferences EXCEPT !.readerMode = ~@] \in Preferences
           /\ [preferences EXCEPT !.sidebarCollapsed = ~@] \in Preferences
           /\ [preferences EXCEPT !.readerMode = FALSE, !.sidebarCollapsed = FALSE] \in Preferences
BY DEF Preferences

LEMMA ReaderSteps ==
    ASSUME Somewhere, preferences \in Preferences, [Next]_vars
    PROVE  ReaderNext
<1>1. ASSUME NEW chosen \in Preferences, Prefer(chosen) PROVE Saves
    BY <1>1 DEF Prefer, Saves
<1>2. CASE Sidebar
    <2>1. {documents[1]} \union Filtered \subseteq Doc
        BY FirstDocument, ReaderAssumption DEF ReaderAssumption, Filtered, Somewhere, Panel
    <2>2. CASE (\E d \in {documents[1]} \union Filtered : Navigate(d)) /\ UNCHANGED preferenceVars
        BY <1>2, <2>1, <2>2 DEF Sidebar, ReaderNext, Moves
    <2>3. CASE Prefer([preferences EXCEPT !.sidebarCollapsed = ~@])
                   /\ UNCHANGED <<locationVars, textVars>>
        <3>1. Saves
            BY <1>1, <2>3, PreferencesCanBeChosen
        <3> QED
            BY <2>3, <3>1 DEF ReaderNext
    <2>4. CASE UNCHANGED <<locationVars, textVars, preferenceVars>>
        BY <2>4 DEF ReaderNext
    <2> QED
        BY <1>2, <2>2, <2>3, <2>4 DEF Sidebar
<1>3. CASE TurnPage
    <2>1. PICK d \in Neighbours(active) \union (IF BodyShown THEN Links[active] ELSE {}) :
              Navigate(d)
        BY <1>3 DEF TurnPage
    <2>2. d \in Doc
        BY <2>1, ReaderAssumption DEF ReaderAssumption, Neighbours, Somewhere
    <2>3. page = "up" /\ UNCHANGED preferenceVars
        BY <1>3 DEF TurnPage
    <2> QED
        BY <2>1, <2>2, <2>3 DEF ReaderNext, Moves
<1>4. CASE FollowHash
    <2>1. UNCHANGED <<here, textVars, preferenceVars>>
        BY <1>4 DEF FollowHash
    <2> QED
        BY <1>4, <2>1 DEF ReaderNext, Moves
<1>5. CASE RevealHints \/ PageFails \/ \E d \in Doc : ChunkSettles(d)
    <2>1. UNCHANGED <<locationVars, preferenceVars>>
        BY <1>5 DEF RevealHints, PageFails, ChunkSettles
    <2> QED
        BY <1>5, <2>1 DEF ReaderNext, Moves
<1>6. CASE Controls
    <2>1. UNCHANGED <<locationVars, textVars>>
        BY <1>6 DEF Controls
    <2>2. CASE UNCHANGED preferenceVars
        BY <2>1, <2>2 DEF ReaderNext
    <2>3. ASSUME NEW size \in FontSize, Prefer([preferences EXCEPT !.fontSize = size])
          PROVE  Saves
        BY <1>1, <2>3, PreferencesCanBeChosen
    <2>4. CASE Prefer([preferences EXCEPT !.readerMode = ~@])
        <3>1. Saves
            BY <1>1, <2>4, PreferencesCanBeChosen
        <3> QED
            BY <2>1, <3>1 DEF ReaderNext
    <2> QED
        BY <1>6, <2>1, <2>2, <2>3, <2>4 DEF Controls, ReaderNext
<1>7. CASE Keys
    <2>1. UNCHANGED <<locationVars, textVars>>
        BY <1>7 DEF Keys
    <2>2. CASE UNCHANGED preferenceVars
        BY <2>1, <2>2 DEF ReaderNext
    <2>3. CASE Prefer([preferences EXCEPT !.readerMode = FALSE, !.sidebarCollapsed = FALSE])
        <3>1. Saves
            BY <1>1, <2>3, PreferencesCanBeChosen
        <3> QED
            BY <2>1, <3>1 DEF ReaderNext
    <2> QED
        BY <1>7, <2>2, <2>3 DEF Keys
<1>8. CASE BackOrForward
    <2>1. (\E i : PopState(i)) /\ UNCHANGED preferenceVars
        BY <1>8 DEF BackOrForward
    <2> QED
        BY <2>1 DEF ReaderNext, Moves
<1>9. CASE OtherTabSaves
    <2>1. UNCHANGED <<locationVars, textVars>>
        BY <1>9 DEF OtherTabSaves
    <2> QED
        BY <1>9, <2>1 DEF ReaderNext
<1>10. CASE UNCHANGED <<locationVars, textVars, preferenceVars>>
    BY <1>10 DEF ReaderNext
<1>11. CASE \/ AnimationFrame
            \/ \E g \in Diagram, s \in Source : DiagramStep(Edit(g, s))
            \/ DiagramStep(LibrarySettles)
            \/ \E s \in Source : DiagramStep(RenderSettles(s))
            \/ \E w \in waiting : DiagramStep(Deliver(w))
    BY <1>10, <1>11 DEF AnimationFrame, DiagramStep
<1>12. CASE Reload
    BY <1>12 DEF ReaderNext
<1> QED
    BY <1>2, <1>3, <1>4, <1>5, <1>6, <1>7, <1>8, <1>9, <1>10, <1>11, <1>12
        DEF Next, Readers, vars

-----------------------------------------------------------------------------
(* The location.  The entry the reader is on names the roadmap that is      *)
(* shown as long as the page is up.                                         *)
LocationInv ==
    /\ history \in Seq(Entry) /\ Len(history) \in 1 .. MaxHistory
    /\ here \in DOMAIN history
    /\ active \in Doc
    /\ page \in {"up", "blank"}
    /\ LocationShowsActive

LEMMA Resolved ==
    /\ \A route : resolveDocument(route) \in Doc
    /\ \A d \in Doc : resolveDocument(d) = d /\ d \in Route
BY FirstDocument DEF resolveDocument, Route

(* An entry after the one the reader is on: what lies behind stays.         *)
LEMMA Pushing ==
    ASSUME history \in Seq(Entry), here \in DOMAIN history, NEW e \in Entry,
           history' = Append(SubSeq(history, 1, here), e), here' = here + 1
    PROVE  /\ history' \in Seq(Entry) /\ Len(history') = here + 1
           /\ DOMAIN history' = 1 .. here + 1
           /\ history'[here + 1] = e
           /\ \A i \in 1 .. here : history'[i] = history[i]
<1> DEFINE behind == SubSeq(history, 1, here)
<1>1. Len(history) \in Nat /\ DOMAIN history = 1 .. Len(history)
    BY LenProperties
<1>2. here \in 1 .. Len(history)
    BY <1>1
<1>3. behind \in Seq(Entry) /\ Len(behind) = here
      /\ \A i \in 1 .. here : behind[i] = history[i]
    BY <1>1, <1>2, SubSeqProperties
<1> HIDE DEF behind
<1>4. Append(behind, e) \in Seq(Entry) /\ Len(Append(behind, e)) = here + 1
    BY <1>3, AppendProperties
<1>5. DOMAIN Append(behind, e) = 1 .. here + 1
    BY <1>4, LenProperties
<1>6. Append(behind, e)[here + 1] = e
      /\ \A i \in 1 .. here : Append(behind, e)[i] = behind[i]
    BY <1>3, AppendProperties
<1>7. history' = Append(behind, e)
    BY DEF behind
<1> QED
    BY <1>3, <1>4, <1>5, <1>6, <1>7

(* Another entry in the place of the one the reader is on.                  *)
LEMMA Replacing ==
    ASSUME history \in Seq(Entry), here \in DOMAIN history, NEW e \in Entry,
           history' = [history EXCEPT ![here] = e]
    PROVE  /\ history' \in Seq(Entry) /\ Len(history') = Len(history)
           /\ DOMAIN history' = DOMAIN history
           /\ history'[here] = e
           /\ \A i \in DOMAIN history : i # here => history'[i] = history[i]
BY ExceptSeq, LenProperties

LEMMA MovesKeepLocation ==
    ASSUME LocationInv, ReaderNext
    PROVE  /\ LocationInv'
           /\ \A i \in 1 .. here : /\ i \in DOMAIN history'
                                   /\ resolveDocument(history'[i].doc) = resolveDocument(history[i].doc)
<1> DEFINE LeadsBack == \A i \in 1 .. here :
               /\ i \in DOMAIN history'
               /\ resolveDocument(history'[i].doc) = resolveDocument(history[i].doc)
<1>1. /\ history \in Seq(Entry) /\ here \in DOMAIN history /\ DOMAIN history = 1 .. Len(history)
      /\ Len(history) \in 1 .. MaxHistory /\ MaxHistory \in Nat /\ here \in Nat
      /\ 1 .. here \subseteq DOMAIN history
      /\ active \in Doc /\ page \in {"up", "blank"} /\ LocationShowsActive
    BY ReaderAssumption, LenProperties DEF ReaderAssumption, LocationInv
<1>2. CASE page = "up" /\ \E d \in Doc : Navigate(d)
    <2>1. PICK d \in Doc : Navigate(d)
        BY <1>2
    <2> DEFINE e == [doc |-> d, hash |-> FALSE]
    <2>2. e \in Entry /\ e.doc = d
        BY Resolved DEF Entry
    <2>3. here < MaxHistory /\ history' = Append(SubSeq(history, 1, here), e)
          /\ here' = here + 1 /\ active' = d /\ page' = page
        BY <2>1 DEF Navigate, Show
    <2> HIDE DEF e
    <2>4. /\ history' \in Seq(Entry) /\ Len(history') = here + 1
          /\ DOMAIN history' = 1 .. here + 1
          /\ history'[here + 1] = e
          /\ \A i \in 1 .. here : history'[i] = history[i]
        BY <1>1, <2>2, <2>3, Pushing
    <2>5. LeadsBack
        BY <1>1, <2>4
    <2>6. LocationShowsActive'
        BY <2>2, <2>3, <2>4, Resolved DEF LocationShowsActive, currentRoute
    <2>7. LocationInv'
        BY <1>1, <1>2, <2>3, <2>4, <2>6 DEF LocationInv
    <2> QED
        BY <2>5, <2>7
<1>3. CASE FollowHash /\ UNCHANGED <<here, textVars>>
    <2>1. HashEntry \in Entry /\ HashEntry.doc = active
        BY <1>1, Resolved DEF HashEntry, Entry
    <2>2. history' = [history EXCEPT ![here] = HashEntry] /\ page = "up"
          /\ here' = here /\ active' = active /\ page' = page
        BY <1>3 DEF FollowHash, BodyShown, textVars
    <2>3. /\ history' \in Seq(Entry) /\ Len(history') = Len(history)
          /\ DOMAIN history' = DOMAIN history
          /\ history'[here] = HashEntry
          /\ \A i \in DOMAIN history : i # here => history'[i] = history[i]
        BY <1>1, <2>1, <2>2, Replacing
    <2>4. resolveDocument(history'[here].doc) = active
          /\ resolveDocument(history[here].doc) = active
        BY <1>1, <2>1, <2>2, <2>3, Resolved DEF LocationShowsActive, currentRoute
    <2>5. LeadsBack
        BY <1>1, <2>3, <2>4
    <2>6. LocationShowsActive'
        BY <2>2, <2>4 DEF LocationShowsActive, currentRoute
    <2>7. LocationInv'
        BY <1>1, <2>2, <2>3, <2>6 DEF LocationInv
    <2> QED
        BY <2>5, <2>7
<1>4. CASE \E i : PopState(i)
    <2>1. PICK i : PopState(i)
        BY <1>4
    <2>2. history' = history /\ here' = i /\ i \in DOMAIN history
        BY <2>1 DEF PopState, Traverse
    <2>3. CASE page = "up"
        <3>1. active' = resolveDocument(history[i].doc) /\ page' = page
            BY <2>1, <2>3 DEF PopState, Show
        <3> QED
            BY <1>1, <2>2, <3>1, Resolved DEF LocationInv, LocationShowsActive, currentRoute
    <2>4. CASE page # "up"
        <3>1. active' = active /\ page' = page
            BY <2>1, <2>4 DEF PopState, textVars
        <3> QED
            BY <1>1, <2>2, <2>4, <3>1 DEF LocationInv, LocationShowsActive
    <2> QED
        BY <2>3, <2>4
<1>5. CASE Reload
    <2>1. UNCHANGED <<history, here>> /\ active' = resolveDocument(currentRoute) /\ page' = "up"
        BY <1>5 DEF Reload, locationVars
    <2> QED
        BY <1>1, <2>1, Resolved DEF LocationInv, LocationShowsActive, currentRoute
<1>6. CASE UNCHANGED locationVars /\ active' = active /\ page' \in {page, "blank"}
    BY <1>1, <1>6 DEF locationVars, LocationInv, LocationShowsActive, currentRoute
<1>7. CASE UNCHANGED locationVars /\ (RevealHints \/ PageFails \/ \E d \in Doc : ChunkSettles(d))
    BY <1>6, <1>7 DEF RevealHints, PageFails, ChunkSettles
<1>8. CASE UNCHANGED <<locationVars, textVars>>
    BY <1>6, <1>8 DEF textVars
<1> QED
    BY <1>2, <1>3, <1>4, <1>5, <1>7, <1>8 DEF ReaderNext, Moves

-----------------------------------------------------------------------------
(* The texts: what is mounted, and the hints revealed in it.                *)
TextsTypeOK ==
    /\ chunks \in [Doc -> {"none", "loading", "ready", "failed"}]
    /\ text \in Route
    /\ revealed \in 0 .. Hints

LEMMA ShowingKeepsTexts ==
    ASSUME TextsTypeOK, NEW d \in Doc, Show(d)
    PROVE  TextsTypeOK'
<1>1. chunks' \in [Doc -> {"none", "loading", "ready", "failed"}]
    BY DEF TextsTypeOK, Show
<1>2. UNCHANGED <<text, revealed>> \/ (text' = d /\ revealed' = 0)
    BY DEF Show, MountText
<1>3. 0 \in 0 .. Hints /\ d \in Route
    BY ReaderAssumption, Resolved DEF ReaderAssumption
<1> QED
    BY <1>1, <1>2, <1>3 DEF TextsTypeOK

LEMMA MovesKeepTexts ==
    ASSUME LocationInv, TextsTypeOK, ReaderNext
    PROVE  TextsTypeOK'
<1>1. Hints \in Nat /\ 0 \in 0 .. Hints /\ Unknown \in Route
    BY ReaderAssumption DEF ReaderAssumption, Route
<1>2. CASE UNCHANGED textVars
    BY <1>2 DEF textVars, TextsTypeOK
<1>3. CASE \E d \in Doc : Navigate(d)
    BY <1>3, ShowingKeepsTexts DEF Navigate
<1>4. CASE \E i : PopState(i)
    BY <1>2, <1>4, Resolved, ShowingKeepsTexts DEF PopState
<1>5. CASE RevealHints
    BY <1>1, <1>5 DEF RevealHints, TextsTypeOK
<1>6. CASE PageFails
    BY <1>1, <1>6 DEF PageFails, TextsTypeOK
<1>7. ASSUME NEW d \in Doc, ChunkSettles(d) PROVE TextsTypeOK'
    <2>1. chunks' \in [Doc -> {"none", "loading", "ready", "failed"}]
        BY <1>7 DEF ChunkSettles, TextsTypeOK
    <2>2. UNCHANGED <<text, revealed>> \/ (text' = d /\ revealed' = 0)
        BY <1>7 DEF ChunkSettles, MountText
    <2> QED
        BY <1>1, <2>1, <2>2, Resolved DEF TextsTypeOK
<1>8. CASE Reload
    BY <1>1, <1>8 DEF Reload, TextsTypeOK
<1> QED
    BY <1>2, <1>3, <1>4, <1>5, <1>6, <1>7, <1>8 DEF ReaderNext, Moves

-----------------------------------------------------------------------------
(* The preferences: what this page was the last to save is what it has.     *)
PreferencesInv ==
    /\ preferences \in Preferences
    /\ stored \in Stored \union {NoPreferences}
    /\ lastSave \in {"this", "other", "failed"}
    /\ lastSave = "this" => stored = preferences

(* loadReaderPreferences makes preferences of whatever is kept, and finds   *)
(* preferences as they were saved.                                          *)
LEMMA Loading ==
    /\ \A kept \in Stored \union {NoPreferences} : LoadReaderPreferences(kept) \in Preferences
    /\ \A chosen \in Preferences :
           LoadReaderPreferences(chosen) = chosen /\ chosen \in Stored
<1>1. DefaultSize \in FontSize /\ NoPreferences \notin Stored
    BY ReaderAssumption DEF ReaderAssumption
<1>2. DefaultPreferences \in Preferences
    BY <1>1 DEF DefaultPreferences, Preferences
<1>3. ASSUME NEW kept \in Stored
      PROVE  LoadReaderPreferences(kept) =
                 [kept EXCEPT !.fontSize = IF kept.fontSize \in FontSize THEN kept.fontSize
                                           ELSE DefaultSize]
    BY <1>1 DEF LoadReaderPreferences
<1>4. ASSUME NEW kept \in Stored PROVE LoadReaderPreferences(kept) \in Preferences
    BY <1>1, <1>3 DEF Stored, Preferences
<1>5. LoadReaderPreferences(NoPreferences) \in Preferences
    BY <1>2 DEF LoadReaderPreferences
<1>6. ASSUME NEW chosen \in Preferences
      PROVE  LoadReaderPreferences(chosen) = chosen /\ chosen \in Stored
    <2>1. chosen \in Stored /\ chosen.fontSize \in FontSize
        BY DEF Stored, Preferences
    <2>2. [chosen EXCEPT !.fontSize = chosen.fontSize] = chosen
        BY DEF Preferences
    <2> QED
        BY <1>3, <2>1, <2>2
<1> QED
    BY <1>4, <1>5, <1>6

LEMMA SavesKeepPreferences ==
    ASSUME PreferencesInv, ReaderNext
    PROVE  PreferencesInv'
<1>1. ASSUME NEW chosen \in Preferences, NEW texts, NEW rest, Save(chosen, texts, rest)
      PROVE  PreferencesInv'
    <2>1. chosen \in Stored
        BY Loading
    <2> QED
        BY <1>1, <2>1 DEF Save, PreferencesInv
<1>2. CASE UNCHANGED preferenceVars
    BY <1>2 DEF preferenceVars, PreferencesInv
<1>3. CASE Saves
    BY <1>1, <1>3 DEF Saves
<1>4. CASE OtherTabSaves
    BY <1>4, ReaderAssumption DEF ReaderAssumption, OtherTabSaves, PreferencesInv
<1>5. CASE Reload
    <2>1. LoadReaderPreferences(stored) \in Preferences
        BY Loading DEF PreferencesInv
    <2> QED
        BY <1>1, <1>5, <2>1 DEF Reload
<1> QED
    BY <1>2, <1>3, <1>4, <1>5 DEF ReaderNext

(* What is left of the bounds never falls below nothing.                    *)
LEMMA SpendingKeepsLeft ==
    ASSUME left \in [texts : Nat, rest : Nat], [Next]_vars
    PROVE  left' \in [texts : Nat, rest : Nat]
<1>1. ASSUME NEW texts \in Nat, NEW rest \in Nat, Spend(texts, rest)
      PROVE  left' \in [texts : Nat, rest : Nat]
    <2>1. left.texts - texts \in Nat /\ left.rest - rest \in Nat
        BY <1>1 DEF Spend
    <2> QED
        BY <1>1, <2>1 DEF Spend
<1>2. CASE OnTexts \/ OnTheRest
    BY <1>1, <1>2 DEF OnTexts, OnTheRest
<1>3. ASSUME NEW chosen, Prefer(chosen) PROVE left' \in [texts : Nat, rest : Nat]
    BY <1>1, <1>3 DEF Prefer, Save
<1>4. CASE Reload
    BY <1>1, <1>4 DEF Reload, Save
<1>5. CASE left' = left
    BY <1>5
<1>6. CASE Sidebar \/ TurnPage \/ FollowHash \/ RevealHints \/ BackOrForward \/ OtherTabSaves
    BY <1>2, <1>3, <1>6 DEF Sidebar, TurnPage, FollowHash, RevealHints, BackOrForward, OtherTabSaves
<1>7. CASE Controls \/ Keys
    BY <1>2, <1>3, <1>7 DEF Controls, Keys
<1>8. CASE AnimationFrame \/ PageFails \/ \E d \in Doc : ChunkSettles(d)
    BY <1>5, <1>8 DEF AnimationFrame, PageFails, ChunkSettles
<1> QED
    BY <1>2, <1>4, <1>5, <1>6, <1>7, <1>8 DEF Next, Readers, vars

-----------------------------------------------------------------------------
ReaderInv ==
    /\ Somewhere /\ LocationInv /\ TextsTypeOK /\ PreferencesInv /\ DiagramInv
    /\ left \in [texts : Nat, rest : Nat]

LEMMA ReaderStarts == Init => ReaderInv
<1> SUFFICES ASSUME Init PROVE ReaderInv
    OBVIOUS
<1>1. PICK r \in Route : history = <<[doc |-> r, hash |-> FALSE]>>
    BY DEF Init
<1> DEFINE e == [doc |-> r, hash |-> FALSE]
<1>2. e \in Entry
    BY DEF Entry
<1>3. /\ here = 1 /\ active = resolveDocument(currentRoute)
      /\ chunks = [d \in Doc |-> IF d = active THEN "loading" ELSE "none"]
      /\ text = Unknown /\ page = "up" /\ revealed = 0 /\ panel = ClosedPanel
      /\ DiagramsInit
    BY DEF Init
<1>4. DiagramInv /\ active \in Doc
    BY <1>3, EmptyDiagrams, Resolved
<1>5. Somewhere
    BY <1>3, <1>4 DEF Somewhere, ClosedPanel, Panel
<1>6. LocationInv
    <2> HIDE DEF e
    <2>1. <<e>> \in Seq(Entry) /\ Len(<<e>>) = 1 /\ DOMAIN <<e>> = 1 .. 1
        BY <1>2
    <2>2. history = <<e>>
        BY <1>1 DEF e
    <2> QED
        BY <1>3, <1>4, <2>1, <2>2, ReaderAssumption
            DEF ReaderAssumption, LocationInv, LocationShowsActive
<1>7. TextsTypeOK
    BY <1>3, ReaderAssumption DEF ReaderAssumption, TextsTypeOK, Route
<1>8. PICK start \in Starts :
          /\ preferences = LoadReaderPreferences(start.stored)
          /\ \/ stored = preferences /\ lastSave = "this"
             \/ stored = start.stored /\ lastSave = "failed"
          /\ left = [texts |-> start.texts, rest |-> start.rest]
    BY DEF Init
<1>9. start.stored \in Stored \union {NoPreferences} /\ start.texts \in Nat /\ start.rest \in Nat
    BY ReaderAssumption DEF ReaderAssumption
<1>10. PreferencesInv /\ left \in [texts : Nat, rest : Nat]
    BY <1>8, <1>9, Loading DEF PreferencesInv
<1> QED
    BY <1>4, <1>5, <1>6, <1>7, <1>10 DEF ReaderInv

LEMMA ReaderStays == ReaderInv /\ [Next]_vars => ReaderInv'
<1> SUFFICES ASSUME ReaderInv, [Next]_vars PROVE ReaderInv'
    OBVIOUS
<1>1. ReaderNext
    BY ReaderSteps DEF ReaderInv, PreferencesInv
<1>2. Somewhere' /\ DiagramInv'
    BY ReaderStepsDiagrams, DiagramsKeepDrawings, StaysSomewhere DEF ReaderInv
<1>3. LocationInv' /\ TextsTypeOK' /\ PreferencesInv'
    BY <1>1, MovesKeepLocation, MovesKeepTexts, SavesKeepPreferences DEF ReaderInv
<1>4. left' \in [texts : Nat, rest : Nat]
    BY SpendingKeepsLeft DEF ReaderInv
<1> QED
    BY <1>2, <1>3, <1>4 DEF ReaderInv

LEMMA ReaderInvariant == Spec => []ReaderInv
BY ReaderStarts, ReaderStays, PTL DEF Spec

(* App.tsx: every variable of the reader has its type.                      *)
THEOREM ReaderTypeCorrect == Spec => []ReaderTypeOK
<1>1. ReaderInv => ReaderTypeOK
    BY DEF ReaderInv, Somewhere, LocationInv, TextsTypeOK, PreferencesInv, DiagramInv, ReaderTypeOK
<1> QED
    BY <1>1, ReaderInvariant, PTL

(* App.tsx:261-291: after any navigation, traversal and load, with history  *)
(* entries before and after, the roadmap shown is the one the address       *)
(* names.                                                                   *)
THEOREM LocationAlwaysShowsActive == Spec => []LocationShowsActive
<1>1. ReaderInv => LocationShowsActive
    BY DEF ReaderInv, LocationInv
<1> QED
    BY <1>1, ReaderInvariant, PTL

(* navigate and handleDocumentClick: no step takes an entry at or before    *)
(* the current one away, or gives it to another roadmap.                    *)
THEOREM BackLeadsToWhatWasShown == Spec => HistoryLeadsBack
<1>1. ReaderInv /\ [Next]_vars =>
          [\A i \in 1 .. here :
              /\ i \in DOMAIN history'
              /\ resolveDocument(history'[i].doc) = resolveDocument(history[i].doc)]_vars
    BY ReaderSteps, MovesKeepLocation DEF ReaderInv, PreferencesInv
<1> QED
    BY <1>1, ReaderInvariant, PTL DEF Spec, HistoryLeadsBack

(* App.tsx:297-303: preferences this page was the last to save are those    *)
(* the next load finds, whatever another release had stored before.         *)
THEOREM SavedPreferencesAreFound == Spec => []SavedIsFound
<1>1. ReaderInv => SavedIsFound
    BY Loading DEF ReaderInv, PreferencesInv, SavedIsFound
<1> QED
    BY <1>1, ReaderInvariant, PTL

(* documents.tsx, slugify: a title of any length made of words with one     *)
(* space or dash between them has the id the page gives it, so that its     *)
(* entry of the outline leads to its own heading and no other.              *)
THEOREM PlainOutlineAlwaysArrives == Spec => []PlainOutlineArrives
<1>1. ReaderInv => PlainOutlineArrives
    BY PlainEntriesArrive DEF ReaderInv, Somewhere, PlainOutlineArrives
<1> QED
    BY <1>1, ReaderInvariant, PTL
=============================================================================
