------------------------------- MODULE Reader --------------------------------
(***************************************************************************)
(* docs/src/App.tsx: the reader of the roadmaps, one page in a browser.     *)
(* What it shows follows the location, whose history the browser walks at   *)
(* will; the text of a roadmap is a chunk that is fetched when it is first  *)
(* needed, with its diagrams in it; preferences are kept in a storage that  *)
(* other tabs write too.                                                    *)
(***************************************************************************)
EXTENDS Outline, Diagrams

CONSTANTS
    Unknown,        \* a route that names no roadmap
    DiagramsOf,     \* [Doc -> [some diagrams -> their sources]]
    Links,          \* [Doc -> the roadmaps its relative links resolve to]
    Needle,         \* search texts
    Matches,        \* [Needle -> the roadmaps whose text includes it]
    FontSize, DefaultSize,
    OtherSizes,     \* sizes this release does not know
    Foreign,        \* what other tabs and releases write
    NoPreferences,  \* the storage holds nothing that can be read
    Hints,          \* the hints of a document
    MaxHistory,     \* bound: entries of the session history
    Starts          \* what the storage holds at first, with bounds on what
                    \* is done to the texts and to the rest of the page

Preferences == [fontSize : FontSize, readerMode : BOOLEAN, sidebarCollapsed : BOOLEAN]
Stored == [fontSize : FontSize \union OtherSizes, readerMode : BOOLEAN,
           sidebarCollapsed : BOOLEAN]

ASSUME ReaderAssumption ==
    /\ Unknown \notin Doc
    /\ DOMAIN DiagramsOf = Doc
    /\ \A d \in Doc : \E gs \in SUBSET Diagram : DiagramsOf[d] \in [gs -> Source]
    /\ Links \in [Doc -> SUBSET Doc]
    /\ Matches \in [Needle -> SUBSET Doc]
    /\ DefaultSize \in FontSize /\ OtherSizes \intersect FontSize = {}
    /\ Foreign \subseteq Stored
    /\ NoPreferences \notin Stored
    /\ Hints \in Nat /\ MaxHistory \in Nat \ {0}
    /\ Starts \subseteq [texts : Nat, rest : Nat, stored : Stored \union {NoPreferences}]

VARIABLES
    history, here,  \* the session history and the entry the location is
    active,         \* the roadmap that is shown
    chunks,         \* the text of each: none, loading, ready, failed
    text,           \* the roadmap whose text is mounted, if any
    page,           \* up, or blank after an error nobody caught
    revealed,       \* hints revealed in the text
    panel,          \* search text, menu, settings, where the search focus is
    preferences,
    stored,         \* what local storage holds
    lastSave,       \* history: by whom it was last tried to be written
    left            \* what is left of the bounds

locationVars == <<history, here>>
textVars == <<active, chunks, text, page, revealed>>
preferenceVars == <<preferences, stored, lastSave>>
vars == <<locationVars, textVars, panel, preferenceVars, diagramVars, left>>

Route == Doc \union {Unknown}
Entry == [doc : Route, hash : BOOLEAN]
Panel == [query : Needle \union {""}, menu : BOOLEAN, settings : BOOLEAN,
          search : {"blurred", "frame", "focused"}]

DefaultPreferences ==
    [fontSize |-> DefaultSize, readerMode |-> FALSE, sidebarCollapsed |-> FALSE]
ClosedPanel == [query |-> "", menu |-> FALSE, settings |-> FALSE, search |-> "blurred"]

currentRoute == history[here].doc
sidebarCollapsed == preferences.sidebarCollapsed \/ preferences.readerMode
BodyShown == page = "up" /\ text = active

Spend(texts, rest) ==
    /\ left.texts >= texts /\ left.rest >= rest
    /\ left' = [texts |-> left.texts - texts, rest |-> left.rest - rest]

OnTexts == Spend(1, 0)
OnTheRest == Spend(0, 1)

-----------------------------------------------------------------------------
(* Faulty variant: the size is looked for among the labels, in vain.        *)
LoadByLabel(kept) ==
    IF kept = NoPreferences THEN DefaultPreferences
    ELSE [kept EXCEPT !.fontSize = DefaultSize]

(* loadReaderPreferences: what cannot be read, or is not there, is default. *)
LoadReaderPreferences(kept) ==
    IF kept = NoPreferences THEN DefaultPreferences
    ELSE [kept EXCEPT !.fontSize = IF @ \in FontSize THEN @ ELSE DefaultSize]

(* Every change, and the first showing of a page, runs the effect that      *)
(* saves them all.  A storage that is full or not available keeps what it   *)
(* holds.                                                                   *)
Save(chosen, texts, rest) ==
    /\ preferences' = chosen
    /\ \/ stored' = chosen /\ lastSave' = "this" /\ Spend(texts, rest)
       \/ stored' = stored /\ lastSave' = "failed" /\ Spend(texts, rest + 1)

Prefer(chosen) == Save(chosen, 0, 1)

OtherTabSaves ==
    /\ OnTheRest
    /\ stored' \in Foreign /\ lastSave' = "other"
    /\ UNCHANGED <<locationVars, textVars, panel, preferences, diagramVars>>

-----------------------------------------------------------------------------
(* Showing a roadmap: its text at once if it has been fetched.  Until then  *)
(* the text before it stays mounted and is hidden, so that who goes back at *)
(* once finds it as it was.  A chunk is asked for once in the life of a     *)
(* page.                                                                    *)
MountText(d) ==
    IF d = text THEN UNCHANGED <<text, revealed, diagramVars>>
    ELSE text' = d /\ revealed' = 0 /\ Mount(DiagramsOf[d])

Show(d) ==
    /\ active' = d
    /\ chunks' = [chunks EXCEPT ![d] = IF @ = "none" THEN "loading" ELSE @]
    /\ IF chunks[d] = "ready" THEN MountText(d) ELSE UNCHANGED <<text, revealed, diagramVars>>
    /\ UNCHANGED page

ChunkSettles(d) ==
    /\ chunks[d] = "loading"
    /\ \E outcome \in {"ready", "failed"} :
           /\ chunks' = [chunks EXCEPT ![d] = outcome]
           /\ IF page = "up" /\ d = active /\ outcome = "ready"
              THEN MountText(d) ELSE UNCHANGED <<text, revealed, diagramVars>>
    /\ UNCHANGED <<locationVars, active, page, panel, preferenceVars, left>>

(* The chunk of the roadmap shown could not be fetched: the error is thrown *)
(* where the text would be, nobody catches it, and React takes the whole    *)
(* page down.                                                               *)
PageFails ==
    /\ page = "up" /\ chunks[active] = "failed"
    /\ page' = "blank" /\ text' = Unknown
    /\ Mount(NoDiagrams)
    /\ UNCHANGED <<locationVars, active, chunks, revealed, panel, preferenceVars, left>>

(* navigate: an entry after the current one, what lay ahead forgotten.      *)
Navigate(d) ==
    /\ here < MaxHistory
    /\ history' = Append(SubSeq(history, 1, here), [doc |-> d, hash |-> FALSE])
    /\ here' = here + 1
    /\ Show(d)

(* A click outside the reader's controls: pointing there has closed the     *)
(* settings before, pressing a key on what has the focus has not.           *)
Blurred == IF panel.search = "focused" THEN "blurred" ELSE panel.search

Click(p) ==
    \E settings \in {FALSE, panel.settings} :
        panel' = [p EXCEPT !.settings = settings, !.search = Blurred]

(* The sidebar: its brand and its entries, those the search leaves; its     *)
(* collapse, which reader mode locks; and the menu it is on a small screen. *)
Filtered == IF panel.query = "" THEN Doc ELSE Matches[panel.query]

Sidebar ==
    /\ page = "up"
    /\ \/ /\ OnTexts
          /\ \E d \in {documents[1]} \union Filtered : Navigate(d)
          /\ Click([panel EXCEPT !.menu = FALSE])
          /\ UNCHANGED preferenceVars
       \/ /\ ~preferences.readerMode
          /\ Prefer([preferences EXCEPT !.sidebarCollapsed = ~@])
          /\ Click(panel)
          /\ UNCHANGED <<locationVars, textVars, diagramVars>>
       \/ /\ OnTheRest
          /\ Click([panel EXCEPT !.menu = ~@])
          /\ UNCHANGED <<locationVars, textVars, preferenceVars, diagramVars>>

(* The links of a text and the page turner below it.  A hash link replaces  *)
(* the entry it is on; a link that resolves to no roadmap leaves the page,  *)
(* and coming back is a reload.                                             *)
HashAlone == [doc |-> Unknown, hash |-> TRUE]     \* faulty variant: without the roadmap

HashEntry == [doc |-> active, hash |-> TRUE]

TurnPage ==
    /\ page = "up" /\ OnTexts
    /\ \E d \in Neighbours(active) \union (IF BodyShown THEN Links[active] ELSE {}) : Navigate(d)
    /\ Click([panel EXCEPT !.menu = FALSE])
    /\ UNCHANGED preferenceVars

FollowHash ==
    /\ BodyShown /\ OnTexts
    /\ history' = [history EXCEPT ![here] = HashEntry]
    /\ Click(panel)
    /\ UNCHANGED <<here, textVars, preferenceVars, diagramVars>>

(* The hints of a text, one after the other, or all hidden again.           *)
RevealUnbounded ==               \* faulty variant: without the disabled button
    /\ BodyShown /\ OnTexts
    /\ revealed' = revealed + 1
    /\ Click(panel)
    /\ UNCHANGED <<locationVars, active, chunks, text, page, preferenceVars, diagramVars>>

RevealHints ==
    /\ BodyShown /\ OnTexts
    /\ \/ revealed < Hints /\ revealed' = revealed + 1
       \/ revealed > 0 /\ revealed' = 0
    /\ Click(panel)
    /\ UNCHANGED <<locationVars, active, chunks, text, page, preferenceVars, diagramVars>>

-----------------------------------------------------------------------------
(* The dock: settings, their sizes, and the reader mode.                    *)
Controls ==
    /\ page = "up"
    /\ \/ /\ panel' = [panel EXCEPT !.settings = ~@, !.search = Blurred]
          /\ OnTheRest
          /\ UNCHANGED preferenceVars
       \/ /\ panel.settings
          /\ \E size \in FontSize : Prefer([preferences EXCEPT !.fontSize = size])
          /\ panel' = [panel EXCEPT !.search = Blurred]
       \/ /\ Prefer([preferences EXCEPT !.readerMode = ~@])
          /\ panel' = [panel EXCEPT !.settings = FALSE, !.search = Blurred]
    /\ UNCHANGED <<locationVars, textVars, diagramVars>>

(* The keys: a slash outside the search opens the sidebar at once and moves *)
(* the focus in the next frame; Escape closes and clears.                   *)
Keys ==
    /\ page = "up"
    /\ \/ /\ panel.search # "focused"
          /\ panel' = [panel EXCEPT !.search = "frame"]
          /\ Prefer([preferences EXCEPT !.readerMode = FALSE, !.sidebarCollapsed = FALSE])
       \/ /\ panel' = [ClosedPanel EXCEPT !.search = Blurred]
          /\ OnTheRest
          /\ UNCHANGED preferenceVars
       \/ /\ panel.search = "focused"
          /\ \E typed \in Needle \union {""} : panel' = [panel EXCEPT !.query = typed]
          /\ OnTheRest
          /\ UNCHANGED preferenceVars
    /\ UNCHANGED <<locationVars, textVars, diagramVars>>

(* An input that is not displayed takes no focus. *)
AnimationFrame ==
    /\ page = "up" /\ panel.search = "frame"
    /\ panel' = [panel EXCEPT !.search = IF sidebarCollapsed THEN "blurred" ELSE "focused"]
    /\ UNCHANGED <<locationVars, textVars, preferenceVars, diagramVars, left>>

-----------------------------------------------------------------------------
(* The browser: Back, Forward and Reload, which work on a blank page too.   *)
Traverse(i) == i \in DOMAIN history \ {here} /\ here' = i /\ UNCHANGED history

PopStateMissed(i) ==            \* faulty variant: nobody listens
    /\ Traverse(i)
    /\ UNCHANGED <<textVars, diagramVars>>

PopState(i) ==
    /\ Traverse(i)
    /\ IF page = "up" THEN Show(resolveDocument(history[i].doc))
       ELSE UNCHANGED <<textVars, diagramVars>>

BackOrForward ==
    /\ OnTexts
    /\ \E i \in {here - 1, here + 1} : PopState(i)
    /\ UNCHANGED <<panel, preferenceVars>>

Reload ==
    LET d == resolveDocument(currentRoute) IN
    /\ active' = d
    /\ chunks' = [e \in Doc |-> IF e = d THEN "loading" ELSE "none"]
    /\ text' = Unknown /\ page' = "up" /\ revealed' = 0 /\ panel' = ClosedPanel
    /\ Save(LoadReaderPreferences(stored), 1, 0)
    /\ DiagramsReset
    /\ UNCHANGED locationVars

-----------------------------------------------------------------------------
Init ==
    /\ history \in {<<[doc |-> r, hash |-> FALSE]>> : r \in Route}
    /\ here = 1
    /\ active = resolveDocument(currentRoute)
    /\ chunks = [d \in Doc |-> IF d = active THEN "loading" ELSE "none"]
    /\ text = Unknown /\ page = "up" /\ revealed = 0 /\ panel = ClosedPanel
    /\ DiagramsInit
    /\ \E start \in Starts :
           /\ preferences = LoadReaderPreferences(start.stored)
           /\ \/ stored = preferences /\ lastSave = "this"
              \/ stored = start.stored /\ lastSave = "failed"
           /\ left = [texts |-> start.texts, rest |-> start.rest]

Readers == Sidebar \/ TurnPage \/ FollowHash \/ RevealHints \/ Controls \/ Keys
               \/ BackOrForward \/ Reload

DiagramStep(A) ==
    A /\ UNCHANGED <<locationVars, textVars, panel, preferenceVars>>

Next ==
    \/ Readers
    \/ OtherTabSaves \/ AnimationFrame
    \/ PageFails \/ \E d \in Doc : ChunkSettles(d)
    \/ \E g \in Diagram, s \in Source : DiagramStep(Edit(g, s)) /\ OnTexts
    \/ DiagramStep(LibrarySettles) /\ UNCHANGED left
    \/ \E s \in Source : DiagramStep(RenderSettles(s)) /\ UNCHANGED left
    \/ \E w \in waiting : DiagramStep(Deliver(w)) /\ UNCHANGED left

(* An import and a drawing are settled some day, and what waits for them    *)
(* runs.  Nothing is assumed of readers, chunks or storage.                 *)
Fairness ==
    /\ WF_vars(DiagramStep(LibrarySettles) /\ UNCHANGED left)
    /\ \A s \in Source : WF_vars(DiagramStep(RenderSettles(s)) /\ UNCHANGED left)
    /\ \A g \in Diagram : WF_vars(\E w \in waiting : w.diagram = g /\ DiagramStep(Deliver(w))
                                       /\ UNCHANGED left)

Spec == Init /\ [][Next]_vars /\ Fairness

-----------------------------------------------------------------------------
ReaderTypeOK ==
    /\ history \in Seq(Entry) /\ Len(history) \in 1 .. MaxHistory
    /\ here \in DOMAIN history
    /\ active \in Doc
    /\ chunks \in [Doc -> {"none", "loading", "ready", "failed"}]
    /\ text \in Route
    /\ page \in {"up", "blank"}
    /\ revealed \in 0 .. Hints
    /\ panel \in Panel
    /\ preferences \in Preferences
    /\ stored \in Stored \union {NoPreferences}
    /\ lastSave \in {"this", "other", "failed"}
    /\ left \in [texts : Nat, rest : Nat]
    /\ DiagramsTypeOK

(* App's active is a copy of what the location says, kept by hand at every  *)
(* navigation, hash link, traversal and load: as long as the page is up it  *)
(* shows the roadmap a reload, or whoever is sent the address, would see.   *)
LocationShowsActive == page = "up" => active = resolveDocument(currentRoute)

(* navigate and handleDocumentClick: Back leads to the roadmaps that were   *)
(* shown on the way; no click changes the entries behind it, and a hash     *)
(* link leaves the one it is on with its roadmap.                           *)
HistoryLeadsBack ==
    [][\A i \in 1 .. here :
          /\ i \in DOMAIN history'
          /\ resolveDocument(history'[i].doc) = resolveDocument(history[i].doc)]_vars

(* The outline (documents.tsx:122) and the page (rehype-slug) make their    *)
(* ids apart from each other.  Once the text is there, an entry with a      *)
(* plain title whose id no earlier heading was given leads to its own       *)
(* heading.  (Of other titles: OutlineArrives.)                             *)
PlainOutlineArrives ==
    BodyShown => \A i \in PlainTitles[active] : JumpsTo[active][i] = {i}

(* mdx-components.tsx:387, the effect of Mermaid: a diagram shows the       *)
(* drawing of its own source, or an earlier one only while its own is on    *)
(* the way; and never a drawing of a source that has an error, or without   *)
(* the library.                                                             *)
DiagramShowsItsOwn ==
    \A g \in Diagram :
        shown[g] # Nothing =>
            /\ \/ shown[g].of = source[g]
               \/ \E w \in waiting : w.diagram = g /\ w.source = source[g] /\ ~w.cancelled
            /\ shown[g].kind = "svg" => library = "ready" /\ shown[g].of \notin Faulty

(* Promises that are shared, cached, dropped on failure and cancelled lose  *)
(* nobody: a diagram left alone comes to show its drawing or an error.      *)
DiagramsSettle ==
    \A g \in Diagram : \A s \in Source :
        source[g] = s ~> source[g] # s \/ shown[g].of = s

(* App.tsx:297-303: what the reader chose and saw saved is what the next    *)
(* load finds, unless another tab has written since.                        *)
SavedIsFound ==
    page = "up" /\ lastSave = "this" => LoadReaderPreferences(stored) = preferences

(* reader-guide.mdx:23: use "the right outline to jump within the current   *)
(* document".  Every entry of a heading leads to that heading.              *)
OutlineArrives ==
    BodyShown => \A i \in headingsFor(active) \intersect Headings(active) :
                     JumpsTo[active][i] = {i}
=============================================================================
