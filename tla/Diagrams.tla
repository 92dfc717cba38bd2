------------------------------ MODULE Diagrams -------------------------------
(***************************************************************************)
(* The diagrams of docs/src/mdx-components.tsx.  The library is imported    *)
(* once and every finished drawing is kept, both as promises in variables   *)
(* of the module, which outlive the diagrams that asked.  A diagram asks in *)
(* an effect, whose cleanup cancels the answer.                             *)
(***************************************************************************)
EXTENDS Naturals

CONSTANTS
    Diagram,        \* the places a diagram is mounted at
    Source,         \* diagram sources
    Faulty,         \* those with a syntax error
    NoSource,
    Dev             \* the development server: effects run twice, hot updates

ASSUME DiagramsAssumption ==
    /\ Faulty \subseteq Source
    /\ NoSource \notin Source
    /\ Dev \in BOOLEAN

VARIABLES
    library,        \* mermaidReady: none, loading, ready, failed
    renders,        \* mermaidRenders: none, or the state of the promise kept
    source,         \* the source each diagram is given, or NoSource
    shown,          \* result: what each shows, and of which source
    waiting         \* callbacks of effects on promises

diagramVars == <<library, renders, source, shown, waiting>>

Nothing == [kind |-> "nothing", of |-> NoSource]
Result == [kind : {"svg", "error"}, of : Source] \union {Nothing}
Callback == [diagram : Diagram, source : Source, cancelled : BOOLEAN,
             outcome : {"pending", "svg", "error"}]

NoDiagrams == [g \in {} |-> NoSource]

-----------------------------------------------------------------------------
(* Each diagram in the domain of given subscribes to the promise kept for   *)
(* its source, made now if there is none.  StrictMode in development runs   *)
(* a new diagram's effect, cleans it up and runs it again.                  *)
Subscription(g, s, dropped) ==
    [diagram |-> g, source |-> s, cancelled |-> dropped,
     outcome |-> IF renders[s] = "svg" THEN "svg" ELSE "pending"]

(* Faulty variant: who finds a drawing under way leaves it to the others.   *)
SubscribeFirst(given) ==
    {Subscription(g, given[g], FALSE) : g \in {h \in DOMAIN given : renders[given[h]] = "none"}}

Subscribe(given) ==
    {Subscription(g, given[g], dropped) : g \in DOMAIN given,
         dropped \in (IF Dev THEN BOOLEAN ELSE {FALSE})}

RenderMermaid(given) ==
    LET new == {s \in Source : renders[s] = "none" /\ \E g \in DOMAIN given : given[g] = s} IN
    /\ renders' = [s \in Source |-> IF s \in new THEN "pending" ELSE renders[s]]
    /\ library' = IF library = "none" /\ new # {} THEN "loading" ELSE library

(* The diagrams of one document make place for those of another; an answer  *)
(* to a diagram that is gone reaches nobody.                                *)
Mount(given) ==
    /\ source' = [g \in Diagram |-> IF g \in DOMAIN given THEN given[g] ELSE NoSource]
    /\ shown' = [g \in Diagram |-> Nothing]
    /\ waiting' = Subscribe(given)
    /\ RenderMermaid(given)

(* A hot update gives a mounted diagram another source: what it asked for   *)
(* is cancelled, what it shows stays until the new answer.                  *)
Edit(g, s) ==
    /\ Dev
    /\ source[g] \notin {NoSource, s}
    /\ source' = [source EXCEPT ![g] = s]
    /\ waiting' = {IF w.diagram = g THEN [w EXCEPT !.cancelled = TRUE] ELSE w : w \in waiting}
                      \union {Subscription(g, s, FALSE)}
    /\ RenderMermaid([h \in {g} |-> s])
    /\ UNCHANGED shown

-----------------------------------------------------------------------------
(* The import is settled, for good.                                         *)
LibrarySettles ==
    /\ library = "loading"
    /\ library' \in {"ready", "failed"}
    /\ UNCHANGED <<renders, source, shown, waiting>>

(* A drawing is settled once the library is: kept if it is drawn, taken out *)
(* of the map if not.  A source without a syntax error may not be drawn     *)
(* either: the library fetches what a kind of diagram needs when it needs   *)
(* it.                                                                      *)
Settle(s, outcome) ==
    /\ waiting' = {IF w.source = s /\ w.outcome = "pending" THEN [w EXCEPT !.outcome = outcome]
                   ELSE w : w \in waiting}
    /\ renders' = [renders EXCEPT ![s] = IF outcome = "svg" THEN "svg" ELSE "none"]

RenderSettles(s) ==
    /\ renders[s] = "pending"
    /\ \/ library = "ready" /\ s \notin Faulty /\ Settle(s, "svg")
       \/ library \in {"ready", "failed"} /\ Settle(s, "error")
    /\ UNCHANGED <<library, source, shown>>

(* A callback runs: nothing comes of it once it is cancelled.               *)
DeliverAnyway(w) ==             \* faulty variant: without the cancelled flag
    /\ w.outcome # "pending"
    /\ waiting' = waiting \ {w}
    /\ shown' = [shown EXCEPT ![w.diagram] = [kind |-> w.outcome, of |-> w.source]]
    /\ UNCHANGED <<library, renders, source>>

Deliver(w) ==
    /\ w.outcome # "pending"
    /\ waiting' = waiting \ {w}
    /\ shown' = IF w.cancelled THEN shown
                ELSE [shown EXCEPT ![w.diagram] = [kind |-> w.outcome, of |-> w.source]]
    /\ UNCHANGED <<library, renders, source>>

-----------------------------------------------------------------------------
DiagramsInit ==
    /\ library = "none"
    /\ renders = [s \in Source |-> "none"]
    /\ source = [g \in Diagram |-> NoSource]
    /\ shown = [g \in Diagram |-> Nothing]
    /\ waiting = {}

(* The page is loaded anew, and its module variables with it.               *)
DiagramsReset ==
    /\ library' = "none"
    /\ renders' = [s \in Source |-> "none"]
    /\ source' = [g \in Diagram |-> NoSource]
    /\ shown' = [g \in Diagram |-> Nothing]
    /\ waiting' = {}

DiagramsTypeOK ==
    /\ library \in {"none", "loading", "ready", "failed"}
    /\ renders \in [Source -> {"none", "pending", "svg"}]
    /\ source \in [Diagram -> Source \union {NoSource}]
    /\ shown \in [Diagram -> Result]
    /\ waiting \subseteq Callback
=============================================================================
