------------------------------ MODULE MCReader -------------------------------
(* Two roadmaps of one number.  The headings of the first are titles of     *)
(* three characters that begin and end in every kind of way; the second     *)
(* repeats a heading, has one that asks for the id the repeated one was     *)
(* given, and one inside a fence.                                           *)
EXTENDS Reader

CONSTANTS r1, r2, g1, g2, m1, m2, m3

Ends == <<"a", "e^", "_", "'">>
Middles == <<"a", "A", "e^", " ", "-", "_", "'">>
Title(n) == <<Ends[(n % 4) + 1], Middles[((n \div 4) % 7) + 1], Ends[(n \div 28) + 1]>>

MCContents ==
    r1 :> [i \in 1 .. 112 |-> [kind |-> "heading", depth |-> 2, title |-> Title(i - 1)]]
    @@ r2 :> <<[kind |-> "heading", depth |-> 1, title |-> <<"a">>],
               [kind |-> "heading", depth |-> 3, title |-> <<"A">>],
               [kind |-> "heading", depth |-> 2, title |-> <<"a", " ", "1">>],
               [kind |-> "heading", depth |-> 3, title |-> <<"1">>],
               [kind |-> "fenced", depth |-> 2, title |-> <<"e^">>],
               [kind |-> "heading", depth |-> 2, title |-> <<"a", " ", "A", "-", "a">>],
               [kind |-> "heading", depth |-> 4, title |-> <<"e^">>]>>

MCRank == r1 :> <<2, 2>> @@ r2 :> <<2, 1>>
MCDiagramsOf == r1 :> (g1 :> m1 @@ g2 :> m2) @@ r2 :> (g1 :> m3)
MCLinks == r1 :> {r2} @@ r2 :> {}
MCMatches == "q" :> {r2}
MCForeign == {[fontSize |-> "xxl", readerMode |-> TRUE, sidebarCollapsed |-> FALSE],
              [fontSize |-> "md", readerMode |-> FALSE, sidebarCollapsed |-> TRUE]}
MCStarts ==
    {[texts |-> 2, rest |-> 0, stored |-> NoPreferences]}
        \union {[texts |-> 1, rest |-> 2, stored |-> kept] : kept \in MCForeign}
=============================================================================
