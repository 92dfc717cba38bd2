------------------------------- MODULE Outline -------------------------------
(***************************************************************************)
(* docs/src/documents.tsx: the roadmaps in their order, and the outline of  *)
(* each, which is read off the raw source with a slug function of its own   *)
(* while the ids in the page come from rehype-slug.                         *)
(*                                                                          *)
(* A title is a sequence of characters, one for each kind the two slug      *)
(* functions tell apart: a small letter, a capital, a letter outside ASCII, *)
(* a digit, a space, a dash, an underscore, and ' for every other mark.     *)
(* Asterisks and backticks are markup and in neither.                       *)
(***************************************************************************)
EXTENDS Naturals, SequencesExt

CONSTANTS
    Doc,            \* the roadmaps, named by their route
    Rank,           \* [Doc -> number in the file name \X place of the title]
    Contents        \* [Doc -> the lines of its source that look like headings]

Digits == <<"0", "1", "2", "3", "4", "5", "6", "7", "8", "9">>
Letter == {"a", "A", "e^", "0", "1", "2", "3", "4", "5", "6", "7", "8", "9"}
Character == Letter \union {" ", "-", "_", "'"}
Line == [kind : {"heading", "fenced"}, depth : 1 .. 4, title : Seq(Character)]

ASSUME OutlineAssumption ==
    /\ IsFiniteSet(Doc) /\ Doc # {}
    /\ Rank \in [Doc -> Nat \X Nat]
    /\ \A d, e \in Doc : Rank[d] = Rank[e] => d = e
    /\ Contents \in [Doc -> Seq(Line)]
    /\ \A d \in Doc : \A i \in DOMAIN Contents[d] :
           /\ Contents[d][i].title # <<>>
           /\ Head(Contents[d][i].title) # " " /\ Last(Contents[d][i].title) # " "

-----------------------------------------------------------------------------
(* documents: by number, then by title.                                     *)
Before(d, e) ==
    \/ Rank[d][1] < Rank[e][1]
    \/ Rank[d][1] = Rank[e][1] /\ Rank[d][2] < Rank[e][2]

documents ==
    CHOOSE sorted \in [1 .. Cardinality(Doc) -> Doc] :
        \A i, j \in DOMAIN sorted : i < j => Before(sorted[i], sorted[j])

(* A route that names no roadmap, or none, shows the first.                 *)
resolveDocument(route) == IF route \in Doc THEN route ELSE documents[1]

(* previous and next. *)
Neighbours(d) == {e \in Doc : \E i \in 1 .. Len(documents) - 1 :
                     {d, e} = {documents[i], documents[i + 1]} /\ d # e}

-----------------------------------------------------------------------------
Lower(c) == IF c = "A" THEN "a" ELSE c

(* slugify: every run of what is no letter becomes a dash, none at the      *)
(* ends; underscores are dropped before.                                    *)
SluggedAs(letters, slug, c) ==
    CASE c \in letters                                   -> Append(slug, Lower(c))
      [] c \notin letters /\ c # "_" /\ slug # <<>> /\ Last(slug) # "-"
                                                        -> Append(slug, "-")
      [] OTHER                                          -> slug

SluggedAscii(slug, c) == SluggedAs(Letter \ {"e^"}, slug, c)  \* faulty variant: [^a-z0-9]+

Slugged(slug, c) == SluggedAs(Letter, slug, c)

slugify(title) ==
    LET slug == FoldLeft(Slugged, <<>>, title)
    IN  IF slug # <<>> /\ Last(slug) = "-" THEN Front(slug) ELSE slug

(* github-slugger, which rehype-slug uses: marks are dropped, each space    *)
(* becomes a dash, the rest stays.                                          *)
GithubSlugged(slug, c) ==
    IF c = "'" THEN slug ELSE Append(slug, IF c = " " THEN "-" ELSE Lower(c))

GithubSlug(title) == FoldLeft(GithubSlugged, <<>>, title)

(* headingsFor: the lines with two or three hashes, those inside a code     *)
(* fence too.                                                               *)
headingsFor(d) == {i \in DOMAIN Contents[d] : Contents[d][i].depth \in {2, 3}}

Headings(d) == {i \in DOMAIN Contents[d] : Contents[d][i].kind = "heading"}

Slugs == [d \in Doc |-> [i \in DOMAIN Contents[d] |-> GithubSlug(Contents[d][i].title)]]

(* github-slugger gives no id twice: a slug that is taken gets the first    *)
(* number under which it is not, and so may take what a later title asks    *)
(* for.                                                                     *)
Decimal[n \in Nat] ==
    IF n < 10 THEN <<Digits[n + 1]>> ELSE Append(Decimal[n \div 10], Digits[(n % 10) + 1])

Numbered(slug, n) == IF n = 0 THEN slug ELSE slug \o <<"-">> \o Decimal[n]

Unused(slug, given) ==
    Numbered(slug, CHOOSE n \in 0 .. Cardinality(given) :
                       /\ Numbered(slug, n) \notin given
                       /\ \A m \in 0 .. n - 1 : Numbered(slug, m) \in given)

(* The ids in the page, of headings of every depth, and those given up to   *)
(* each of them.                                                            *)
GivenIds == [d \in Doc |->
    LET given[n \in 0 .. Len(Contents[d])] ==
            IF n = 0 THEN {}
            ELSE LET before == given[n - 1]
                 IN  IF n \in Headings(d) THEN before \union {Unused(Slugs[d][n], before)}
                                          ELSE before
    IN  given]

PageIds == [d \in Doc |-> [i \in Headings(d) |-> Unused(Slugs[d][i], GivenIds[d][i - 1])]]

(* A click on an outline entry: the heading getElementById finds, which is  *)
(* the first with that id, if there is any.                                 *)
OutlineIds == [d \in Doc |-> [i \in headingsFor(d) |-> slugify(Contents[d][i].title)]]

JumpsTo == [d \in Doc |-> [i \in headingsFor(d) |->
               {j \in Headings(d) :
                    /\ PageIds[d][j] = OutlineIds[d][i]
                    /\ \A k \in Headings(d) : k < j => PageIds[d][k] # OutlineIds[d][i]}]]

(* Words with one space or dash between them, under no id given before.     *)
PlainTitles == [d \in Doc |-> {i \in headingsFor(d) \intersect Headings(d) :
    LET title == Contents[d][i].title IN
    /\ Slugs[d][i] \notin GivenIds[d][i - 1]
    /\ title[1] \in Letter /\ Last(title) \in Letter
    /\ \A k \in DOMAIN title : title[k] \in Letter \union {" ", "-"}
    /\ \A k \in 1 .. Len(title) - 1 : {title[k], title[k + 1]} \intersect Letter # {}}]
=============================================================================
