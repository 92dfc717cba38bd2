---------------------------- MODULE OutlineProofs -----------------------------
(***************************************************************************)
(* Facts about the roadmaps and their outlines, for any set of roadmaps and *)
(* titles of any length: the roadmaps have an order, so that there is a     *)
(* first one, and the two functions that make an id from a title agree on   *)
(* plain ones.                                                              *)
(***************************************************************************)
EXTENDS Outline, FiniteSetTheorems, WellFoundedInduction, SequenceTheorems, TLAPS

-----------------------------------------------------------------------------
(* The order of the roadmaps.                                               *)

LEMMA BeforeIsTotalOrder ==
    /\ \A d \in Doc : ~Before(d, d)
    /\ \A d, e \in Doc : d # e => Before(d, e) \/ Before(e, d)
    /\ \A d, e, f \in Doc : Before(d, e) /\ Before(e, f) => Before(d, f)
<1> DEFINE R(d) == Rank[d]
<1>1. \A d \in Doc : Rank[d] \in Nat \X Nat
    BY OutlineAssumption DEF OutlineAssumption
<1>2. \A d \in Doc : Rank[d][1] \in Nat /\ Rank[d][2] \in Nat
                     /\ Rank[d] = <<Rank[d][1], Rank[d][2]>>
    BY <1>1
<1>3. \A d, e \in Doc : Rank[d][1] = Rank[e][1] /\ Rank[d][2] = Rank[e][2] => d = e
    <2> SUFFICES ASSUME NEW d \in Doc, NEW e \in Doc,
                        Rank[d][1] = Rank[e][1], Rank[d][2] = Rank[e][2]
                 PROVE  d = e
        OBVIOUS
    <2>1. Rank[d] = Rank[e]
        BY <1>2
    <2> QED
        BY <2>1, OutlineAssumption DEF OutlineAssumption
<1>4. \A d \in Doc : ~Before(d, d)
    BY <1>2 DEF Before
<1>5. \A d, e \in Doc : d # e => Before(d, e) \/ Before(e, d)
    BY <1>2, <1>3 DEF Before
<1>6. \A d, e, f \in Doc : Before(d, e) /\ Before(e, f) => Before(d, f)
    BY <1>2 DEF Before
<1> QED
    BY <1>4, <1>5, <1>6

(* documents is what its definition asks for: each roadmap has a place, one *)
(* after the number of those before it.                                     *)
LEMMA DocumentsAreSorted ==
    /\ documents \in [1 .. Cardinality(Doc) -> Doc]
    /\ \A i, j \in DOMAIN documents : i < j => Before(documents[i], documents[j])
    /\ Cardinality(Doc) \in Nat \ {0}
<1> DEFINE n == Cardinality(Doc)
           Earlier(d) == {e \in Doc : Before(e, d)}
           place == [d \in Doc |-> Cardinality(Earlier(d)) + 1]
           sorted == [i \in 1 .. n |-> CHOOSE d \in Doc : place[d] = i]
<1>1. IsFiniteSet(Doc) /\ Doc # {}
    BY OutlineAssumption DEF OutlineAssumption
<1>2. n \in Nat \ {0}
    BY <1>1, FS_CardinalityType, FS_EmptySet
<1>3. ASSUME NEW d \in Doc
      PROVE  IsFiniteSet(Earlier(d)) /\ Cardinality(Earlier(d)) \in 0 .. n - 1
    <2>1. IsFiniteSet(Earlier(d)) /\ Cardinality(Earlier(d)) <= n
        <3>1. Earlier(d) \in SUBSET Doc
            OBVIOUS
        <3> HIDE DEF Earlier
        <3> QED
            BY <1>1, <3>1, FS_Subset
    <2>2. Earlier(d) # Doc
        BY BeforeIsTotalOrder
    <2>3. Cardinality(Earlier(d)) # n
        BY <1>1, <2>2, FS_Subset
    <2>4. Cardinality(Earlier(d)) \in Nat
        BY <2>1, FS_CardinalityType
    <2> QED
        BY <1>2, <2>1, <2>3, <2>4
<1>4. ASSUME NEW d \in Doc, NEW e \in Doc, Before(d, e)
      PROVE  place[d] < place[e]
    <2>1. Earlier(d) \in SUBSET Earlier(e) /\ Earlier(d) # Earlier(e)
        <3>1. d \in Earlier(e) /\ d \notin Earlier(d)
            BY <1>4, BeforeIsTotalOrder
        <3>2. \A f \in Earlier(d) : f \in Earlier(e)
            BY <1>4, BeforeIsTotalOrder
        <3> QED
            BY <3>1, <3>2
    <2>2. IsFiniteSet(Earlier(e)) /\ Cardinality(Earlier(e)) \in Nat
        BY <1>3
    <2>3. Cardinality(Earlier(d)) \in Nat
        BY <1>3
    <2> HIDE DEF Earlier
    <2>4. Cardinality(Earlier(d)) <= Cardinality(Earlier(e))
          /\ Cardinality(Earlier(d)) # Cardinality(Earlier(e))
        BY <2>1, <2>2, FS_Subset
    <2> QED
        BY <2>2, <2>3, <2>4
<1>5. place \in Injection(Doc, 1 .. n)
    <2>1. place \in [Doc -> 1 .. n]
        BY <1>2, <1>3
    <2>2. ASSUME NEW d \in Doc, NEW e \in Doc, d # e
          PROVE  place[d] # place[e]
        <3>1. place[d] \in Nat /\ place[e] \in Nat
            BY <2>1
        <3>2. place[d] < place[e] \/ place[e] < place[d]
            BY <1>4, <2>2, BeforeIsTotalOrder
        <3> HIDE DEF place
        <3> QED
            BY <3>1, <3>2
    <2> HIDE DEF place
    <2> QED
        BY <2>1, <2>2 DEF Injection, IsInjective
<1>6. \A i \in 1 .. n : \E d \in Doc : place[d] = i
    <2>1. IsFiniteSet(1 .. n) /\ Cardinality(1 .. n) = n
        BY <1>2, FS_Interval
    <2>2. place \in Surjection(Doc, 1 .. n)
        <3> HIDE DEF place
        <3> QED
            BY <1>5, <2>1, FS_Injection
    <2> HIDE DEF place
    <2> QED
        BY <2>2 DEF Surjection
<1> HIDE DEF place
<1>7. ASSUME NEW i \in 1 .. n
      PROVE  sorted[i] \in Doc /\ place[sorted[i]] = i
    BY <1>6
<1>8. sorted \in [1 .. n -> Doc]
    BY <1>7
<1>9. ASSUME NEW i \in 1 .. n, NEW j \in 1 .. n, i < j
      PROVE  Before(sorted[i], sorted[j])
    <2>1. sorted[i] # sorted[j]
        BY <1>2, <1>7, <1>9
    <2>2. ~Before(sorted[j], sorted[i])
        <3>1. place[sorted[i]] = i /\ place[sorted[j]] = j
            BY <1>7
        <3> QED
            BY <1>2, <1>4, <1>7, <1>9, <3>1
    <2> QED
        BY <1>7, <2>1, <2>2, BeforeIsTotalOrder
<1> HIDE DEF sorted, n
<1>10. \E s \in [1 .. n -> Doc] : \A i, j \in DOMAIN s : i < j => Before(s[i], s[j])
    <2>1. DOMAIN sorted = 1 .. n
        BY <1>8
    <2> QED
        BY <1>8, <1>9, <2>1
<1> QED
    BY <1>2, <1>10 DEF documents, n

LEMMA FirstDocument == documents[1] \in Doc
<1>1. 1 \in 1 .. Cardinality(Doc)
    BY DocumentsAreSorted
<1> QED
    BY <1>1, DocumentsAreSorted

-----------------------------------------------------------------------------
(* Folds.                                                                   *)

(* Induction, of a set of numbers: the least number that is not in it has   *)
(* none before it.                                                          *)
LEMMA SetInduction ==
    ASSUME NEW S, 0 \in S, \A n \in Nat : n \in S => n + 1 \in S
    PROVE  Nat \subseteq S
<1> SUFFICES ASSUME Nat \ S # {} PROVE FALSE
    OBVIOUS
<1> DEFINE less == OpToRel(<, Nat)
<1>1. \A m, n \in Nat : n < m => <<n, m>> \in less
    BY DEF OpToRel
<1>2. IsWellFoundedOn(less, Nat)
    BY NatLessThanWellFounded
<1> HIDE DEF less
<1>3. PICK m \in Nat \ S : \A n \in Nat \ S : ~(<<n, m>> \in less)
    BY <1>2, WFMin
<1>4. \A n \in Nat \ S : ~(n < m)
    BY <1>1, <1>3
<1>5. m # 0 /\ m - 1 \in Nat /\ (m - 1) + 1 = m
    OBVIOUS
<1>6. m - 1 \in S
    BY <1>4, <1>5
<1> QED
    BY <1>5, <1>6

LEMMA MaxIsGreatest ==
    ASSUME NEW n \in Nat, NEW t \in SUBSET (1 .. n), t # {}
    PROVE  Max(t) \in t /\ \A k \in t : Max(t) >= k
<1> DEFINE Greatest(u) == \E m \in u : \A k \in u : m >= k
           Bounds == {m \in Nat : \A u \in SUBSET (1 .. m) : u # {} => Greatest(u)}
<1>1. 0 \in Bounds
    <2>1. 1 .. 0 = {}
        OBVIOUS
    <2> HIDE DEF Greatest
    <2> QED
        BY <2>1
<1>2. ASSUME NEW m \in Nat, m \in Bounds
      PROVE  m + 1 \in Bounds
    <2> SUFFICES ASSUME NEW u \in SUBSET (1 .. m + 1), u # {} PROVE Greatest(u)
        OBVIOUS
    <2>1. CASE m + 1 \in u
        BY <2>1
    <2>2. CASE m + 1 \notin u
        <3>1. u \in SUBSET (1 .. m)
            BY <2>2
        <3> HIDE DEF Greatest
        <3> QED
            BY <1>2, <3>1
    <2> QED
        BY <2>1, <2>2
<1> HIDE DEF Bounds
<1>3. n \in Bounds
    BY <1>1, <1>2, SetInduction
<1>4. Greatest(t)
    BY <1>3 DEF Bounds
<1> QED
    BY <1>4 DEF Max

(* What a fold is defined by, and that it exists: the function on sets of   *)
(* places that takes the last place of each.                                *)
IsFold(h, S, base, F, seq, n) ==
    /\ h \in [SUBSET (1 .. n) -> S]
    /\ \A t \in SUBSET (1 .. n) :
           h[t] = IF t = {} THEN base ELSE F[<<h[t \ {Max(t)}], seq[Max(t)]>>]

LEMMA FoldExists ==
    ASSUME NEW S, NEW base \in S, NEW C, NEW F \in [S \X C -> S],
           NEW n \in Nat, NEW seq \in [1 .. n -> C]
    PROVE  \E h : IsFold(h, S, base, F, seq, n)
<1> DEFINE Folds(h, m) == IsFold(h, S, base, F, seq, m)
           Lengths == {m \in Nat : m <= n => \E h : Folds(h, m)}
<1>1. 0 \in Lengths
    <2>1. Folds([t \in SUBSET (1 .. 0) |-> base], 0)
        BY DEF IsFold
    <2> HIDE DEF Folds
    <2> QED
        BY <2>1
<1>2. ASSUME NEW m \in Nat, m \in Lengths
      PROVE  m + 1 \in Lengths
    <2> HIDE DEF Folds
    <2> SUFFICES ASSUME m + 1 <= n PROVE \E h : Folds(h, m + 1)
        OBVIOUS
    <2>1. PICK h : Folds(h, m)
        BY <1>2
    <2> USE DEF Folds, IsFold
    <2> DEFINE Next1(t) == IF m + 1 \in t THEN F[<<h[t \ {m + 1}], seq[m + 1]>>] ELSE h[t]
               g == [t \in SUBSET (1 .. m + 1) |-> Next1(t)]
    <2>2. seq[m + 1] \in C
        OBVIOUS
    <2>3. ASSUME NEW t \in SUBSET (1 .. m + 1)
          PROVE  /\ t \ {m + 1} \in SUBSET (1 .. m)
                 /\ m + 1 \notin t => t \in SUBSET (1 .. m)
        OBVIOUS
    <2>4. g \in [SUBSET (1 .. m + 1) -> S]
        <3>1. ASSUME NEW t \in SUBSET (1 .. m + 1)
              PROVE  Next1(t) \in S
            BY <2>1, <2>2, <2>3
        <3> HIDE DEF Next1
        <3> QED
            BY <3>1
    <2>5. ASSUME NEW t \in SUBSET (1 .. m + 1)
          PROVE  g[t] = IF t = {} THEN base ELSE F[<<g[t \ {Max(t)}], seq[Max(t)]>>]
        <3>1. CASE m + 1 \in t
            <4>1. m + 1 \in Nat /\ t # {}
                BY <3>1
            <4>2. Max(t) \in t /\ Max(t) >= m + 1
                BY <3>1, <4>1, MaxIsGreatest
            <4> DEFINE last == Max(t)
            <4>3. last \in 1 .. m + 1 /\ last >= m + 1
                BY <4>2
            <4> HIDE DEF last
            <4>4. last = m + 1
                BY <4>3
            <4>5. Max(t) = m + 1
                BY <4>4 DEF last
            <4>6. g[t \ {m + 1}] = h[t \ {m + 1}]
                OBVIOUS
            <4> QED
                BY <3>1, <4>5, <4>6
        <3>2. CASE m + 1 \notin t
            <4>1. t \in SUBSET (1 .. m) /\ g[t] = h[t]
                BY <2>3, <3>2
            <4>2. h[t] = IF t = {} THEN base ELSE F[<<h[t \ {Max(t)}], seq[Max(t)]>>]
                BY <2>1, <4>1
            <4>3. g[t \ {Max(t)}] = h[t \ {Max(t)}]
                BY <3>2
            <4> QED
                BY <4>1, <4>2, <4>3
        <3> QED
            BY <3>1, <3>2
    <2> HIDE DEF g
    <2>6. Folds(g, m + 1)
        BY <2>4, <2>5
    <2> HIDE DEF Folds
    <2> QED
        BY <2>6
<1> HIDE DEF Lengths
<1>3. n \in Lengths
    BY <1>1, <1>2, SetInduction
<1> QED
    BY <1>3 DEF Lengths

-----------------------------------------------------------------------------
(* The two slug functions, letter by letter.                                *)

LEMMA SlugsAreTyped ==
    ASSUME NEW slug \in Seq(Character), NEW c \in Character
    PROVE  /\ Slugged(slug, c) \in Seq(Character)
           /\ GithubSlugged(slug, c) \in Seq(Character)
<1>1. "-" \in Character /\ Lower(c) \in Character
    BY DEF Character, Letter, Lower
<1>2. \A d \in Character : Append(slug, d) \in Seq(Character)
    OBVIOUS
<1> QED
    BY <1>1, <1>2 DEF Slugged, SluggedAs, GithubSlugged

(* The places before and at k, of which k is the last.                      *)
LEMMA PrefixPlaces ==
    ASSUME NEW n \in Nat, NEW k \in 1 .. n
    PROVE  /\ 1 .. k \in SUBSET (1 .. n) /\ 1 .. k # {}
           /\ Max(1 .. k) = k
           /\ (1 .. k) \ {k} = 1 .. k - 1
<1> DEFINE last == Max(1 .. k)
<1>1. k \in Nat /\ k \in 1 .. k /\ 1 .. k \in SUBSET (1 .. n) /\ 1 .. k \in SUBSET (1 .. k)
    OBVIOUS
<1>2. last \in 1 .. k /\ last >= k
    BY <1>1, MaxIsGreatest
<1> HIDE DEF last
<1>3. last = k
    BY <1>1, <1>2
<1>4. Max(1 .. k) = k
    BY <1>3 DEF last
<1> QED
    BY <1>1, <1>4

(* What slugify has made of the first k characters.                         *)
LEMMA SluggedFold ==
    ASSUME NEW T \in Seq(Character)
    PROVE  \E a \in [0 .. Len(T) -> Seq(Character)] :
               /\ a[0] = <<>>
               /\ \A k \in 1 .. Len(T) : a[k] = Slugged(a[k - 1], T[k])
               /\ a[Len(T)] = FoldLeft(Slugged, <<>>, T)
<1> DEFINE S == Seq(Character)
           n == Len(T)
           F == [x \in S \X Character |-> Slugged(x[1], x[2])]
           it == CHOOSE f : f = [t \in SUBSET (DOMAIN T) |->
                     IF t = {} THEN <<>> ELSE Slugged(f[t \ {Max(t)}], T[Max(t)])]
           a == [k \in 0 .. n |-> it[1 .. k]]
<1>1. n \in Nat /\ DOMAIN T = 1 .. n /\ T \in [1 .. n -> Character]
    OBVIOUS
<1>2. F \in [S \X Character -> S] /\ <<>> \in S
    BY SlugsAreTyped
<1>3. PICK h : IsFold(h, S, <<>>, F, T, n)
    <2> HIDE DEF F, S, n
    <2> QED
        BY <1>1, <1>2, FoldExists
<1> HIDE DEF S, n
<1>4. ASSUME NEW t \in SUBSET (1 .. n), t # {}
      PROVE  h[t] = Slugged(h[t \ {Max(t)}], T[Max(t)])
    <2>1. Max(t) \in t
        BY <1>1, <1>4, MaxIsGreatest
    <2>2. h[t \ {Max(t)}] \in S /\ T[Max(t)] \in Character
        BY <1>1, <1>3, <2>1 DEF IsFold
    <2>3. h[t] = F[<<h[t \ {Max(t)}], T[Max(t)]>>]
        BY <1>3, <1>4 DEF IsFold
    <2> QED
        BY <2>2, <2>3
<1>5. h = [t \in SUBSET (DOMAIN T) |->
              IF t = {} THEN <<>> ELSE Slugged(h[t \ {Max(t)}], T[Max(t)])]
    BY <1>1, <1>3, <1>4 DEF IsFold
<1>6. it = [t \in SUBSET (DOMAIN T) |->
               IF t = {} THEN <<>> ELSE Slugged(it[t \ {Max(t)}], T[Max(t)])]
    BY <1>5
<1>7. FoldLeft(Slugged, <<>>, T) = it[DOMAIN T]
    BY DEF FoldLeft, MapThenFoldSet
<1> HIDE DEF it
<1>8. a[0] = <<>> /\ <<>> \in S
    <2>1. 1 .. 0 = {}
        OBVIOUS
    <2> QED
        BY <1>1, <1>2, <1>6, <2>1
<1>9. ASSUME NEW k \in 1 .. n
      PROVE  a[k] = Slugged(a[k - 1], T[k])
    <2>1. /\ 1 .. k \in SUBSET (1 .. n) /\ 1 .. k # {}
          /\ Max(1 .. k) = k /\ (1 .. k) \ {k} = 1 .. k - 1
        BY <1>1, PrefixPlaces
    <2>2. it[1 .. k] = Slugged(it[(1 .. k) \ {Max(1 .. k)}], T[Max(1 .. k)])
        BY <1>1, <1>6, <2>1
    <2>3. k \in 0 .. n /\ k - 1 \in 0 .. n
        BY <1>1
    <2> QED
        BY <2>1, <2>2, <2>3
<1>10. ASSUME NEW k \in 0 .. n
       PROVE  a[k] \in S
    <2> DEFINE Typed == {m \in Nat : m <= n => a[m] \in S}
    <2>1. 0 \in Typed
        BY <1>8
    <2>2. ASSUME NEW m \in Nat, m \in Typed PROVE m + 1 \in Typed
        <3> SUFFICES ASSUME m + 1 <= n PROVE a[m + 1] \in S
            OBVIOUS
        <3>1. a[m] \in S /\ m + 1 \in 1 .. n /\ (m + 1) - 1 = m
            BY <1>1, <2>2
        <3> HIDE DEF a
        <3>2. a[m + 1] = Slugged(a[m], T[m + 1]) /\ T[m + 1] \in Character
            BY <1>1, <1>9, <3>1
        <3> QED
            BY <3>1, <3>2, SlugsAreTyped DEF S
    <2> HIDE DEF Typed
    <2>3. k \in Typed
        BY <1>1, <2>1, <2>2, SetInduction
    <2> QED
        BY <1>1, <2>3 DEF Typed
<1>11. a[n] = FoldLeft(Slugged, <<>>, T)
    BY <1>1, <1>7
<1>12. a \in [0 .. n -> S]
    BY <1>10
<1> HIDE DEF a
<1> QED
    BY <1>8, <1>9, <1>11, <1>12 DEF S, n

(* The same of github-slugger.                                              *)
LEMMA GithubSluggedFold ==
    ASSUME NEW T \in Seq(Character)
    PROVE  \E a \in [0 .. Len(T) -> Seq(Character)] :
               /\ a[0] = <<>>
               /\ \A k \in 1 .. Len(T) : a[k] = GithubSlugged(a[k - 1], T[k])
               /\ a[Len(T)] = FoldLeft(GithubSlugged, <<>>, T)
<1> DEFINE S == Seq(Character)
           n == Len(T)
           F == [x \in S \X Character |-> GithubSlugged(x[1], x[2])]
           it == CHOOSE f : f = [t \in SUBSET (DOMAIN T) |->
                     IF t = {} THEN <<>> ELSE GithubSlugged(f[t \ {Max(t)}], T[Max(t)])]
           a == [k \in 0 .. n |-> it[1 .. k]]
<1>1. n \in Nat /\ DOMAIN T = 1 .. n /\ T \in [1 .. n -> Character]
    OBVIOUS
<1>2. F \in [S \X Character -> S] /\ <<>> \in S
    BY SlugsAreTyped
<1>3. PICK h : IsFold(h, S, <<>>, F, T, n)
    <2> HIDE DEF F, S, n
    <2> QED
        BY <1>1, <1>2, FoldExists
<1> HIDE DEF S, n
<1>4. ASSUME NEW t \in SUBSET (1 .. n), t # {}
      PROVE  h[t] = GithubSlugged(h[t \ {Max(t)}], T[Max(t)])
    <2>1. Max(t) \in t
        BY <1>1, <1>4, MaxIsGreatest
    <2>2. h[t \ {Max(t)}] \in S /\ T[Max(t)] \in Character
        BY <1>1, <1>3, <2>1 DEF IsFold
    <2>3. h[t] = F[<<h[t \ {Max(t)}], T[Max(t)]>>]
        BY <1>3, <1>4 DEF IsFold
    <2> QED
        BY <2>2, <2>3
<1>5. h = [t \in SUBSET (DOMAIN T) |->
              IF t = {} THEN <<>> ELSE GithubSlugged(h[t \ {Max(t)}], T[Max(t)])]
    BY <1>1, <1>3, <1>4 DEF IsFold
<1>6. it = [t \in SUBSET (DOMAIN T) |->
               IF t = {} THEN <<>> ELSE GithubSlugged(it[t \ {Max(t)}], T[Max(t)])]
    BY <1>5
<1>7. FoldLeft(GithubSlugged, <<>>, T) = it[DOMAIN T]
    BY DEF FoldLeft, MapThenFoldSet
<1> HIDE DEF it
<1>8. a[0] = <<>> /\ <<>> \in S
    <2>1. 1 .. 0 = {}
        OBVIOUS
    <2> QED
        BY <1>1, <1>2, <1>6, <2>1
<1>9. ASSUME NEW k \in 1 .. n
      PROVE  a[k] = GithubSlugged(a[k - 1], T[k])
    <2>1. /\ 1 .. k \in SUBSET (1 .. n) /\ 1 .. k # {}
          /\ Max(1 .. k) = k /\ (1 .. k) \ {k} = 1 .. k - 1
        BY <1>1, PrefixPlaces
    <2>2. it[1 .. k] = GithubSlugged(it[(1 .. k) \ {Max(1 .. k)}], T[Max(1 .. k)])
        BY <1>1, <1>6, <2>1
    <2>3. k \in 0 .. n /\ k - 1 \in 0 .. n
        BY <1>1
    <2> QED
        BY <2>1, <2>2, <2>3
<1>10. ASSUME NEW k \in 0 .. n
       PROVE  a[k] \in S
    <2> DEFINE Typed == {m \in Nat : m <= n => a[m] \in S}
    <2>1. 0 \in Typed
        BY <1>8
    <2>2. ASSUME NEW m \in Nat, m \in Typed PROVE m + 1 \in Typed
        <3> SUFFICES ASSUME m + 1 <= n PROVE a[m + 1] \in S
            OBVIOUS
        <3>1. a[m] \in S /\ m + 1 \in 1 .. n /\ (m + 1) - 1 = m
            BY <1>1, <2>2
        <3> HIDE DEF a
        <3>2. a[m + 1] = GithubSlugged(a[m], T[m + 1]) /\ T[m + 1] \in Character
            BY <1>1, <1>9, <3>1
        <3> QED
            BY <3>1, <3>2, SlugsAreTyped DEF S
    <2> HIDE DEF Typed
    <2>3. k \in Typed
        BY <1>1, <2>1, <2>2, SetInduction
    <2> QED
        BY <1>1, <2>3 DEF Typed
<1>11. a[n] = FoldLeft(GithubSlugged, <<>>, T)
    BY <1>1, <1>7
<1>12. a \in [0 .. n -> S]
    BY <1>10
<1> HIDE DEF a
<1> QED
    BY <1>8, <1>9, <1>11, <1>12 DEF S, n

(* A plain title: words of letters with one space or dash between them.     *)
Plain(T) ==
    /\ T \in Seq(Character) /\ T # <<>>
    /\ T[1] \in Letter /\ Last(T) \in Letter
    /\ \A k \in DOMAIN T : T[k] \in Letter \union {" ", "-"}
    /\ \A k \in 1 .. Len(T) - 1 : {T[k], T[k + 1]} \intersect Letter # {}

LEMMA AppendedIsLast ==
    ASSUME NEW s \in Seq(Character), NEW c \in Character
    PROVE  Append(s, c) # <<>> /\ Last(Append(s, c)) = c
<1> DEFINE t == Append(s, c)
<1>1. Len(t) = Len(s) + 1 /\ t[Len(s) + 1] = c
    OBVIOUS
<1>2. Len(s) \in Nat
    OBVIOUS
<1>3. Len(<<>>) = 0
    OBVIOUS
<1> HIDE DEF t
<1>4. t # <<>>
    BY <1>1, <1>2, <1>3
<1>5. Last(t) = c
    BY <1>1 DEF Last
<1> QED
    BY <1>4, <1>5 DEF t

LEMMA LettersAreNoDashes ==
    /\ Letter \subseteq Character /\ "-" \in Character
    /\ \A c \in Letter : Lower(c) \in Letter /\ c \notin {"'", " ", "-", "_"}
BY DEF Letter, Character, Lower

(* The two functions append the same to what they have, and a dash only     *)
(* after a letter.                                                          *)
LEMMA PlainSlugsAgree ==
    ASSUME NEW T, Plain(T)
    PROVE  slugify(T) = GithubSlug(T)
<1> DEFINE n == Len(T)
<1>1. T \in Seq(Character) /\ n \in Nat \ {0} /\ DOMAIN T = 1 .. n
    <2>1. T \in Seq(Character) /\ T # <<>>
        BY DEF Plain
    <2> QED
        BY <2>1, LenProperties, EmptySeq
<1>2. PICK a \in [0 .. n -> Seq(Character)] :
          /\ a[0] = <<>>
          /\ \A k \in 1 .. n : a[k] = Slugged(a[k - 1], T[k])
          /\ a[n] = FoldLeft(Slugged, <<>>, T)
    BY <1>1, SluggedFold
<1>3. PICK b \in [0 .. n -> Seq(Character)] :
          /\ b[0] = <<>>
          /\ \A k \in 1 .. n : b[k] = GithubSlugged(b[k - 1], T[k])
          /\ b[n] = FoldLeft(GithubSlugged, <<>>, T)
    BY <1>1, GithubSluggedFold
<1> DEFINE Same(m) ==
               /\ a[m] = b[m]
               /\ m # 0 => a[m] # <<>> /\ (Last(a[m]) = "-" <=> T[m] \notin Letter)
           Agreed == {m \in Nat : m <= n => Same(m)}
<1>4. 0 \in Agreed
    BY <1>2, <1>3
<1>5. ASSUME NEW m \in Nat, m \in Agreed
      PROVE  m + 1 \in Agreed
    <2> SUFFICES ASSUME m + 1 <= n PROVE Same(m + 1)
        OBVIOUS
    <2> DEFINE s == a[m]
               c == T[m + 1]
    <2>1. m + 1 \in 1 .. n /\ m \in 0 .. n /\ (m + 1) - 1 = m
        BY <1>1
    <2>2. a[m + 1] = Slugged(s, c) /\ b[m + 1] = GithubSlugged(s, c) /\ s \in Seq(Character)
        <3>1. Same(m)
            BY <1>1, <1>5
        <3>2. a[m + 1] = Slugged(a[m], T[m + 1])
            BY <1>2, <2>1
        <3>3. b[m + 1] = GithubSlugged(b[m], T[m + 1])
            BY <1>3, <2>1
        <3> QED
            BY <1>2, <2>1, <3>1, <3>2, <3>3
    <2>3. c \in Letter \union {" ", "-"}
        BY <1>1, <2>1 DEF Plain
    <2>4. CASE c \in Letter
        <3>1. Slugged(s, c) = Append(s, Lower(c))
            BY <2>4 DEF Slugged, SluggedAs
        <3>2. GithubSlugged(s, c) = Append(s, Lower(c))
            BY <2>4, LettersAreNoDashes DEF GithubSlugged
        <3>3. Append(s, Lower(c)) # <<>> /\ Last(Append(s, Lower(c))) # "-"
            BY <2>2, <2>4, AppendedIsLast, LettersAreNoDashes
        <3> HIDE DEF s, c
        <3> QED
            BY <2>2, <2>4, <3>1, <3>2, <3>3 DEF c
    <2>5. CASE c \notin Letter
        <3>1. m # 0
            <4> SUFFICES ASSUME m = 0 PROVE FALSE
                OBVIOUS
            <4>1. m + 1 = 1
                OBVIOUS
            <4>2. T[1] \in Letter
                BY DEF Plain
            <4> QED
                BY <2>5, <4>1, <4>2
        <3>2. T[m] \in Letter
            <4>1. m \in 1 .. n - 1
                BY <1>1, <2>1, <3>1
            <4>2. {T[m], T[m + 1]} \intersect Letter # {}
                BY <4>1 DEF Plain
            <4> QED
                BY <2>5, <4>2
        <3>3. s # <<>> /\ Last(s) # "-"
            BY <1>1, <1>5, <3>1, <3>2
        <3>4. c # "_" /\ c # "'" /\ (IF c = " " THEN "-" ELSE Lower(c)) = "-"
            BY <2>3, <2>5 DEF Lower
        <3>5. Slugged(s, c) = Append(s, "-")
            BY <2>5, <3>3, <3>4 DEF Slugged, SluggedAs
        <3>6. GithubSlugged(s, c) = Append(s, "-")
            BY <3>4 DEF GithubSlugged
        <3>7. Append(s, "-") # <<>> /\ Last(Append(s, "-")) = "-"
            BY <2>2, AppendedIsLast, LettersAreNoDashes
        <3> HIDE DEF s, c
        <3> QED
            BY <2>2, <2>5, <3>5, <3>6, <3>7 DEF c
    <2> QED
        BY <2>4, <2>5
<1> HIDE DEF Agreed
<1>6. n \in Agreed
    BY <1>1, <1>4, <1>5, SetInduction
<1>7. Same(n)
    BY <1>1, <1>6 DEF Agreed
<1>8. T[n] \in Letter
    BY DEF Plain, Last
<1> HIDE DEF n
<1>9. FoldLeft(Slugged, <<>>, T) = FoldLeft(GithubSlugged, <<>>, T)
      /\ Last(FoldLeft(Slugged, <<>>, T)) # "-"
    BY <1>1, <1>2, <1>3, <1>7, <1>8
<1> QED
    BY <1>9 DEF slugify, GithubSlug

-----------------------------------------------------------------------------
(* The ids given, heading by heading.                                       *)

Given(d, n, before) ==
    IF n \in Headings(d) THEN before \union {Unused(Slugs[d][n], before)} ELSE before

IsGiven(g, d, m) ==
    g = [n \in 0 .. m |-> IF n = 0 THEN {} ELSE Given(d, n, g[n - 1])]

LEMMA GivenExists ==
    ASSUME NEW d \in Doc, NEW m \in Nat
    PROVE  \E g : IsGiven(g, d, m)
<1> DEFINE Upto == {k \in Nat : \E g : IsGiven(g, d, k)}
<1>1. 0 \in Upto
    <2> DEFINE g == [n \in 0 .. 0 |-> {}]
    <2>1. \A n \in 0 .. 0 : n = 0
        OBVIOUS
    <2>2. g = [n \in 0 .. 0 |-> IF n = 0 THEN {} ELSE Given(d, n, g[n - 1])]
        BY <2>1
    <2> HIDE DEF g
    <2> QED
        BY <2>2 DEF IsGiven
<1>2. ASSUME NEW k \in Nat, k \in Upto
      PROVE  k + 1 \in Upto
    <2>1. PICK g : IsGiven(g, d, k)
        BY <1>2
    <2> DEFINE h == [n \in 0 .. k + 1 |-> IF n = k + 1 THEN Given(d, k + 1, g[k]) ELSE g[n]]
    <2>2. ASSUME NEW n \in 0 .. k + 1
          PROVE  h[n] = IF n = 0 THEN {} ELSE Given(d, n, h[n - 1])
        <3>1. CASE n = k + 1
            <4>1. n # 0 /\ n - 1 = k /\ k \in 0 .. k + 1 /\ k # k + 1
                BY <3>1
            <4>2. h[n] = Given(d, n, g[k]) /\ h[n - 1] = g[k]
                BY <3>1, <4>1
            <4> HIDE DEF h
            <4> QED
                BY <4>1, <4>2
        <3>2. CASE n # k + 1
            <4>1. n \in 0 .. k /\ h[n] = g[n]
                BY <3>2
            <4>2. n # 0 => n - 1 \in 0 .. k + 1 /\ h[n - 1] = g[n - 1]
                BY <3>2
            <4>3. g[n] = IF n = 0 THEN {} ELSE Given(d, n, g[n - 1])
                BY <2>1, <4>1 DEF IsGiven
            <4> HIDE DEF h
            <4> QED
                BY <4>1, <4>2, <4>3
        <3> QED
            BY <3>1, <3>2
    <2>3. h = [n \in 0 .. k + 1 |-> h[n]]
        OBVIOUS
    <2> HIDE DEF h
    <2>4. h = [n \in 0 .. k + 1 |-> IF n = 0 THEN {} ELSE Given(d, n, h[n - 1])]
        BY <2>2, <2>3
    <2> QED
        BY <2>4 DEF IsGiven
<1> HIDE DEF Upto
<1>3. m \in Upto
    BY <1>1, <1>2, SetInduction
<1> QED
    BY <1>3 DEF Upto

LEMMA GivenStepByStep ==
    ASSUME NEW d \in Doc, NEW i \in Headings(d)
    PROVE  /\ i \in Nat \ {0} /\ IsFiniteSet(GivenIds[d][i - 1])
           /\ GivenIds[d][i] = GivenIds[d][i - 1] \union {PageIds[d][i]}
           /\ \A k \in Headings(d) : k < i => PageIds[d][k] \in GivenIds[d][i - 1]
<1> DEFINE N == Len(Contents[d])
           ids == GivenIds[d]
<1>1. N \in Nat /\ Headings(d) \subseteq 1 .. N
    <2>1. Contents[d] \in Seq(Line)
        BY OutlineAssumption DEF OutlineAssumption
    <2>2. N \in Nat /\ DOMAIN Contents[d] = 1 .. N
        BY <2>1
    <2> QED
        BY <2>2 DEF Headings
<1>2. IsGiven(ids, d, N)
    <2>1. ids = CHOOSE g : IsGiven(g, d, N)
        BY DEF GivenIds, IsGiven, Given
    <2> HIDE DEF ids
    <2> QED
        BY <1>1, <2>1, GivenExists
<1> HIDE DEF N, ids
<1>3. ASSUME NEW n \in 1 .. N
      PROVE  ids[n] = Given(d, n, ids[n - 1])
    <2>1. n \in 0 .. N /\ n # 0
        BY <1>1, <1>3
    <2>2. ids[n] = IF n = 0 THEN {} ELSE Given(d, n, ids[n - 1])
        BY <1>2, <2>1 DEF IsGiven
    <2> QED
        BY <2>1, <2>2
<1>4. \A k \in Headings(d) : PageIds[d][k] = Unused(Slugs[d][k], ids[k - 1])
    BY DEF PageIds, ids
<1>5. ASSUME NEW k \in Headings(d)
      PROVE  ids[k] = ids[k - 1] \union {PageIds[d][k]}
    BY <1>1, <1>3, <1>4 DEF Given
<1>6. ASSUME NEW k \in 1 .. N
      PROVE  ids[k - 1] \subseteq ids[k]
    BY <1>3 DEF Given
<1>7. ASSUME NEW k \in Headings(d), k < i
      PROVE  PageIds[d][k] \in ids[i - 1]
    <2> DEFINE Kept == {j \in Nat : k + j <= N => PageIds[d][k] \in ids[k + j]}
    <2>1. k \in 1 .. N /\ i \in 1 .. N
        BY <1>1
    <2>2. 0 \in Kept
        BY <1>1, <1>5, <2>1
    <2>3. ASSUME NEW j \in Nat, j \in Kept
          PROVE  j + 1 \in Kept
        <3> SUFFICES ASSUME k + (j + 1) <= N PROVE PageIds[d][k] \in ids[k + (j + 1)]
            BY <1>1, <2>1
        <3>1. k + j <= N /\ k + (j + 1) \in 1 .. N /\ (k + (j + 1)) - 1 = k + j
            BY <1>1, <2>1
        <3>2. PageIds[d][k] \in ids[k + j]
            BY <2>3, <3>1
        <3> QED
            BY <1>6, <3>1, <3>2
    <2> HIDE DEF Kept
    <2>4. (i - 1) - k \in Kept
        BY <1>1, <1>7, <2>1, <2>2, <2>3, SetInduction
    <2>5. k + ((i - 1) - k) = i - 1 /\ i - 1 <= N
        BY <1>1, <2>1
    <2> QED
        BY <2>4, <2>5 DEF Kept
<1>8. IsFiniteSet(ids[i - 1])
    <2> DEFINE Finite == {n \in Nat : n <= N => IsFiniteSet(ids[n])}
    <2>1. 0 \in Finite
        <3>1. ids[0] = {}
            BY <1>1, <1>2 DEF IsGiven
        <3> QED
            BY <3>1, FS_EmptySet
    <2>2. ASSUME NEW n \in Nat, n \in Finite
          PROVE  n + 1 \in Finite
        <3> SUFFICES ASSUME n + 1 <= N PROVE IsFiniteSet(ids[n + 1])
            OBVIOUS
        <3>1. n <= N /\ n + 1 \in 1 .. N /\ (n + 1) - 1 = n
            BY <1>1
        <3>2. IsFiniteSet(ids[n])
            BY <2>2, <3>1
        <3>3. ids[n + 1] = ids[n] \/ \E id : ids[n + 1] = ids[n] \union {id}
            BY <1>3, <3>1 DEF Given
        <3> QED
            BY <3>2, <3>3, FS_AddElement
    <2> HIDE DEF Finite
    <2>3. i - 1 \in Nat /\ i - 1 <= N
        BY <1>1
    <2>4. i - 1 \in Finite
        BY <2>1, <2>2, <2>3, SetInduction
    <2> QED
        BY <2>3, <2>4 DEF Finite
<1> QED
    BY <1>1, <1>5, <1>7, <1>8 DEF ids

(* A slug not given before is given as it is.                               *)
LEMMA UnusedSlug ==
    ASSUME NEW slug, NEW given, slug \notin given, IsFiniteSet(given)
    PROVE  Unused(slug, given) = slug
<1> DEFINE Fits(n) == /\ Numbered(slug, n) \notin given
                      /\ \A m \in 0 .. n - 1 : Numbered(slug, m) \in given
           number == CHOOSE n \in 0 .. Cardinality(given) : Fits(n)
<1>1. Numbered(slug, 0) = slug /\ Cardinality(given) \in Nat
    BY FS_CardinalityType DEF Numbered
<1>2. 0 \in 0 .. Cardinality(given) /\ Fits(0)
    BY <1>1
<1>3. number \in 0 .. Cardinality(given) /\ Fits(number)
    <2> HIDE DEF Fits
    <2> QED
        BY <1>2
<1>4. number = 0
    <2>1. number # 0 => 0 \in 0 .. number - 1
        BY <1>3
    <2> QED
        BY <1>1, <1>3, <2>1
<1>5. Unused(slug, given) = Numbered(slug, number)
    BY DEF Unused
<1> HIDE DEF number
<1> QED
    BY <1>1, <1>4, <1>5

(* So an entry with a plain title carries the id of its heading: none       *)
(* before was given it, and the browser looks for the first.                *)
LEMMA PlainEntriesArrive ==
    ASSUME NEW d \in Doc, NEW i \in PlainTitles[d]
    PROVE  JumpsTo[d][i] = {i}
<1> DEFINE C == Contents[d]
<1>1. /\ i \in headingsFor(d) /\ i \in Headings(d)
      /\ C[i].title[1] \in Letter /\ Last(C[i].title) \in Letter
      /\ \A k \in DOMAIN C[i].title : C[i].title[k] \in Letter \union {" ", "-"}
      /\ \A k \in 1 .. Len(C[i].title) - 1 :
             {C[i].title[k], C[i].title[k + 1]} \intersect Letter # {}
      /\ Slugs[d][i] \notin GivenIds[d][i - 1]
    BY DEF PlainTitles
<1>2. i \in DOMAIN C
    BY <1>1 DEF Headings
<1>3. slugify(C[i].title) = Slugs[d][i]
    <2>1. C[i] \in Line
        <3>1. C \in Seq(Line)
            BY OutlineAssumption DEF OutlineAssumption
        <3>2. C \in [1 .. Len(C) -> Line]
            BY <3>1, LenProperties
        <3> HIDE DEF C
        <3> QED
            BY <1>2, <3>2
    <2>2. C[i].title \in Seq(Character) /\ C[i].title # <<>>
        BY <1>2, <2>1, OutlineAssumption DEF OutlineAssumption, Line
    <2>3. Plain(C[i].title)
        BY <1>1, <2>2 DEF Plain
    <2>4. Slugs[d][i] = GithubSlug(C[i].title)
        BY <1>2 DEF Slugs
    <2> QED
        BY <2>3, <2>4, PlainSlugsAgree
<1>4. OutlineIds[d][i] = Slugs[d][i]
    BY <1>1, <1>3 DEF OutlineIds
<1>5. PageIds[d][i] = Slugs[d][i]
    <2>1. PageIds[d][i] = Unused(Slugs[d][i], GivenIds[d][i - 1])
        BY <1>1 DEF PageIds
    <2> QED
        BY <1>1, <2>1, GivenStepByStep, UnusedSlug
<1>6. \A k \in Headings(d) : k < i => PageIds[d][k] # Slugs[d][i]
    BY <1>1, GivenStepByStep
<1>7. \A k \in Headings(d) : k \in Nat /\ i \in Nat
    BY <1>1, GivenStepByStep
<1>8. ASSUME NEW j \in Headings(d), PageIds[d][j] = OutlineIds[d][i],
             \A k \in Headings(d) : k < j => PageIds[d][k] # OutlineIds[d][i]
      PROVE  j = i
    <2>1. i \in Headings(d)
        BY <1>1
    <2>2. ~(i < j)
        BY <1>4, <1>5, <1>8, <2>1
    <2>3. ~(j < i)
        BY <1>4, <1>6, <1>8
    <2> QED
        BY <1>7, <2>2, <2>3
<1>9. JumpsTo[d][i] = {j \in Headings(d) :
          /\ PageIds[d][j] = OutlineIds[d][i]
          /\ \A k \in Headings(d) : k < j => PageIds[d][k] # OutlineIds[d][i]}
    BY <1>1 DEF JumpsTo
<1> QED
    BY <1>1, <1>4, <1>5, <1>6, <1>8, <1>9
=============================================================================
