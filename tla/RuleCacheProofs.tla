--------------------------- MODULE RuleCacheProofs ---------------------------
(***************************************************************************)
(* The rule cache for any rules, bodies and edits of them, and for any     *)
(* interleaving of the two pollers with the service and the clock; and the *)
(* matching of rules to requests for any patterns and any texts.           *)
(***************************************************************************)
EXTENDS RuleCache, FiniteSetTheorems, SequenceTheorems, WellFoundedInduction, TLAPS

-----------------------------------------------------------------------------
(* What a recursive function computes is shown by its least counterexample. *)
LEMMA Least == ASSUME NEW S \in SUBSET Nat, S # {} PROVE \E q \in S : \A r \in S : q <= r
<1> DEFINE R == OpToRel(<, Nat)
<1>1. IsWellFoundedOn(R, Nat)
  BY NatLessThanWellFounded
<1>2. \A r \in Nat, n \in Nat : r < n => <<r, n>> \in R
  BY Zenon DEF OpToRel
<1> HIDE DEF R
<1>3. PICK q \in S : \A r \in S : ~(<<r, q>> \in R)
  BY <1>1, WFMin
<1>4. \A r \in S : ~(r < q)
  BY <1>2, <1>3, Zenon
<1> QED
  BY <1>4

(* The piece of a text from i to j is for a part of a regular expression.  *)
Piece(part, text, i, j) ==
  IF part = DotStar THEN i <= j ELSE j = i + 1 /\ part \in {Dot, Escaped(text[j])}

Reached(regex, text, n) ==
  { j \in 0..Len(text) : \E cuts \in [0..n -> 0..Len(text)] :
      cuts[0] = 0 /\ cuts[n] = j /\ \A i \in 1..n : Piece(regex[i], text, cuts[i - 1], cuts[i]) }

LEMMA ReachedNone == ASSUME NEW regex, NEW text, Len(text) \in Nat PROVE Reached(regex, text, 0) = {0}
<1>1. Reached(regex, text, 0) \subseteq {0}
  BY DEF Reached
<1>2. 0 \in Reached(regex, text, 0)
  <2> DEFINE cuts == [i \in 0..0 |-> 0]
  <2>1. cuts \in [0..0 -> 0..Len(text)] /\ cuts[0] = 0 /\ (\A i \in 1..0 : FALSE) /\ 0 \in 0..Len(text)
    OBVIOUS
  <2> HIDE DEF cuts
  <2> QED
    BY <2>1 DEF Reached
<1> QED
  BY <1>1, <1>2

LEMMA ReachedNext ==
  ASSUME NEW regex, NEW text, Len(text) \in Nat, NEW n \in Nat \ {0}
  PROVE  Reached(regex, text, n) = EndsAfter(Reached(regex, text, n - 1), regex[n], text)
<1> DEFINE L == Len(text)
           part == regex[n]
           Valid(cuts, m) == cuts[0] = 0 /\ \A i \in 1..m : Piece(regex[i], text, cuts[i - 1], cuts[i])
<1>1. \A j \in 0..L : j \in EndsAfter(Reached(regex, text, n - 1), part, text)
                      <=> \E i \in Reached(regex, text, n - 1) : Piece(part, text, i, j)
  <2>1. CASE part = DotStar
    BY <2>1 DEF EndsAfter, Piece
  <2>2. CASE part # DotStar
    <3> DEFINE E == Reached(regex, text, n - 1)
    <3>1. E \subseteq 0..L
      BY DEF Reached
    <3> DEFINE For(j) == part \in {Dot, Escaped(text[j])}
    <3>2. EndsAfter(E, part, text) = { j \in 1..L : j - 1 \in E /\ For(j) }
      BY <2>2 DEF EndsAfter
    <3>3. \A i, j : Piece(part, text, i, j) <=> j = i + 1 /\ For(j)
      BY <2>2 DEF Piece
    <3> HIDE DEF E, For
    <3>4. \A j \in 0..L : j \in EndsAfter(E, part, text) <=> \E i \in E : Piece(part, text, i, j)
      BY <3>1, <3>2, <3>3
    <3> QED
      BY <3>4 DEF E
  <2> QED
    BY <2>1, <2>2
<1>2. \A j \in EndsAfter(Reached(regex, text, n - 1), part, text) : j \in 0..L
  BY DEF EndsAfter
<1>3. ASSUME NEW j \in Reached(regex, text, n) PROVE \E i \in Reached(regex, text, n - 1) : Piece(part, text, i, j)
  <2>1. PICK cuts \in [0..n -> 0..L] : cuts[n] = j /\ Valid(cuts, n)
    BY DEF Reached
  <2> DEFINE short == [i \in 0..(n - 1) |-> cuts[i]]
  <2>2. short \in [0..(n - 1) -> 0..L] /\ short[n - 1] = cuts[n - 1] /\ Valid(short, n - 1)
    BY <2>1
  <2> HIDE DEF short
  <2>3. cuts[n - 1] \in Reached(regex, text, n - 1)
    <3>1. cuts[n - 1] \in 0..L
      BY <2>1
    <3> QED
      BY <2>2, <3>1 DEF Reached
  <2> QED
    BY <2>1, <2>3
<1>4. ASSUME NEW j \in 0..L, NEW i \in Reached(regex, text, n - 1), Piece(part, text, i, j)
      PROVE  j \in Reached(regex, text, n)
  <2>1. PICK cuts \in [0..(n - 1) -> 0..L] : cuts[n - 1] = i /\ Valid(cuts, n - 1)
    BY DEF Reached
  <2> DEFINE long == [m \in 0..n |-> IF m = n THEN j ELSE cuts[m]]
  <2>2. long \in [0..n -> 0..L] /\ long[n] = j /\ long[0] = 0 /\ \A m \in 0..(n - 1) : long[m] = cuts[m]
    BY <2>1
  <2>3. \A m \in 1..n : Piece(regex[m], text, long[m - 1], long[m])
    <3> SUFFICES ASSUME NEW m \in 1..n PROVE Piece(regex[m], text, long[m - 1], long[m])
      OBVIOUS
    <3> HIDE DEF long
    <3>1. CASE m = n
      BY <1>4, <2>1, <2>2, <3>1
    <3>2. CASE m # n
      <4>1. m \in 1..(n - 1) /\ long[m - 1] = cuts[m - 1] /\ long[m] = cuts[m]
        BY <2>2, <3>2
      <4> QED
        BY <2>1, <4>1
    <3> QED
      BY <3>1, <3>2
  <2> HIDE DEF long
  <2> QED
    BY <2>2, <2>3 DEF Reached
<1>5. Reached(regex, text, n) \subseteq 0..L
  BY DEF Reached
<1> QED
  BY <1>1, <1>2, <1>3, <1>4, <1>5

LEMMA FullMatchReached ==
  ASSUME NEW S, NEW regex \in Seq(S), NEW text, Len(text) \in Nat
  PROVE  FullMatch(regex, text) <=> Len(text) \in Reached(regex, text, Len(regex))
<1> DEFINE N == Len(regex)
           After(f, n) == IF n = 0 THEN {0} ELSE EndsAfter(f[n - 1], regex[n], text)
           F == [n \in 0..N |-> Reached(regex, text, n)]
           ends == CHOOSE f : f = [n \in 0..N |-> After(f, n)]
<1>1. N \in Nat
  BY LenProperties
<1>2. F = [n \in 0..N |-> After(F, n)]
  <2>1. \A n \in 0..N : Reached(regex, text, n) = After(F, n)
    BY <1>1, ReachedNone, ReachedNext
  <2> QED
    BY <2>1
<1>3. ends = [n \in 0..N |-> After(ends, n)]
  <2> HIDE DEF F, After
  <2> QED
    BY <1>2, Zenon
<1> HIDE DEF ends
<1>4. ends = F
  <2> DEFINE Bad == {n \in 0..N : ends[n] # F[n]}
  <2> SUFFICES ASSUME Bad # {} PROVE FALSE
    BY <1>2, <1>3
  <2>0. Bad \in SUBSET Nat
    BY <1>1
  <2>1. PICK n \in Bad : \A m \in Bad : n <= m
    <3> HIDE DEF Bad
    <3> QED
      BY <2>0, Least
  <2> HIDE DEF F
  <2>2. n = 0 \/ ends[n - 1] = F[n - 1]
    BY <1>1, <2>1
  <2>3. After(ends, n) = After(F, n)
    BY <2>2
  <2> QED
    BY <1>2, <1>3, <2>1, <2>3
<1>5. FullMatch(regex, text) = (Len(text) \in ends[N])
  BY DEF FullMatch, ends
<1>6. ends[N] = Reached(regex, text, N)
  BY <1>1, <1>4
<1> QED
  BY <1>5, <1>6
(* A pattern with a wildcard: the regular expression that to_regex_pattern *)
(* makes of it, escapes and all, matches just the texts that fit.          *)
LEMMA FullMatchFits ==
  ASSUME NEW pattern, IsText(pattern), NEW text, IsText(text), text # Absent
  PROVE  FullMatch(ToRegexPattern(pattern), text) <=> Fits(text, pattern)
<1> DEFINE regex == ToRegexPattern(pattern)
           N == Len(pattern)
           L == Len(text)
           Parts == {Dot, DotStar} \cup { Escaped(symbol) : symbol \in STRING }
<1>1. N \in Nat /\ DOMAIN pattern = 1..N /\ L \in Nat /\ DOMAIN text = 1..L
      /\ (\A i \in 1..N : pattern[i] \in STRING) /\ (\A j \in 1..L : text[j] \in STRING)
  BY LenProperties, ElementOfSeq DEF IsText
<1>2. \A i \in 1..N : regex[i] = IF pattern[i] = "?" THEN Dot ELSE IF pattern[i] = "*" THEN DotStar ELSE Escaped(pattern[i])
  BY <1>1 DEF ToRegexPattern
<1>3. regex \in Seq(Parts) /\ Len(regex) = N
  <2>1. regex \in [1..N -> Parts]
    BY <1>1 DEF ToRegexPattern
  <2>2. regex \in Seq(Parts)
    BY <1>1, <2>1, SeqDef
  <2>3. Len(regex) \in Nat /\ DOMAIN regex = 1..Len(regex) /\ DOMAIN regex = 1..N
    BY <2>1, <2>2, LenProperties
  <2> HIDE DEF regex, N, Parts
  <2>4. \A a, b \in Nat : 1..a = 1..b => a = b
    <3> SUFFICES ASSUME NEW a \in Nat, NEW b \in Nat, 1..a = 1..b PROVE a = b
      OBVIOUS
    <3>1. (\A i \in 1..a : i <= b) /\ (\A i \in 1..b : i <= a)
      OBVIOUS
    <3>2. (a > 0 => a \in 1..a) /\ (b > 0 => b \in 1..b)
      OBVIOUS
    <3> QED
      BY <3>1, <3>2
  <2> QED
    BY <1>1, <2>2, <2>3, <2>4
<1>4. FullMatch(regex, text) <=> L \in Reached(regex, text, N)
  BY <1>1, <1>3, FullMatchReached
<1> HIDE DEF regex
<1>5. ASSUME NEW i \in 1..N, NEW a \in 0..L, NEW b \in 0..L
      PROVE  Piece(regex[i], text, a, b)
               <=> CASE pattern[i] = "*" -> a <= b
                     [] pattern[i] = "?" -> b = a + 1
                     [] OTHER -> b = a + 1 /\ text[b] = pattern[i]
  <2>1. CASE pattern[i] = "*"
    BY <1>2, <2>1 DEF Piece
  <2>2. CASE pattern[i] = "?"
    BY <1>2, <2>2 DEF Piece, Dot, DotStar
  <2>3. CASE pattern[i] # "*" /\ pattern[i] # "?"
    <3>1. regex[i] = Escaped(pattern[i])
      BY <1>2, <2>3
    <3>2. regex[i] # DotStar /\ regex[i] # Dot /\ \A c : regex[i] = Escaped(c) <=> pattern[i] = c
      BY <3>1 DEF Escaped, Dot, DotStar
    <3>3. Piece(regex[i], text, a, b) <=> (b = a + 1 /\ regex[i] \in {Dot, Escaped(text[b])})
      BY <3>2 DEF Piece
    <3> QED
      BY <2>3, <3>2, <3>3
  <2> QED
    BY <2>1, <2>2, <2>3
<1>6. \A cuts \in [0..N -> 0..L] :
        (\A i \in 1..N : Piece(regex[i], text, cuts[i - 1], cuts[i]))
          <=> \A i \in DOMAIN pattern :
                CASE pattern[i] = "*" -> cuts[i - 1] <= cuts[i]
                  [] pattern[i] = "?" -> cuts[i] = cuts[i - 1] + 1
                  [] OTHER -> cuts[i] = cuts[i - 1] + 1 /\ text[cuts[i]] = pattern[i]
  <2> SUFFICES ASSUME NEW cuts \in [0..N -> 0..L]
               PROVE  \A i \in 1..N : Piece(regex[i], text, cuts[i - 1], cuts[i])
                        <=> CASE pattern[i] = "*" -> cuts[i - 1] <= cuts[i]
                              [] pattern[i] = "?" -> cuts[i] = cuts[i - 1] + 1
                              [] OTHER -> cuts[i] = cuts[i - 1] + 1 /\ text[cuts[i]] = pattern[i]
    BY <1>1
  <2>1. \A i \in 1..N : cuts[i - 1] \in 0..L /\ cuts[i] \in 0..L
    <3>1. \A i \in 1..N : i - 1 \in 0..N /\ i \in 0..N
      BY <1>1
    <3> HIDE DEF N, L
    <3> QED
      BY <3>1
  <2> QED
    BY <1>5, <2>1
<1>7. L \in Reached(regex, text, N) <=> Fits(text, pattern)
  <2>1. L \in 0..L
    BY <1>1
  <2> QED
    BY <1>6, <2>1 DEF Reached, Fits
<1> QED
  BY <1>4, <1>7 DEF regex

(* A pattern without one is for the text that it is.                       *)
LEMMA PlainFits ==
  ASSUME NEW pattern, IsText(pattern), NEW text, IsText(text), text # Absent, ~Wild(pattern)
  PROVE  pattern = text <=> Fits(text, pattern)
<1> DEFINE N == Len(pattern)
           L == Len(text)
<1>1. N \in Nat /\ DOMAIN pattern = 1..N /\ L \in Nat /\ DOMAIN text = 1..L
  BY LenProperties DEF IsText
<1>2. \A i \in 1..N : pattern[i] # "*" /\ pattern[i] # "?"
  BY <1>1 DEF Wild
<1>3. Fits(text, pattern)
        <=> \E cuts \in [0..N -> 0..L] :
              cuts[0] = 0 /\ cuts[N] = L /\ \A i \in 1..N : cuts[i] = cuts[i - 1] + 1 /\ text[cuts[i]] = pattern[i]
  BY <1>1, <1>2 DEF Fits
<1>4. ASSUME pattern = text PROVE Fits(text, pattern)
  <2> DEFINE cuts == [i \in 0..N |-> i]
  <2>1. cuts \in [0..N -> 0..L] /\ cuts[0] = 0 /\ cuts[N] = L
    BY <1>1, <1>4
  <2>2. \A i \in 1..N : cuts[i] = cuts[i - 1] + 1 /\ text[cuts[i]] = pattern[i]
    BY <1>1, <1>4
  <2> HIDE DEF cuts
  <2> QED
    BY <1>3, <2>1, <2>2
<1>5. ASSUME Fits(text, pattern) PROVE pattern = text
  <2>1. PICK cuts \in [0..N -> 0..L] :
          cuts[0] = 0 /\ cuts[N] = L /\ \A i \in 1..N : cuts[i] = cuts[i - 1] + 1 /\ text[cuts[i]] = pattern[i]
    BY <1>3, <1>5
  <2>2. \A i \in 0..N : cuts[i] = i
    <3> DEFINE Bad == {i \in 0..N : cuts[i] # i}
    <3> SUFFICES ASSUME Bad # {} PROVE FALSE
      OBVIOUS
    <3>1. Bad \in SUBSET Nat
      BY <1>1
    <3>2. PICK n \in Bad : \A m \in Bad : n <= m
      <4> HIDE DEF Bad
      <4> QED
        BY <3>1, Least
    <3>3. n \in 1..N /\ cuts[n - 1] = n - 1
      BY <1>1, <2>1, <3>2
    <3> QED
      BY <1>1, <2>1, <3>2, <3>3
  <2>3. N = L /\ \A i \in 1..N : text[i] = pattern[i]
    <3>1. N \in 0..N /\ \A i \in 1..N : i \in 0..N
      BY <1>1
    <3>2. cuts[N] = N /\ \A i \in 1..N : cuts[i] = i
      BY <2>2, <3>1
    <3> QED
      BY <2>1, <3>2
  <2> QED
    BY <1>1, <2>3, SeqEqual DEF IsText
<1> QED
  BY <1>4, <1>5

(* wild_card_match decides whether the text fits the pattern, as the user  *)
(* who wrote the pattern reads it.                                         *)
THEOREM WildCardFits ==
  ASSUME NEW pattern, IsText(pattern), NEW text, IsText(text)
  PROVE  WildCardMatch(text, pattern) <=> Fits(text, pattern)
<1>1. CASE text = Absent
  BY <1>1 DEF WildCardMatch, Fits
<1>2. CASE text # Absent /\ pattern = Star
  <2> DEFINE L == Len(text)
             cuts == [i \in 0..1 |-> IF i = 0 THEN 0 ELSE L]
  <2>1. L \in Nat
    BY LenProperties DEF IsText
  <2>2. Len(pattern) = 1 /\ DOMAIN pattern = 1..1 /\ pattern[1] = "*"
    BY <1>2 DEF Star
  <2>3. cuts \in [0..1 -> 0..L] /\ cuts[0] = 0 /\ cuts[1] = L
    BY <2>1
  <2> HIDE DEF cuts
  <2>4. \A i \in 1..1 : i = 1 /\ i - 1 = 0
    OBVIOUS
  <2>5. Fits(text, pattern)
    BY <1>2, <2>1, <2>2, <2>3, <2>4 DEF Fits
  <2> QED
    BY <1>2, <2>5 DEF WildCardMatch
<1>3. CASE text # Absent /\ pattern # Star /\ Wild(pattern)
  BY <1>3, FullMatchFits DEF WildCardMatch
<1>4. CASE text # Absent /\ pattern # Star /\ ~Wild(pattern)
  BY <1>4, PlainFits DEF WildCardMatch
<1> QED
  BY <1>1, <1>2, <1>3, <1>4

(* attribute_match counts, and so decides, as many matches as the rule has *)
(* attributes.                                                             *)
LEMMA AttributesFit ==
  ASSUME NEW rule, IsRule(rule), NEW q, Truthful(q)
  PROVE  AttributeMatch(q.attributes, rule.attributes)
           <=> \A k \in DOMAIN rule.attributes :
                 k \in DOMAIN q.attributes /\ Fits(q.attributes[k], rule.attributes[k])
<1> DEFINE A == DOMAIN q.attributes
           R == DOMAIN rule.attributes
           M == { k \in A \cap R : WildCardMatch(q.attributes[k], rule.attributes[k]) }
<1>1. IsFiniteSet(A) /\ IsFiniteSet(R)
  BY DEF IsRule, Truthful
<1>2. M = { k \in A \cap R : Fits(q.attributes[k], rule.attributes[k]) }
  <2>1. \A k \in A \cap R : IsText(q.attributes[k]) /\ IsText(rule.attributes[k])
    BY DEF IsRule, Truthful
  <2>2. \A k \in A \cap R : WildCardMatch(q.attributes[k], rule.attributes[k]) <=> Fits(q.attributes[k], rule.attributes[k])
    BY <2>1, WildCardFits
  <2> QED
    BY <2>2
<1>3. AttributeMatch(q.attributes, rule.attributes)
        <=> R = {} \/ (Cardinality(R) <= Cardinality(A) /\ Cardinality(M) = Cardinality(R))
  BY DEF AttributeMatch
<1>4. M \in SUBSET R
  OBVIOUS
<1>5. Cardinality(M) = Cardinality(R) => M = R
  <2> HIDE DEF M, R
  <2> QED
    BY <1>1, <1>4, FS_Subset
<1>6. R \subseteq A => Cardinality(R) <= Cardinality(A)
  <2> HIDE DEF A, R
  <2> QED
    BY <1>1, FS_Subset
<1>7. (\A k \in R : k \in A /\ Fits(q.attributes[k], rule.attributes[k])) <=> (R \subseteq A /\ M = R)
  BY <1>2
<1>8. M = R => R \subseteq A
  OBVIOUS
<1>9. R = {} => M = R
  OBVIOUS
<1> HIDE DEF A, R, M
<1> QED
  BY <1>3, <1>5, <1>6, <1>7, <1>8, <1>9 DEF R, A

LEMMA MinIs ==
  ASSUME NEW S \in SUBSET Int, NEW n \in S, \A i \in S : n <= i
  PROVE  Min(S) = n
<1>1. Min(S) \in S /\ \A i \in S : Min(S) <= i
  BY DEF Min
<1>2. Min(S) \in Int /\ n \in Int /\ Min(S) <= n /\ n <= Min(S)
  BY <1>1
<1> QED
  BY <1>2

(* The first place with one of the symbols, as PathOf looks for it.        *)
FirstOf(url, from, symbols) ==
  LET at == { i \in from..Len(url) : url[i] \in symbols } IN IF at = {} THEN Len(url) + 1 ELSE Min(at)

LEMMA FirstOfIs ==
  ASSUME NEW url, Len(url) \in Nat, NEW from \in 1..(Len(url) + 1), NEW symbols, NEW n \in from..(Len(url) + 1),
         \A i \in from..Len(url) : i < n => url[i] \notin symbols,
         n <= Len(url) => url[n] \in symbols
  PROVE  FirstOf(url, from, symbols) = n
<1> DEFINE at == { i \in from..Len(url) : url[i] \in symbols }
<1>1. CASE n = Len(url) + 1
  <2>1. at = {}
    BY <1>1
  <2> QED
    BY <1>1, <2>1 DEF FirstOf
<1>2. CASE n <= Len(url)
  <2>1. at \in SUBSET Int /\ n \in at /\ \A i \in at : n <= i
    BY <1>2
  <2> HIDE DEF at
  <2>2. Min(at) = n
    BY <2>1, MinIs
  <2> QED
    BY <2>1, <2>2 DEF FirstOf, at
<1> QED
  BY <1>1, <1>2

(* The path that is taken of a URL is the one it is made of.               *)
LEMMA PathOfUrl ==
  ASSUME NEW url, IsText(url), NEW path, IsUrlOf(url, path)
  PROVE  Contains(url, "://") /\ PathOf(url) = path /\ path # Absent
<1> DEFINE L == Len(url)
<1>1. L \in Nat
  BY LenProperties DEF IsText
<1>2. PICK scheme \in 0..L, host \in 0..L, end \in 0..L :
        /\ scheme < host /\ host <= end
        /\ url[scheme + 1] = "://" /\ \A i \in 1..scheme : url[i] # "://"
        /\ \A i \in (scheme + 2)..host : url[i] \notin {"/", "?", "#"}
        /\ \A i \in (host + 1)..end : url[i] \notin {"?", "#"}
        /\ host < end => url[host + 1] = "/"
        /\ end < L => url[end + 1] \in {"?", "#"}
        /\ path = IF host = end THEN <<"/">> ELSE SubSeq(url, host + 1, end)
  BY DEF IsUrlOf
<1>3. FirstOf(url, 1, {"://"}) = scheme + 1
  <2>1. scheme + 1 \in 1..(L + 1) /\ 1 \in 1..(L + 1) /\ \A i \in 1..L : i < scheme + 1 => url[i] \notin {"://"}
    BY <1>1, <1>2
  <2> QED
    BY <1>1, <1>2, <2>1, FirstOfIs
<1>4. scheme + 2 \in 1..(L + 1) /\ end + 1 \in (scheme + 2)..(L + 1) /\ host + 1 \in (scheme + 2)..(L + 1)
  BY <1>1, <1>2
<1>5. FirstOf(url, scheme + 2, {"?", "#"}) = end + 1
  <2>1. \A i \in (scheme + 2)..L : i < end + 1 => url[i] \notin {"?", "#"}
    <3> SUFFICES ASSUME NEW i \in (scheme + 2)..L, i < end + 1 PROVE url[i] \notin {"?", "#"}
      OBVIOUS
    <3>1. i \in (scheme + 2)..host \/ i \in (host + 1)..end
      BY <1>1, <1>2
    <3> QED
      BY <1>2, <3>1
  <2>2. end + 1 <= L => url[end + 1] \in {"?", "#"}
    BY <1>1, <1>2
  <2> QED
    BY <1>1, <1>4, <2>1, <2>2, FirstOfIs
<1>6. FirstOf(url, scheme + 2, {"/", "?", "#"}) = host + 1
  <2>1. \A i \in (scheme + 2)..L : i < host + 1 => url[i] \notin {"/", "?", "#"}
    <3> SUFFICES ASSUME NEW i \in (scheme + 2)..L, i < host + 1 PROVE url[i] \notin {"/", "?", "#"}
      OBVIOUS
    <3>1. i \in (scheme + 2)..host
      BY <1>1, <1>2
    <3> QED
      BY <1>2, <3>1
  <2>2. host + 1 <= L => url[host + 1] \in {"/", "?", "#"}
    <3>1. CASE host < end
      BY <1>2, <3>1
    <3>2. CASE host = end
      BY <1>1, <1>2, <3>2
    <3> QED
      BY <1>1, <1>2, <3>1, <3>2
  <2> QED
    BY <1>1, <1>4, <2>1, <2>2, FirstOfIs
<1> DEFINE piece == SubSeq(url, host + 1, end)
<1>7. PathOf(url) = IF piece = <<>> THEN <<"/">> ELSE piece
  <2>1. PathOf(url) = LET cut == SubSeq(url, FirstOf(url, FirstOf(url, 1, {"://"}) + 1, {"/", "?", "#"}),
                                             FirstOf(url, FirstOf(url, 1, {"://"}) + 1, {"?", "#"}) - 1)
                      IN  IF cut = <<>> THEN <<"/">> ELSE cut
    BY DEF PathOf, FirstOf
  <2>2. (scheme + 1) + 1 = scheme + 2 /\ (end + 1) - 1 = end
    BY <1>1
  <2>3. PathOf(url) = LET cut == SubSeq(url, FirstOf(url, scheme + 2, {"/", "?", "#"}),
                                             FirstOf(url, scheme + 2, {"?", "#"}) - 1)
                      IN  IF cut = <<>> THEN <<"/">> ELSE cut
    BY <1>3, <2>1, <2>2, Zenon
  <2>4. PathOf(url) = LET cut == SubSeq(url, host + 1, (end + 1) - 1) IN IF cut = <<>> THEN <<"/">> ELSE cut
    BY <1>5, <1>6, <2>3, Zenon
  <2> QED
    BY <2>2, <2>4, Zenon
<1>8. Contains(url, "://")
  <2>1. scheme + 1 \in 1..Len(url)
    BY <1>1, <1>2
  <2> QED
    BY <1>2, <2>1 DEF Contains
<1>9. CASE host = end
  <2>1. piece = <<>>
    BY <1>1, <1>9, SubSeqEmpty
  <2>2. <<"/">> # Absent
    BY DEF Absent
  <2> HIDE DEF piece
  <2> QED
    BY <1>2, <1>7, <1>8, <1>9, <2>1, <2>2
<1>10. CASE host < end
  <2>1. \A i \in (host + 1)..end : url[i] \in STRING
    BY <1>1, ElementOfSeq DEF IsText
  <2>2. Len(piece) = end - host /\ \A i \in 1..(end - host) : piece[i] = url[host + i]
    BY <1>1, <1>10, <2>1, SubSeqProperties
  <2> HIDE DEF piece
  <2>3. piece[1] = "/" /\ Len(piece) > 0
    BY <1>1, <1>2, <1>10, <2>2
  <2>4. piece # <<>>
    <3> SUFFICES ASSUME piece = <<>> PROVE FALSE
      OBVIOUS
    <3>1. Len(piece) = 0
      BY EmptySeq
    <3> QED
      BY <2>3, <3>1
  <2>5. piece # <<>> /\ piece # Absent
    <3>1. Absent[1] = "no text" /\ "no text" # "/"
      BY DEF Absent
    <3> QED
      BY <2>3, <2>4, <3>1
  <2>6. path = piece
    BY <1>2, <1>10 DEF piece
  <2> QED
    BY <1>7, <1>8, <2>5, <2>6
<1> QED
  BY <1>1, <1>2, <1>9, <1>10

-----------------------------------------------------------------------------
(* A request reports what is called, under the new names or the old: what  *)
(* `matches` finds for each field is the call's.                           *)

LEMMA EitherReports ==
  ASSUME NEW q, Truthful(q), NEW k, NEW deprecated, NEW value, Reports(q.attributes, {k, deprecated}, value)
  PROVE  Either(q.attributes, k, deprecated) = value
  BY DEF Reports, Says, Silent, Either, Get

LEMMA UrlPathReports == ASSUME NEW q, Truthful(q) PROVE UrlPath(q.attributes) = q.call.path
<1> DEFINE A == q.attributes
           path == Either(A, "url.path", "http.target")
           url == Either(A, "url.full", "http.url")
<1>1. /\ \A k \in DOMAIN A : IsText(A[k]) /\ A[k] # Absent
      /\ \A k \in {"url.path", "http.target"} \cap DOMAIN A : A[k] = q.call.path
      /\ {"url.path", "http.target"} \cap DOMAIN A = {} =>
           /\ \A k \in {"url.full", "http.url"} \cap DOMAIN A : IsUrlOf(A[k], q.call.path)
           /\ {"url.full", "http.url"} \cap DOMAIN A = {} => q.call.path = <<"/">>
  BY DEF Truthful, ReportsPath, Says, Silent
<1>2. UrlPath(A) = IF path # Absent THEN path
                   ELSE IF url = Absent THEN <<"/">>
                   ELSE IF Contains(url, "://") THEN PathOf(url) ELSE Absent
  BY DEF UrlPath
<1> HIDE DEF A
<1>3. CASE {"url.path", "http.target"} \cap DOMAIN A # {}
  <2>1. path = q.call.path /\ path # Absent
    BY <1>1, <1>3 DEF Either, Get
  <2> HIDE DEF path
  <2> QED
    BY <1>2, <2>1 DEF A
<1>4. CASE {"url.path", "http.target"} \cap DOMAIN A = {} /\ {"url.full", "http.url"} \cap DOMAIN A # {}
  <2>1. path = Absent /\ url # Absent /\ IsText(url) /\ IsUrlOf(url, q.call.path)
    BY <1>1, <1>4 DEF Either, Get
  <2> HIDE DEF path, url
  <2>2. Contains(url, "://") /\ PathOf(url) = q.call.path
    BY <2>1, PathOfUrl
  <2> QED
    BY <1>2, <2>1, <2>2 DEF A
<1>5. CASE {"url.path", "http.target"} \cap DOMAIN A = {} /\ {"url.full", "http.url"} \cap DOMAIN A = {}
  <2>1. path = Absent /\ url = Absent
    BY <1>5 DEF Either, Get
  <2> HIDE DEF path, url
  <2> QED
    BY <1>1, <1>2, <1>5, <2>1 DEF A
<1> QED
  BY <1>3, <1>4, <1>5

LEMMA ArnReports == ASSUME NEW q, Truthful(q) PROVE Arn(q) = q.call.arn
<1> DEFINE ids == {"cloud.resource_id", "faas.id"}
           known == Either(q.resource, "cloud.resource_id", "faas.id")
           span == Either(q.attributes, "cloud.resource_id", "faas.id")
<1>1. /\ \A k \in DOMAIN q.resource : q.resource[k] # Absent
      /\ \A k \in DOMAIN q.attributes : q.attributes[k] # Absent
  BY DEF Truthful
<1>2. CASE InLambda(q)
  <2>1. /\ \A k \in ids \cap DOMAIN q.resource : q.resource[k] = q.call.arn
        /\ ids \cap DOMAIN q.resource = {} =>
             /\ \A k \in ids \cap DOMAIN q.attributes : q.attributes[k] = q.call.arn
             /\ ids \cap DOMAIN q.attributes = {} => q.call.arn = <<>>
    BY <1>2 DEF Truthful, ReportsArn, Says, Silent
  <2>2. Arn(q) = IF known # Absent THEN known ELSE IF span # Absent THEN span ELSE <<>>
    BY <1>2 DEF Arn, LambdaArn
  <2>3. IF ids \cap DOMAIN q.resource # {} THEN known # Absent /\ known = q.call.arn ELSE known = Absent
    BY <1>1, <2>1 DEF Either, Get
  <2>4. ids \cap DOMAIN q.resource = {} =>
          IF ids \cap DOMAIN q.attributes # {} THEN span # Absent /\ span = q.call.arn ELSE span = Absent
    BY <1>1, <2>1 DEF Either, Get
  <2> HIDE DEF ids, known, span
  <2> QED
    BY <2>1, <2>2, <2>3, <2>4
<1>3. CASE ~InLambda(q)
  BY <1>3 DEF Truthful, ReportsArn, Arn
<1> QED
  BY <1>2, <1>3

(* The decision of _SamplingRuleApplier.matches is the right one whenever  *)
(* it makes one.                                                           *)
THEOREM MatchesMeant ==
  ASSUME NEW rule, IsRule(rule), NEW q, Truthful(q), ~Raises(rule, q)
  PROVE  Matches(rule, q) <=> MeantFor(rule, q)
<1>1. \A field \in CallFields : IsText(rule[field]) /\ IsText(q.call[field])
  BY DEF IsRule, Truthful
<1>2. \A field \in CallFields : WildCardMatch(q.call[field], rule[field]) <=> Fits(q.call[field], rule[field])
  BY <1>1, WildCardFits
<1>3. UrlPath(q.attributes) = q.call.path
  BY UrlPathReports
<1>4. Either(q.attributes, "http.request.method", "http.method") = q.call.method
  BY EitherReports DEF Truthful
<1>5. Either(q.attributes, "server.address", "http.host") = q.call.host
  BY EitherReports DEF Truthful
<1>6. Get(q.resource, "service.name", <<>>) = q.call.service /\ ServiceType(q.resource) = q.call.type
  BY DEF Truthful
<1>7. Arn(q) = q.call.arn
  BY ArnReports
<1>8. Matches(rule, q) <=> /\ AttributeMatch(q.attributes, rule.attributes)
                           /\ \A field \in CallFields : WildCardMatch(q.call[field], rule[field])
  BY <1>3, <1>4, <1>5, <1>6, <1>7 DEF Matches, AllButArn, CallFields
<1>9. DOMAIN q.call = CallFields
  BY DEF Truthful
<1> QED
  BY <1>2, <1>8, <1>9, AttributesFit DEF MeantFor

-----------------------------------------------------------------------------
(* The pollers and the service.                                            *)

USE RulesAssumption, TimeAssumption

(* A rule has one body in the answers of the service.                      *)
OneBody(rules) == \A r, s \in rules : r.name = s.name => r = s

(* The inductive form of the types: an answer has each rule once, and what *)
(* the pollers hold is no newer than the service.                          *)
EditType ==
  /\ now \in 1..Horizon
  /\ up \in BOOLEAN
  /\ server \in [Names -> Bodies \cup {None}]
  /\ version \in 1..MaxVersion /\ modified \in 0..now

CacheType ==
  /\ appliers \subseteq Applier /\ OneEach /\ lastModified \in 1..now
  /\ asOf \in 0..version /\ stale \in BOOLEAN

PollerType ==
  /\ pc \in [Pollers -> {"idle", "report", "apply", "refresh", "update"}]
  /\ pc["rules"] \in {"idle", "update"}
  /\ DOMAIN got = Pollers
  /\ \A p \in Pollers : got[p].rules \subseteq Rule /\ OneBody(got[p].rules) /\ got[p].version \in 0..version
  /\ names \subseteq Names
  /\ targets.for \subseteq Names /\ targets.version \in 0..version /\ targets.modified \in 0..modified

TInv == EditType /\ CacheType /\ PollerType

(* Why no change is missed: a cache that is not behind by its own making   *)
(* has the rules of its time, and any later change is later on the clock.  *)
AgeInv ==
  ~stale => /\ version > asOf => modified > lastModified
            /\ targets.version > asOf => targets.modified > lastModified

LEMMA TInit == Init => TInv /\ AgeInv
<1> SUFFICES ASSUME Init PROVE TInv /\ AgeInv
  OBVIOUS
<1> USE DEF Init, None, Pollers, NoRules, NoTargets
<1>1. EditType
  BY DEF EditType
<1>2. CacheType
  BY DEF CacheType, OneEach
<1>3. PollerType
  BY DEF PollerType, OneBody
<1>4. AgeInv
  BY DEF AgeInv
<1> QED
  BY <1>1, <1>2, <1>3, <1>4 DEF TInv

-----------------------------------------------------------------------------
(* The rules of the service, as a set: each name once.                     *)
LEMMA ServerRulesType == EditType => ServerRules \subseteq Rule /\ OneBody(ServerRules)
<1> SUFFICES ASSUME EditType PROVE ServerRules \subseteq Rule /\ OneBody(ServerRules)
  OBVIOUS
<1>1. \A r \in ServerRules : r.name \in Names /\ r = [name |-> r.name, body |-> server[r.name]] /\ server[r.name] # None
  BY DEF ServerRules
<1>2. ServerRules \subseteq Rule
  BY <1>1 DEF EditType, Rule
<1>3. OneBody(ServerRules)
  BY <1>1 DEF OneBody
<1> QED
  BY <1>2, <1>3

(* What update_sampling_rules makes of the rules it is given: one applier  *)
(* for each supported rule, and the old one where it is for the same rule. *)
LEMMA AppliersForType ==
  ASSUME appliers \subseteq Applier, OneEach, NEW rules \in SUBSET Rule, OneBody(rules)
  PROVE  /\ AppliersFor(rules) \subseteq Applier
         /\ \A x \in AppliersFor(rules) : x.body \notin Unsupported
         /\ \A x, y \in AppliersFor(rules) : x.name = y.name => x = y
         /\ \A x \in appliers, y \in AppliersFor(rules) : x.name = y.name /\ x.body = y.body => x = y
<1> DEFINE Same(r) == {x \in appliers : x.name = r.name /\ x.body = r.body}
           New(r)  == [name |-> r.name, body |-> r.body, target |-> None]
           For(r)  == IF Same(r) # {} THEN Same(r) ELSE {New(r)}
<1>1. \A x \in AppliersFor(rules) : \E r \in rules : r.body \notin Unsupported /\ x \in For(r)
  BY DEF AppliersFor
<1>2. ASSUME NEW r \in rules, NEW x \in For(r)
      PROVE  x \in Applier /\ x.name = r.name /\ x.body = r.body
  <2>1. CASE Same(r) # {}
    BY <1>2, <2>1
  <2>2. CASE Same(r) = {}
    BY <1>2, <2>2 DEF Rule, Applier, None
  <2> QED
    BY <2>1, <2>2
<1>3. ASSUME NEW r \in rules, NEW x \in For(r), NEW y \in For(r) PROVE x = y
  <2>1. CASE Same(r) # {}
    BY <1>3, <2>1 DEF OneEach
  <2>2. CASE Same(r) = {}
    BY <1>3, <2>2
  <2> QED
    BY <2>1, <2>2
<1>4. ASSUME NEW x \in AppliersFor(rules), NEW y \in AppliersFor(rules), x.name = y.name PROVE x = y
  <2>1. PICK r \in rules : x \in For(r)
    BY <1>1
  <2>2. PICK s \in rules : y \in For(s)
    BY <1>1
  <2>3. r = s
    BY <1>2, <1>4, <2>1, <2>2 DEF OneBody
  <2> QED
    BY <1>3, <2>1, <2>2, <2>3
<1>5. ASSUME NEW x \in appliers, NEW y \in AppliersFor(rules), x.name = y.name, x.body = y.body PROVE x = y
  <2>1. PICK r \in rules : y \in For(r)
    BY <1>1
  <2>2. x \in Same(r)
    BY <1>2, <1>5, <2>1
  <2> QED
    BY <1>3, <2>1, <2>2
<1> QED
  BY <1>1, <1>2, <1>4, <1>5

(* update_sampling_targets gives some appliers a target, and no name or    *)
(* body.                                                                   *)
LEMMA WithTargetsType ==
  ASSUME TInv
  PROVE  /\ WithTargets \subseteq Applier
         /\ \A x \in WithTargets : x.body \notin Unsupported
         /\ \A x, y \in WithTargets : x.name = y.name => x = y
<1> DEFINE W(x) == IF x.name \in targets.for THEN [x EXCEPT !.target = targets.version] ELSE x
<1>1. \A y \in WithTargets : \E x \in appliers : y = W(x)
  BY DEF WithTargets
<1>2. \A x \in appliers : W(x) \in Applier /\ W(x).name = x.name /\ W(x).body = x.body
  BY DEF TInv, EditType, CacheType, PollerType, Applier
<1>3. \A x \in appliers : x.body \notin Unsupported /\ \A y \in appliers : x.name = y.name => x = y
  BY DEF TInv, CacheType, OneEach
<1> HIDE DEF W
<1> QED
  BY <1>1, <1>2, <1>3

-----------------------------------------------------------------------------
(* The steps.                                                              *)

LEMMA ModifyStep == TInv /\ AgeInv /\ Modify => TInv' /\ AgeInv'
<1> SUFFICES ASSUME TInv, AgeInv, Modify PROVE TInv' /\ AgeInv'
  OBVIOUS
<1>1. PICK n \in Names \ {Default}, b \in Bodies \cup {None} : server' = [server EXCEPT ![n] = b]
  BY DEF Modify
<1>2. EditType'
  BY <1>1 DEF TInv, EditType, Modify
<1>3. stale' \in BOOLEAN
  BY Zenon DEF Modify, TInv, CacheType
<1>4. CacheType'
  BY <1>3 DEF TInv, EditType, CacheType, OneEach, Modify, cache
<1>5. PollerType'
  BY DEF TInv, EditType, PollerType, OneBody, Modify, pollers
<1>6. AgeInv'
  <2> SUFFICES ASSUME ~stale' PROVE AgeInv'
    BY DEF AgeInv
  <2>1. ~stale /\ now # lastModified /\ modified' = now /\ lastModified' = lastModified /\ targets' = targets /\ asOf' = asOf
    BY Zenon DEF Modify, cache, pollers
  <2>2. now > lastModified
    BY <2>1 DEF TInv, EditType, CacheType
  <2> QED
    BY <2>1, <2>2 DEF AgeInv
<1> QED
  BY <1>2, <1>4, <1>5, <1>6 DEF TInv

LEMMA OutsideStep == TInv /\ AgeInv /\ (UpOrDown \/ Tick \/ UNCHANGED vars) => TInv' /\ AgeInv'
<1> SUFFICES ASSUME TInv, AgeInv, UpOrDown \/ Tick \/ UNCHANGED vars PROVE TInv' /\ AgeInv'
  OBVIOUS
<1>0. up' \in BOOLEAN
  BY Zenon DEF TInv, EditType, UpOrDown, Tick, vars, service
<1>1. /\ now' \in 1..Horizon /\ now <= now' /\ up' \in BOOLEAN
      /\ UNCHANGED <<server, version, modified, cache, pollers, history>>
  BY <1>0 DEF TInv, EditType, UpOrDown, Tick, vars, service
<1>2. EditType' /\ CacheType' /\ PollerType'
  BY <1>1 DEF TInv, EditType, CacheType, OneEach, PollerType, OneBody, cache, pollers, history
<1>3. AgeInv'
  BY <1>1 DEF AgeInv, cache, pollers, history
<1> QED
  BY <1>2, <1>3 DEF TInv

LEMMA FetchStep == ASSUME TInv, AgeInv, NEW p \in Pollers, GetSamplingRules(p) PROVE TInv' /\ AgeInv'
<1>1. PICK rules \in SUBSET ServerRules, v \in 0..version : got' = [got EXCEPT ![p] = [rules |-> rules, version |-> v]]
  BY DEF GetSamplingRules, TInv, EditType, None
<1>2. rules \subseteq Rule /\ OneBody(rules)
  BY ServerRulesType DEF TInv, OneBody
<1>3. EditType' /\ CacheType'
  BY DEF TInv, EditType, CacheType, OneEach, GetSamplingRules, service, cache, history
<1>4. PollerType'
  <2>1. pc' \in [Pollers -> {"idle", "report", "apply", "refresh", "update"}] /\ pc'["rules"] \in {"idle", "update"}
    BY DEF TInv, PollerType, GetSamplingRules, Pollers
  <2>2. DOMAIN got' = Pollers /\ \A q \in Pollers : got'[q] = IF q = p THEN [rules |-> rules, version |-> v] ELSE got[q]
    BY <1>1 DEF TInv, PollerType
  <2>3. \A q \in Pollers : got'[q].rules \subseteq Rule /\ OneBody(got'[q].rules) /\ got'[q].version \in 0..version
    BY <1>2, <2>2 DEF TInv, PollerType
  <2> QED
    BY <2>1, <2>2, <2>3 DEF TInv, PollerType, GetSamplingRules, service
<1>5. AgeInv'
  BY DEF AgeInv, GetSamplingRules, service, cache, history
<1> QED
  BY <1>3, <1>4, <1>5 DEF TInv

LEMMA UpdateStep == ASSUME TInv, AgeInv, NEW p \in Pollers, UpdateSamplingRules(p) PROVE TInv' /\ AgeInv'
<1>1. /\ got[p].rules \in SUBSET Rule /\ OneBody(got[p].rules) /\ got[p].version \in 0..version
      /\ appliers \subseteq Applier /\ OneEach
  BY DEF TInv, PollerType, CacheType
<1>2. EditType'
  BY DEF TInv, EditType, UpdateSamplingRules, service
<1>3. CacheType'
  <2>1. appliers' \subseteq Applier /\ OneEach'
    BY <1>1, AppliersForType DEF UpdateSamplingRules, OneEach
  <2>2. stale' \in BOOLEAN
    BY Zenon DEF UpdateSamplingRules
  <2> QED
    BY <1>1, <2>1, <2>2 DEF TInv, EditType, CacheType, UpdateSamplingRules, service
<1>4. PollerType'
  <2>1. pc' \in [Pollers -> {"idle", "report", "apply", "refresh", "update"}] /\ pc'["rules"] \in {"idle", "update"}
    BY DEF TInv, PollerType, UpdateSamplingRules, Pollers
  <2>2. DOMAIN got' = Pollers /\ \A q \in Pollers : got'[q] = IF q = p THEN NoRules ELSE got[q]
    BY DEF TInv, PollerType, UpdateSamplingRules
  <2>3. \A q \in Pollers : got'[q].rules \subseteq Rule /\ OneBody(got'[q].rules) /\ got'[q].version \in 0..version
    BY <2>2 DEF TInv, EditType, PollerType, NoRules, None, OneBody
  <2> QED
    BY <2>1, <2>2, <2>3 DEF TInv, PollerType, UpdateSamplingRules, service
<1>5. AgeInv'
  <2> SUFFICES ASSUME ~stale' PROVE AgeInv'
    BY DEF AgeInv
  <2>1. asOf' = version /\ version' = version /\ targets' = targets
    BY Zenon DEF UpdateSamplingRules, service
  <2> QED
    BY <2>1 DEF AgeInv, TInv, EditType, PollerType
<1> QED
  BY <1>2, <1>3, <1>4, <1>5 DEF TInv

LEMMA TargetsStep ==
  TInv /\ AgeInv /\ (GetAllStatistics \/ GetSamplingTargets \/ UpdateSamplingTargets) => TInv' /\ AgeInv'
<1> SUFFICES ASSUME TInv, AgeInv, GetAllStatistics \/ GetSamplingTargets \/ UpdateSamplingTargets
             PROVE  TInv' /\ AgeInv'
  OBVIOUS
<1>1. EditType'
  BY DEF TInv, EditType, GetAllStatistics, GetSamplingTargets, UpdateSamplingTargets, service
<1>2. pc' \in [Pollers -> {"idle", "report", "apply", "refresh", "update"}] /\ pc'["rules"] \in {"idle", "update"}
  BY DEF TInv, PollerType, GetAllStatistics, GetSamplingTargets, UpdateSamplingTargets, Pollers
<1>3. CASE GetAllStatistics
  <2>1. names' \subseteq Names
    BY <1>3 DEF GetAllStatistics, TInv, CacheType, Applier
  <2> QED
    BY <1>1, <1>2, <1>3, <2>1
       DEF TInv, CacheType, PollerType, OneEach, OneBody, AgeInv, GetAllStatistics, service, cache, history
<1>4. CASE GetSamplingTargets
  <2>1. CASE up
    <3>1. targets' = [for |-> {n \in names : server[n] # None}, version |-> version, modified |-> modified]
      BY <1>4, <2>1 DEF GetSamplingTargets
    <3>2. CacheType'
      BY <1>4 DEF TInv, CacheType, OneEach, GetSamplingTargets, service, cache, history
    <3>3. targets'.for = {n \in names : server[n] # None} /\ targets'.version = version /\ targets'.modified = modified
      BY <3>1
    <3>4. PollerType'
      <4>1. names' = {} /\ UNCHANGED <<got, version, modified>>
        BY <1>4 DEF GetSamplingTargets, service
      <4>2. targets'.for \subseteq Names /\ targets'.version \in 0..version /\ targets'.modified \in 0..modified
        <5>1. names \subseteq Names /\ version \in Nat /\ modified \in Nat
          BY DEF TInv, EditType, PollerType
        <5>2. {n \in names : server[n] # None} \subseteq Names
          BY <5>1
        <5> QED
          BY <3>3, <5>1, <5>2
      <4> QED
        BY <1>2, <4>1, <4>2 DEF TInv, PollerType, OneBody
    <3>5. AgeInv'
      BY <1>4, <3>3 DEF AgeInv, GetSamplingTargets, service, cache, history
    <3> QED
      BY <1>1, <3>2, <3>4, <3>5 DEF TInv
  <2>2. CASE ~up
    <3>1. targets' = NoTargets
      BY <1>4, <2>2 DEF GetSamplingTargets
    <3> QED
      BY <1>1, <1>2, <1>4, <3>1
         DEF TInv, EditType, CacheType, PollerType, OneEach, OneBody, AgeInv, GetSamplingTargets, service, cache, history,
             NoTargets, None
  <2> QED
    BY <2>1, <2>2
<1>5. CASE UpdateSamplingTargets
  <2>1. appliers' \subseteq Applier /\ OneEach'
    BY <1>5, WithTargetsType DEF UpdateSamplingTargets, OneEach
  <2>2. targets' = NoTargets
    BY <1>5 DEF UpdateSamplingTargets
  <2> QED
    BY <1>1, <1>2, <1>5, <2>1, <2>2
       DEF TInv, EditType, CacheType, PollerType, OneBody, AgeInv, UpdateSamplingTargets, service, history, NoTargets, None
<1> QED
  BY <1>3, <1>4, <1>5

LEMMA TStep == TInv /\ AgeInv /\ [Next]_vars => TInv' /\ AgeInv'
<1>1. "rules" \in Pollers /\ "targets" \in Pollers
  BY DEF Pollers
<1> QED
  BY <1>1, ModifyStep, OutsideStep, FetchStep, UpdateStep, TargetsStep DEF Next, RulesPoller, TargetsPoller

LEMMA Inductive == Spec => [](TInv /\ AgeInv)
  BY TInit, TStep, PTL DEF Spec

-----------------------------------------------------------------------------

(* Every rule has at most one applier, of a supported version, and what    *)
(* the pollers hold is of the service as it is or was.                     *)
THEOREM TypeCorrect == Spec => []TypeOK
<1>1. TInv => TypeOK
  BY DEF TInv, EditType, CacheType, PollerType, TypeOK, Pollers
<1> QED
  BY <1>1, Inductive, PTL

(* A poll that has seen newer rules than the cache's fetches them, or the  *)
(* cache was behind when it was made: for any clock and any edits.         *)
THEOREM ChangesSeen == Spec => NoMissedChange
<1> DEFINE Missed == pc["targets"] = "apply" /\ pc'["targets"] = "idle" /\ targets.version > asOf
<1>1. TInv /\ AgeInv /\ [Next]_vars => [Missed => stale]_vars
  <2> SUFFICES ASSUME TInv, AgeInv, Next, Missed PROVE stale
    BY DEF vars
  <2>1. CASE UpdateSamplingTargets
    <3>1. ~(targets.modified > lastModified)
      BY <2>1 DEF UpdateSamplingTargets, RefreshRules, TInv, PollerType, Pollers
    <3> QED
      BY <3>1 DEF AgeInv
  <2>2. CASE ~UpdateSamplingTargets
    <3>1. pc'["targets"] = pc["targets"] \/ pc["targets"] # "apply"
      BY <2>2 DEF Next, Modify, UpOrDown, Tick, RulesPoller, TargetsPoller, GetSamplingRules, UpdateSamplingRules,
                  GetAllStatistics, GetSamplingTargets, pollers, TInv, PollerType, Pollers
    <3> QED
      BY <3>1
  <2> QED
    BY <2>1, <2>2
<1> QED
  BY <1>1, Inductive, PTL DEF Spec, NoMissedChange

(* A rules update keeps the applier of every rule that stays as it is,     *)
(* whichever poller makes it and whatever the other one is doing.          *)
THEOREM AppliersKept == Spec => KeepsAppliers
<1> DEFINE Kept == \A x \in appliers, y \in appliers' :
                     pc["targets"] # "apply" /\ x.name = y.name /\ x.body = y.body => x = y
<1>1. TInv /\ [Next]_vars => [Kept]_vars
  <2> SUFFICES ASSUME TInv, Next PROVE Kept
    OBVIOUS
  <2>1. ASSUME NEW p \in Pollers, UpdateSamplingRules(p) PROVE Kept
    <3>1. got[p].rules \in SUBSET Rule /\ OneBody(got[p].rules) /\ appliers \subseteq Applier /\ OneEach
      BY DEF TInv, PollerType, CacheType
    <3>2. appliers' = AppliersFor(got[p].rules)
      BY <2>1 DEF UpdateSamplingRules
    <3> QED
      BY <3>1, <3>2, AppliersForType
  <2>2. CASE UNCHANGED appliers
    BY <2>2 DEF TInv, CacheType, OneEach
  <2>3. CASE UpdateSamplingTargets
    BY <2>3 DEF UpdateSamplingTargets
  <2> QED
    BY <2>1, <2>2, <2>3 DEF Next, Modify, UpOrDown, Tick, RulesPoller, TargetsPoller, GetSamplingRules,
                            GetAllStatistics, GetSamplingTargets, cache, Pollers
<1> QED
  BY <1>1, Inductive, PTL DEF Spec, KeepsAppliers

(* The request gets the first rule that is meant for it, whatever the      *)
(* pollers did before, and by the new names of the attributes as by the    *)
(* old: for any patterns, any texts and any number of rules.               *)
THEOREM RightRuleFound == Spec => []RightRule
<1>1. ASSUME NEW p \in Requests, NEW b \in Bodies
      PROVE  /\ b \in Profile(p).fails <=> Raises(Fields[b], p)
             /\ b \notin Profile(p).fails => (b \in Profile(p).ends <=> b \in Profile(p).meant)
  <2>1. IsRule(Fields[b]) /\ Truthful(p)
    BY RequestsAssumption
  <2>2. ~Raises(Fields[b], p) => (Matches(Fields[b], p) <=> MeantFor(Fields[b], p))
    BY <2>1, MatchesMeant
  <2> QED
    BY <2>2 DEF Profile
<1>2. ASSUME CacheType PROVE RightRule
  <2> SUFFICES ASSUME ~Expired, NEW p \in Requests, \A x \in appliers : x.body \notin Profile(p).fails
               PROVE  Decider(Profile(p))
                        = {[name |-> r.name, body |-> r.body] : r \in Lowest({x \in appliers : x.body \in Profile(p).meant})}
    BY DEF RightRule, Profiles
  <2>1. \A x \in appliers : x.body \in Bodies
    BY <1>2 DEF CacheType, Applier
  <2>2. {x \in appliers : x.body \in Profile(p).ends} = {x \in appliers : x.body \in Profile(p).meant}
    BY <1>1, <2>1
  <2> QED
    BY <2>2, Zenon DEF Decider, First
<1>3. TInv => RightRule
  BY <1>2 DEF TInv
<1> QED
  BY <1>3, Inductive, PTL
=============================================================================
