-------------------------- MODULE AgentReadings_proof --------------------------
(***************************************************************************)
(* Proofs about the programs that read what an agent shows or prints: the  *)
(* keeper, which reads the input box of a session (CacheKeeper), and the   *)
(* usage command with the gauges and gates behind it (AgentUsage).  They   *)
(* hold for all settings, lengths, times, outputs, usages and policies.    *)
(***************************************************************************)
EXTENDS CacheKeeper, AgentUsage, SequenceTheorems, FiniteSetTheorems, WellFoundedInduction, TLAPS

-----------------------------------------------------------------------------
(* Induction and folds.                                                    *)

LEMMA SetInduction ==
  ASSUME NEW S, 0 \in S, \A n \in Nat : n \in S => n + 1 \in S
  PROVE  Nat \subseteq S
<1> SUFFICES ASSUME Nat \ S # {} PROVE FALSE
  OBVIOUS
<1> DEFINE R == OpToRel(<,Nat)
<1>0. IsWellFoundedOn(R, Nat)
  BY NatLessThanWellFounded
<1>1. \A y, x \in Nat : y < x => <<y, x>> \in R
  BY DEF OpToRel
<1> HIDE DEF R
<1>2. PICK x \in Nat \ S : \A y \in Nat \ S : ~ (<<y, x>> \in R)
  BY <1>0, WFMin
<1>3. x # 0 /\ x - 1 \in Nat /\ x = (x - 1) + 1 /\ x - 1 < x
  OBVIOUS
<1>4. x - 1 \notin S
  BY <1>3
<1> QED
  BY <1>1, <1>2, <1>3, <1>4

LEMMA UpInduction ==
  ASSUME NEW n \in Nat, NEW S, 0 \in S, \A k \in 0..(n - 1) : k \in S => k + 1 \in S
  PROVE  \A k \in 0..n : k \in S
<1> DEFINE T == {k \in Nat : k <= n => k \in S}
<1>1. 0 \in T
  OBVIOUS
<1>2. ASSUME NEW k \in Nat, k \in T PROVE k + 1 \in T
  BY <1>2
<1> HIDE DEF T
<1>3. \A k \in Nat : k \in T
  BY <1>1, <1>2, SetInduction
<1> QED
  BY <1>3 DEF T

LEMMA MaxTop ==
  ASSUME NEW k \in Nat, NEW s \in SUBSET (1..(k + 1)), k + 1 \in s
  PROVE  Max(s) = k + 1
<1>1. \E x \in s : \A y \in s : x >= y
  <2>1. \A y \in s : k + 1 >= y
    OBVIOUS
  <2> QED
    BY <2>1
<1>2. Max(s) \in s /\ \A y \in s : Max(s) >= y
  BY <1>1 DEF Max
<1>3. k + 1 \in Nat /\ s \subseteq Nat /\ \A y \in s : y <= k + 1
  OBVIOUS
<1>4. Max(s) \in Nat /\ Max(s) <= k + 1 /\ Max(s) >= k + 1
  BY <1>2, <1>3
<1> QED
  BY <1>4

IsFold(g, n, State, base, step) ==
  /\ g \in [SUBSET (1..n) -> State]
  /\ \A s \in SUBSET (1..n) : g[s] = IF s = {} THEN base ELSE step[<<Max(s), g[s \ {Max(s)}]>>]

LEMMA FoldExists ==
  ASSUME NEW n \in Nat, NEW State, NEW base \in State,
         NEW step \in [(1..n) \X State -> State]
  PROVE  \E g : IsFold(g, n, State, base, step)
<1> DEFINE Folds(k) == {g \in [SUBSET (1..k) -> State] :
              \A s \in SUBSET (1..k) :
                g[s] = IF s = {} THEN base ELSE step[<<Max(s), g[s \ {Max(s)}]>>]}
           S == {k \in Nat : k <= n => \E g : g \in Folds(k)}
<1>1. 0 \in S
  <2> DEFINE g == [s \in SUBSET (1..0) |-> base]
  <2>1. 1..0 = {}
    OBVIOUS
  <2>2. g \in Folds(0)
    BY <2>1
  <2> QED
    BY <2>2
<1>2. ASSUME NEW k \in Nat, k \in S PROVE k + 1 \in S
  <2> SUFFICES ASSUME k + 1 <= n PROVE \E g : g \in Folds(k + 1)
    <3> HIDE DEF Folds
    <3> QED
      OBVIOUS
  <2>1. PICK g : g \in Folds(k)
    <3> HIDE DEF Folds
    <3> QED
      BY <1>2
  <2> DEFINE h == [s \in SUBSET (1..(k + 1)) |->
                     IF k + 1 \in s THEN step[<<k + 1, g[s \ {k + 1}]>>] ELSE g[s]]
  <2>2. \A s \in SUBSET (1..(k + 1)) : s \ {k + 1} \in SUBSET (1..k)
    OBVIOUS
  <2>3. g \in [SUBSET (1..k) -> State]
    BY <2>1
  <2>4. \A s \in SUBSET (1..k) : g[s] \in State
    BY <2>3
  <2>5. ASSUME NEW s \in SUBSET (1..(k + 1)) PROVE h[s] \in State
    <3>1. CASE k + 1 \in s
      <4>1. g[s \ {k + 1}] \in State
        BY <2>2, <2>4
      <4>2. k + 1 \in 1..n
        OBVIOUS
      <4> QED
        BY <3>1, <4>1, <4>2
    <3>2. CASE k + 1 \notin s
      <4>1. s \in SUBSET (1..k)
        BY <2>2, <3>2
      <4> QED
        BY <2>4, <3>2, <4>1
    <3> QED
      BY <3>1, <3>2
  <2>6. h \in [SUBSET (1..(k + 1)) -> State]
    BY <2>5
  <2>7. ASSUME NEW s \in SUBSET (1..(k + 1))
        PROVE  h[s] = IF s = {} THEN base ELSE step[<<Max(s), h[s \ {Max(s)}]>>]
    <3>1. CASE k + 1 \in s
      <4>1. Max(s) = k + 1
        BY <3>1, MaxTop
      <4>2. h[s \ {k + 1}] = g[s \ {k + 1}]
        BY <2>2
      <4> QED
        BY <3>1, <4>1, <4>2
    <3>2. CASE k + 1 \notin s
      <4>1. s \in SUBSET (1..k) /\ h[s] = g[s]
        BY <2>2, <3>2
      <4>2. \A t \in SUBSET (1..k) : h[t] = g[t]
        <5> SUFFICES ASSUME NEW t \in SUBSET (1..k) PROVE h[t] = g[t]
          OBVIOUS
        <5>1. t \in SUBSET (1..(k + 1)) /\ k + 1 \notin t
          OBVIOUS
        <5> QED
          BY <5>1
      <4>3. g[s] = IF s = {} THEN base ELSE step[<<Max(s), g[s \ {Max(s)}]>>]
        BY <2>1, <4>1
      <4>4. s \ {Max(s)} \in SUBSET (1..k)
        BY <4>1
      <4> HIDE DEF h
      <4> QED
        BY <4>1, <4>2, <4>3, <4>4
    <3> QED
      BY <3>1, <3>2
  <2> HIDE DEF h
  <2>8. h \in Folds(k + 1)
    BY <2>6, <2>7
  <2> QED
    BY <2>8
<1>3. n \in S
  <2> HIDE DEF S
  <2> QED
    BY <1>1, <1>2, SetInduction
<1>4. PICK g : g \in Folds(n)
  <2> HIDE DEF Folds
  <2> QED
    BY <1>3
<1> QED
  BY <1>4 DEF IsFold

LEMMA MaxIn ==
  ASSUME NEW n \in Nat, NEW s \in SUBSET (1..n), s # {}
  PROVE  Max(s) \in s
<1> DEFINE S == {k \in Nat : \A t \in SUBSET (1..k) : t # {} => Max(t) \in t}
<1>1. 0 \in S
  <2>1. 1..0 = {}
    OBVIOUS
  <2> QED
    BY <2>1
<1>2. ASSUME NEW k \in Nat, k \in S PROVE k + 1 \in S
  <2> SUFFICES ASSUME NEW t \in SUBSET (1..(k + 1)), t # {} PROVE Max(t) \in t
    OBVIOUS
  <2>1. CASE k + 1 \in t
    BY <2>1, MaxTop
  <2>2. CASE k + 1 \notin t
    <3>1. t \in SUBSET (1..k)
      BY <2>2
    <3> QED
      BY <1>2, <3>1
  <2> QED
    BY <2>1, <2>2
<1> HIDE DEF S
<1>3. n \in S
  BY <1>1, <1>2, SetInduction
<1> QED
  BY <1>3 DEF S

LEMMA MaxOfInterval == ASSUME NEW k \in Nat PROVE Max(1..(k + 1)) = k + 1 /\ 1..(k + 1) \ {k + 1} = 1..k
<1>1. 1..(k + 1) \in SUBSET (1..(k + 1)) /\ k + 1 \in 1..(k + 1)
  OBVIOUS
<1> QED
  BY <1>1, MaxTop

LEMMA UpToMax ==
  ASSUME NEW n \in Nat, NEW k \in 1..n
  PROVE  /\ 1..k \in SUBSET (1..n) /\ 1..k # {}
         /\ Max(1..k) = k /\ (1..k) \ {Max(1..k)} = 1..(k - 1)
<1>1. PICK j \in Nat : k = j + 1 /\ k - 1 = j
  OBVIOUS
<1>2. Max(1..(j + 1)) = j + 1 /\ 1..(j + 1) \ {j + 1} = 1..j
  BY MaxOfInterval
<1>3. \A i \in 1..k : i \in 1..n
  OBVIOUS
<1>4. 1 \in 1..k
  OBVIOUS
<1> QED
  BY <1>1, <1>2, <1>3, <1>4

LEMMA MinIn ==
  ASSUME NEW s \in SUBSET Nat, s # {}
  PROVE  Min(s) \in s /\ \A i \in s : Min(s) <= i
<1>1. \E m \in s : \A i \in s : m <= i
  <2> SUFFICES ASSUME \A m \in s : \E i \in s : i < m PROVE FALSE
    OBVIOUS
  <2> DEFINE S == {k \in Nat : \A i \in s : i >= k}
  <2>1. 0 \in S
    OBVIOUS
  <2>2. ASSUME NEW k \in Nat, k \in S PROVE k + 1 \in S
    BY <2>2
  <2> HIDE DEF S
  <2>3. \A k \in Nat : k \in S
    BY <2>1, <2>2, SetInduction
  <2>4. PICK m \in s : TRUE
    OBVIOUS
  <2>5. m + 1 \in S
    BY <2>3
  <2> QED
    BY <2>4, <2>5 DEF S
<1> QED
  BY <1>1 DEF Min

-----------------------------------------------------------------------------
(* The styles of a line.                                                   *)

Styles == [dim : BOOLEAN, inverse : BOOLEAN, skip : Nat]

LEMMA CodeType ==
  ASSUME NEW codes \in Seq(Nat), NEW style \in Styles, NEW i \in 1..Len(codes)
  PROVE  ApplyCode(codes, style, i) \in Styles
<1>1. NoStyle \in Styles
  BY DEF NoStyle, Styles
<1>2. /\ [style EXCEPT !.dim = TRUE] \in Styles /\ [style EXCEPT !.dim = FALSE] \in Styles
      /\ [style EXCEPT !.inverse = TRUE] \in Styles /\ [style EXCEPT !.inverse = FALSE] \in Styles
      /\ [style EXCEPT !.skip = 2] \in Styles /\ [style EXCEPT !.skip = 4] \in Styles
  BY DEF Styles
<1>3. style.skip > 0 => [style EXCEPT !.skip = @ - 1] \in Styles
  BY DEF Styles
<1>4. CASE style.skip > 0
  BY <1>3, <1>4 DEF ApplyCode, Styles
<1>5. CASE ~(style.skip > 0) /\ codes[i] \in {0, 2, 22, 7, 27}
  BY <1>1, <1>2, <1>5 DEF ApplyCode, Styles
<1>6. CASE ~(style.skip > 0) /\ codes[i] \in {38, 48, 58}
  BY <1>2, <1>6 DEF ApplyCode, Styles
<1>7. CASE ~(style.skip > 0) /\ codes[i] \notin {0, 2, 22, 7, 27, 38, 48, 58}
  BY <1>7 DEF ApplyCode, Styles
<1> QED
  BY <1>4, <1>5, <1>6, <1>7

Styled(codes, style) == FoldLeftDomain(LAMBDA s, i : ApplyCode(codes, s, i), style, codes)

StylePassed(st, n, codes, style) ==
  /\ st[0] = style /\ Styled(codes, style) = st[n] /\ st[n] \in Styles
  /\ \A k \in 1..n : st[k] = ApplyCode(codes, st[k - 1], k)

LEMMA StyleFold ==
  ASSUME NEW n \in Nat, NEW codes \in Seq(Nat), Len(codes) = n, NEW style \in Styles
  PROVE  \E st : StylePassed(st, n, codes, style)
<1> DEFINE all  == [i \in DOMAIN codes |-> i]
           IsIter(it) == it = [s \in SUBSET DOMAIN all |->
                                 IF s = {} THEN style
                                 ELSE ApplyCode(codes, it[s \ {Max(s)}], all[Max(s)])]
           iter == CHOOSE it : IsIter(it)
           step == [p \in (1..n) \X Styles |-> ApplyCode(codes, p[2], p[1])]
<1>1. Styled(codes, style) = iter[DOMAIN all]
  BY DEF Styled, FoldLeftDomain, FoldLeft, MapThenFoldSet
<1>2. DOMAIN all = 1..n /\ \A i \in 1..n : all[i] = i
  BY LenProperties
<1>3. step \in [(1..n) \X Styles -> Styles] /\ style \in Styles
  BY CodeType
<1>4. \A i \in 1..n, s \in Styles : step[<<i, s>>] = ApplyCode(codes, s, i)
  OBVIOUS
<1> HIDE DEF all, step
<1>5. PICK g : IsFold(g, n, Styles, style, step)
  BY <1>3, FoldExists, Zenon
<1>6. ASSUME NEW s \in SUBSET (1..n), s # {}
      PROVE  g[s] = ApplyCode(codes, g[s \ {Max(s)}], all[Max(s)])
  <2>1. Max(s) \in 1..n
    BY <1>6, MaxIn
  <2>2. g[s \ {Max(s)}] \in Styles
    BY <1>5 DEF IsFold
  <2> QED
    BY <1>2, <1>4, <1>5, <1>6, <2>1, <2>2 DEF IsFold
<1>7. IsIter(g)
  BY <1>2, <1>5, <1>6 DEF IsFold
<1>8. IsIter(iter)
  <2> HIDE DEF IsIter
  <2> QED
    BY <1>7
<1> HIDE DEF iter
<1> DEFINE st == [k \in 0..n |-> iter[1..k]]
<1>9. st[0] = style /\ st[n] = iter[1..n]
  <2>1. 1..0 = {} /\ iter[{}] = style
    BY <1>2, <1>8
  <2> QED
    BY <2>1
<1>10. ASSUME NEW k \in 1..n PROVE st[k] = ApplyCode(codes, st[k - 1], k)
  <2>1. iter[1..k] = ApplyCode(codes, iter[(1..k) \ {Max(1..k)}], all[Max(1..k)])
    BY <1>2, <1>8, UpToMax
  <2>2. iter[1..k] = ApplyCode(codes, iter[1..(k - 1)], k)
    BY <1>2, <2>1, UpToMax
  <2>3. k \in 0..n /\ k - 1 \in 0..n
    OBVIOUS
  <2> QED
    BY <2>2, <2>3
<1> HIDE DEF st
<1>11. st[n] \in Styles
  <2> DEFINE S == {k \in 0..n : st[k] \in Styles}
  <2>1. 0 \in S
    BY <1>3, <1>9
  <2>2. ASSUME NEW k \in 0..(n - 1), k \in S PROVE k + 1 \in S
    <3>1. k + 1 \in 1..n /\ (k + 1) - 1 = k
      OBVIOUS
    <3>2. st[k + 1] = ApplyCode(codes, st[k], k + 1)
      BY <1>10, <3>1
    <3> QED
      BY <2>2, <3>1, <3>2, CodeType
  <2> HIDE DEF S
  <2>3. \A k \in 0..n : k \in S
    BY <2>1, <2>2, UpInduction
  <2>4. n \in 0..n
    OBVIOUS
  <2> QED
    BY <2>3, <2>4 DEF S
<1>12. StylePassed(st, n, codes, style)
  BY <1>1, <1>2, <1>9, <1>10, <1>11 DEF StylePassed
<1> QED
  BY <1>12

Drawn == {"marker", "space", "suggestion", "draft", "keepalive", "last"}

Token == {Sgr(codes) : codes \in Seq(Nat)} \cup {Glyph(g) : g \in Drawn}

Reading == [style : Styles, afterMarker : BOOLEAN, dimText : BOOLEAN, plainText : BOOLEAN,
            text : Seq(Drawn)]

LEMMA StyleType ==
  ASSUME NEW style \in Styles, NEW codes \in Seq(Nat)
  PROVE  ApplyStyle(style, codes) \in Styles
<1> DEFINE all == IF codes = <<>> THEN <<0>> ELSE codes
<1>1. all \in Seq(Nat)
  OBVIOUS
<1>2. ApplyStyle(style, codes) = [Styled(all, style) EXCEPT !.skip = 0]
  BY DEF ApplyStyle, Styled
<1> HIDE DEF all
<1>3. PICK n \in Nat : Len(all) = n
  BY <1>1, LenProperties
<1>4. PICK st : StylePassed(st, n, all, style)
  BY <1>1, <1>3, StyleFold, Zenon
<1>5. Styled(all, style) \in Styles
  BY <1>4 DEF StylePassed
<1>6. \A s \in Styles : [s EXCEPT !.skip = 0] \in Styles
  BY DEF Styles
<1> QED
  BY <1>2, <1>5, <1>6

LEMMA TokenType ==
  ASSUME NEW seen \in Reading, NEW token \in Token
  PROVE  ReadToken(seen, token) \in Reading
<1>1. CASE token.kind = "sgr"
  <2>1. PICK codes \in Seq(Nat) : token = Sgr(codes)
    BY <1>1 DEF Token, Sgr, Glyph
  <2>2. ApplyStyle(seen.style, codes) \in Styles
    BY StyleType DEF Reading
  <2>3. ReadToken(seen, token) = [seen EXCEPT !.style = ApplyStyle(seen.style, codes)]
    BY <2>1 DEF ReadToken, Sgr
  <2> QED
    BY <2>2, <2>3 DEF Reading
<1>2. CASE token.kind # "sgr"
  <2>1. token.glyph \in Drawn
    BY <1>2 DEF Token, Sgr, Glyph
  <2>2. Append(seen.text, token.glyph) \in Seq(Drawn)
    BY <2>1, AppendProperties DEF Reading
  <2> QED
    BY <1>2, <2>2 DEF ReadToken, Reading
<1> QED
  BY <1>1, <1>2

ReadLine(line) == FoldLeft(ReadToken, NothingRead, line)

\* The readings of the tokens of a line.
LineRead(r, n, line) ==
  /\ r[0] = NothingRead
  /\ \A k \in 1..n : r[k] = ReadToken(r[k - 1], line[k])
  /\ ReadLine(line) = r[n]

\* The reading of a line passes through one reading for each of its tokens.
LEMMA LineFold ==
  ASSUME NEW n \in Nat, NEW line \in Seq(Token), Len(line) = n
  PROVE  \E r : LineRead(r, n, line)
<1> DEFINE IsIter(it) == it = [s \in SUBSET DOMAIN line |->
                                 IF s = {} THEN NothingRead
                                 ELSE ReadToken(it[s \ {Max(s)}], line[Max(s)])]
           iter == CHOOSE it : IsIter(it)
           step == [p \in (1..n) \X Reading |-> ReadToken(p[2], line[p[1]])]
<1>1. ReadLine(line) = iter[DOMAIN line]
  BY DEF ReadLine, FoldLeft, MapThenFoldSet
<1>2. DOMAIN line = 1..n
  BY LenProperties
<1>3. step \in [(1..n) \X Reading -> Reading] /\ NothingRead \in Reading
  <2>1. NothingRead \in Reading
    BY EmptySeq DEF NothingRead, Reading, NoStyle, Styles
  <2>2. \A i \in 1..n : line[i] \in Token
    BY ElementOfSeq
  <2> QED
    BY <2>1, <2>2, TokenType
<1>4. \A i \in 1..n, s \in Reading : step[<<i, s>>] = ReadToken(s, line[i])
  OBVIOUS
<1> HIDE DEF step
<1>5. PICK g : IsFold(g, n, Reading, NothingRead, step)
  BY <1>3, FoldExists, Zenon
<1>6. ASSUME NEW s \in SUBSET (1..n), s # {}
      PROVE  g[s] = ReadToken(g[s \ {Max(s)}], line[Max(s)])
  <2>1. Max(s) \in 1..n
    BY <1>6, MaxIn
  <2>2. g[s \ {Max(s)}] \in Reading
    BY <1>5 DEF IsFold
  <2> QED
    BY <1>4, <1>5, <1>6, <2>1, <2>2 DEF IsFold
<1>7. IsIter(g)
  BY <1>2, <1>5, <1>6 DEF IsFold
<1>8. IsIter(iter)
  <2> HIDE DEF IsIter
  <2> QED
    BY <1>7
<1> HIDE DEF iter
<1> DEFINE r == [k \in 0..n |-> iter[1..k]]
<1>9. r[0] = NothingRead /\ r[n] = iter[1..n]
  <2>1. 1..0 = {} /\ iter[{}] = NothingRead
    BY <1>2, <1>8
  <2> QED
    BY <2>1
<1>10. ASSUME NEW k \in 1..n PROVE r[k] = ReadToken(r[k - 1], line[k])
  <2>1. iter[1..k] = ReadToken(iter[(1..k) \ {Max(1..k)}], line[Max(1..k)])
    BY <1>2, <1>8, UpToMax
  <2>2. iter[1..k] = ReadToken(iter[1..(k - 1)], line[k])
    BY <2>1, UpToMax
  <2>3. k \in 0..n /\ k - 1 \in 0..n
    OBVIOUS
  <2> QED
    BY <2>2, <2>3
<1> HIDE DEF r
<1>11. LineRead(r, n, line)
  BY <1>1, <1>2, <1>9, <1>10 DEF LineRead
<1> QED
  BY <1>11

Style(dim, inverse, skip) == [dim |-> dim, inverse |-> inverse, skip |-> skip]
InverseVideo == Style(FALSE, TRUE, 0)
DimVideo     == Style(TRUE, FALSE, 0)

LEMMA FieldEffects ==
  ASSUME NEW style \in Styles, style.skip = 0, NEW b \in BOOLEAN
  PROVE  /\ [style EXCEPT !.dim = b] = Style(b, style.inverse, 0)
         /\ [style EXCEPT !.inverse = b] = Style(style.dim, b, 0)
BY DEF Styles, Style

LEMMA CodeEffects ==
  ASSUME NEW codes \in Seq(Nat), NEW i \in 1..Len(codes), NEW style \in Styles
  PROVE  /\ style.skip > 0 =>
              ApplyCode(codes, style, i) = Style(style.dim, style.inverse, style.skip - 1)
         /\ style.skip = 0 =>
              /\ codes[i] = 0 => ApplyCode(codes, style, i) = NoStyle
              /\ codes[i] = 2 => ApplyCode(codes, style, i) = Style(TRUE, style.inverse, 0)
              /\ codes[i] = 22 => ApplyCode(codes, style, i) = Style(FALSE, style.inverse, 0)
              /\ codes[i] = 7 => ApplyCode(codes, style, i) = Style(style.dim, TRUE, 0)
              /\ codes[i] = 27 => ApplyCode(codes, style, i) = Style(style.dim, FALSE, 0)
              /\ codes[i] = 38 /\ i < Len(codes) /\ codes[i + 1] = 5 =>
                   ApplyCode(codes, style, i) = Style(style.dim, style.inverse, 2)
<1>1. style.skip > 0 =>
              ApplyCode(codes, style, i) = Style(style.dim, style.inverse, style.skip - 1)
  BY DEF ApplyCode, Styles, Style
<1>2. style.skip = 0 /\ codes[i] = 0 => ApplyCode(codes, style, i) = NoStyle
  BY DEF ApplyCode, Styles
<1>4. style.skip = 0 /\ codes[i] = 2 => ApplyCode(codes, style, i) = Style(TRUE, style.inverse, 0)
  <2>1. style.skip = 0 /\ codes[i] = 2 => ApplyCode(codes, style, i) = [style EXCEPT !.dim = TRUE]
    BY DEF ApplyCode, Styles
  <2>2. style.skip = 0 => [style EXCEPT !.dim = TRUE] = Style(TRUE, style.inverse, 0)
    BY FieldEffects, Zenon
  <2> QED
    BY <2>1, <2>2
<1>5. style.skip = 0 /\ codes[i] = 22 => ApplyCode(codes, style, i) = Style(FALSE, style.inverse, 0)
  <2>1. style.skip = 0 /\ codes[i] = 22 => ApplyCode(codes, style, i) = [style EXCEPT !.dim = FALSE]
    BY DEF ApplyCode, Styles
  <2>2. style.skip = 0 => [style EXCEPT !.dim = FALSE] = Style(FALSE, style.inverse, 0)
    BY FieldEffects, Zenon
  <2> QED
    BY <2>1, <2>2
<1>6. style.skip = 0 /\ codes[i] = 7 => ApplyCode(codes, style, i) = Style(style.dim, TRUE, 0)
  <2>1. style.skip = 0 /\ codes[i] = 7 => ApplyCode(codes, style, i) = [style EXCEPT !.inverse = TRUE]
    BY DEF ApplyCode, Styles
  <2>2. style.skip = 0 => [style EXCEPT !.inverse = TRUE] = Style(style.dim, TRUE, 0)
    BY FieldEffects, Zenon
  <2> QED
    BY <2>1, <2>2
<1>7. style.skip = 0 /\ codes[i] = 27 => ApplyCode(codes, style, i) = Style(style.dim, FALSE, 0)
  <2>1. style.skip = 0 /\ codes[i] = 27 => ApplyCode(codes, style, i) = [style EXCEPT !.inverse = FALSE]
    BY DEF ApplyCode, Styles
  <2>2. style.skip = 0 => [style EXCEPT !.inverse = FALSE] = Style(style.dim, FALSE, 0)
    BY FieldEffects, Zenon
  <2> QED
    BY <2>1, <2>2
<1>3. style.skip = 0 /\ codes[i] = 38 /\ i < Len(codes) /\ codes[i + 1] = 5 =>
                   ApplyCode(codes, style, i) = Style(style.dim, style.inverse, 2)
  BY DEF ApplyCode, Styles, Style
<1> QED
  BY <1>1, <1>2, <1>3, <1>4, <1>5, <1>6, <1>7

LEMMA SingleCode ==
  ASSUME NEW c \in Nat, NEW style \in Styles, style.skip = 0
  PROVE  /\ c = 0 => ApplyCode(<<c>>, style, 1) = NoStyle
         /\ c = 2 => ApplyCode(<<c>>, style, 1) = Style(TRUE, style.inverse, 0)
         /\ c = 22 => ApplyCode(<<c>>, style, 1) = Style(FALSE, style.inverse, 0)
         /\ c = 7 => ApplyCode(<<c>>, style, 1) = Style(style.dim, TRUE, 0)
         /\ c = 27 => ApplyCode(<<c>>, style, 1) = Style(style.dim, FALSE, 0)
<1> DEFINE codes == <<c>>
<1>1. codes \in Seq(Nat) /\ 1 \in 1..Len(codes) /\ codes[1] = c
  OBVIOUS
<1> HIDE DEF codes
<1>2. /\ codes[1] = 0 => ApplyCode(codes, style, 1) = NoStyle
      /\ codes[1] = 2 => ApplyCode(codes, style, 1) = Style(TRUE, style.inverse, 0)
      /\ codes[1] = 22 => ApplyCode(codes, style, 1) = Style(FALSE, style.inverse, 0)
      /\ codes[1] = 7 => ApplyCode(codes, style, 1) = Style(style.dim, TRUE, 0)
      /\ codes[1] = 27 => ApplyCode(codes, style, 1) = Style(style.dim, FALSE, 0)
  BY <1>1, CodeEffects
<1> QED
  BY <1>1, <1>2 DEF codes

\* What is left of the arguments of a colour is forgotten with the sequence.
Reset(style) == [style EXCEPT !.skip = 0]

LEMMA SkipReset ==
  \A style \in Styles : style.skip = 0 => Reset(style) = style
BY DEF Styles, Reset

LEMMA StyleReset ==
  ASSUME NEW style, NEW codes
  PROVE  /\ codes # <<>> => ApplyStyle(style, codes) = Reset(Styled(codes, style))
         /\ ApplyStyle(style, <<>>) = Reset(Styled(<<0>>, style))
<1> DEFINE All(c) == IF c = <<>> THEN <<0>> ELSE c
<1>1. ASSUME NEW c PROVE ApplyStyle(style, c) = Reset(Styled(All(c), style))
  BY DEF ApplyStyle, Styled, Reset
<1>2. (codes # <<>> => All(codes) = codes) /\ All(<<>>) = <<0>>
  BY Zenon
<1> HIDE DEF All
<1> QED
  BY <1>1, <1>2, Zenon

LEMMA StyleParts ==
  ASSUME NEW d \in BOOLEAN, NEW v \in BOOLEAN, NEW k \in Nat
  PROVE  /\ Style(d, v, k) \in Styles
         /\ Style(d, v, k).dim = d /\ Style(d, v, k).inverse = v /\ Style(d, v, k).skip = k
         /\ NoStyle = Style(FALSE, FALSE, 0)
BY DEF Style, Styles, NoStyle

LEMMA OneCode ==
  ASSUME NEW style \in Styles, NEW c \in Nat,
         ApplyCode(<<c>>, style, 1) \in Styles, ApplyCode(<<c>>, style, 1).skip = 0
  PROVE  /\ ApplyStyle(style, <<c>>) = ApplyCode(<<c>>, style, 1)
         /\ Reset(Styled(<<c>>, style)) = ApplyCode(<<c>>, style, 1)
<1> DEFINE codes == <<c>>
           n == 1
<1>1. codes \in Seq(Nat) /\ Len(codes) = n /\ n \in Nat /\ codes # <<>>
  OBVIOUS
<1> HIDE DEF codes, n
<1>2. PICK st : StylePassed(st, n, codes, style)
  BY <1>1, StyleFold, Zenon
<1>3. Styled(codes, style) = ApplyCode(codes, style, 1)
  BY <1>2 DEF StylePassed, n
<1>4. ApplyCode(codes, style, 1) \in Styles /\ ApplyCode(codes, style, 1).skip = 0
  BY DEF codes
<1>5. Reset(ApplyCode(codes, style, 1)) = ApplyCode(codes, style, 1)
  BY <1>4, SkipReset
<1>6. ApplyStyle(style, codes) = Reset(Styled(codes, style))
  BY <1>1, StyleReset
<1> QED
  BY <1>3, <1>5, <1>6, Zenon DEF codes

LEMMA Colour == ApplyStyle(NoStyle, <<38, 5, 2>>) = NoStyle
<1> DEFINE codes == <<38, 5, 2>>
           n == 3
<1>1. codes \in Seq(Nat) /\ Len(codes) = n /\ n \in Nat /\ codes # <<>>
  OBVIOUS
<1>2. codes[1] = 38 /\ codes[2] = 5 /\ codes[3] = 2 /\ n = 3
  OBVIOUS
<1> HIDE DEF codes, n
<1>3. /\ NoStyle = Style(FALSE, FALSE, 0)
      /\ \A k \in Nat : /\ Style(FALSE, FALSE, k) \in Styles
                        /\ ~Style(FALSE, FALSE, k).dim /\ ~Style(FALSE, FALSE, k).inverse
                        /\ Style(FALSE, FALSE, k).skip = k
  BY DEF NoStyle, Style, Styles
<1>4. PICK st : StylePassed(st, n, codes, NoStyle)
  BY <1>1, <1>3, StyleFold, Zenon
<1>5. /\ st[1] = ApplyCode(codes, NoStyle, 1) /\ st[2] = ApplyCode(codes, st[1], 2)
      /\ st[3] = ApplyCode(codes, st[2], 3)
  BY <1>2, <1>4 DEF StylePassed
<1>6. /\ 1 \in 1..Len(codes) /\ 2 \in 1..Len(codes) /\ 3 \in 1..Len(codes)
      /\ codes[1] = 38 /\ 1 < Len(codes) /\ codes[1 + 1] = 5
  BY <1>1, <1>2
<1>7. ASSUME NEW k \in Nat, k > 0, NEW i \in 1..Len(codes)
      PROVE  ApplyCode(codes, Style(FALSE, FALSE, k), i) = Style(FALSE, FALSE, k - 1)
  <2> DEFINE s == Style(FALSE, FALSE, k)
  <2>1. s \in Styles /\ s.dim = FALSE /\ s.inverse = FALSE /\ s.skip = k
    BY StyleParts
  <2> HIDE DEF s
  <2>2. s.skip > 0 => ApplyCode(codes, s, i) = Style(s.dim, s.inverse, s.skip - 1)
    BY <1>1, <2>1, CodeEffects
  <2>3. ApplyCode(codes, s, i) = Style(FALSE, FALSE, k - 1)
    BY <1>7, <2>1, <2>2
  <2> QED
    BY <2>3 DEF s
<1>8. st[3] = NoStyle
  <2>1. NoStyle \in Styles /\ NoStyle.dim = FALSE /\ NoStyle.inverse = FALSE /\ NoStyle.skip = 0
    BY DEF NoStyle, Styles
  <2>2. ApplyCode(codes, NoStyle, 1) = Style(NoStyle.dim, NoStyle.inverse, 2)
    BY <1>1, <1>6, <2>1, CodeEffects
  <2>3. st[1] = Style(FALSE, FALSE, 2)
    BY <1>5, <2>1, <2>2
  <2>4. st[2] = Style(FALSE, FALSE, 1)
    <3>1. ApplyCode(codes, Style(FALSE, FALSE, 2), 2) = Style(FALSE, FALSE, 2 - 1)
      <4>1. 2 \in Nat /\ 2 > 0
        OBVIOUS
      <4> QED
        BY <1>6, <1>7, <4>1, Zenon
    <3>2. 2 - 1 = 1
      OBVIOUS
    <3> QED
      BY <1>5, <2>3, <3>1, <3>2, Zenon
  <2>5. st[3] = Style(FALSE, FALSE, 0)
    <3>1. ApplyCode(codes, Style(FALSE, FALSE, 1), 3) = Style(FALSE, FALSE, 1 - 1)
      <4>1. 1 \in Nat /\ 1 > 0
        OBVIOUS
      <4> QED
        BY <1>6, <1>7, <4>1, Zenon
    <3>2. 1 - 1 = 0
      OBVIOUS
    <3> QED
      BY <1>5, <2>4, <3>1, <3>2, Zenon
  <2> QED
    BY <1>3, <2>5
<1>9. Styled(codes, NoStyle) = NoStyle
  BY <1>2, <1>4, <1>8 DEF StylePassed
<1>10. Reset(NoStyle) = NoStyle
  BY <1>3, SkipReset
<1> QED
  BY <1>1, <1>9, <1>10, StyleReset, Zenon DEF codes

LEMMA StylesApplied ==
  /\ NoStyle \in Styles /\ InverseVideo \in Styles /\ DimVideo \in Styles
  /\ ~NoStyle.dim /\ ~InverseVideo.dim /\ InverseVideo.inverse /\ DimVideo.dim = TRUE
  /\ ApplyStyle(NoStyle, <<7>>) = InverseVideo
  /\ ApplyStyle(InverseVideo, <<27>>) = NoStyle
  /\ ApplyStyle(NoStyle, <<2>>) = DimVideo
  /\ ApplyStyle(DimVideo, <<22>>) = NoStyle
  /\ ApplyStyle(NoStyle, <<38, 5, 2>>) = NoStyle
  /\ ApplyStyle(NoStyle, <<>>) = NoStyle
<1>1. /\ NoStyle \in Styles /\ NoStyle = Style(FALSE, FALSE, 0)
      /\ NoStyle.dim = FALSE /\ NoStyle.inverse = FALSE /\ NoStyle.skip = 0
      /\ InverseVideo \in Styles /\ InverseVideo.dim = FALSE /\ InverseVideo.inverse = TRUE /\ InverseVideo.skip = 0
      /\ DimVideo \in Styles /\ DimVideo.dim = TRUE /\ DimVideo.inverse = FALSE /\ DimVideo.skip = 0
  BY DEF NoStyle, InverseVideo, DimVideo, Styles, Style
<1>2. ApplyStyle(NoStyle, <<7>>) = InverseVideo
  <2>1. ApplyCode(<<7>>, NoStyle, 1) = InverseVideo
    <3>1. ApplyCode(<<7>>, NoStyle, 1) = Style(NoStyle.dim, TRUE, 0)
      BY <1>1, SingleCode
    <3> QED
      BY <1>1, <3>1, Zenon DEF InverseVideo
  <2> QED
    BY <1>1, <2>1, OneCode
<1>3. ApplyStyle(InverseVideo, <<27>>) = NoStyle
  <2>1. ApplyCode(<<27>>, InverseVideo, 1) = NoStyle
    <3>1. ApplyCode(<<27>>, InverseVideo, 1) = Style(InverseVideo.dim, FALSE, 0)
      BY <1>1, SingleCode
    <3> QED
      BY <1>1, <3>1, Zenon
  <2> QED
    BY <1>1, <2>1, OneCode
<1>4. ApplyStyle(NoStyle, <<2>>) = DimVideo
  <2>1. ApplyCode(<<2>>, NoStyle, 1) = DimVideo
    <3>1. ApplyCode(<<2>>, NoStyle, 1) = Style(TRUE, NoStyle.inverse, 0)
      BY <1>1, SingleCode
    <3> QED
      BY <1>1, <3>1, Zenon DEF DimVideo
  <2> QED
    BY <1>1, <2>1, OneCode
<1>5. ApplyStyle(DimVideo, <<22>>) = NoStyle
  <2>1. ApplyCode(<<22>>, DimVideo, 1) = NoStyle
    <3>1. ApplyCode(<<22>>, DimVideo, 1) = Style(FALSE, DimVideo.inverse, 0)
      BY <1>1, SingleCode
    <3> QED
      BY <1>1, <3>1, Zenon
  <2> QED
    BY <1>1, <2>1, OneCode
<1>6. ApplyStyle(NoStyle, <<>>) = NoStyle
  <2>1. ApplyCode(<<0>>, NoStyle, 1) = NoStyle
    BY <1>1, SingleCode
  <2>2. Reset(Styled(<<0>>, NoStyle)) = NoStyle
    BY <1>1, <2>1, OneCode
  <2> QED
    BY <2>2, StyleReset, Zenon
<1> QED
  BY <1>1, <1>2, <1>3, <1>4, <1>5, <1>6, Colour

Glyph3 == {"draft", "keepalive", "last"}

\* A reading after the marker.
Reads(seen, style, text) ==
  seen \in Reading /\ seen.afterMarker /\ seen.style = style /\ seen.text = text

\* How it goes on with a style sequence, a blank, a dim glyph and another one.
LEMMA SgrRead ==
  ASSUME NEW style \in Styles, NEW text, NEW seen, Reads(seen, style, text),
         NEW codes \in Seq(Nat), NEW after, after = ReadToken(seen, Sgr(codes))
  PROVE  /\ Reads(after, ApplyStyle(style, codes), text)
         /\ after.dimText = seen.dimText /\ after.plainText = seen.plainText
<1>1. ApplyStyle(style, codes) \in Styles
  BY StyleType
<1>2. after = [seen EXCEPT !.style = ApplyStyle(style, codes)]
  BY DEF ReadToken, Sgr, Reads, Reading
<1> QED
  BY <1>1, <1>2 DEF Reads, Reading

LEMMA SpaceRead ==
  ASSUME NEW style, NEW text, NEW seen, Reads(seen, style, text)
  PROVE  ReadToken(seen, Glyph("space")) = seen
BY DEF ReadToken, Glyph, Visible, Reads, Reading

LEMMA GlyphRead ==
  ASSUME NEW style, NEW text, NEW seen, Reads(seen, style, text), ~style.dim,
         NEW g \in Drawn \ {"space"}, NEW after, after = ReadToken(seen, Glyph(g))
  PROVE  /\ Reads(after, style, Append(text, g))
         /\ after.dimText = seen.dimText
         /\ style.inverse => after.plainText = seen.plainText
<1>1. after = [seen EXCEPT !.text = Append(seen.text, g),
                           !.plainText = seen.plainText \/ ~seen.style.inverse]
  BY DEF ReadToken, Glyph, Visible, Reads, Reading
<1>2. Append(seen.text, g) \in Seq(Drawn)
  BY AppendProperties DEF Reads, Reading
<1> QED
  BY <1>1, <1>2 DEF Reads, Reading

LEMMA MarkerRead ==
  ASSUME NEW n \in Nat, 2 <= n, NEW line, NEW r, LineRead(r, n, line),
         line[1] = Glyph("marker"), line[2] = Glyph("space")
  PROVE  Reads(r[2], NoStyle, <<>>) /\ r[2].dimText = FALSE /\ r[2].plainText = FALSE
<1>1. r[1] = ReadToken(NothingRead, Glyph("marker")) /\ r[2] = ReadToken(r[1], Glyph("space"))
  BY DEF LineRead
<1>2. NothingRead \in Reading
  BY EmptySeq DEF NothingRead, Reading, NoStyle, Styles
<1>3. /\ NothingRead.afterMarker = FALSE /\ NothingRead.style = NoStyle /\ NothingRead.text = <<>>
      /\ NothingRead.dimText = FALSE /\ NothingRead.plainText = FALSE
  BY DEF NothingRead
<1>4. r[1] = [NothingRead EXCEPT !.afterMarker = TRUE]
  BY <1>1, <1>3 DEF ReadToken, Glyph
<1>5. Reads(r[1], NoStyle, <<>>) /\ r[1].dimText = FALSE /\ r[1].plainText = FALSE
  BY <1>2, <1>3, <1>4 DEF Reads, Reading
<1> QED
  BY <1>1, <1>5, SpaceRead

\* Only typed text was read so far, the first k glyphs of this content.
ReadUpTo(seen, content, k) ==
  /\ Reads(seen, NoStyle, seen.text) /\ seen.dimText = FALSE
  /\ Len(seen.text) = k /\ \A i \in 1..k : seen.text[i] = content[i]

LEMMA NextRead ==
  ASSUME NEW seen, NEW content, NEW k \in Nat, ReadUpTo(seen, content, k),
         content[k + 1] \in Glyph3
  PROVE  ReadUpTo(ReadToken(seen, Glyph(content[k + 1])), content, k + 1)
<1> DEFINE g == content[k + 1]
           after == ReadToken(seen, Glyph(g))
<1>1. g \in Drawn \ {"space"} /\ g \in Drawn
  BY DEF Drawn, Glyph3
<1>2. /\ Reads(seen, NoStyle, seen.text) /\ seen.dimText = FALSE
      /\ seen.text \in Seq(Drawn) /\ Len(seen.text) = k
      /\ \A i \in 1..k : seen.text[i] = content[i]
  BY DEF ReadUpTo, Reads, Reading
<1>3. Reads(after, NoStyle, Append(seen.text, g)) /\ after.dimText = seen.dimText
  BY <1>1, <1>2, StylesApplied, GlyphRead
<1>4. /\ Append(seen.text, g) \in Seq(Drawn) /\ Len(Append(seen.text, g)) = k + 1
      /\ \A i \in 1..(k + 1) : Append(seen.text, g)[i] = content[i]
  BY <1>1, <1>2, AppendProperties
<1> HIDE DEF after
<1>5. after.text = Append(seen.text, g)
  BY <1>3 DEF Reads
<1>6. ReadUpTo(after, content, k + 1)
  BY <1>2, <1>3, <1>4, <1>5 DEF ReadUpTo
<1> QED
  BY <1>6 DEF after

LEMMA GlyphsRead ==
  ASSUME NEW n \in Nat, NEW line, NEW r, LineRead(r, n, line),
         NEW content \in Seq(Glyph3), NEW from \in 0..n, NEW m \in 0..Len(content),
         from + m <= n, \A i \in 1..m : line[from + i] = Glyph(content[i]),
         ReadUpTo(r[from], content, 0)
  PROVE  ReadUpTo(r[from + m], content, m)
<1> DEFINE S == {k \in 0..m : ReadUpTo(r[from + k], content, k)}
<1>0. Len(content) \in Nat /\ m \in Nat /\ from \in Nat /\ \A i \in 1..Len(content) : content[i] \in Glyph3
  BY LenProperties, ElementOfSeq
<1>1. 0 \in S
  BY <1>0
<1>2. ASSUME NEW k \in 0..(m - 1), k \in S PROVE k + 1 \in S
  <2>1. /\ k + 1 \in 1..m /\ k + 1 \in 1..Len(content) /\ from + (k + 1) \in 1..n
        /\ (from + (k + 1)) - 1 = from + k /\ k \in Nat
    BY <1>0
  <2>2. r[from + (k + 1)] = ReadToken(r[from + k], line[from + (k + 1)])
    BY <2>1 DEF LineRead
  <2>3. r[from + (k + 1)] = ReadToken(r[from + k], Glyph(content[k + 1]))
    BY <2>1, <2>2
  <2>4. ReadUpTo(ReadToken(r[from + k], Glyph(content[k + 1])), content, k + 1)
    BY <1>0, <1>2, <2>1, NextRead
  <2> QED
    BY <2>1, <2>3, <2>4
<1> HIDE DEF S
<1>3. \A k \in 0..m : k \in S
  BY <1>0, <1>1, <1>2, UpInduction
<1>4. m \in 0..m
  BY <1>0
<1> QED
  BY <1>3, <1>4 DEF S

LEMMA NothingUpTo ==
  ASSUME NEW seen, Reads(seen, NoStyle, <<>>), seen.dimText = FALSE
  PROVE  \A content : ReadUpTo(seen, content, 0)
<1>1. seen.text = <<>>
  BY DEF Reads
<1> QED
  BY <1>1, EmptySeq DEF ReadUpTo

\* The text of a sequence of typed glyphs, and of a line.
LEMMA WholeText ==
  ASSUME NEW content \in Seq(Glyph3), NEW seen, ReadUpTo(seen, content, Len(content))
  PROVE  Reads(seen, NoStyle, content) /\ seen.dimText = FALSE
<1>1. content \in Seq(Drawn)
  BY SeqMonotonic DEF Glyph3, Drawn
<1>2. seen.text = content
  BY <1>1, SeqEqual DEF ReadUpTo, Reads, Reading
<1> QED
  BY <1>2 DEF ReadUpTo, Reads

LEMMA TextRead ==
  ASSUME NEW line, NEW r, NEW n \in Nat, LineRead(r, n, line)
  PROVE  TypedText(line) = IF r[n].plainText \/ ~r[n].dimText THEN r[n].text ELSE <<>>
BY DEF TypedText, LineRead, ReadLine

\* The elements of three sequences in a row.
InARow(line, S, a, b, c) ==
  /\ line \in Seq(S) /\ Len(line) = Len(a) + Len(b) + Len(c)
  /\ \A i \in 1..Len(a) : line[i] = a[i]
  /\ \A i \in 1..Len(b) : line[Len(a) + i] = b[i]
  /\ \A i \in 1..Len(c) : line[Len(a) + Len(b) + i] = c[i]

LEMMA ThreeInARow ==
  ASSUME NEW S, NEW a \in Seq(S), NEW b \in Seq(S), NEW c \in Seq(S)
  PROVE  InARow(a \o b \o c, S, a, b, c)
<1> DEFINE head == a \o b
<1>1. Len(a) \in Nat /\ Len(b) \in Nat /\ Len(c) \in Nat
  BY LenProperties
<1>2. /\ head \in Seq(S) /\ Len(head) = Len(a) + Len(b)
      /\ \A i \in 1..(Len(a) + Len(b)) : head[i] = IF i <= Len(a) THEN a[i] ELSE b[i - Len(a)]
  BY ConcatProperties
<1> HIDE DEF head
<1>3. /\ head \o c \in Seq(S) /\ Len(head \o c) = Len(head) + Len(c)
      /\ \A i \in 1..(Len(head) + Len(c)) :
           (head \o c)[i] = IF i <= Len(head) THEN head[i] ELSE c[i - Len(head)]
  <2>1. head \in Seq(S)
    BY <1>2
  <2> QED
    BY <2>1, ConcatProperties
<1> DEFINE line == head \o c
<1> HIDE DEF line
<1>4. /\ line \in Seq(S) /\ Len(line) = Len(a) + Len(b) + Len(c)
      /\ \A i \in 1..(Len(a) + Len(b) + Len(c)) :
           line[i] = IF i <= Len(a) + Len(b) THEN head[i] ELSE c[i - (Len(a) + Len(b))]
  BY <1>2, <1>3 DEF line
<1>5. \A i \in 1..Len(a) : line[i] = a[i]
  BY <1>1, <1>2, <1>4
<1>6. \A i \in 1..Len(b) : line[Len(a) + i] = b[i]
  BY <1>1, <1>2, <1>4
<1>7. ASSUME NEW i \in 1..Len(c) PROVE line[Len(a) + Len(b) + i] = c[i]
  <2>1. /\ Len(a) + Len(b) + i \in 1..(Len(a) + Len(b) + Len(c))
        /\ ~(Len(a) + Len(b) + i <= Len(a) + Len(b))
        /\ Len(a) + Len(b) + i - (Len(a) + Len(b)) = i
    BY <1>1
  <2> QED
    BY <1>4, <2>1
<1> QED
  BY <1>4, <1>5, <1>6, <1>7 DEF line, head, InARow

LEMMA TokenIn ==
  /\ \A codes \in Seq(Nat) : Sgr(codes) \in Token
  /\ \A g \in Drawn : Glyph(g) \in Token
BY DEF Token

LEMMA MarkerTokens ==
  /\ Marker \in Seq(Token) /\ Len(Marker) = 2
  /\ Marker[1] = Glyph("marker") /\ Marker[2] = Glyph("space")
BY TokenIn DEF Marker, Drawn

LEMMA CursorTokens ==
  ASSUME NEW g \in Drawn
  PROVE  /\ Cursor(g) \in Seq(Token) /\ Len(Cursor(g)) = 3
         /\ Cursor(g)[1] = Sgr(<<7>>) /\ Cursor(g)[2] = Glyph(g) /\ Cursor(g)[3] = Sgr(<<27>>)
<1>1. <<7>> \in Seq(Nat) /\ <<27>> \in Seq(Nat)
  OBVIOUS
<1>2. Sgr(<<7>>) \in Token /\ Sgr(<<27>>) \in Token /\ Glyph(g) \in Token
  BY <1>1, TokenIn, Zenon
<1> DEFINE a == Sgr(<<7>>)
           b == Glyph(g)
           c == Sgr(<<27>>)
<1>3. Cursor(g) = <<a, b, c>>
  BY DEF Cursor
<1> HIDE DEF a, b, c
<1>4. /\ Cursor(g) \in Seq(Token) /\ Len(Cursor(g)) = 3
      /\ Cursor(g)[1] = a /\ Cursor(g)[2] = b /\ Cursor(g)[3] = c
  <2>1. a \in Token /\ b \in Token /\ c \in Token
    BY <1>2 DEF a, b, c
  <2> QED
    BY <1>3, <2>1
<1> QED
  BY <1>4, Zenon DEF a, b, c

LEMMA GlyphTokens ==
  ASSUME NEW content \in Seq(Glyph3)
  PROVE  /\ Glyphs(content) \in Seq(Token) /\ Len(Glyphs(content)) = Len(content)
         /\ \A i \in 1..Len(content) : Glyphs(content)[i] = Glyph(content[i])
<1>1. Len(content) \in Nat /\ \A i \in 1..Len(content) : content[i] \in Drawn
  BY LenProperties, ElementOfSeq DEF Glyph3, Drawn
<1> QED
  BY <1>1, TokenIn DEF Glyphs

\* The tokens of the line that shows the cursor after the text.
CursorAfter(line, content, m) ==
  /\ line \in Seq(Token) /\ Len(line) = m + 5
  /\ line[1] = Glyph("marker") /\ line[2] = Glyph("space")
  /\ \A i \in 1..m : line[2 + i] = Glyph(content[i])
  /\ line[m + 3] = Sgr(<<7>>) /\ line[m + 4] = Glyph("space") /\ line[m + 5] = Sgr(<<27>>)

LEMMA PlainLine ==
  ASSUME NEW content \in Seq(Glyph3), NEW line, line = Marker \o Glyphs(content) \o Cursor("space"),
         NEW m, m = Len(content)
  PROVE  CursorAfter(line, content, m)
<1> DEFINE text == Glyphs(content)
           cursor == Cursor("space")
<1>1. m \in Nat /\ text \in Seq(Token) /\ Len(text) = m /\ \A i \in 1..m : text[i] = Glyph(content[i])
  BY GlyphTokens, LenProperties
<1>2. /\ cursor \in Seq(Token) /\ Len(cursor) = 3
      /\ cursor[1] = Sgr(<<7>>) /\ cursor[2] = Glyph("space") /\ cursor[3] = Sgr(<<27>>)
  BY CursorTokens DEF Drawn
<1>3. line = Marker \o text \o cursor
  OBVIOUS
<1> HIDE DEF text, cursor
<1>4. /\ line \in Seq(Token) /\ Len(line) = 2 + m + 3
      /\ \A i \in 1..2 : line[i] = Marker[i]
      /\ \A i \in 1..m : line[2 + i] = text[i]
      /\ \A i \in 1..3 : line[2 + m + i] = cursor[i]
  <2> DEFINE marker == Marker
  <2>1. marker \in Seq(Token) /\ Len(marker) = 2
    BY MarkerTokens
  <2> HIDE DEF marker
  <2>2. InARow(line, Token, marker, text, cursor)
    <3>1. InARow(marker \o text \o cursor, Token, marker, text, cursor)
      BY <1>1, <1>2, <2>1, ThreeInARow, Zenon
    <3> QED
      BY <1>3, <3>1 DEF marker
  <2>4. line \in Seq(Token) /\ Len(line) = Len(marker) + Len(text) + Len(cursor)
    BY <2>2 DEF InARow
  <2>5. \A i \in 1..2 : line[i] = Marker[i]
    BY <2>1, <2>2 DEF marker, InARow
  <2>6. \A i \in 1..m : line[2 + i] = text[i]
    BY <1>1, <2>1, <2>2 DEF InARow
  <2>7. \A i \in 1..3 : line[2 + m + i] = cursor[i]
    BY <1>1, <1>2, <2>1, <2>2 DEF InARow
  <2> QED
    BY <1>1, <1>2, <2>1, <2>4, <2>5, <2>6, <2>7
<1>5. 1 \in 1..2 /\ 2 \in 1..2 /\ 1 \in 1..3 /\ 2 \in 1..3 /\ 3 \in 1..3
      /\ 2 + m + 1 = m + 3 /\ 2 + m + 2 = m + 4 /\ 2 + m + 3 = m + 5
  BY <1>1
<1> QED
  BY <1>1, <1>2, <1>4, <1>5, MarkerTokens DEF CursorAfter

\* The cursor adds the glyph it stands on, in inverse video, to the text.
ReadCursor(seen, g) == ReadToken(ReadToken(ReadToken(seen, Sgr(<<7>>)), Glyph(g)), Sgr(<<27>>))

LEMMA CursorRead ==
  ASSUME NEW text, NEW seen, Reads(seen, NoStyle, text), NEW g \in Drawn
  PROVE  /\ g = "space" => Reads(ReadCursor(seen, g), NoStyle, text)
         /\ g # "space" => Reads(ReadCursor(seen, g), NoStyle, Append(text, g))
         /\ ReadCursor(seen, g).dimText = seen.dimText
         /\ ReadCursor(seen, g).plainText = seen.plainText
<1> DEFINE after == ReadCursor(seen, g)
<1>0. after = ReadToken(ReadToken(ReadToken(seen, Sgr(<<7>>)), Glyph(g)), Sgr(<<27>>))
  BY DEF ReadCursor
<1> HIDE DEF after
<1>1. /\ NoStyle \in Styles /\ InverseVideo \in Styles
      /\ ApplyStyle(NoStyle, <<7>>) = InverseVideo /\ ApplyStyle(InverseVideo, <<27>>) = NoStyle
      /\ ~InverseVideo.dim /\ InverseVideo.inverse
  BY StylesApplied
<1>2. PICK opened : opened = ReadToken(seen, Sgr(<<7>>))
  OBVIOUS
<1>3. PICK over : over = ReadToken(opened, Glyph(g))
  OBVIOUS
<1>4. /\ Reads(opened, InverseVideo, text)
      /\ opened.dimText = seen.dimText /\ opened.plainText = seen.plainText
  <2> DEFINE codes == <<7>>
  <2>1. codes \in Seq(Nat)
    OBVIOUS
  <2>2. opened = ReadToken(seen, Sgr(codes)) /\ ApplyStyle(NoStyle, codes) = InverseVideo
    BY <1>1, <1>2
  <2> HIDE DEF codes
  <2> QED
    BY <1>1, <2>1, <2>2, SgrRead
<1>5. /\ Reads(over, InverseVideo, IF g = "space" THEN text ELSE Append(text, g))
      /\ over.dimText = seen.dimText /\ over.plainText = seen.plainText
  <2>1. CASE g = "space"
    <3>1. over = opened
      BY <1>3, <1>4, <2>1, SpaceRead
    <3> QED
      BY <1>4, <2>1, <3>1
  <2>2. CASE g # "space"
    <3>1. /\ Reads(over, InverseVideo, Append(text, g))
          /\ over.dimText = opened.dimText /\ over.plainText = opened.plainText
      BY <1>1, <1>3, <1>4, <2>2, GlyphRead
    <3> QED
      BY <1>4, <2>2, <3>1
  <2> QED
    BY <2>1, <2>2
<1> QED
  <2> DEFINE codes == <<27>>
             typed == IF g = "space" THEN text ELSE Append(text, g)
  <2>1. /\ after = ReadToken(over, Sgr(codes)) /\ codes \in Seq(Nat)
        /\ ApplyStyle(InverseVideo, codes) = NoStyle
    BY <1>0, <1>1, <1>2, <1>3
  <2> HIDE DEF codes, typed
  <2>2. Reads(over, InverseVideo, typed)
    BY <1>5 DEF typed
  <2>3. /\ Reads(after, ApplyStyle(InverseVideo, codes), typed)
        /\ after.dimText = over.dimText /\ after.plainText = over.plainText
    BY <1>1, <2>1, <2>2, SgrRead
  <2>4. Reads(after, NoStyle, typed)
    BY <2>1, <2>3
  <2> QED
    BY <1>5, <2>3, <2>4 DEF typed, after

LEMMA PlainRead ==
  ASSUME NEW content \in Seq(Glyph3)
  PROVE  TypedText(Marker \o Glyphs(content) \o Cursor("space")) = content
<1> DEFINE line == Marker \o Glyphs(content) \o Cursor("space")
           m == Len(content)
           n == Len(line)
<1>1. line = Marker \o Glyphs(content) \o Cursor("space") /\ m = Len(content) /\ n = Len(line)
  OBVIOUS
<1> HIDE DEF line, m, n
<1>2. m \in Nat
  BY <1>1, LenProperties
<1>3. CursorAfter(line, content, m)
  BY <1>1, PlainLine, Zenon
<1>4. /\ n \in Nat /\ n = m + 5 /\ 2 \in 0..n /\ 2 <= n /\ 2 + m <= n /\ m \in 0..Len(content)
      /\ m + 3 \in 1..n /\ m + 4 \in 1..n /\ m + 5 \in 1..n
      /\ m + 3 - 1 = 2 + m /\ m + 4 - 1 = m + 3 /\ m + 5 - 1 = m + 4
  BY <1>1, <1>2, <1>3 DEF CursorAfter
<1>5. /\ line \in Seq(Token) /\ line[1] = Glyph("marker") /\ line[2] = Glyph("space")
      /\ \A i \in 1..m : line[2 + i] = Glyph(content[i])
      /\ line[m + 3] = Sgr(<<7>>) /\ line[m + 4] = Glyph("space") /\ line[m + 5] = Sgr(<<27>>)
  BY <1>3 DEF CursorAfter
<1>6. PICK r : LineRead(r, n, line)
  BY <1>1, <1>4, <1>5, LineFold, Zenon
<1>7. Reads(r[2], NoStyle, <<>>) /\ r[2].dimText = FALSE
  BY <1>4, <1>5, <1>6, MarkerRead
<1>8. ReadUpTo(r[2], content, 0)
  BY <1>7, NothingUpTo
<1>9. ReadUpTo(r[2 + m], content, m)
  BY <1>4, <1>5, <1>6, <1>8, GlyphsRead
<1>10. Reads(r[2 + m], NoStyle, content) /\ r[2 + m].dimText = FALSE
  BY <1>1, <1>9, WholeText
<1>11. r[n] = ReadCursor(r[2 + m], "space")
  BY <1>4, <1>5, <1>6 DEF LineRead, ReadCursor
<1>12. Reads(r[n], NoStyle, content) /\ r[n].dimText = FALSE
  <2>1. "space" \in Drawn
    BY DEF Drawn
  <2> QED
    BY <1>10, <1>11, <2>1, CursorRead
<1>13. TypedText(line) = content
  BY <1>4, <1>6, <1>12, TextRead DEF Reads
<1> QED
  BY <1>1, <1>13

\* The tokens of the line that shows the cursor on the last glyph of the text.
CursorOnText(line, content, m) ==
  /\ line \in Seq(Token) /\ Len(line) = m + 6
  /\ line[1] = Glyph("marker") /\ line[2] = Glyph("space") /\ line[3] = Sgr(<<38, 5, 2>>)
  /\ \A i \in 1..(m - 1) : line[3 + i] = Glyph(content[i])
  /\ line[m + 3] = Sgr(<<7>>) /\ line[m + 4] = Glyph(content[m]) /\ line[m + 5] = Sgr(<<27>>)
  /\ line[m + 6] = Sgr(<<>>)

LEMMA FrontProperties ==
  ASSUME NEW content \in Seq(Glyph3), content # <<>>, NEW m, m = Len(content)
  PROVE  /\ m \in Nat \ {0} /\ Last(content) = content[m] /\ content[m] \in Glyph3
         /\ Front(content) \in Seq(Glyph3) /\ Len(Front(content)) = m - 1
         /\ \A i \in 1..(m - 1) : Front(content)[i] = content[i]
         /\ Append(Front(content), content[m]) = content
<1>1. m \in Nat \ {0} /\ \A i \in 1..m : content[i] \in Glyph3
  BY EmptySeq, LenProperties, ElementOfSeq
<1>2. /\ Front(content) \in Seq(Glyph3) /\ Len(Front(content)) = m - 1
      /\ \A i \in 1..(m - 1) : Front(content)[i] = content[i]
  <2>1. 1 \in Int /\ m - 1 \in Int /\ \A i \in 1..(m - 1) : content[i] \in Glyph3
    BY <1>1
  <2>2. /\ SubSeq(content, 1, m - 1) \in Seq(Glyph3)
        /\ Len(SubSeq(content, 1, m - 1)) = (IF 1 <= m - 1 THEN (m - 1) - 1 + 1 ELSE 0)
        /\ \A i \in 1..((m - 1) - 1 + 1) : SubSeq(content, 1, m - 1)[i] = content[1 + i - 1]
    BY <2>1, SubSeqProperties
  <2>3. Front(content) = SubSeq(content, 1, m - 1)
    BY DEF Front
  <2> DEFINE front == Front(content)
  <2> HIDE DEF front
  <2>4. /\ front \in Seq(Glyph3) /\ Len(front) = m - 1
        /\ \A i \in 1..(m - 1) : front[i] = content[i]
    BY <1>1, <2>2, <2>3 DEF front
  <2> QED
    BY <2>4 DEF front
<1>3. Last(content) = content[m]
  BY DEF Last
<1>4. Append(Front(content), content[m]) = content
  <2> DEFINE front == Front(content)
             whole == Append(front, content[m])
  <2>1. /\ whole \in Seq(Glyph3) /\ Len(whole) = Len(front) + 1
        /\ \A i \in 1..Len(front) : whole[i] = front[i]
        /\ whole[Len(front) + 1] = content[m]
    BY <1>1, <1>2, AppendProperties
  <2> HIDE DEF whole
  <2>2. Len(whole) = Len(content) /\ \A i \in 1..Len(whole) : whole[i] = content[i]
    BY <1>1, <1>2, <2>1
  <2>3. whole = content
    BY <2>1, <2>2, SeqEqual
  <2> QED
    BY <2>3 DEF whole
<1> QED
  BY <1>1, <1>2, <1>3, <1>4

LEMMA OneOf ==
  ASSUME NEW S, NEW e \in S
  PROVE  <<e>> \in Seq(S) /\ Len(<<e>>) = 1 /\ <<e>>[1] = e
OBVIOUS

LEMMA CursorLine ==
  ASSUME NEW content \in Seq(Glyph3), content # <<>>, NEW m, m = Len(content), NEW line,
         line = Marker \o <<Sgr(<<38, 5, 2>>)>> \o Glyphs(Front(content))
                       \o Cursor(Last(content)) \o <<Sgr(<<>>)>>
  PROVE  CursorOnText(line, content, m)
<1> DEFINE marker == Marker
           colour == <<Sgr(<<38, 5, 2>>)>>
           text == Glyphs(Front(content))
           cursor == Cursor(Last(content))
           end == <<Sgr(<<>>)>>
<1>1. /\ m \in Nat \ {0} /\ text \in Seq(Token) /\ Len(text) = m - 1
      /\ \A i \in 1..(m - 1) : text[i] = Glyph(content[i])
  <2> DEFINE front == Front(content)
  <2>1. /\ m \in Nat \ {0} /\ front \in Seq(Glyph3) /\ Len(front) = m - 1
        /\ \A i \in 1..(m - 1) : front[i] = content[i]
    BY FrontProperties
  <2> HIDE DEF front
  <2>2. /\ Glyphs(front) \in Seq(Token) /\ Len(Glyphs(front)) = Len(front)
        /\ \A i \in 1..Len(front) : Glyphs(front)[i] = Glyph(front[i])
    BY <2>1, GlyphTokens
  <2>3. text = Glyphs(front)
    BY DEF front
  <2> HIDE DEF text
  <2> QED
    BY <2>1, <2>2, <2>3
<1>2. /\ cursor \in Seq(Token) /\ Len(cursor) = 3
      /\ cursor[1] = Sgr(<<7>>) /\ cursor[2] = Glyph(content[m]) /\ cursor[3] = Sgr(<<27>>)
  <2>1. Last(content) = content[m] /\ content[m] \in Drawn
    BY FrontProperties DEF Glyph3, Drawn
  <2> QED
    BY <2>1, CursorTokens
<1>3. /\ marker \in Seq(Token) /\ Len(marker) = 2
      /\ marker[1] = Glyph("marker") /\ marker[2] = Glyph("space")
  BY MarkerTokens
<1>4. colour \in Seq(Token) /\ Len(colour) = 1 /\ colour[1] = Sgr(<<38, 5, 2>>)
  <2>1. <<38, 5, 2>> \in Seq(Nat)
    OBVIOUS
  <2>2. Sgr(<<38, 5, 2>>) \in Token
    BY <2>1, TokenIn, Zenon
  <2> QED
    BY <2>2, OneOf, Zenon
<1>5. end \in Seq(Token) /\ Len(end) = 1 /\ end[1] = Sgr(<<>>)
  <2>1. Sgr(<<>>) \in Token
    BY EmptySeq, TokenIn, Zenon
  <2> QED
    BY <2>1, OneOf, Zenon
<1>6. line = marker \o colour \o text \o cursor \o end
  OBVIOUS
<1> HIDE DEF marker, colour, text, cursor, end
<1> DEFINE start == marker \o colour \o text
<1>7. InARow(start, Token, marker, colour, text)
  BY <1>1, <1>3, <1>4, ThreeInARow, Zenon
<1>8. line = start \o cursor \o end
  BY <1>6
<1> HIDE DEF start
<1>9. start \in Seq(Token) /\ Len(start) = 3 + (m - 1)
  BY <1>1, <1>3, <1>4, <1>7 DEF InARow
<1>10. InARow(line, Token, start, cursor, end)
  BY <1>2, <1>5, <1>8, <1>9, ThreeInARow, Zenon
<1>11. start[1] = Glyph("marker") /\ start[2] = Glyph("space") /\ start[3] = Sgr(<<38, 5, 2>>)
  <2>1. 1 \in 1..Len(marker) /\ 2 \in 1..Len(marker) /\ 1 \in 1..Len(colour) /\ Len(marker) + 1 = 3
    BY <1>3, <1>4
  <2> QED
    BY <1>3, <1>4, <1>7, <2>1 DEF InARow
<1>12. \A i \in 1..(m - 1) : start[3 + i] = Glyph(content[i])
  <2>1. Len(marker) + Len(colour) = 3
    BY <1>3, <1>4
  <2> QED
    BY <1>1, <1>7, <2>1 DEF InARow
<1>13. line \in Seq(Token) /\ Len(line) = m + 6 /\ \A i \in 1..(m + 2) : line[i] = start[i]
  <2>1. /\ line \in Seq(Token) /\ Len(line) = Len(start) + Len(cursor) + Len(end)
        /\ \A i \in 1..Len(start) : line[i] = start[i]
    BY <1>10 DEF InARow
  <2>2. Len(start) = m + 2 /\ Len(start) + Len(cursor) + Len(end) = m + 6
    BY <1>1, <1>2, <1>5, <1>9
  <2> QED
    BY <2>1, <2>2
<1>14. /\ line[m + 3] = Sgr(<<7>>) /\ line[m + 4] = Glyph(content[m]) /\ line[m + 5] = Sgr(<<27>>)
       /\ line[m + 6] = Sgr(<<>>)
  <2>1. /\ 1 \in 1..Len(cursor) /\ 2 \in 1..Len(cursor) /\ 3 \in 1..Len(cursor) /\ 1 \in 1..Len(end)
        /\ Len(start) + 1 = m + 3 /\ Len(start) + 2 = m + 4 /\ Len(start) + 3 = m + 5
        /\ Len(start) + Len(cursor) + 1 = m + 6
    BY <1>1, <1>2, <1>5, <1>9
  <2> QED
    BY <1>2, <1>5, <1>10, <2>1 DEF InARow
<1>15. 1 \in 1..(m + 2) /\ 2 \in 1..(m + 2) /\ 3 \in 1..(m + 2) /\ \A i \in 1..(m - 1) : 3 + i \in 1..(m + 2)
  BY <1>1
<1> QED
  BY <1>11, <1>12, <1>13, <1>14, <1>15 DEF CursorOnText

LEMMA CursorOnTextRead ==
  ASSUME NEW content \in Seq(Glyph3), content # <<>>
  PROVE  TypedText(Marker \o <<Sgr(<<38, 5, 2>>)>> \o Glyphs(Front(content))
                     \o Cursor(Last(content)) \o <<Sgr(<<>>)>>) = content
<1> DEFINE line == Marker \o <<Sgr(<<38, 5, 2>>)>> \o Glyphs(Front(content))
                     \o Cursor(Last(content)) \o <<Sgr(<<>>)>>
           m == Len(content)
           n == Len(line)
           front == Front(content)
<1>1. m = Len(content) /\ n = Len(line)
  OBVIOUS
<1>2. CursorOnText(line, content, m)
  BY CursorLine, Zenon
<1>3. /\ m \in Nat \ {0} /\ content[m] \in Drawn
      /\ front \in Seq(Glyph3) /\ Len(front) = m - 1
      /\ \A i \in 1..(m - 1) : front[i] = content[i]
      /\ Append(front, content[m]) = content /\ content[m] # "space"
  BY FrontProperties DEF Glyph3, Drawn
<1> HIDE DEF line, m, n, front
<1>4. /\ n \in Nat /\ n = m + 6 /\ 3 \in 0..n /\ 2 <= n /\ 3 + (m - 1) <= n /\ m - 1 \in 0..Len(front)
      /\ 3 \in 1..n /\ m + 3 \in 1..n /\ m + 4 \in 1..n /\ m + 5 \in 1..n /\ m + 6 \in 1..n
      /\ 3 - 1 = 2 /\ m + 3 - 1 = 3 + (m - 1) /\ m + 4 - 1 = m + 3 /\ m + 5 - 1 = m + 4 /\ m + 6 - 1 = m + 5
  BY <1>1, <1>2, <1>3 DEF CursorOnText
<1>5. /\ line \in Seq(Token) /\ line[1] = Glyph("marker") /\ line[2] = Glyph("space")
      /\ line[3] = Sgr(<<38, 5, 2>>)
      /\ \A i \in 1..(m - 1) : line[3 + i] = Glyph(front[i])
      /\ line[m + 3] = Sgr(<<7>>) /\ line[m + 4] = Glyph(content[m]) /\ line[m + 5] = Sgr(<<27>>)
      /\ line[m + 6] = Sgr(<<>>)
  BY <1>2, <1>3 DEF CursorOnText
<1>6. PICK r : LineRead(r, n, line)
  BY <1>1, <1>4, <1>5, LineFold, Zenon
<1>7. Reads(r[2], NoStyle, <<>>) /\ r[2].dimText = FALSE
  BY <1>4, <1>5, <1>6, MarkerRead
<1>8. Reads(r[3], NoStyle, <<>>) /\ r[3].dimText = FALSE
  <2> DEFINE codes == <<38, 5, 2>>
  <2>1. codes \in Seq(Nat)
    OBVIOUS
  <2>2. ApplyStyle(NoStyle, codes) = NoStyle /\ r[3] = ReadToken(r[2], Sgr(codes)) /\ NoStyle \in Styles
    BY <1>4, <1>5, <1>6, StylesApplied DEF LineRead
  <2> HIDE DEF codes
  <2>3. /\ Reads(r[3], ApplyStyle(NoStyle, codes), <<>>) /\ r[3].dimText = r[2].dimText
    BY <1>7, <2>1, <2>2, SgrRead
  <2> QED
    BY <1>7, <2>2, <2>3
<1>9. ReadUpTo(r[3], front, 0)
  BY <1>8, NothingUpTo
<1>10. ReadUpTo(r[3 + (m - 1)], front, m - 1)
  <2> DEFINE p == m - 1
  <2>1. /\ p \in 0..Len(front) /\ 3 \in 0..n /\ 3 + p <= n
        /\ \A i \in 1..p : line[3 + i] = Glyph(front[i])
    BY <1>4, <1>5
  <2> HIDE DEF p
  <2>2. ReadUpTo(r[3 + p], front, p)
    BY <1>3, <1>4, <1>6, <1>9, <2>1, GlyphsRead
  <2> QED
    BY <2>2 DEF p
<1>11. Reads(r[3 + (m - 1)], NoStyle, front) /\ r[3 + (m - 1)].dimText = FALSE
  BY <1>3, <1>10, WholeText
<1>12. r[m + 5] = ReadCursor(r[3 + (m - 1)], content[m])
  <2>1. r[m + 3] = ReadToken(r[3 + (m - 1)], Sgr(<<7>>))
    BY <1>3, <1>4, <1>5, <1>6 DEF LineRead
  <2>2. r[m + 4] = ReadToken(r[m + 3], Glyph(content[m]))
    BY <1>3, <1>4, <1>5, <1>6 DEF LineRead
  <2>3. r[m + 5] = ReadToken(r[m + 4], Sgr(<<27>>))
    BY <1>3, <1>4, <1>5, <1>6 DEF LineRead
  <2> QED
    BY <2>1, <2>2, <2>3, Zenon DEF ReadCursor
<1>13. Reads(r[m + 5], NoStyle, content) /\ r[m + 5].dimText = FALSE
  <2> DEFINE g == content[m]
             seen == r[3 + (m - 1)]
             after == r[m + 5]
  <2>1. /\ g \in Drawn /\ g # "space" /\ Append(front, g) = content
        /\ Reads(seen, NoStyle, front) /\ seen.dimText = FALSE
        /\ after = ReadCursor(seen, g)
    BY <1>3, <1>11, <1>12
  <2> HIDE DEF g, seen, after
  <2>2. /\ g # "space" => Reads(after, NoStyle, Append(front, g))
        /\ after.dimText = seen.dimText
    BY <2>1, CursorRead
  <2>3. Reads(after, NoStyle, content) /\ after.dimText = FALSE
    BY <2>1, <2>2
  <2> QED
    BY <2>3 DEF after
<1>14. Reads(r[n], NoStyle, content) /\ r[n].dimText = FALSE
  <2> DEFINE codes == <<>>
  <2>1. codes \in Seq(Nat)
    BY EmptySeq
  <2>2. ApplyStyle(NoStyle, codes) = NoStyle /\ NoStyle \in Styles
    BY StylesApplied
  <2>4. r[n] = ReadToken(r[m + 5], Sgr(codes))
    BY <1>3, <1>4, <1>5, <1>6 DEF LineRead
  <2> HIDE DEF codes
  <2>3. /\ Reads(r[n], ApplyStyle(NoStyle, codes), content) /\ r[n].dimText = r[m + 5].dimText
    BY <1>13, <2>1, <2>2, <2>4, SgrRead
  <2> QED
    BY <1>13, <2>2, <2>3
<1>15. TypedText(line) = content
  BY <1>4, <1>6, <1>14, TextRead DEF Reads
<1> QED
  BY <1>15 DEF line

\* A prompt suggestion is not typed: dim text stands alone on the line.
LEMMA SuggestionRead ==
  TypedText(Marker \o Cursor("suggestion") \o <<Sgr(<<2>>), Glyph("suggestion"), Sgr(<<22>>)>>) = <<>>
<1> DEFINE marker == Marker
           cursor == Cursor("suggestion")
           rest == <<Sgr(<<2>>), Glyph("suggestion"), Sgr(<<22>>)>>
           line == marker \o cursor \o rest
           n == 8
<1>1. /\ marker \in Seq(Token) /\ Len(marker) = 2
      /\ marker[1] = Glyph("marker") /\ marker[2] = Glyph("space")
  BY MarkerTokens
<1>2. /\ cursor \in Seq(Token) /\ Len(cursor) = 3
      /\ cursor[1] = Sgr(<<7>>) /\ cursor[2] = Glyph("suggestion") /\ cursor[3] = Sgr(<<27>>)
  BY CursorTokens DEF Drawn
<1>3. /\ rest \in Seq(Token) /\ Len(rest) = 3
      /\ rest[1] = Sgr(<<2>>) /\ rest[2] = Glyph("suggestion") /\ rest[3] = Sgr(<<22>>)
  <2> DEFINE a == Sgr(<<2>>)
             b == Glyph("suggestion")
             c == Sgr(<<22>>)
  <2>1. <<2>> \in Seq(Nat) /\ <<22>> \in Seq(Nat) /\ "suggestion" \in Drawn
    BY DEF Drawn
  <2>2. a \in Token /\ b \in Token /\ c \in Token
    BY <2>1, TokenIn, Zenon
  <2>3. rest = <<a, b, c>>
    OBVIOUS
  <2> HIDE DEF a, b, c, rest
  <2>4. rest \in Seq(Token) /\ Len(rest) = 3 /\ rest[1] = a /\ rest[2] = b /\ rest[3] = c
    BY <2>2, <2>3
  <2> QED
    BY <2>4, Zenon DEF a, b, c
<1> HIDE DEF marker, cursor, rest
<1>4. InARow(line, Token, marker, cursor, rest)
  BY <1>1, <1>2, <1>3, ThreeInARow, Zenon
<1> HIDE DEF line
<1>5. /\ line \in Seq(Token) /\ Len(line) = n /\ line[1] = Glyph("marker") /\ line[2] = Glyph("space")
      /\ line[3] = Sgr(<<7>>) /\ line[4] = Glyph("suggestion") /\ line[5] = Sgr(<<27>>)
      /\ line[6] = Sgr(<<2>>) /\ line[7] = Glyph("suggestion") /\ line[8] = Sgr(<<22>>)
  <2>1. /\ 1 \in 1..2 /\ 2 \in 1..2 /\ 1 \in 1..3 /\ 2 \in 1..3 /\ 3 \in 1..3
        /\ 2 + 1 = 3 /\ 2 + 2 = 4 /\ 2 + 3 = 5 /\ 2 + 3 + 1 = 6 /\ 2 + 3 + 2 = 7 /\ 2 + 3 + 3 = 8
    OBVIOUS
  <2> QED
    BY <1>1, <1>2, <1>3, <1>4, <2>1 DEF InARow
<1>6. n \in Nat /\ 2 <= n /\ n = 8
  OBVIOUS
<1> HIDE DEF n
<1>7. PICK r : LineRead(r, n, line)
  BY <1>5, <1>6, LineFold, Zenon
<1>8. Reads(r[2], NoStyle, <<>>) /\ r[2].dimText = FALSE /\ r[2].plainText = FALSE
  BY <1>5, <1>6, <1>7, MarkerRead
<1>9. r[5] = ReadCursor(r[2], "suggestion")
  BY <1>5, <1>6, <1>7 DEF LineRead, ReadCursor
<1>10. r[6] = ReadToken(r[5], Sgr(<<2>>)) /\ r[7] = ReadToken(r[6], Glyph("suggestion"))
       /\ r[8] = ReadToken(r[7], Sgr(<<22>>))
  BY <1>5, <1>6, <1>7 DEF LineRead
<1>11. PICK text : Reads(r[5], NoStyle, text) /\ r[5].plainText = FALSE
  <2>1. PICK g \in Drawn : g = "suggestion"
    BY DEF Drawn
  <2>2. r[5] = ReadCursor(r[2], g)
    BY <1>9, <2>1
  <2> QED
    BY <1>8, <2>2, CursorRead
<1>12. Reads(r[6], DimVideo, text) /\ r[6].plainText = FALSE
  <2> DEFINE codes == <<2>>
  <2>1. codes \in Seq(Nat)
    OBVIOUS
  <2>2. ApplyStyle(NoStyle, codes) = DimVideo /\ r[6] = ReadToken(r[5], Sgr(codes)) /\ NoStyle \in Styles
    BY <1>10, StylesApplied
  <2> HIDE DEF codes
  <2>3. Reads(r[6], ApplyStyle(NoStyle, codes), text) /\ r[6].plainText = r[5].plainText
    BY <1>11, <2>1, <2>2, SgrRead
  <2> QED
    BY <1>11, <2>2, <2>3
<1>13. Reads(r[7], DimVideo, text) /\ r[7].dimText = TRUE /\ r[7].plainText = FALSE
  <2>1. PICK g \in Drawn \ {"space"} : g = "suggestion"
    BY DEF Drawn
  <2>2. DimVideo.dim = TRUE /\ r[7] = ReadToken(r[6], Glyph(g))
    BY <1>10, <2>1, StylesApplied
  <2> QED
    BY <1>12, <2>2 DEF ReadToken, Glyph, Visible, Reads, Reading
<1>14. r[8].dimText = TRUE /\ r[8].plainText = FALSE
  <2> DEFINE codes == <<22>>
  <2>1. codes \in Seq(Nat)
    OBVIOUS
  <2>2. r[8] = ReadToken(r[7], Sgr(codes)) /\ DimVideo \in Styles
    BY <1>10, StylesApplied
  <2> HIDE DEF codes
  <2> QED
    BY <1>13, <2>1, <2>2, SgrRead
<1>15. TypedText(line) = <<>>
  BY <1>6, <1>7, <1>14, TextRead
<1> QED
  BY <1>15, Zenon DEF line, marker, cursor, rest

\* However Claude Code draws the box, the keeper reads what was typed into it.
LEMMA ScreensAreRead ==
  ASSUME NEW content \in Seq(Glyph3), NEW screen \in Screens(content)
  PROVE  TypedText(screen) = content
<1>1. CASE content # <<>>
  BY <1>1, PlainRead, CursorOnTextRead DEF Screens
<1>2. CASE content = <<>>
  <2>1. Marker \o Glyphs(content) \o Cursor("space") = Marker \o Cursor("space")
    <3>1. Glyphs(content) = <<>>
      BY <1>2, EmptySeq, GlyphTokens
    <3> DEFINE glyphs == Glyphs(content)
               marker == Marker
    <3>2. glyphs = <<>> /\ marker \in Seq(Token)
      BY <3>1, MarkerTokens
    <3> HIDE DEF glyphs, marker
    <3>3. marker \o glyphs = marker
      BY <3>2, ConcatEmptySeq
    <3> QED
      BY <3>3 DEF glyphs, marker
  <2>2. TypedText(Marker \o Cursor("space")) = content
    BY <2>1, PlainRead, Zenon
  <2>3. \/ screen = Marker \o Cursor("space")
        \/ screen = Marker \o Cursor("suggestion")
                      \o <<Sgr(<<2>>), Glyph("suggestion"), Sgr(<<22>>)>>
    BY <1>2, Zenon DEF Screens
  <2> QED
    BY <1>2, <2>2, <2>3, SuggestionRead, Zenon
<1> QED
  BY <1>1, <1>2

-----------------------------------------------------------------------------
(* The state keeps its shape.                                              *)

LEMMA TextOfType == ASSUME NEW content PROVE TextOf(content) \in Text \ {"none", "interrupted"}
BY DEF TextOf, Text

LEMMA ApplyEntryType ==
  ASSUME NEW state \in TranscriptState(Time), NEW at \in Time
  PROVE  /\ \A text \in Text : ApplyEntry(state, UserEntry(at, text)) \in TranscriptState(Time)
         /\ \A context \in Contexts, created \in Created, stopReason \in {"tool_use", "end_turn"} :
              ApplyEntry(state, Reply(at, context, created, stopReason)) \in TranscriptState(Time)
<1>1. ASSUME NEW text \in Text
      PROVE  ApplyEntry(state, UserEntry(at, text)) \in TranscriptState(Time)
  BY DEF ApplyEntry, ApplyUser, UserEntry, TranscriptState, Time, Text
<1>2. ASSUME NEW context \in Contexts, NEW created \in Created,
             NEW stopReason \in {"tool_use", "end_turn"}
      PROVE  ApplyEntry(state, Reply(at, context, created, stopReason)) \in TranscriptState(Time)
  BY DEF ApplyEntry, ApplyReply, Reply, TranscriptState, Time, Created
<1> QED
  BY <1>1, <1>2

\* What EndPass and Submit do to the types of what they change.
LEMMA EndPassType == ASSUME TypeOK, EndPass, UNCHANGED now
                     PROVE  /\ pc' = "asleep" /\ wake' \in Nat /\ last' = FALSE
                            /\ looked' = <<>> /\ looked' \in Seq(Glyph3)
BY SettingsAssumption, BoundAssumption DEF TypeOK, EndPass, Glyph3, Time

LEMMA SubmitType ==
  ASSUME TypeOK, NEW by \in {"keeper", "operator"}, Submit(by)
  PROVE  /\ box' = <<>> /\ box' \in Seq(Glyph3)
         /\ queue' \in Seq(Prompt)
         /\ Len(queue') = Len(queue) + 1
         /\ queue'[Len(queue) + 1] = [text |-> TextOf(box), at |-> now, by |-> by]
         /\ \A i \in 1..Len(queue) : queue'[i] = queue[i]
         /\ sent' \in {"nothing", "prompt", "keepalive", "last"}
<1>1. [text |-> TextOf(box), at |-> now, by |-> by] \in Prompt
  BY TextOfType DEF TypeOK, Prompt
<1>2. box \in Keepalives => TextOf(box) \in {"keepalive", "last"}
  BY DEF Keepalives, TextOf
<1>3. sent' \in {"nothing", "prompt", "keepalive", "last"}
  BY <1>2 DEF Submit, TypeOK
<1> QED
  BY <1>1, <1>3 DEF Submit, TypeOK

LEMMA TypeInitial == Init => TypeOK
<1> SUFFICES ASSUME Init PROVE TypeOK
  OBVIOUS
<1>1. now \in Time \ {0} /\ lastBump \in Time
  BY BoundAssumption DEF Init, Time
<1>2. EmptyTranscript \in TranscriptState(Time)
  BY BoundAssumption DEF EmptyTranscript, TranscriptState, Time
<1>3. /\ box \in Seq({"draft", "keepalive", "last"}) /\ looked \in Seq({"draft", "keepalive", "last"})
      /\ queue \in Seq(Prompt)
  BY EmptySeq DEF Init
<1> QED
  BY <1>1, <1>2, <1>3 DEF Init, TypeOK

LEMMA TypeInductive == TypeOK /\ [Next]_vars => TypeOK'
<1> SUFFICES ASSUME TypeOK, [Next]_vars PROVE TypeOK'
  OBVIOUS
<1> USE DEF claudeVars, keeperVars, historyVars
<1>1. CASE Tick
  BY <1>1, BoundAssumption DEF Tick, TypeOK, Time
<1>2. CASE OperatorTypes
  <2>1. box' \in Seq({"draft", "keepalive", "last"})
    BY <1>2 DEF OperatorTypes, TypeOK
  <2> QED
    BY <1>2, <2>1 DEF OperatorTypes, TypeOK
<1>3. CASE OperatorClears
  BY <1>3 DEF OperatorClears, TypeOK
<1>4. CASE OperatorSubmits
  <2>1. Submit("operator")
    BY <1>4 DEF OperatorSubmits
  <2> QED
    BY <1>4, <2>1, SubmitType DEF OperatorSubmits, TypeOK, Glyph3
<1>5. CASE Record
  <2>1. Head(queue).text \in Text /\ Tail(queue) \in Seq(Prompt)
    <3>1. queue # <<>> /\ queue \in Seq(Prompt)
      BY <1>5 DEF Record, TypeOK
    <3>2. Head(queue) \in Prompt /\ Tail(queue) \in Seq(Prompt)
      BY <3>1, HeadTailProperties
    <3> QED
      BY <3>2 DEF Prompt
  <2>2. transcript' \in TranscriptState(Time)
    BY <1>5, <2>1, ApplyEntryType DEF Record, TypeOK
  <2>3. smooth' \in BOOLEAN
    BY <1>5 DEF Record, TypeOK
  <2> QED
    BY <1>5, <2>1, <2>2, <2>3 DEF Record, TypeOK
<1>6. CASE UseTool
  <2>1. transcript' \in TranscriptState(Time)
    <3>1. PICK context \in Contexts :
            transcript' = ApplyEntry(ApplyEntry(transcript, Reply(now, context, "nothing", "tool_use")),
                                     UserEntry(now, "none"))
      BY <1>6 DEF UseTool
    <3>2. now \in Time /\ "nothing" \in Created /\ "none" \in Text
      BY DEF TypeOK, Created, Text
    <3>3. ApplyEntry(transcript, Reply(now, context, "nothing", "tool_use")) \in TranscriptState(Time)
      BY <3>2, ApplyEntryType DEF TypeOK
    <3> QED
      BY <3>1, <3>2, <3>3, ApplyEntryType
  <2> QED
    BY <1>6, <2>1 DEF UseTool, TypeOK
<1>7. CASE EndTurn
  <2>1. transcript' \in TranscriptState(Time)
    BY <1>7, ApplyEntryType DEF EndTurn, TypeOK
  <2>2. smooth' \in BOOLEAN
    BY <1>7, <2>1 DEF EndTurn, TypeOK, InGoodTime
  <2> QED
    BY <1>7, <2>1, <2>2 DEF EndTurn, TypeOK
<1>8. CASE Interrupt
  <2>1. transcript' \in TranscriptState(Time)
    BY <1>8, ApplyEntryType DEF Interrupt, TypeOK, Text
  <2>2. smooth' \in BOOLEAN
    BY <1>8, <2>1 DEF Interrupt, TypeOK, InGoodTime
  <2> QED
    BY <1>8, <2>1, <2>2 DEF Interrupt, TypeOK
<1>9. CASE StartPass
  BY <1>9 DEF StartPass, TypeOK
<1>10. CASE ListFails
  <2>1. 0 \in Time
    BY BoundAssumption DEF Time
  <2>2. now' = now
    BY <1>10 DEF ListFails
  <2> QED
    BY <1>10, <2>1, <2>2, EndPassType DEF ListFails, TypeOK, Glyph3
<1>11. CASE Excused
  BY <1>11, EndPassType DEF Excused, TypeOK, Glyph3
<1>12. CASE Judge
  <2>1. LastDue \in BOOLEAN
    BY DEF LastDue
  <2> QED
    BY <1>12, <2>1, EndPassType DEF Judge, TypeOK, Glyph3
<1>13. CASE Look
  BY <1>13, EndPassType DEF Look, TypeOK, Glyph3
<1>14. CASE Send
  <2>1. box' \in Seq({"draft", "keepalive", "last"})
    BY <1>14 DEF Send, TypeOK
  <2> QED
    BY <1>14, <2>1 DEF Send, TypeOK
<1>15. CASE Enter
  <2>1. now \in Time
    BY DEF TypeOK
  <2>2. CASE Submit("keeper")
    BY <1>15, <2>1, <2>2, EndPassType, SubmitType DEF Enter, TypeOK, Glyph3
  <2>3. CASE UNCHANGED <<box, queue, sent>>
    BY <1>15, <2>1, <2>3, EndPassType DEF Enter, TypeOK, Glyph3
  <2> QED
    BY <1>15, <2>2, <2>3 DEF Enter
<1>16. CASE EnterLost
  BY <1>16, EndPassType DEF EnterLost, TypeOK, Glyph3
<1>17. CASE GiveUp
  BY <1>17, EndPassType DEF GiveUp, TypeOK, Glyph3
<1>18. CASE UNCHANGED vars
  BY <1>18 DEF vars, TypeOK
<1> QED
  BY <1>1, <1>2, <1>3, <1>4, <1>5, <1>6, <1>7, <1>8, <1>9, <1>10, <1>11, <1>12, <1>13, <1>14,
     <1>15, <1>16, <1>17, <1>18 DEF Next

\* The state keeps its shape, whatever is typed, submitted and recorded.
THEOREM TypeCorrect == Spec => []TypeOK
BY TypeInitial, TypeInductive, PTL DEF Spec

-----------------------------------------------------------------------------
(* The input box.                                                          *)

\* The contents of a box that holds a draft and a keepalive at most.
Boxes ==
  {<<>>, <<"draft">>, <<"keepalive">>, <<"last">>,
   <<"draft", "keepalive">>, <<"draft", "last">>, <<"keepalive", "draft">>, <<"last", "draft">>}

\* The keeper types only into a box without a keepalive: nobody else types one, so
\* it still has none when the keeper, which saw it empty, gets to type.
BoxInv ==
  /\ box \in Boxes
  /\ pc = "send" => looked = <<>> /\ box \in {<<>>, <<"draft">>}

LEMMA Typed ==
  /\ \A g \in Glyph3 : Append(<<>>, g) = <<g>>
  /\ \A g, h \in Glyph3 : Append(<<g>>, h) = <<g, h>>
<1>1. ASSUME NEW g \in Glyph3 PROVE Append(<<>>, g) = <<g>>
  <2>1. Append(<<>>, g) \in Seq(Glyph3) /\ Len(Append(<<>>, g)) = 1 /\ Append(<<>>, g)[1] = g
    BY AppendProperties, EmptySeq
  <2> QED
    BY <2>1, SeqEqual
<1>2. ASSUME NEW g \in Glyph3, NEW h \in Glyph3 PROVE Append(<<g>>, h) = <<g, h>>
  <2>1. /\ Append(<<g>>, h) \in Seq(Glyph3) /\ Len(Append(<<g>>, h)) = 2
        /\ Append(<<g>>, h)[1] = g /\ Append(<<g>>, h)[2] = h
    BY AppendProperties
  <2>2. <<g, h>> \in Seq(Glyph3) /\ Len(<<g, h>>) = 2
    OBVIOUS
  <2>3. \A i \in 1..2 : Append(<<g>>, h)[i] = <<g, h>>[i]
    BY <2>1
  <2> QED
    BY <2>1, <2>2, <2>3, SeqEqual
<1> QED
  BY <1>1, <1>2

LEMMA BoxInductive == TypeOK /\ BoxInv /\ [Next]_vars => BoxInv'
<1> SUFFICES ASSUME TypeOK, BoxInv, [Next]_vars PROVE BoxInv'
  OBVIOUS
<1> USE DEF claudeVars, keeperVars, historyVars
<1>1. CASE OperatorTypes
  <2>1. box \in {<<>>, <<"keepalive">>, <<"last">>}
    <3>1. \A i \in 1..Len(box) : box[i] # "draft"
      BY <1>1 DEF OperatorTypes, Contains
    <3> QED
      BY <3>1 DEF BoxInv, Boxes
  <2>2. box' = Append(box, "draft") /\ UNCHANGED <<pc, looked>>
    BY <1>1 DEF OperatorTypes
  <2>3. box' \in Boxes /\ (box = <<>> => box' = <<"draft">>)
    BY <2>1, <2>2, Typed DEF Boxes, Glyph3
  <2> QED
    BY <2>1, <2>2, <2>3 DEF BoxInv
<1>2. CASE Send
  <2>1. box \in {<<>>, <<"draft">>} /\ pc' = "enter"
    BY <1>2 DEF Send, BoxInv
  <2>2. box' = Append(box, "last") \/ box' = Append(box, "keepalive")
    BY <1>2 DEF Send
  <2> QED
    BY <2>1, <2>2, Typed DEF BoxInv, Boxes, Glyph3
<1>3. CASE Look
  <2>1. UNCHANGED box
    BY <1>3 DEF Look
  <2>2. pc' = "send" => looked' = <<>> /\ box = <<>>
    <3> SUFFICES ASSUME pc' = "send" PROVE looked' = <<>> /\ box = <<>>
      OBVIOUS
    <3>1. PICK screen \in Screens(box) :
            TypedText(screen) = <<>> /\ looked' = box
      BY <1>3 DEF Look, EndPass
    <3>2. box \in Seq(Glyph3) /\ TypedText(screen) = box
      BY <3>1, ScreensAreRead DEF TypeOK, Glyph3
    <3> QED
      BY <3>1, <3>2
  <2> QED
    BY <2>1, <2>2 DEF BoxInv
<1>4. CASE OperatorClears \/ OperatorSubmits \/ Enter
  <2>1. box' = <<>> \/ UNCHANGED box
    BY <1>4 DEF OperatorClears, OperatorSubmits, Enter, Submit
  <2>2. UNCHANGED <<pc, looked>> \/ pc' = "asleep"
    BY <1>4 DEF OperatorClears, OperatorSubmits, Enter, EndPass
  <2> QED
    BY <2>1, <2>2 DEF BoxInv, Boxes
<1>5. CASE Tick \/ Record \/ UseTool \/ EndTurn \/ Interrupt \/ UNCHANGED vars
  <2>1. UNCHANGED <<box, pc, looked>>
    BY <1>5 DEF Tick, Record, UseTool, EndTurn, Interrupt, vars
  <2> QED
    BY <2>1 DEF BoxInv
<1>6. CASE StartPass \/ ListFails \/ Excused \/ Judge \/ EnterLost \/ GiveUp
  <2>1. UNCHANGED box /\ pc' \in {"judge", "asleep", "look"}
    BY <1>6 DEF StartPass, ListFails, Excused, Judge, EnterLost, GiveUp, EndPass
  <2> QED
    BY <2>1 DEF BoxInv
<1> QED
  BY <1>1, <1>2, <1>3, <1>4, <1>5, <1>6 DEF Next

LEMMA BoxAlways == Spec => [](TypeOK /\ BoxInv)
<1>1. Init => BoxInv
  BY DEF Init, BoxInv, Boxes
<1> QED
  BY <1>1, TypeInitial, TypeInductive, BoxInductive, PTL DEF Spec

\* However its calls fail, the keeper leaves at most one keepalive in the box.
THEOREM OneKeepalive == Spec => []OneKeepaliveInBox
<1>1. BoxInv => OneKeepaliveInBox
  BY DEF BoxInv, Boxes, OneKeepaliveInBox
<1> QED
  BY <1>1, BoxAlways, PTL

\* A keepalive is typed only into a box that was empty when the keeper looked.
THEOREM TypedOverNothing == Spec => TypedIntoEmptyBox
<1>1. BoxInv /\ [Next]_vars => [Send => looked = <<>>]_vars
  BY DEF BoxInv, Send
<1> QED
  BY <1>1, BoxAlways, PTL DEF TypedIntoEmptyBox, Spec

-----------------------------------------------------------------------------
(* Bumps.                                                                  *)

\* Claude Code records in time, so that a keepalive is recorded before the cooldown
\* of its bump is over; and the keeper types only when no cooldown runs.
BumpInv ==
  /\ \A i \in 1..Len(queue) :
       /\ 0 < queue[i].at /\ queue[i].at <= now /\ now <= queue[i].at + RecordDelay
       /\ IsBump(queue[i]) => lastBump = queue[i].at
  /\ pc \in {"look", "send", "enter"} => ~CoolingDown
  /\ OneBumpPerRequest

LEMMA QueuedType ==
  ASSUME TypeOK, NEW i \in 1..Len(queue)
  PROVE  /\ queue[i] \in Prompt /\ queue[i].at \in Nat
         /\ now \in Nat /\ 0 < now /\ lastBump \in Nat /\ RecordDelay \in Nat /\ Cooldown \in Nat
<1>1. queue[i] \in Prompt
  BY ElementOfSeq DEF TypeOK
<1>2. queue[i].at \in Time
  BY <1>1 DEF Prompt
<1> QED
  BY <1>1, <1>2, ClaudeAssumption, SettingsAssumption, BoundAssumption DEF TypeOK, Time

LEMMA BumpsCoolDown ==
  ASSUME TypeOK, BumpInv, NEW i \in 1..Len(queue), IsBump(queue[i])
  PROVE  CoolingDown
BY QueuedType, ClaudeAssumption DEF BumpInv, CoolingDown

LEMMA BumpsKept ==
  ASSUME TypeOK, BumpInv, UNCHANGED <<now, queue, lastBump>>,
         pc' \in {"look", "send", "enter"} => ~CoolingDown
  PROVE  BumpInv'
BY DEF BumpInv, CoolingDown, OneBumpPerRequest

LEMMA BumpInductive ==
  ASSUME ~ListMayFailSoon, TypeOK, BumpInv, [Next]_vars
  PROVE  BumpInv'
<1> USE DEF claudeVars, keeperVars, historyVars
<1>1. CASE Tick
  <2>1. UNCHANGED <<queue, lastBump>> /\ pc' = "asleep" /\ now' = now + 1
    BY <1>1 DEF Tick
  <2>2. \A i \in 1..Len(queue) : now' <= queue[i].at + RecordDelay /\ queue[i].at <= now'
    BY <1>1, <2>1, QueuedType DEF BumpInv, Tick
  <2> QED
    BY <2>1, <2>2 DEF BumpInv, OneBumpPerRequest
<1>2. CASE OperatorTypes \/ OperatorClears \/ UseTool \/ EndTurn \/ Interrupt \/ UNCHANGED vars
  <2>1. UNCHANGED <<now, queue, lastBump, pc>>
    BY <1>2 DEF OperatorTypes, OperatorClears, UseTool, EndTurn, Interrupt, vars
  <2> QED
    BY <2>1, BumpsKept DEF BumpInv
<1>3. CASE StartPass \/ Excused \/ Look \/ Send \/ GiveUp
  <2>1. /\ UNCHANGED <<now, queue, lastBump>>
        /\ pc' \in {"judge", "asleep"} \/ pc \in {"look", "send", "enter"}
    BY <1>3 DEF StartPass, Excused, Look, Send, GiveUp, EndPass
  <2> QED
    BY <2>1, BumpsKept DEF BumpInv
<1>4. CASE Judge
  <2>1. UNCHANGED <<now, queue, lastBump>> /\ (pc' = "asleep" \/ ~CoolingDown)
    BY <1>4 DEF Judge, EndPass, Due
  <2> QED
    BY <2>1, BumpsKept
<1>5. CASE ListFails
  <2>1. UNCHANGED <<now, queue>> /\ pc' = "asleep" /\ ~CoolingDown
    BY <1>5 DEF ListFails, EndPass
  <2>2. \A i \in 1..Len(queue) : ~IsBump(queue[i])
    BY <2>1, BumpsCoolDown
  <2> QED
    BY <2>1, <2>2 DEF BumpInv, OneBumpPerRequest, IsBump
<1>6. CASE Record
  <2>1. queue \in Seq(Prompt) /\ queue # <<>>
    BY <1>6 DEF Record, TypeOK
  <2>2. /\ queue' = Tail(queue) /\ Len(queue') = Len(queue) - 1
        /\ \A i \in 1..Len(queue') : queue'[i] = queue[i + 1] /\ i + 1 \in 1..Len(queue)
    <3>1. queue' = Tail(queue)
      BY <1>6 DEF Record
    <3>2. /\ Len(queue) \in Nat /\ Len(Tail(queue)) = Len(queue) - 1
          /\ \A i \in 1..Len(Tail(queue)) : Tail(queue)[i] = queue[i + 1]
      BY <2>1, HeadTailProperties, LenProperties
    <3> QED
      BY <3>1, <3>2
  <2>3. UNCHANGED <<now, lastBump, pc>>
    BY <1>6 DEF Record
  <2>4. OneBumpPerRequest'
    <3> SUFFICES ASSUME NEW i \in DOMAIN queue', NEW j \in DOMAIN queue',
                        IsBump(queue'[i]), IsBump(queue'[j])
                 PROVE  i = j
      BY DEF OneBumpPerRequest
    <3>1. i \in 1..Len(queue') /\ j \in 1..Len(queue') /\ DOMAIN queue = 1..Len(queue)
      BY <2>1, <2>2, HeadTailProperties, LenProperties
    <3>2. i + 1 = j + 1
      BY <2>2, <3>1 DEF BumpInv, OneBumpPerRequest
    <3> QED
      BY <3>1, <3>2
  <2> QED
    BY <2>2, <2>3, <2>4 DEF BumpInv, CoolingDown, IsBump
<1>7. ASSUME NEW by \in {"keeper", "operator"}, Submit(by), UNCHANGED now,
             \/ by = "operator" /\ UNCHANGED <<lastBump, pc>>
             \/ by = "keeper" /\ lastBump' = now /\ pc = "enter" /\ pc' = "asleep"
      PROVE  BumpInv'
  <2>1. /\ Len(queue') = Len(queue) + 1 /\ DOMAIN queue' = 1..Len(queue') /\ Len(queue) \in Nat
        /\ DOMAIN queue = 1..Len(queue)
        /\ \A i \in 1..Len(queue) : queue'[i] = queue[i]
        /\ queue'[Len(queue) + 1] = [text |-> TextOf(box), at |-> now, by |-> by]
    BY <1>7, SubmitType, LenProperties DEF TypeOK
  <2>2. by = "keeper" => \A i \in 1..Len(queue) : ~IsBump(queue[i])
    BY <1>7, BumpsCoolDown DEF BumpInv
  <2>3. \A i \in 1..Len(queue) + 1 : i \in 1..Len(queue) \/ i = Len(queue) + 1
    BY <2>1
  <2>4. IsBump(queue'[Len(queue) + 1]) => by = "keeper"
    BY <2>1 DEF IsBump
  <2>5. OneBumpPerRequest'
    <3> SUFFICES ASSUME NEW i \in 1..Len(queue'), NEW j \in 1..Len(queue'),
                        IsBump(queue'[i]), IsBump(queue'[j])
                 PROVE  i = j
      BY <2>1 DEF OneBumpPerRequest
    <3>1. CASE by = "keeper"
      <4>1. \A k \in 1..Len(queue) : ~IsBump(queue'[k])
        BY <2>1, <2>2, <3>1
      <4> QED
        BY <2>1, <2>3, <4>1
    <3>2. CASE by = "operator"
      <4>1. i \in 1..Len(queue) /\ j \in 1..Len(queue)
        BY <2>1, <2>3, <2>4, <3>2
      <4> QED
        BY <2>1, <4>1 DEF BumpInv, OneBumpPerRequest
    <3> QED
      BY <3>1, <3>2
  <2>6. now \in Nat /\ 0 < now /\ RecordDelay \in Nat
    BY ClaudeAssumption, BoundAssumption DEF TypeOK, Time
  <2>7. \A i \in 1..Len(queue') :
          /\ 0 < queue'[i].at /\ queue'[i].at <= now /\ now <= queue'[i].at + RecordDelay
          /\ IsBump(queue'[i]) => lastBump' = queue'[i].at
    BY <1>7, <2>1, <2>2, <2>3, <2>4, <2>6 DEF BumpInv
  <2> QED
    BY <1>7, <2>5, <2>7 DEF BumpInv, CoolingDown, IsBump
<1>8. CASE OperatorSubmits
  BY <1>7, <1>8 DEF OperatorSubmits
<1>9. CASE Enter /\ Submit("keeper")
  BY <1>7, <1>9 DEF Enter, EndPass
<1>10. ASSUME UNCHANGED <<now, queue>>, lastBump' = now, pc = "enter", pc' = "asleep"
       PROVE  BumpInv'
  <2>1. \A i \in 1..Len(queue) : ~IsBump(queue[i])
    BY <1>10, BumpsCoolDown DEF BumpInv
  <2> QED
    BY <1>10, <2>1 DEF BumpInv, OneBumpPerRequest, IsBump
<1>11. CASE Enter /\ ~Submit("keeper")
  BY <1>10, <1>11 DEF Enter, EndPass
<1>12. CASE EnterLost
  BY <1>10, <1>12 DEF EnterLost, EndPass
<1> QED
  BY <1>1, <1>2, <1>3, <1>4, <1>5, <1>6, <1>8, <1>9, <1>11, <1>12 DEF Next

LEMMA BumpAlways == ASSUME ~ListMayFailSoon PROVE Spec => [](TypeOK /\ BumpInv)
<1>1. Init => BumpInv
  BY DEF Init, BumpInv, OneBumpPerRequest, CoolingDown
<1>2. TypeOK /\ BumpInv /\ [Next]_vars => BumpInv'
  BY BumpInductive
<1> QED
  BY <1>1, <1>2, TypeInitial, TypeInductive, PTL DEF Spec

\* The cooldown is long enough: no second keepalive is submitted before the first
\* one is recorded, if the session does not vanish from a list in between.
THEOREM OneBump == ASSUME ~ListMayFailSoon PROVE Spec => []OneBumpPerRequest
<1>1. BumpInv => OneBumpPerRequest
  BY DEF BumpInv
<1> QED
  BY <1>1, BumpAlways, PTL

-----------------------------------------------------------------------------
(* The last bump.                                                          *)

\* The operator has prompted before there is any talk of a last bump.
LastAnswersPrompt ==
  ( \/ last \/ transcript.lastBumpSent
    \/ box \in {<<"last">>, <<"draft", "last">>, <<"last", "draft">>}
    \/ \E i \in 1..Len(queue) : queue[i].text = "last" )
  => 0 < transcript.lastPrompt

\* A last bump that no prompt followed is in the transcript, or will be: then its
\* cooldown runs.
LastRemembered ==
  sent = "last" =>
    \/ transcript.lastBumpSent /\ \A i \in 1..Len(queue) : queue[i].text # "prompt"
    \/ \E i \in 1..Len(queue) :
         /\ queue[i].text = "last" /\ queue[i].by = "keeper"
         /\ \A j \in 1..Len(queue) : i < j => queue[j].text # "prompt"

LastInv ==
  /\ LastAnswersPrompt
  /\ LastRemembered
  /\ pc \in {"look", "send", "enter"} => sent # "last"

\* How the entries of a transcript bear on its last prompt and its last bump.
LEMMA ReplyEffects ==
  ASSUME NEW state \in TranscriptState(Time), NEW at, NEW context, NEW created, NEW stopReason
  PROVE  LET after == ApplyEntry(state, Reply(at, context, created, stopReason))
         IN /\ after.lastPrompt = state.lastPrompt
            /\ after.lastBumpSent = state.lastBumpSent
BY DEF ApplyEntry, ApplyReply, Reply, TranscriptState

\* What Claude does within a turn leaves them alone.
LEMMA TurnEffects ==
  ASSUME TypeOK, UseTool \/ EndTurn \/ Interrupt
  PROVE  /\ transcript'.lastPrompt = transcript.lastPrompt
         /\ transcript'.lastBumpSent = transcript.lastBumpSent
<1>0. transcript \in TranscriptState(Time) /\ now \in Time
  BY DEF TypeOK
<1>1. CASE UseTool
  <2>1. PICK context \in Contexts :
          transcript' = ApplyEntry(ApplyEntry(transcript, Reply(now, context, "nothing", "tool_use")),
                                   UserEntry(now, "none"))
    BY <1>1 DEF UseTool
  <2> DEFINE replied == ApplyEntry(transcript, Reply(now, context, "nothing", "tool_use"))
  <2>2. replied \in TranscriptState(Time)
    BY <1>0, ApplyEntryType DEF Created
  <2>3. /\ replied.lastPrompt = transcript.lastPrompt
        /\ replied.lastBumpSent = transcript.lastBumpSent
    BY <1>0, ReplyEffects
  <2>4. transcript' = ApplyEntry(replied, UserEntry(now, "none"))
    BY <2>1
  <2> HIDE DEF replied
  <2>5. /\ ApplyEntry(replied, UserEntry(now, "none")).lastPrompt = replied.lastPrompt
        /\ ApplyEntry(replied, UserEntry(now, "none")).lastBumpSent = replied.lastBumpSent
    BY <2>2 DEF ApplyEntry, ApplyUser, UserEntry, TranscriptState
  <2> QED
    BY <2>3, <2>4, <2>5, Zenon
<1>2. CASE EndTurn
  <2>1. PICK context \in Contexts, created \in Created :
          transcript' = ApplyEntry(transcript, Reply(now, context, created, "end_turn"))
    BY <1>2 DEF EndTurn
  <2>2. /\ ApplyEntry(transcript, Reply(now, context, created, "end_turn")).lastPrompt
             = transcript.lastPrompt
        /\ ApplyEntry(transcript, Reply(now, context, created, "end_turn")).lastBumpSent
             = transcript.lastBumpSent
    BY <1>0, ReplyEffects
  <2> QED
    BY <2>1, <2>2, Zenon
<1>3. CASE Interrupt
  <2>1. transcript' = ApplyEntry(transcript, UserEntry(now, "interrupted"))
    BY <1>3 DEF Interrupt
  <2>2. /\ ApplyEntry(transcript, UserEntry(now, "interrupted")).lastPrompt = transcript.lastPrompt
        /\ ApplyEntry(transcript, UserEntry(now, "interrupted")).lastBumpSent = transcript.lastBumpSent
    BY <1>0 DEF ApplyEntry, ApplyUser, UserEntry, TranscriptState
  <2> QED
    BY <2>1, <2>2, Zenon
<1> QED
  BY <1>1, <1>2, <1>3

\* A step that changes nothing of what LastInv is about but where the keeper is.
LEMMA LastKept ==
  ASSUME LastInv, UNCHANGED <<box, queue, sent>>, last' => last,
         transcript'.lastPrompt = transcript.lastPrompt,
         transcript'.lastBumpSent = transcript.lastBumpSent,
         pc' \in {"look", "send", "enter"} => sent # "last"
  PROVE  LastInv'
BY DEF LastInv, LastAnswersPrompt, LastRemembered

\* Before the last bump is recorded its cooldown runs, and then the transcript tells.
LEMMA NotDueAfterLast ==
  ASSUME TypeOK, BumpInv, LastInv, Due PROVE sent # "last"
<1> SUFFICES ASSUME sent = "last" PROVE FALSE
  OBVIOUS
<1>1. ~CoolingDown /\ ~(transcript.lastPrompt > 0 /\ transcript.lastBumpSent)
  BY DEF Due
<1>2. transcript.lastBumpSent => transcript.lastPrompt > 0
  BY DEF LastInv, LastAnswersPrompt, TypeOK, TranscriptState, Time
<1>3. PICK i \in 1..Len(queue) : queue[i].text = "last" /\ queue[i].by = "keeper"
  BY <1>1, <1>2 DEF LastInv, LastRemembered
<1> QED
  BY <1>1, <1>3, BumpsCoolDown DEF IsBump

LEMMA LastInductive ==
  ASSUME TypeOK, BoxInv, BumpInv, LastInv, [Next]_vars
  PROVE  LastInv'
<1> USE DEF claudeVars, keeperVars, historyVars
<1>1. CASE Tick \/ StartPass \/ ListFails \/ Excused \/ Look \/ EnterLost \/ GiveUp \/ UNCHANGED vars
  <2>1. /\ UNCHANGED <<box, queue, sent, transcript>> /\ (last' => last)
        /\ pc' \in {"look", "send", "enter"} => pc \in {"look", "send", "enter"}
    BY <1>1 DEF Tick, StartPass, ListFails, Excused, Look, EnterLost, GiveUp, EndPass, vars
  <2> QED
    BY <2>1, LastKept DEF LastInv
<1>2. CASE Judge
  <2>1. CASE Due
    <3>1. sent # "last" /\ UNCHANGED <<box, queue, sent, transcript>> /\ last' = LastDue
      BY <1>2, <2>1, NotDueAfterLast DEF Judge
    <3>2. LastDue => 0 < transcript.lastPrompt
      BY DEF LastDue, TypeOK, TranscriptState, Time
    <3> QED
      BY <3>1, <3>2 DEF LastInv, LastAnswersPrompt, LastRemembered
  <2>2. CASE ~Due
    BY <1>2, <2>2, LastKept DEF Judge, EndPass
  <2> QED
    BY <2>1, <2>2
<1>3. CASE UseTool \/ EndTurn \/ Interrupt
  <2>1. UNCHANGED <<box, queue, sent, last, pc>>
    BY <1>3 DEF UseTool, EndTurn, Interrupt
  <2> QED
    BY <1>3, <2>1, TurnEffects, LastKept DEF LastInv
<1>4. CASE OperatorTypes \/ OperatorClears \/ Send
  <2>1. UNCHANGED <<queue, sent, transcript, last>>
    BY <1>4 DEF OperatorTypes, OperatorClears, Send
  <2>2. pc' \in {"look", "send", "enter"} => sent # "last"
    BY <1>4 DEF OperatorTypes, OperatorClears, Send, LastInv
  <2>3. LastAnswersPrompt'
    <3>1. CASE OperatorTypes
      <4>1. box' = Append(box, "draft") /\ \A i \in 1..Len(box) : box[i] # "draft"
        BY <3>1 DEF OperatorTypes, Contains
      <4>2. box \in {<<>>, <<"keepalive">>, <<"last">>}
        BY <4>1 DEF BoxInv, Boxes
      <4>3. box' \in {<<"draft">>, <<"keepalive", "draft">>, <<"last", "draft">>}
        BY <4>1, <4>2, Typed DEF Glyph3
      <4>4. box' = <<"last", "draft">> => box = <<"last">>
        BY <4>1, <4>2, Typed DEF Glyph3
      <4>5. box' \in {<<"last">>, <<"draft", "last">>, <<"last", "draft">>} => box = <<"last">>
        BY <4>3, <4>4
      <4> QED
        BY <2>1, <4>5 DEF LastInv, LastAnswersPrompt
    <3>2. CASE OperatorClears
      BY <2>1, <3>2 DEF OperatorClears, LastInv, LastAnswersPrompt
    <3>3. CASE Send
      <4>1. box \in {<<>>, <<"draft">>} /\ box' = Append(box, IF last THEN "last" ELSE "keepalive")
        BY <3>3 DEF Send, BoxInv
      <4>2. ~last => box' \in {<<"keepalive">>, <<"draft", "keepalive">>}
        BY <4>1, Typed DEF Glyph3
      <4>3. box' \in {<<"last">>, <<"draft", "last">>, <<"last", "draft">>} => last
        BY <4>2
      <4> QED
        BY <2>1, <4>3 DEF LastInv, LastAnswersPrompt
    <3> QED
      BY <1>4, <3>1, <3>2, <3>3
  <2>4. LastRemembered'
    BY <2>1 DEF LastInv, LastRemembered
  <2> QED
    BY <2>1, <2>2, <2>3, <2>4 DEF LastInv
<1>5. ASSUME NEW by \in {"keeper", "operator"}, Submit(by), UNCHANGED transcript, last' => last,
             (by = "operator" /\ pc' = pc) \/ (by = "keeper" /\ pc' = "asleep")
      PROVE  LastInv'
  <2>1. /\ Len(queue') = Len(queue) + 1 /\ Len(queue) \in Nat /\ box' = <<>>
        /\ \A i \in 1..Len(queue) : queue'[i] = queue[i]
        /\ queue'[Len(queue) + 1] = [text |-> TextOf(box), at |-> now, by |-> by]
    BY <1>5, SubmitType, LenProperties DEF TypeOK
  <2>2. \A i \in 1..Len(queue') : i \in 1..Len(queue) \/ i = Len(queue) + 1
    BY <2>1
  <2>3. TextOf(box) = "last" => box = <<"last">>
    BY <1>5 DEF TextOf, BoxInv, Boxes, Submit
  <2>4. LastAnswersPrompt'
    BY <1>5, <2>1, <2>2, <2>3 DEF LastInv, LastAnswersPrompt
  <2>5. LastRemembered'
    <3> SUFFICES ASSUME sent' = "last"
                 PROVE  \/ transcript.lastBumpSent /\ \A i \in 1..Len(queue') : queue'[i].text # "prompt"
                        \/ \E i \in 1..Len(queue') :
                             /\ queue'[i].text = "last" /\ queue'[i].by = "keeper"
                             /\ \A j \in 1..Len(queue') : i < j => queue'[j].text # "prompt"
      BY <1>5 DEF LastRemembered
    <3>1. CASE TextOf(box) = "last" /\ by = "keeper"
      BY <2>1, <2>2, <3>1
    <3>2. CASE ~(TextOf(box) = "last" /\ by = "keeper")
      <4>1. sent = "last" /\ TextOf(box) # "prompt"
        BY <1>5, <3>2 DEF Submit
      <4> QED
        BY <2>1, <2>2, <4>1 DEF LastInv, LastRemembered
    <3> QED
      BY <3>1, <3>2
  <2>6. pc' \in {"look", "send", "enter"} => sent' # "last"
    <3>1. by = "operator" => sent' \in {sent, "prompt"}
      BY <1>5 DEF Submit
    <3> QED
      BY <1>5, <3>1 DEF LastInv
  <2> QED
    BY <2>4, <2>5, <2>6 DEF LastInv
<1>6. CASE OperatorSubmits
  <2>1. Submit("operator") /\ UNCHANGED transcript /\ (last' => last) /\ UNCHANGED pc
    BY <1>6 DEF OperatorSubmits
  <2>2. "operator" \in {"keeper", "operator"}
    OBVIOUS
  <2> QED
    BY <1>5, <2>1, <2>2
<1>7. CASE Enter /\ Submit("keeper")
  BY <1>5, <1>7 DEF Enter, EndPass
<1>8. CASE Enter /\ ~Submit("keeper")
  <2>1. UNCHANGED <<box, queue, sent, transcript>> /\ last' = FALSE /\ pc' = "asleep"
    BY <1>8 DEF Enter, EndPass
  <2> QED
    BY <2>1, LastKept
<1>9. CASE Record
  <2>1. queue # <<>> /\ queue \in Seq(Prompt)
    BY <1>9 DEF Record, TypeOK
  <2>2. /\ queue' = Tail(queue) /\ Len(queue') = Len(queue) - 1 /\ Len(queue) \in Nat
        /\ \A i \in 1..Len(queue') : queue'[i] = queue[i + 1]
        /\ Head(queue) = queue[1] /\ 1 \in 1..Len(queue)
    <3>1. queue' = Tail(queue)
      BY <1>9 DEF Record
    <3>2. /\ Len(queue) \in Nat /\ Len(Tail(queue)) = Len(queue) - 1
          /\ \A i \in 1..Len(Tail(queue)) : Tail(queue)[i] = queue[i + 1]
      BY <2>1, HeadTailProperties, LenProperties
    <3>3. Head(queue) = queue[1] /\ Len(queue) > 0
      BY <2>1, <3>2, EmptySeq
    <3> QED
      BY <3>1, <3>2, <3>3
  <2> DEFINE text == queue[1].text
  <2>3. UNCHANGED <<box, pc, sent, last>>
    BY <1>9 DEF Record
  <2>4. transcript' = ApplyEntry(transcript, UserEntry(now, text))
    BY <1>9, <2>2 DEF Record
  <2>5. transcript \in TranscriptState(Time) /\ now \in Nat /\ 0 < now
    BY BoundAssumption DEF TypeOK, Time
  <2> HIDE DEF text
  <2>6. /\ transcript'.lastPrompt = IF text = "prompt" THEN now ELSE transcript.lastPrompt
        /\ text = "prompt" => transcript'.lastBumpSent = FALSE
        /\ text = "last" => transcript'.lastBumpSent = TRUE
        /\ text \notin {"prompt", "last"} => transcript'.lastBumpSent = transcript.lastBumpSent
    BY <2>4, <2>5 DEF ApplyEntry, ApplyUser, UserEntry, TranscriptState
  <2>7. \A i \in 1..Len(queue) : i = 1 \/ (i - 1 \in 1..Len(queue') /\ queue'[i - 1] = queue[i])
    BY <2>2
  <2>8. LastAnswersPrompt'
    <3> SUFFICES ASSUME \/ last \/ transcript'.lastBumpSent
                        \/ box \in {<<"last">>, <<"draft", "last">>, <<"last", "draft">>}
                        \/ \E i \in 1..Len(queue') : queue'[i].text = "last"
                 PROVE  0 < transcript'.lastPrompt
      BY <2>3 DEF LastAnswersPrompt
    <3>1. CASE text = "prompt"
      BY <2>5, <2>6, <3>1
    <3>2. CASE text # "prompt"
      <4>1. transcript'.lastBumpSent => transcript.lastBumpSent \/ queue[1].text = "last"
        BY <2>6, <3>2 DEF text
      <4>2. (\E i \in 1..Len(queue') : queue'[i].text = "last")
              => \E i \in 1..Len(queue) : queue[i].text = "last"
        BY <2>2
      <4> QED
        BY <2>2, <2>6, <3>2, <4>1, <4>2 DEF LastInv, LastAnswersPrompt
    <3> QED
      BY <3>1, <3>2
  <2>9. LastRemembered'
    <3> SUFFICES ASSUME sent = "last"
                 PROVE  \/ transcript'.lastBumpSent /\ \A i \in 1..Len(queue') : queue'[i].text # "prompt"
                        \/ \E i \in 1..Len(queue') :
                             /\ queue'[i].text = "last" /\ queue'[i].by = "keeper"
                             /\ \A j \in 1..Len(queue') : i < j => queue'[j].text # "prompt"
      BY <2>3 DEF LastRemembered
    <3>1. CASE transcript.lastBumpSent /\ \A i \in 1..Len(queue) : queue[i].text # "prompt"
      <4>1. text # "prompt"
        BY <2>2, <3>1 DEF text
      <4>2. transcript'.lastBumpSent
        BY <2>6, <3>1, <4>1
      <4> QED
        BY <2>2, <3>1, <4>2
    <3>2. ASSUME NEW i \in 1..Len(queue), queue[i].text = "last", queue[i].by = "keeper",
                 \A j \in 1..Len(queue) : i < j => queue[j].text # "prompt"
          PROVE  \/ transcript'.lastBumpSent /\ \A k \in 1..Len(queue') : queue'[k].text # "prompt"
                 \/ \E k \in 1..Len(queue') :
                      /\ queue'[k].text = "last" /\ queue'[k].by = "keeper"
                      /\ \A j \in 1..Len(queue') : k < j => queue'[j].text # "prompt"
      <4>1. CASE i = 1
        <5>1. transcript'.lastBumpSent
          BY <2>6, <3>2, <4>1 DEF text
        <5>2. \A k \in 1..Len(queue') : queue'[k].text # "prompt"
          BY <2>2, <3>2, <4>1
        <5> QED
          BY <5>1, <5>2
      <4>2. CASE i # 1
        <5>1. i - 1 \in 1..Len(queue') /\ queue'[i - 1] = queue[i]
          BY <2>7, <4>2
        <5>2. \A j \in 1..Len(queue') : i - 1 < j => queue'[j].text # "prompt"
          BY <2>2, <3>2
        <5> QED
          BY <3>2, <5>1, <5>2
      <4> QED
        BY <4>1, <4>2
    <3> QED
      BY <3>1, <3>2 DEF LastInv, LastRemembered
  <2> QED
    BY <2>3, <2>8, <2>9 DEF LastInv
<1> QED
  BY <1>1, <1>2, <1>3, <1>4, <1>6, <1>7, <1>8, <1>9 DEF Next

\* After its last bump the keeper sends none before the next real prompt, if the
\* session does not vanish from a list within a cooldown.
THEOREM SilentAfterLast == ASSUME ~ListMayFailSoon PROVE Spec => NoBumpAfterLast
<1>1. Init => LastInv
  BY DEF Init, LastInv, LastAnswersPrompt, LastRemembered, EmptyTranscript
<1>2. TypeOK /\ BoxInv /\ BumpInv /\ LastInv /\ [Next]_vars => LastInv'
  BY LastInductive
<1>3. LastInv => [(pc = "enter" /\ Len(queue') > Len(queue)
                     /\ queue'[Len(queue')].text \in {"keepalive", "last"})
                    => sent # "last"]_vars
  BY DEF LastInv
<1> QED
  BY <1>1, <1>2, <1>3, BoxAlways, BumpAlways, PTL DEF NoBumpAfterLast, Spec

-----------------------------------------------------------------------------
(* The cache of an idle session, pass after pass.                          *)

\* The keeper has decided to bump, and has not yet.
OnItsWay == pc \in {"look", "send", "enter"}

\* When the request of a reply started.
LEMMA ReplyTimes ==
  ASSUME NEW state \in TranscriptState(Time), NEW at, NEW context, NEW created \in Created,
         NEW stopReason, NEW after,
         after = ApplyEntry(state, Reply(at, context, created, stopReason))
  PROVE  /\ after.trigger = state.trigger
         /\ after.reqStart = IF state.trigger # 0 THEN state.trigger ELSE at
         /\ after.idle = (stopReason = "end_turn")
         /\ created = "nothing" => after.ttl = state.ttl
BY DEF ApplyEntry, ApplyReply, Reply, TranscriptState, Created

\* A turn that goes on, ends, or is interrupted.
LEMMA TurnGoesOn ==
  ASSUME TypeOK, UseTool
  PROVE  /\ turn = TRUE /\ turn' = turn
         /\ transcript'.trigger = now
         /\ transcript'.reqStart = IF transcript.trigger # 0 THEN transcript.trigger ELSE now
         /\ transcript'.ttl = transcript.ttl
         /\ transcript'.idle = FALSE
<1>0. transcript \in TranscriptState(Time) /\ turn \in BOOLEAN
  BY DEF TypeOK
<1>1. PICK context \in Contexts :
        transcript' = ApplyEntry(ApplyEntry(transcript, Reply(now, context, "nothing", "tool_use")),
                                 UserEntry(now, "none"))
  BY DEF UseTool
<1>2. PICK replied : replied = ApplyEntry(transcript, Reply(now, context, "nothing", "tool_use"))
  OBVIOUS
<1>3. replied \in TranscriptState(Time)
  BY <1>0, <1>2, ApplyEntryType DEF Created, TypeOK
<1>4. /\ replied.reqStart = IF transcript.trigger # 0 THEN transcript.trigger ELSE now
      /\ replied.ttl = transcript.ttl
  <2>1. "nothing" \in Created
    BY DEF Created
  <2> QED
    BY <1>0, <1>2, <2>1, ReplyTimes
<1>5. transcript' = ApplyEntry(replied, UserEntry(now, "none"))
  BY <1>1, <1>2
<1>6. /\ transcript'.trigger = now /\ transcript'.reqStart = replied.reqStart
      /\ transcript'.ttl = replied.ttl /\ transcript'.idle = ("none" = "interrupted")
  BY <1>3, <1>5 DEF ApplyEntry, ApplyUser, UserEntry, TranscriptState
<1>7. turn = TRUE /\ turn' = turn
  BY <1>0 DEF UseTool
<1> QED
  BY <1>4, <1>6, <1>7

LEMMA TurnEnds ==
  ASSUME TypeOK, EndTurn
  PROVE  /\ turn = TRUE /\ turn' = FALSE
         /\ transcript'.trigger = transcript.trigger
         /\ transcript'.reqStart = IF transcript.trigger # 0 THEN transcript.trigger ELSE now
         /\ transcript'.idle = TRUE
<1>0. transcript \in TranscriptState(Time) /\ turn \in BOOLEAN
  BY DEF TypeOK
<1>1. PICK context \in Contexts, created \in Created :
        transcript' = ApplyEntry(transcript, Reply(now, context, created, "end_turn"))
  BY DEF EndTurn
<1>2. /\ transcript'.trigger = transcript.trigger
      /\ transcript'.reqStart = IF transcript.trigger # 0 THEN transcript.trigger ELSE now
      /\ transcript'.idle = ("end_turn" = "end_turn")
  BY <1>0, <1>1, ReplyTimes
<1>3. turn = TRUE /\ turn' = FALSE
  BY <1>0 DEF EndTurn
<1> QED
  BY <1>2, <1>3

LEMMA TurnInterrupted ==
  ASSUME TypeOK, Interrupt
  PROVE  /\ turn = TRUE /\ turn' = FALSE
         /\ transcript'.trigger = now
         /\ transcript'.reqStart = transcript.reqStart
         /\ transcript'.ttl = transcript.ttl
         /\ transcript'.idle = TRUE
<1>0. transcript \in TranscriptState(Time) /\ turn \in BOOLEAN
  BY DEF TypeOK
<1>1. transcript' = ApplyEntry(transcript, UserEntry(now, "interrupted"))
  BY DEF Interrupt
<1>2. /\ transcript'.trigger = now /\ transcript'.reqStart = transcript.reqStart
      /\ transcript'.ttl = transcript.ttl
      /\ transcript'.idle = ("interrupted" = "interrupted")
  BY <1>0, <1>1 DEF ApplyEntry, ApplyUser, UserEntry, TranscriptState
<1>3. turn = TRUE /\ turn' = FALSE
  BY <1>0 DEF Interrupt
<1> QED
  BY <1>2, <1>3

\* The prompts that wait to be recorded are recorded in time.
QueueInv ==
  \A i \in 1..Len(queue) :
    /\ queue[i].at <= now /\ now <= queue[i].at + RecordDelay
    /\ queue[i].text \in {"prompt", "keepalive", "last", "keepalive and more"}

LEMMA TurnRecorded ==
  ASSUME TypeOK, QueueInv, Record, NEW text, text = queue[1].text
  PROVE  /\ 1 \in 1..Len(queue) /\ turn' = TRUE
         /\ Len(queue') = Len(queue) - 1
         /\ \A i \in 1..Len(queue') : i + 1 \in 1..Len(queue) /\ queue'[i] = queue[i + 1]
         /\ text \in {"prompt", "keepalive", "last", "keepalive and more"}
         /\ transcript'.trigger = now
         /\ transcript'.reqStart = transcript.reqStart
         /\ transcript'.ttl = transcript.ttl
         /\ transcript'.idle = FALSE
         /\ transcript'.lastPrompt = IF text = "prompt" THEN now ELSE transcript.lastPrompt
         /\ text = "prompt" => transcript'.lastBumpSent = FALSE
         /\ text = "last" => transcript'.lastBumpSent = TRUE
         /\ text \notin {"prompt", "last"} => transcript'.lastBumpSent = transcript.lastBumpSent
<1>1. queue # <<>> /\ queue \in Seq(Prompt) /\ transcript \in TranscriptState(Time)
  BY DEF Record, TypeOK
<1>2. /\ Len(queue) \in Nat /\ Len(Tail(queue)) = Len(queue) - 1 /\ Len(queue) > 0
      /\ \A i \in 1..Len(Tail(queue)) : Tail(queue)[i] = queue[i + 1]
      /\ Head(queue) = queue[1]
  BY <1>1, HeadTailProperties, LenProperties, EmptySeq
<1>3. queue' = Tail(queue) /\ turn' = TRUE
  BY DEF Record
<1>4. /\ 1 \in 1..Len(queue) /\ Len(queue') = Len(queue) - 1
      /\ \A i \in 1..Len(queue') : i + 1 \in 1..Len(queue) /\ queue'[i] = queue[i + 1]
  BY <1>2, <1>3
<1>5. text \in {"prompt", "keepalive", "last", "keepalive and more"}
  BY <1>4 DEF QueueInv
<1>6. transcript' = ApplyEntry(transcript, UserEntry(now, text))
  BY <1>2 DEF Record
<1>7. /\ transcript'.trigger = now
      /\ transcript'.reqStart = transcript.reqStart
      /\ transcript'.ttl = transcript.ttl
      /\ transcript'.idle = (text = "interrupted")
      /\ transcript'.lastPrompt = IF text = "prompt" THEN now ELSE transcript.lastPrompt
      /\ text = "prompt" => transcript'.lastBumpSent = FALSE
      /\ text = "last" => transcript'.lastBumpSent = TRUE
      /\ text \notin {"prompt", "last"} => transcript'.lastBumpSent = transcript.lastBumpSent
  BY <1>1, <1>6 DEF ApplyEntry, ApplyUser, UserEntry, TranscriptState
<1> QED
  BY <1>3, <1>4, <1>5, <1>7

\* The numbers and the truth values of a state.
LEMMA NumbersType ==
  ASSUME TypeOK
  PROVE  /\ {now, wake, lastBump, transcript.trigger, transcript.reqStart, transcript.ttl,
             transcript.lastPrompt, transcript.context} \subseteq Nat
         /\ 0 < now /\ transcript.ttl \in {0, ShortTtl, Ttl}
         /\ turn \in BOOLEAN /\ smooth \in BOOLEAN /\ last \in BOOLEAN
         /\ transcript.idle \in BOOLEAN /\ transcript.lastBumpSent \in BOOLEAN
<1>1. Time \subseteq Nat /\ Contexts \cup {0} \subseteq Nat /\ {0, ShortTtl, Ttl} \subseteq Nat
  BY BoundAssumption, ContextsAssumption, TtlAssumption DEF Time
<1>2. /\ now \in Time \ {0} /\ lastBump \in Time /\ wake \in Nat
      /\ turn \in BOOLEAN /\ smooth \in BOOLEAN /\ last \in BOOLEAN
      /\ transcript \in TranscriptState(Time)
  BY DEF TypeOK
<1>3. /\ {transcript.trigger, transcript.reqStart, transcript.lastPrompt} \subseteq Time
      /\ transcript.ttl \in {0, ShortTtl, Ttl} /\ transcript.context \in Contexts \cup {0}
      /\ transcript.idle \in BOOLEAN /\ transcript.lastBumpSent \in BOOLEAN
  BY <1>2 DEF TranscriptState
<1>4. /\ {now, wake, lastBump, transcript.trigger, transcript.reqStart, transcript.ttl,
          transcript.lastPrompt, transcript.context} \subseteq Nat
      /\ 0 < now
  <2>1. now \in Nat /\ now # 0 /\ lastBump \in Nat
    BY <1>1, <1>2
  <2>2. transcript.trigger \in Nat /\ transcript.reqStart \in Nat /\ transcript.lastPrompt \in Nat
    BY <1>1, <1>3
  <2>3. transcript.ttl \in Nat /\ transcript.context \in Nat
    BY <1>1, <1>3, Zenon
  <2> QED
    BY <1>2, <2>1, <2>2, <2>3
<1> QED
  BY <1>2, <1>3, <1>4, Zenon

LEMMA SettingsType ==
  /\ {Lead, MaxIdle, Interval, Cooldown, RecordDelay, Ttl, ShortTtl} \subseteq Nat
  /\ 0 < Interval /\ RecordDelay < Cooldown /\ 0 < ShortTtl /\ ShortTtl < Ttl
BY SettingsAssumption, ClaudeAssumption, TtlAssumption

LEMMA QueueInductive == TypeOK /\ QueueInv /\ [Next]_vars => QueueInv'
<1> SUFFICES ASSUME TypeOK, QueueInv, [Next]_vars PROVE QueueInv'
  OBVIOUS
<1>0. now \in Nat /\ RecordDelay \in Nat /\ queue \in Seq(Prompt)
  BY NumbersType, SettingsType DEF TypeOK
<1>1. CASE UNCHANGED <<now, queue>>
  BY <1>1 DEF QueueInv
<1>2. CASE Tick
  <2>1. /\ UNCHANGED queue /\ now' = now + 1
        /\ \A i \in 1..Len(queue) : now < queue[i].at + RecordDelay
    BY <1>2 DEF Tick, claudeVars
  <2>2. SUFFICES ASSUME NEW i \in 1..Len(queue)
                 PROVE  queue[i].at <= now + 1 /\ now + 1 <= queue[i].at + RecordDelay
    BY <2>1 DEF QueueInv
  <2>3. queue[i] \in Prompt
    BY <1>0, ElementOfSeq
  <2>4. queue[i].at \in Nat
    BY <2>3, BoundAssumption DEF Prompt, Time
  <2>5. now < queue[i].at + RecordDelay /\ queue[i].at <= now
    BY <2>1 DEF QueueInv
  <2> QED
    BY <1>0, <2>4, <2>5
<1>3. CASE Record
  <2>1. /\ now' = now /\ Len(queue') = Len(queue) - 1
        /\ \A i \in 1..Len(queue') : i + 1 \in 1..Len(queue) /\ queue'[i] = queue[i + 1]
    BY <1>3, TurnRecorded DEF Record
  <2> QED
    BY <2>1 DEF QueueInv
<1>4. ASSUME NEW by, Submit(by), now' = now PROVE QueueInv'
  <2>0. PICK prompt : prompt = [text |-> TextOf(box), at |-> now, by |-> by]
    OBVIOUS
  <2>1. queue' = Append(queue, prompt)
    BY <1>4, <2>0 DEF Submit
  <2>2. /\ prompt.at = now
        /\ prompt.text \in {"prompt", "keepalive", "last", "keepalive and more"}
    BY <2>0 DEF TextOf
  <2>3. /\ Len(queue) \in Nat /\ Len(queue') = Len(queue) + 1
        /\ \A i \in 1..Len(queue) : queue'[i] = queue[i]
        /\ queue'[Len(queue) + 1] = prompt
    BY <1>0, <2>1, LenProperties
  <2>4. SUFFICES ASSUME NEW i \in 1..Len(queue')
                 PROVE  /\ queue'[i].at <= now /\ now <= queue'[i].at + RecordDelay
                        /\ queue'[i].text \in {"prompt", "keepalive", "last", "keepalive and more"}
    BY <1>4 DEF QueueInv
  <2>5. CASE i \in 1..Len(queue)
    BY <2>3, <2>5 DEF QueueInv
  <2>6. CASE i = Len(queue) + 1
    <3>1. queue'[i] = prompt
      BY <2>3, <2>6
    <3>2. /\ queue'[i].at = now
          /\ queue'[i].text \in {"prompt", "keepalive", "last", "keepalive and more"}
      BY <2>2, <3>1, Zenon
    <3>3. now <= now /\ now <= now + RecordDelay
      BY <1>0
    <3> QED
      BY <3>2, <3>3, Zenon
  <2>7. i \in 1..Len(queue) \/ i = Len(queue) + 1
    BY <2>3
  <2> QED
    BY <2>5, <2>6, <2>7
<1>5. CASE OperatorSubmits
  BY <1>4, <1>5 DEF OperatorSubmits
<1>6. CASE Enter
  BY <1>1, <1>4, <1>6 DEF Enter
<1>7. CASE UseTool \/ EndTurn \/ Interrupt \/ OperatorTypes \/ OperatorClears
  BY <1>1, <1>7 DEF UseTool, EndTurn, Interrupt, OperatorTypes, OperatorClears, claudeVars
<1>8. CASE StartPass \/ ListFails \/ Excused \/ Judge \/ Look \/ Send \/ EnterLost \/ GiveUp
  BY <1>1, <1>8 DEF StartPass, ListFails, Excused, Judge, Look, Send, EnterLost, GiveUp, claudeVars
<1>9. CASE UNCHANGED vars
  BY <1>1, <1>9 DEF vars, claudeVars
<1> QED
  BY <1>2, <1>3, <1>5, <1>6, <1>7, <1>8, <1>9 DEF Next

\* How the times of the transcript, of the keeper's passes and of its bumps lie.
TimesInv ==
  /\ lastBump <= now /\ transcript.trigger <= now /\ transcript.lastPrompt <= now
  /\ transcript.reqStart <= transcript.trigger
  /\ transcript.ttl # 0 => transcript.reqStart # 0
  /\ pc = "asleep" => now <= wake /\ wake <= now + Interval
  /\ turn => ~transcript.idle /\ 0 < transcript.trigger /\ lastBump <= transcript.trigger
  /\ OnItsWay =>
       /\ turn => transcript.trigger = now
       /\ transcript.reqStart < now => transcript.reqStart + Ttl <= now + Lead
  /\ transcript.reqStart < lastBump => transcript.reqStart + Ttl <= lastBump + Lead

\* A step of the keeper that neither starts nor makes a bump.
LEMMA TimesKept ==
  ASSUME TypeOK, TimesInv, UNCHANGED <<now, transcript, turn, lastBump>>,
         pc' = "asleep" => \/ wake' = now + Interval
                           \/ pc = "asleep" /\ wake' = wake,
         OnItsWay' => OnItsWay
  PROVE  TimesInv'
<1>1. now \in Nat /\ Interval \in Nat
  BY NumbersType, SettingsType
<1> QED
  BY <1>1 DEF TimesInv

LEMMA TimesInductive == TypeOK /\ QueueInv /\ TimesInv /\ [Next]_vars => TimesInv'
<1> SUFFICES ASSUME TypeOK, QueueInv, TimesInv, [Next]_vars PROVE TimesInv'
  OBVIOUS
<1>0. /\ {now, wake, lastBump, transcript.trigger, transcript.reqStart, transcript.ttl,
          transcript.lastPrompt} \subseteq Nat
      /\ {Ttl, Lead, Interval} \subseteq Nat /\ 0 < now
  BY NumbersType, SettingsType
<1>1. CASE Tick
  <2>1. /\ now' = now + 1 /\ pc = "asleep" /\ now < wake
        /\ UNCHANGED <<transcript, turn, lastBump, pc, wake>>
    BY <1>1 DEF Tick, claudeVars, keeperVars
  <2> QED
    BY <1>0, <2>1 DEF TimesInv, OnItsWay
<1>2. CASE \/ OperatorTypes \/ OperatorClears \/ OperatorSubmits \/ UNCHANGED vars
  <2>1. UNCHANGED <<now, transcript, turn, lastBump, pc, wake>>
    BY <1>2 DEF OperatorTypes, OperatorClears, OperatorSubmits, claudeVars, keeperVars, vars
  <2> QED
    BY <2>1, TimesKept DEF OnItsWay
<1>3. CASE StartPass \/ Excused \/ Look \/ Send \/ GiveUp
  <2>1. /\ UNCHANGED <<now, transcript, turn, lastBump>>
        /\ pc' = "asleep" => wake' = now + Interval
        /\ OnItsWay' => OnItsWay
    BY <1>3 DEF StartPass, Excused, Look, Send, GiveUp, EndPass, claudeVars, OnItsWay
  <2> QED
    BY <2>1, TimesKept
<1>4. CASE Judge
  <2>1. UNCHANGED <<now, transcript, turn, lastBump>>
    BY <1>4 DEF Judge, claudeVars
  <2>2. CASE ~Due
    <3>1. pc' = "asleep" /\ wake' = now + Interval
      BY <1>4, <2>2 DEF Judge, EndPass
    <3> QED
      BY <2>1, <3>1, TimesKept DEF OnItsWay
  <2>3. CASE Due
    <3>1. /\ pc' = "look" /\ transcript.idle /\ transcript.ttl = Ttl
          /\ transcript.reqStart + transcript.ttl <= now + Lead
      BY <1>4, <2>3 DEF Judge, Due, Expiry
    <3> QED
      BY <1>0, <2>1, <3>1 DEF TimesInv, OnItsWay
  <2> QED
    BY <2>2, <2>3
<1>5. CASE ListFails
  <2>1. /\ UNCHANGED <<now, transcript, turn>> /\ lastBump' = 0
        /\ pc' = "asleep" /\ wake' = now + Interval
    BY <1>5 DEF ListFails, EndPass, claudeVars
  <2> QED
    BY <1>0, <2>1 DEF TimesInv, OnItsWay
<1>6. CASE Enter \/ EnterLost
  <2>1. /\ UNCHANGED <<now, transcript, turn>> /\ lastBump' = now
        /\ OnItsWay /\ pc' = "asleep" /\ wake' = now + Interval
    BY <1>6 DEF Enter, EnterLost, EndPass, claudeVars, OnItsWay
  <2>2. ~OnItsWay'
    BY <2>1 DEF OnItsWay
  <2> QED
    BY <1>0, <2>1, <2>2 DEF TimesInv
<1>7. CASE Record
  <2>1. UNCHANGED <<now, pc, wake, lastBump>>
    BY <1>7 DEF Record, keeperVars
  <2>2. OnItsWay' <=> OnItsWay
    BY <2>1 DEF OnItsWay
  <2>3. /\ transcript'.trigger = now /\ transcript'.idle = FALSE
        /\ transcript'.reqStart = transcript.reqStart /\ transcript'.ttl = transcript.ttl
        /\ transcript'.lastPrompt \in {now, transcript.lastPrompt}
    BY <1>7, TurnRecorded
  <2> QED
    BY <1>0, <2>1, <2>2, <2>3 DEF TimesInv
<1>8. CASE UseTool \/ EndTurn
  <2>1. UNCHANGED <<now, pc, wake, lastBump>>
    BY <1>8 DEF UseTool, EndTurn, keeperVars
  <2>2. OnItsWay' <=> OnItsWay
    BY <2>1 DEF OnItsWay
  <2>3. transcript'.lastPrompt = transcript.lastPrompt
    BY <1>8, TurnEffects
  <2>4. /\ turn = TRUE /\ 0 < transcript.trigger
        /\ transcript'.reqStart = transcript.trigger
        /\ \/ transcript'.trigger = now /\ transcript'.idle = FALSE
           \/ transcript'.trigger = transcript.trigger /\ turn' = FALSE
    <3>1. turn = TRUE
      BY <1>8, TurnGoesOn, TurnEnds
    <3>2. 0 < transcript.trigger
      BY <3>1 DEF TimesInv
    <3>3. transcript'.reqStart = transcript.trigger
      <4>1. transcript'.reqStart = IF transcript.trigger # 0 THEN transcript.trigger ELSE now
        BY <1>8, TurnGoesOn, TurnEnds
      <4>2. transcript.trigger # 0
        BY <1>0, <3>2
      <4> QED
        BY <4>1, <4>2
    <3>4. \/ transcript'.trigger = now /\ transcript'.idle = FALSE
          \/ transcript'.trigger = transcript.trigger /\ turn' = FALSE
      BY <1>8, TurnGoesOn, TurnEnds
    <3> QED
      BY <3>1, <3>2, <3>3, <3>4, Zenon
  <2> QED
    BY <1>0, <2>1, <2>2, <2>3, <2>4 DEF TimesInv
<1>9. CASE Interrupt
  <2>1. UNCHANGED <<now, pc, wake, lastBump>>
    BY <1>9 DEF Interrupt, keeperVars
  <2>2. OnItsWay' <=> OnItsWay
    BY <2>1 DEF OnItsWay
  <2>3. /\ turn' = FALSE /\ transcript'.trigger = now /\ transcript'.ttl = transcript.ttl
        /\ transcript'.reqStart = transcript.reqStart
        /\ transcript'.lastPrompt = transcript.lastPrompt
    BY <1>9, TurnInterrupted, TurnEffects
  <2> QED
    BY <1>0, <2>1, <2>2, <2>3 DEF TimesInv
<1> QED
  BY <1>1, <1>2, <1>3, <1>4, <1>5, <1>6, <1>7, <1>8, <1>9 DEF Next

LEMMA TimesAlways == Spec => [](TypeOK /\ QueueInv /\ TimesInv)
<1>1. Init => QueueInv /\ TimesInv
  <2>1. Init => QueueInv
    <3>1. SUFFICES ASSUME Init, NEW i \in 1..Len(queue) PROVE FALSE
      BY DEF QueueInv
    <3>2. queue = <<>>
      BY <3>1 DEF Init
    <3> QED
      BY <3>2
  <2>2. Init => TimesInv
    BY SettingsType DEF Init, TimesInv, EmptyTranscript, OnItsWay
  <2> QED
    BY <2>1, <2>2
<1>2. TypeOK /\ QueueInv /\ [Next]_vars => QueueInv'
  BY QueueInductive
<1>3. TypeOK /\ QueueInv /\ TimesInv /\ [Next]_vars => TimesInv'
  BY TimesInductive
<1> QED
  BY <1>1, <1>2, <1>3, TypeInitial, TypeInductive, PTL DEF Spec

\* What the keeper types.
OwnBump == IF last THEN "last" ELSE "keepalive"

\* As long as nothing hinders the keeper, the box holds its bump or nothing, and a
\* session that becomes idle does so long enough before its cache expires.
SmoothInv ==
  smooth =>
    /\ 0 < transcript.lastPrompt
    /\ box # <<>> => pc = "enter" /\ box = <<OwnBump>>
    /\ pc = "enter" /\ box = <<>> => queue # <<>> \/ turn \/ transcript.reqStart = now
    /\ transcript.idle =>
         /\ transcript.ttl = Ttl /\ \A m \in MinContexts : m <= transcript.context
         /\ queue = <<>> => lastBump <= transcript.reqStart

\* Most of what hinders the keeper shows at once.
LEMMA Hindrances ==
  ASSUME OperatorTypes \/ ListFails \/ Excused \/ EnterLost \/ GiveUp
  PROVE  smooth' = FALSE
BY DEF OperatorTypes, ListFails, Excused, EnterLost, GiveUp

\* The operator can clear only a box that nobody but the keeper has typed into.
LEMMA ClearingHinders ==
  ASSUME SmoothInv, OperatorClears PROVE smooth' = FALSE
<1>1. smooth' = (smooth /\ box = <<"draft">>) /\ box # <<>>
  BY DEF OperatorClears
<1>2. OwnBump # "draft"
  BY DEF OwnBump
<1>3. smooth => box # <<"draft">>
  BY <1>1, <1>2 DEF SmoothInv
<1> QED
  BY <1>1, <1>3

\* The keeper looks into an empty box, and types its bump there.
LEMMA LookedAtEmpty ==
  ASSUME TypeOK, SmoothInv, smooth, Look
  PROVE  box = <<>> /\ pc' = "send" /\ last' = last
<1>1. box = <<>> /\ box \in Seq(Glyph3)
  BY DEF SmoothInv, Look, TypeOK, Glyph3
<1>2. \A screen \in Screens(box) : TypedText(screen) = <<>>
  BY <1>1, ScreensAreRead
<1> QED
  BY <1>1, <1>2 DEF Look

LEMMA SentIntoEmpty ==
  ASSUME SmoothInv, smooth, Send
  PROVE  box' = <<OwnBump>> /\ OwnBump' = OwnBump /\ pc' = "enter"
<1>1. box = <<>>
  BY DEF SmoothInv, Send
<1>2. box' = Append(box, OwnBump) /\ last' = last /\ pc' = "enter"
  BY DEF Send, OwnBump
<1>3. OwnBump \in Glyph3
  BY DEF OwnBump, Glyph3
<1>4. Append(<<>>, OwnBump) = <<OwnBump>>
  BY <1>3, Typed
<1>5. OwnBump' = OwnBump
  BY <1>2 DEF OwnBump
<1> QED
  BY <1>1, <1>2, <1>4, <1>5, Zenon

\* What an Enter submits: the bump, or nothing if somebody else has submitted it.
LEMMA Submitted ==
  ASSUME TypeOK, SmoothInv, smooth, NEW by, Submit(by)
  PROVE  /\ pc = "enter"
         /\ queue' = Append(queue, [text |-> OwnBump, at |-> now, by |-> by])
         /\ queue' # <<>>
         /\ box' = <<>>
         /\ sent' = IF by = "keeper" THEN OwnBump ELSE sent
<1>1. box # <<>> /\ pc = "enter" /\ box = <<OwnBump>>
  BY DEF Submit, SmoothInv
<1>2. TextOf(box) = OwnBump /\ TextOf(box) # "prompt" /\ box \in Keepalives
  <2>1. TextOf(<<"last">>) = "last" /\ TextOf(<<"keepalive">>) = "keepalive"
    BY DEF TextOf
  <2>2. OwnBump \in {"last", "keepalive"}
    BY DEF OwnBump
  <2> QED
    BY <1>1, <2>1, <2>2 DEF Keepalives
<1>3. /\ queue' = Append(queue, [text |-> TextOf(box), at |-> now, by |-> by])
      /\ box' = <<>>
      /\ sent' = IF TextOf(box) = "prompt" \/ (by = "keeper" /\ box \in Keepalives)
                   THEN TextOf(box) ELSE sent
  BY DEF Submit
<1>4. queue' # <<>>
  BY <1>3 DEF TypeOK
<1> QED
  BY <1>1, <1>2, <1>3, <1>4

\* A turn that ends in time ends after the last bump.
LEMMA EndsInTime ==
  ASSUME TypeOK, TimesInv, EndTurn \/ Interrupt, InGoodTime(transcript')
  PROVE  /\ lastBump <= transcript'.reqStart
         /\ OnItsWay => transcript'.reqStart = now
         /\ now + Lead < transcript'.reqStart + Ttl
         /\ transcript'.ttl = Ttl /\ \A m \in MinContexts : m <= transcript'.context
         /\ turn /\ transcript'.reqStart <= transcript.trigger
<1>0. /\ {now, lastBump, transcript.trigger, transcript.reqStart} \subseteq Nat
      /\ {Ttl, Lead} \subseteq Nat
  BY NumbersType, SettingsType
<1>1. /\ now + Lead < transcript'.reqStart + Ttl
      /\ transcript'.ttl = Ttl /\ \A m \in MinContexts : m <= transcript'.context
  BY DEF InGoodTime
<1>2. CASE EndTurn
  <2>1. turn /\ transcript'.reqStart = transcript.trigger
    <3>1. /\ turn = TRUE
          /\ transcript'.reqStart = IF transcript.trigger # 0 THEN transcript.trigger ELSE now
      BY <1>2, TurnEnds
    <3>2. transcript.trigger # 0
      BY <1>0, <3>1 DEF TimesInv
    <3> QED
      BY <3>1, <3>2
  <2>2. lastBump <= transcript.trigger /\ (OnItsWay => transcript.trigger = now)
    BY <2>1 DEF TimesInv
  <2> QED
    BY <1>0, <1>1, <2>1, <2>2
<1>3. CASE Interrupt
  <2>1. turn = TRUE /\ transcript'.reqStart = transcript.reqStart
    BY <1>3, TurnInterrupted
  <2> QED
    BY <1>0, <1>1, <2>1 DEF TimesInv
<1> QED
  BY <1>2, <1>3

LEMMA SmoothInductive ==
  TypeOK /\ QueueInv /\ TimesInv /\ SmoothInv /\ [Next]_vars => SmoothInv'
<1> SUFFICES ASSUME TypeOK, QueueInv, TimesInv, SmoothInv, [Next]_vars, smooth'
             PROVE  SmoothInv'
  BY DEF SmoothInv
<1> USE DEF claudeVars, keeperVars, historyVars
<1>0. {now, transcript.lastPrompt} \subseteq Nat /\ 0 < now
  BY NumbersType
<1>1. CASE Tick \/ UNCHANGED vars
  <2>1. /\ UNCHANGED <<transcript, turn, box, queue, pc, last, lastBump, smooth>>
        /\ now' = now \/ pc = "asleep"
    BY <1>1 DEF Tick, vars
  <2> QED
    BY <2>1 DEF SmoothInv, OwnBump
<1>2. CASE OperatorTypes \/ ListFails \/ Excused \/ EnterLost \/ GiveUp \/ OperatorClears
  BY <1>2, Hindrances, ClearingHinders
<1>3. CASE OperatorSubmits
  <2>1. Submit("operator") /\ UNCHANGED <<transcript, smooth>>
    BY <1>3 DEF OperatorSubmits
  <2>2. queue' # <<>> /\ box' = <<>>
    BY <2>1, Submitted
  <2> QED
    BY <2>1, <2>2 DEF SmoothInv
<1>4. CASE Record
  <2>1. turn' = TRUE /\ transcript'.idle = FALSE
    BY <1>4, TurnRecorded
  <2>2. UNCHANGED <<box, pc, last>>
    BY <1>4 DEF Record
  <2>3. \/ smooth /\ transcript'.lastPrompt \in {now, transcript.lastPrompt}
        \/ box = <<>> /\ transcript'.lastPrompt = now
    <3>1. Head(queue) = queue[1]
      <4>1. queue \in Seq(Prompt) /\ queue # <<>>
        BY <1>4 DEF Record, TypeOK
      <4> QED
        BY <4>1, HeadTailProperties
    <3>2. transcript'.lastPrompt =
            IF Head(queue).text = "prompt" THEN now ELSE transcript.lastPrompt
      BY <1>4, <3>1, TurnRecorded
    <3>3. smooth' = CASE Head(queue).text = "prompt"             -> box = <<>>
                      [] Head(queue).text = "keepalive and more" -> FALSE
                      [] OTHER                                   -> smooth
      BY <1>4 DEF Record
    <3> QED
      BY <3>2, <3>3
  <2> QED
    BY <1>0, <2>1, <2>2, <2>3 DEF SmoothInv, OwnBump
<1>5. CASE UseTool
  <2>1. turn' = TRUE /\ transcript'.idle = FALSE
    BY <1>5, TurnGoesOn
  <2>2. UNCHANGED <<box, pc, last, queue>> /\ smooth
    BY <1>5 DEF UseTool
  <2>3. transcript'.lastPrompt = transcript.lastPrompt
    BY <1>5, TurnEffects
  <2> QED
    BY <2>1, <2>2, <2>3 DEF SmoothInv, OwnBump
<1>6. CASE EndTurn \/ Interrupt
  <2>1. UNCHANGED <<now, box, pc, last, lastBump, queue>> /\ smooth /\ InGoodTime(transcript')
    BY <1>6 DEF EndTurn, Interrupt
  <2>2. transcript'.lastPrompt = transcript.lastPrompt
    BY <1>6, TurnEffects
  <2>3. /\ lastBump <= transcript'.reqStart
        /\ OnItsWay => transcript'.reqStart = now
        /\ transcript'.ttl = Ttl /\ \A m \in MinContexts : m <= transcript'.context
    BY <1>6, <2>1, EndsInTime
  <2> QED
    BY <2>1, <2>2, <2>3 DEF SmoothInv, OwnBump, OnItsWay
<1>7. CASE StartPass \/ Judge
  <2>1. /\ UNCHANGED <<transcript, box, queue, lastBump, smooth>>
        /\ pc # "enter" /\ pc' # "enter"
    BY <1>7 DEF StartPass, Judge, EndPass
  <2> QED
    BY <2>1 DEF SmoothInv
<1>8. CASE Look
  <2>1. UNCHANGED <<transcript, box, queue, lastBump, smooth>>
    BY <1>8 DEF Look
  <2>2. box = <<>> /\ pc' = "send"
    BY <1>8, <2>1, LookedAtEmpty
  <2> QED
    BY <2>1, <2>2 DEF SmoothInv
<1>9. CASE Send
  <2>1. UNCHANGED <<transcript, queue, lastBump, smooth>>
    BY <1>9 DEF Send
  <2>2. box' = <<OwnBump>> /\ OwnBump' = OwnBump /\ pc' = "enter"
    BY <1>9, <2>1, SentIntoEmpty
  <2> QED
    BY <2>1, <2>2 DEF SmoothInv
<1>10. CASE Enter
  <2>1. UNCHANGED <<transcript, turn, smooth>> /\ pc = "enter" /\ pc' = "asleep" /\ lastBump' = now
    BY <1>10 DEF Enter, EndPass
  <2>2. CASE Submit("keeper")
    BY <2>1, <2>2, Submitted DEF SmoothInv
  <2>3. CASE box = <<>> /\ UNCHANGED <<box, queue>>
    <3>1. queue # <<>> \/ turn \/ transcript.reqStart = now
      BY <2>1, <2>3 DEF SmoothInv
    <3>2. transcript.idle => ~turn
      BY DEF TimesInv
    <3>3. transcript.idle /\ queue = <<>> => now <= transcript.reqStart
      BY <1>0, <3>1, <3>2
    <3> QED
      BY <2>1, <2>3, <3>3 DEF SmoothInv
  <2> QED
    BY <1>10, <2>2, <2>3 DEF Enter
<1> QED
  BY <1>1, <1>2, <1>3, <1>4, <1>5, <1>6, <1>7, <1>8, <1>9, <1>10 DEF Next

LEMMA SmoothAlways == Spec => [](TypeOK /\ QueueInv /\ TimesInv /\ SmoothInv)
<1>1. Init => SmoothInv
  BY DEF Init, SmoothInv
<1>2. TypeOK /\ QueueInv /\ TimesInv /\ SmoothInv /\ [Next]_vars => SmoothInv'
  BY SmoothInductive
<1> QED
  BY <1>1, <1>2, TimesAlways, PTL DEF Spec

\* The session is idle and the keeper still wants to keep its cache.
Guarded == smooth /\ transcript.idle /\ ~transcript.lastBumpSent /\ queue = <<>> /\ ~PastMaxIdle

\* The keeper is back before the cache of a guarded session expires.
WarmInv == Guarded => IF pc = "asleep" THEN wake < Expiry ELSE now < Expiry

\* A guarded session that is not due is not in its lead yet, or has just been bumped.
LEMMA NotDueYet ==
  ASSUME TypeOK, TimesInv, SmoothInv, Guarded, ~Due, now < Expiry
  PROVE  /\ Expiry = transcript.reqStart + Ttl
         /\ \/ now + Lead < Expiry
            \/ now < transcript.reqStart + Cooldown
<1>0. /\ {now, lastBump, transcript.reqStart, transcript.ttl, transcript.lastPrompt,
          transcript.context} \subseteq Nat
      /\ {Ttl, Lead, Cooldown} \subseteq Nat /\ 0 < Ttl
  BY NumbersType, SettingsType
<1>1. /\ transcript.ttl = Ttl /\ \A m \in MinContexts : m <= transcript.context
      /\ lastBump <= transcript.reqStart
  BY DEF Guarded, SmoothInv
<1>2. transcript.ttl # 0 /\ transcript.reqStart # 0
  BY <1>0, <1>1 DEF TimesInv
<1>3. Expiry = transcript.reqStart + Ttl /\ Expiry \in Nat
  BY <1>0, <1>1 DEF Expiry
<1>4. minContext <= transcript.context
  BY <1>1 DEF TypeOK
<1>5. ~(Expiry <= now + Lead) \/ CoolingDown
  BY <1>1, <1>2, <1>4 DEF Guarded, Due
<1>6. CASE CoolingDown
  BY <1>0, <1>1, <1>3, <1>6 DEF CoolingDown
<1>7. CASE ~(Expiry <= now + Lead)
  BY <1>0, <1>3, <1>7
<1> QED
  BY <1>5, <1>6, <1>7

LEMMA WarmInductive ==
  ASSUME Interval <= Lead, Cooldown + Interval <= Ttl
  PROVE  TypeOK /\ QueueInv /\ TimesInv /\ SmoothInv /\ WarmInv /\ [Next]_vars => WarmInv'
<1> SUFFICES ASSUME TypeOK, QueueInv, TimesInv, SmoothInv, WarmInv, [Next]_vars, Guarded'
             PROVE  IF pc' = "asleep" THEN wake' < Expiry' ELSE now' < Expiry'
  BY DEF WarmInv
<1> USE DEF claudeVars, keeperVars, historyVars
<1>0. /\ {now, wake, transcript.reqStart, transcript.ttl, transcript.lastPrompt} \subseteq Nat
      /\ {Ttl, Lead, Interval, Cooldown, MaxIdle} \subseteq Nat /\ 0 < Cooldown
  BY NumbersType, SettingsType
<1>1. Expiry \in Nat
  BY <1>0 DEF Expiry
<1>2. smooth' /\ transcript'.idle /\ queue' = <<>>
  BY DEF Guarded
<1>3. CASE Tick
  <2>1. UNCHANGED <<transcript, queue, smooth, pc, wake>> /\ pc = "asleep" /\ now' = now + 1
    BY <1>3 DEF Tick
  <2>2. PastMaxIdle => PastMaxIdle'
    BY <1>0, <2>1 DEF PastMaxIdle
  <2>3. Guarded
    BY <2>1, <2>2 DEF Guarded
  <2> QED
    BY <2>1, <2>3 DEF WarmInv, Expiry
<1>4. CASE OperatorTypes \/ ListFails \/ Excused \/ EnterLost \/ GiveUp \/ OperatorClears
  BY <1>2, <1>4, Hindrances, ClearingHinders
<1>5. CASE OperatorSubmits
  <2>1. Submit("operator") /\ smooth' = smooth
    BY <1>5 DEF OperatorSubmits
  <2> QED
    BY <1>2, <2>1, Submitted
<1>6. CASE Record \/ UseTool
  BY <1>2, <1>6, TurnRecorded, TurnGoesOn
<1>7. CASE EndTurn \/ Interrupt
  <2>1. UNCHANGED <<now, pc, wake>> /\ InGoodTime(transcript')
    BY <1>2, <1>7 DEF EndTurn, Interrupt
  <2>2. /\ now + Lead < transcript'.reqStart + Ttl /\ transcript'.ttl = Ttl
        /\ transcript'.reqStart <= transcript.trigger
    BY <1>7, <2>1, EndsInTime
  <2>3. Expiry' = transcript'.reqStart + Ttl
    BY <2>2 DEF Expiry
  <2>4. now + Lead < Expiry'
    BY <2>2, <2>3
  <2>5. pc = "asleep" => wake <= now + Interval
    BY DEF TimesInv
  <2>6. Expiry' \in Nat
    <3>1. transcript'.reqStart \in Nat
      <4>1. \/ transcript'.reqStart \in {transcript.reqStart, transcript.trigger, now}
        BY <1>7, TurnEnds, TurnInterrupted
      <4> QED
        BY <4>1, NumbersType
    <3> QED
      BY <1>0, <2>3, <3>1
  <2> QED
    BY <1>0, <2>1, <2>4, <2>5, <2>6
<1>8. CASE StartPass
  <2>1. /\ UNCHANGED <<now, transcript, queue, smooth>>
        /\ pc = "asleep" /\ pc' = "judge" /\ now <= wake
    BY <1>8 DEF StartPass, TimesInv
  <2>2. Guarded /\ Expiry' = Expiry
    BY <2>1 DEF Guarded, PastMaxIdle, Expiry
  <2>3. wake < Expiry
    BY <2>1, <2>2 DEF WarmInv
  <2> QED
    BY <1>0, <1>1, <2>1, <2>2, <2>3
<1>9. CASE Judge
  <2>1. UNCHANGED <<now, transcript, queue, smooth>> /\ pc # "asleep"
    BY <1>9 DEF Judge
  <2>2. Guarded /\ Expiry' = Expiry
    BY <2>1 DEF Guarded, PastMaxIdle, Expiry
  <2>3. now < Expiry
    BY <2>1, <2>2 DEF WarmInv
  <2>4. CASE Due
    BY <1>9, <2>1, <2>2, <2>3, <2>4 DEF Judge
  <2>5. CASE ~Due
    <3>1. pc' = "asleep" /\ wake' = now + Interval
      BY <1>9, <2>5 DEF Judge, EndPass
    <3>2. /\ Expiry = transcript.reqStart + Ttl
          /\ now + Lead < Expiry \/ now < transcript.reqStart + Cooldown
      BY <2>2, <2>3, <2>5, NotDueYet
    <3>3. now + Interval < Expiry
      BY <1>0, <3>2
    <3> QED
      BY <2>2, <3>1, <3>3
  <2> QED
    BY <2>4, <2>5
<1>10. CASE Look \/ Send
  <2>1. UNCHANGED <<now, transcript, queue, smooth>> /\ pc # "asleep"
    BY <1>10 DEF Look, Send
  <2>2. Guarded /\ Expiry' = Expiry
    BY <2>1 DEF Guarded, PastMaxIdle, Expiry
  <2>3. now < Expiry
    BY <2>1, <2>2 DEF WarmInv
  <2>4. pc' # "asleep"
    BY <1>2, <1>10, <2>1, LookedAtEmpty DEF Send
  <2> QED
    BY <2>1, <2>2, <2>3, <2>4
<1>11. CASE Enter
  <2>1. /\ UNCHANGED <<now, transcript, turn, smooth>> /\ pc = "enter"
        /\ pc' = "asleep" /\ wake' = now + Interval
    BY <1>11 DEF Enter, EndPass
  <2>2. box = <<>> /\ queue = <<>>
    <3>1. ~Submit("keeper")
      BY <1>2, <2>1, Submitted
    <3> QED
      BY <1>2, <1>11, <3>1 DEF Enter
  <2>3. transcript.reqStart = now /\ transcript.ttl = Ttl
    BY <1>2, <2>1, <2>2 DEF SmoothInv, TimesInv
  <2>4. Expiry' = now + Ttl
    BY <2>1, <2>3 DEF Expiry
  <2> QED
    BY <1>0, <2>1, <2>4
<1>12. CASE UNCHANGED vars
  BY <1>12 DEF vars, WarmInv, Guarded, PastMaxIdle, Expiry
<1> QED
  BY <1>3, <1>4, <1>5, <1>6, <1>7, <1>8, <1>9, <1>10, <1>11, <1>12 DEF Next

\* The keeper comes by often enough: the cache of an idle session that nothing
\* hindered it from bumping is warm until --max-idle is over or the last bump is
\* sent, if the interval is not longer than the lead and the cooldown leaves a pass
\* within the lifetime of the cache, as with the defaults.
THEOREM CacheStaysWarm ==
  ASSUME Interval <= Lead, Cooldown + Interval <= Ttl PROVE Spec => []KeptWarm
<1>1. Init => WarmInv
  BY DEF Init, WarmInv, Guarded
<1>2. TypeOK /\ QueueInv /\ TimesInv /\ SmoothInv /\ WarmInv /\ [Next]_vars => WarmInv'
  BY WarmInductive
<1>3. TypeOK /\ TimesInv /\ WarmInv => KeptWarm
  <2> SUFFICES ASSUME TypeOK, TimesInv, WarmInv, Guarded PROVE now < Expiry
    BY DEF KeptWarm, Guarded
  <2>1. {now, wake, transcript.reqStart, transcript.ttl} \subseteq Nat
    BY NumbersType
  <2>2. pc = "asleep" => now <= wake
    BY DEF TimesInv
  <2>3. IF pc = "asleep" THEN wake < Expiry ELSE now < Expiry
    BY DEF WarmInv
  <2> QED
    BY <2>1, <2>2, <2>3 DEF Expiry
<1> QED
  BY <1>1, <1>2, <1>3, SmoothAlways, PTL DEF Spec

-----------------------------------------------------------------------------
(* The end of --max-idle.                                                  *)

\* After a bump at this time, a next one still comes before --max-idle is over.
LeavesNext(time, prompted) == time + Ttl + Interval <= prompted + MaxIdle + Lead

\* The keeper types a plain keepalive only if a next one follows.
NextFollows ==
  /\ OnItsWay /\ ~last => transcript.lastPrompt = 0 \/ LeavesNext(now, transcript.lastPrompt)
  /\ smooth => \A i \in 1..Len(queue) :
                 queue[i].text = "keepalive" => LeavesNext(queue[i].at, transcript.lastPrompt)

\* The transcript says that the last bump was sent, or is about to.
EndIsSaid == transcript.lastBumpSent \/ \E i \in 1..Len(queue) : queue[i].text = "last"

\* A bump leaves a next one, or is the announced last; also when the operator submits it
\* before the keeper does.
BumpLeavesNext ==
  smooth =>
    /\ pc = "enter" /\ last /\ box = <<>> => EndIsSaid \/ LeavesNext(now, transcript.lastPrompt)
    /\ sent = "keepalive" => EndIsSaid \/ LeavesNext(lastBump, transcript.lastPrompt)

\* After a plain keepalive that was recorded in time, the keeper is back before
\* --max-idle is over.
BackInTime ==
  ( /\ smooth /\ sent = "keepalive" /\ ~transcript.lastBumpSent
    /\ transcript.idle /\ queue = <<>> /\ transcript.reqStart <= lastBump + 1 )
  => IF pc = "asleep" THEN wake <= transcript.lastPrompt + MaxIdle
                      ELSE now <= transcript.lastPrompt + MaxIdle

\* A prompt leaves room for the bumps that follow it.
LEMMA PromptLeavesNext ==
  ASSUME NEW m \in Nat, NEW t \in Nat, t <= m, Ttl + Interval <= MaxIdle + Lead
  PROVE  t + Ttl + Interval <= m + MaxIdle + Lead
BY SettingsType

LEMMA NextFollowsInductive ==
  ASSUME Ttl + Interval <= MaxIdle + Lead
  PROVE  TypeOK /\ QueueInv /\ TimesInv /\ SmoothInv /\ NextFollows /\ [Next]_vars => NextFollows'
<1> SUFFICES ASSUME TypeOK, QueueInv, TimesInv, SmoothInv, NextFollows, [Next]_vars
             PROVE  NextFollows'
  OBVIOUS
<1> USE DEF claudeVars, keeperVars, historyVars
<1>0. /\ {now, transcript.lastPrompt, transcript.ttl} \subseteq Nat
      /\ {Ttl, Lead, Interval, MaxIdle} \subseteq Nat /\ queue \in Seq(Prompt)
  BY NumbersType, SettingsType DEF TypeOK
<1>1. ASSUME UNCHANGED <<queue, last>>, transcript'.lastPrompt = transcript.lastPrompt,
             smooth' => smooth, OnItsWay' => OnItsWay /\ now' = now
      PROVE  NextFollows'
  BY <1>1 DEF NextFollows, LeavesNext
<1>2. CASE Tick
  <2>1. /\ UNCHANGED <<queue, last, smooth>> /\ transcript'.lastPrompt = transcript.lastPrompt
        /\ pc' = "asleep"
    BY <1>2 DEF Tick
  <2>2. ~OnItsWay'
    BY <2>1 DEF OnItsWay
  <2> QED
    BY <1>1, <2>1, <2>2
<1>3. CASE OperatorTypes \/ OperatorClears \/ UNCHANGED vars
  <2>1. UNCHANGED <<now, queue, last, pc>> /\ transcript'.lastPrompt = transcript.lastPrompt
    BY <1>3 DEF OperatorTypes, OperatorClears, vars
  <2>2. OnItsWay' => OnItsWay
    BY <2>1 DEF OnItsWay
  <2>3. smooth' => smooth
    BY <1>3, Hindrances, ClearingHinders DEF vars
  <2> QED
    BY <1>1, <2>1, <2>2, <2>3
<1>4. CASE UseTool \/ EndTurn \/ Interrupt
  <2>1. UNCHANGED <<now, queue, last, pc>> /\ (smooth' => smooth)
    BY <1>4 DEF UseTool, EndTurn, Interrupt
  <2>2. OnItsWay' => OnItsWay
    BY <2>1 DEF OnItsWay
  <2> QED
    BY <1>1, <1>4, <2>1, <2>2, TurnEffects
<1>5. CASE StartPass \/ Look \/ Send
  <2>1. /\ UNCHANGED <<now, queue, smooth>> /\ transcript'.lastPrompt = transcript.lastPrompt
        /\ UNCHANGED last \/ pc' = "asleep"
        /\ pc' \in {"judge", "asleep"} \/ OnItsWay
    BY <1>5 DEF StartPass, Look, Send, EndPass, OnItsWay
  <2>2. OnItsWay' => OnItsWay /\ UNCHANGED last
    BY <2>1 DEF OnItsWay
  <2> QED
    BY <2>1, <2>2 DEF NextFollows, LeavesNext
<1>6. CASE ListFails \/ Excused \/ EnterLost \/ GiveUp
  <2>1. UNCHANGED queue /\ smooth' = FALSE /\ pc' = "asleep"
    BY <1>6, Hindrances DEF ListFails, Excused, EnterLost, GiveUp, EndPass
  <2> QED
    BY <2>1 DEF NextFollows, OnItsWay
<1>7. CASE Judge
  <2>1. /\ UNCHANGED <<now, queue, smooth>> /\ transcript'.lastPrompt = transcript.lastPrompt
    BY <1>7 DEF Judge
  <2>2. CASE ~Due
    <3>1. ~OnItsWay'
      BY <1>7, <2>2 DEF Judge, EndPass, OnItsWay
    <3> QED
      BY <2>1, <3>1 DEF NextFollows, LeavesNext
  <2>3. CASE Due
    <3>1. last' = LastDue /\ transcript.ttl = Ttl
      BY <1>7, <2>3 DEF Judge, Due
    <3>2. ~last' => transcript.lastPrompt = 0 \/ LeavesNext(now, transcript.lastPrompt)
      BY <1>0, <3>1 DEF LastDue, LeavesNext
    <3> QED
      BY <2>1, <3>2 DEF NextFollows, LeavesNext
  <2> QED
    BY <2>2, <2>3
<1>8. ASSUME NEW by, Submit(by), smooth' = smooth, UNCHANGED <<now, transcript>>
      PROVE  smooth' => \A i \in 1..Len(queue') :
                           queue'[i].text = "keepalive"
                             => LeavesNext(queue'[i].at, transcript'.lastPrompt)
  <2> SUFFICES ASSUME smooth, NEW i \in 1..Len(queue'), queue'[i].text = "keepalive"
               PROVE  LeavesNext(queue'[i].at, transcript'.lastPrompt)
    BY <1>8
  <2>1. PICK prompt : prompt = [text |-> OwnBump, at |-> now, by |-> by]
    OBVIOUS
  <2>2. queue' = Append(queue, prompt) /\ pc = "enter"
    BY <1>8, <2>1, Submitted
  <2>3. /\ Len(queue) \in Nat /\ Len(queue') = Len(queue) + 1
        /\ \A j \in 1..Len(queue) : queue'[j] = queue[j]
        /\ queue'[Len(queue) + 1] = prompt
    BY <1>0, <2>2, LenProperties
  <2>4. CASE i \in 1..Len(queue)
    <3>1. queue'[i] = queue[i]
      BY <2>3, <2>4
    <3>2. LeavesNext(queue[i].at, transcript.lastPrompt)
      BY <2>4, <3>1 DEF NextFollows
    <3> QED
      BY <1>8, <3>1, <3>2 DEF LeavesNext
  <2>5. CASE i = Len(queue) + 1
    <3>1. queue'[i] = prompt
      BY <2>3, <2>5
    <3>2. prompt.at = now /\ prompt.text = OwnBump
      BY <2>1
    <3>3. queue'[i].at = now /\ ~last
      BY <3>1, <3>2 DEF OwnBump
    <3>4. OnItsWay /\ 0 < transcript.lastPrompt
      BY <2>2 DEF OnItsWay, SmoothInv
    <3>5. LeavesNext(now, transcript.lastPrompt)
      BY <1>0, <3>3, <3>4 DEF NextFollows
    <3> QED
      BY <1>8, <3>3, <3>5 DEF LeavesNext
  <2> QED
    BY <2>3, <2>4, <2>5
<1>9. CASE OperatorSubmits
  <2>1. UNCHANGED <<now, transcript, pc, last, smooth>> /\ Submit("operator")
    BY <1>9 DEF OperatorSubmits
  <2>2. OnItsWay' /\ ~last' =>
          transcript'.lastPrompt = 0 \/ LeavesNext(now', transcript'.lastPrompt)
    BY <2>1 DEF NextFollows, OnItsWay, LeavesNext
  <2> QED
    BY <1>8, <2>1, <2>2 DEF NextFollows
<1>10. CASE Enter
  <2>1. UNCHANGED <<now, transcript, smooth>> /\ pc' = "asleep"
    BY <1>10 DEF Enter, EndPass
  <2>2. ~OnItsWay'
    BY <2>1 DEF OnItsWay
  <2>3. CASE Submit("keeper")
    BY <1>8, <2>1, <2>2, <2>3 DEF NextFollows
  <2>4. CASE UNCHANGED queue
    BY <2>1, <2>2, <2>4 DEF NextFollows, LeavesNext
  <2> QED
    BY <1>10, <2>3, <2>4 DEF Enter
<1>11. CASE Record
  <2>1. UNCHANGED <<now, pc, last, box>>
    BY <1>11 DEF Record
  <2>2. /\ 1 \in 1..Len(queue) /\ Len(queue') = Len(queue) - 1
        /\ \A i \in 1..Len(queue') : i + 1 \in 1..Len(queue) /\ queue'[i] = queue[i + 1]
    BY <1>11, TurnRecorded
  <2>3. PICK text : text = queue[1].text
    OBVIOUS
  <2>4. transcript'.lastPrompt = IF text = "prompt" THEN now ELSE transcript.lastPrompt
    BY <1>11, <2>3, TurnRecorded
  <2>5. smooth' /\ text # "prompt" => smooth
    <3>1. Head(queue) = queue[1]
      <4>1. queue # <<>>
        BY <1>11 DEF Record
      <4> QED
        BY <1>0, <4>1, HeadTailProperties
    <3> QED
      BY <1>11, <2>3, <3>1 DEF Record
  <2>6. ASSUME NEW i \in 1..Len(queue') PROVE queue'[i].at \in Nat /\ queue'[i].at <= now
    <3>1. queue[i + 1] \in Prompt /\ queue[i + 1].at <= now /\ queue'[i] = queue[i + 1]
      BY <1>0, <2>2, ElementOfSeq DEF QueueInv
    <3> QED
      BY <3>1, BoundAssumption DEF Prompt, Time
  <2>7. CASE text = "prompt"
    <3>1. transcript'.lastPrompt = now
      BY <2>4, <2>7
    <3>2. \A t \in Nat : t <= now => LeavesNext(t, transcript'.lastPrompt)
      BY <1>0, <3>1, PromptLeavesNext DEF LeavesNext
    <3> QED
      BY <1>0, <2>1, <2>6, <3>2 DEF NextFollows
  <2>8. CASE text # "prompt"
    <3>1. transcript'.lastPrompt = transcript.lastPrompt /\ (smooth' => smooth)
      BY <2>4, <2>5, <2>8
    <3>2. OnItsWay' => OnItsWay
      BY <2>1 DEF OnItsWay
    <3>3. ASSUME smooth', NEW i \in 1..Len(queue'), queue'[i].text = "keepalive"
          PROVE  LeavesNext(queue'[i].at, transcript'.lastPrompt)
      <4>1. LeavesNext(queue'[i].at, transcript.lastPrompt)
        BY <2>2, <3>1, <3>3 DEF NextFollows
      <4> QED
        BY <3>1, <4>1 DEF LeavesNext
    <3>4. OnItsWay' /\ ~last' =>
            transcript'.lastPrompt = 0 \/ LeavesNext(now', transcript'.lastPrompt)
      BY <2>1, <3>1, <3>2 DEF NextFollows, LeavesNext
    <3> QED
      BY <3>3, <3>4 DEF NextFollows
  <2> QED
    BY <2>7, <2>8
<1> QED
  BY <1>2, <1>3, <1>4, <1>5, <1>6, <1>7, <1>9, <1>10, <1>11 DEF Next

\* What is recorded says the end or leaves it to be said; a prompt starts anew.
LEMMA EndStaysSaid ==
  ASSUME TypeOK, QueueInv, Record, queue[1].text # "prompt", EndIsSaid
  PROVE  EndIsSaid'
<1>1. PICK text : text = queue[1].text
  OBVIOUS
<1>2. /\ Len(queue) \in Nat /\ Len(queue') = Len(queue) - 1
      /\ \A i \in 1..Len(queue') : queue'[i] = queue[i + 1]
      /\ text = "last" => transcript'.lastBumpSent = TRUE
      /\ text \notin {"prompt", "last"} => transcript'.lastBumpSent = transcript.lastBumpSent
  BY <1>1, TurnRecorded, LenProperties DEF TypeOK
<1>3. CASE text = "last" \/ transcript.lastBumpSent
  BY <1>1, <1>2, <1>3 DEF EndIsSaid
<1>4. CASE text # "last" /\ ~transcript.lastBumpSent
  <2>1. PICK i \in 1..Len(queue) : queue[i].text = "last"
    BY <1>4 DEF EndIsSaid
  <2>2. i # 1
    BY <1>1, <1>4, <2>1
  <2>3. i - 1 \in 1..Len(queue') /\ (i - 1) + 1 = i
    BY <1>2, <2>2
  <2>4. queue'[i - 1] = queue[i]
    BY <1>2, <2>3
  <2> QED
    BY <2>1, <2>3, <2>4 DEF EndIsSaid
<1> QED
  BY <1>3, <1>4

\* What is submitted is queued behind what waits.
LEMMA EndIsQueued ==
  ASSUME TypeOK, SmoothInv, smooth, NEW by, Submit(by), UNCHANGED transcript
  PROVE  (EndIsSaid => EndIsSaid') /\ (last => EndIsSaid')
<1>1. PICK prompt : prompt = [text |-> OwnBump, at |-> now, by |-> by]
  OBVIOUS
<1>2. queue' = Append(queue, prompt) /\ queue \in Seq(Prompt)
  BY <1>1, Submitted DEF TypeOK
<1>3. /\ Len(queue) \in Nat /\ Len(queue') = Len(queue) + 1
      /\ \A i \in 1..Len(queue) : queue'[i] = queue[i] /\ i \in 1..Len(queue')
      /\ queue'[Len(queue) + 1] = prompt /\ Len(queue) + 1 \in 1..Len(queue')
  BY <1>2, LenProperties
<1>4. last => prompt.text = "last"
  BY <1>1 DEF OwnBump
<1> QED
  BY <1>3, <1>4 DEF EndIsSaid

LEMMA BumpLeavesNextInductive ==
  ASSUME Ttl + Interval <= MaxIdle + Lead
  PROVE  /\ TypeOK /\ QueueInv /\ TimesInv /\ SmoothInv /\ NextFollows /\ BumpLeavesNext
         /\ [Next]_vars
         => BumpLeavesNext'
<1> SUFFICES ASSUME TypeOK, QueueInv, TimesInv, SmoothInv, NextFollows, BumpLeavesNext,
                    [Next]_vars, smooth'
             PROVE  /\ pc' = "enter" /\ last' /\ box' = <<>> =>
                         EndIsSaid' \/ LeavesNext(now', transcript'.lastPrompt)
                    /\ sent' = "keepalive" =>
                         EndIsSaid' \/ LeavesNext(lastBump', transcript'.lastPrompt)
  BY DEF BumpLeavesNext
<1> USE DEF claudeVars, keeperVars, historyVars
<1>0. {now, lastBump, transcript.lastPrompt} \subseteq Nat
  BY NumbersType
<1>1. CASE Tick \/ UNCHANGED vars
  <2>1. /\ UNCHANGED <<transcript, queue, smooth, sent, pc, lastBump, last, box>>
        /\ now' = now \/ pc' = "asleep"
    BY <1>1 DEF Tick, vars
  <2> QED
    BY <2>1 DEF BumpLeavesNext, EndIsSaid, LeavesNext
<1>2. CASE OperatorTypes \/ ListFails \/ Excused \/ EnterLost \/ GiveUp \/ OperatorClears
  BY <1>2, Hindrances, ClearingHinders
<1>3. CASE OperatorSubmits
  <2>1. /\ UNCHANGED <<now, transcript, pc, lastBump, last, smooth>> /\ Submit("operator")
    BY <1>3 DEF OperatorSubmits
  <2>2. (EndIsSaid => EndIsSaid') /\ (last => EndIsSaid')
    BY <2>1, EndIsQueued
  <2>3. sent' = IF "operator" = "keeper" THEN OwnBump ELSE sent
    BY <2>1, Submitted
  <2>4. sent' = sent
    BY <2>3
  <2> QED
    BY <2>1, <2>2, <2>4 DEF BumpLeavesNext, LeavesNext
<1>4. CASE Record
  <2>1. UNCHANGED <<now, pc, last, box, lastBump, sent>>
    BY <1>4 DEF Record
  <2>2. PICK text : text = queue[1].text
    OBVIOUS
  <2>3. transcript'.lastPrompt = IF text = "prompt" THEN now ELSE transcript.lastPrompt
    BY <1>4, <2>2, TurnRecorded
  <2>4. CASE text = "prompt"
    <3>1. transcript'.lastPrompt = now /\ lastBump <= now
      BY <2>3, <2>4 DEF TimesInv
    <3> QED
      BY <1>0, <2>1, <3>1, PromptLeavesNext DEF LeavesNext
  <2>5. CASE text # "prompt"
    <3>1. Head(queue) = queue[1]
      <4>1. queue # <<>> /\ queue \in Seq(Prompt)
        BY <1>4 DEF Record, TypeOK
      <4> QED
        BY <4>1, HeadTailProperties
    <3>2. smooth
      BY <1>4, <2>2, <2>5, <3>1 DEF Record
    <3>3. EndIsSaid => EndIsSaid'
      BY <1>4, <2>2, <2>5, EndStaysSaid
    <3> QED
      BY <2>1, <2>3, <2>5, <3>2, <3>3 DEF BumpLeavesNext, LeavesNext
  <2> QED
    BY <2>4, <2>5
<1>5. CASE UseTool \/ EndTurn \/ Interrupt
  <2>1. UNCHANGED <<now, queue, sent, pc, lastBump, last, box>> /\ smooth
    BY <1>5 DEF UseTool, EndTurn, Interrupt
  <2>2. /\ transcript'.lastPrompt = transcript.lastPrompt
        /\ transcript'.lastBumpSent = transcript.lastBumpSent
    BY <1>5, TurnEffects
  <2> QED
    BY <2>1, <2>2 DEF BumpLeavesNext, EndIsSaid, LeavesNext
<1>6. CASE StartPass \/ Judge \/ Look \/ Send
  <2>1. UNCHANGED <<now, transcript, queue, sent, smooth, lastBump>>
    BY <1>6 DEF StartPass, Judge, Look, Send
  <2>2. pc' # "enter" \/ box' # <<>>
    <3>1. CASE StartPass \/ Judge
      BY <3>1 DEF StartPass, Judge, EndPass
    <3>2. CASE Look
      BY <2>1, <3>2, LookedAtEmpty
    <3>3. CASE Send
      BY <2>1, <3>3, SentIntoEmpty
    <3> QED
      BY <1>6, <3>1, <3>2, <3>3
  <2> QED
    BY <2>1, <2>2 DEF BumpLeavesNext, EndIsSaid, LeavesNext
<1>7. CASE Enter
  <2>1. /\ UNCHANGED <<now, transcript, smooth>> /\ pc = "enter" /\ pc' = "asleep"
        /\ lastBump' = now
    BY <1>7 DEF Enter, EndPass
  <2>2. ~last => LeavesNext(now, transcript.lastPrompt)
    BY <1>0, <2>1 DEF NextFollows, OnItsWay, SmoothInv
  <2>3. CASE Submit("keeper")
    <3>1. last => EndIsSaid'
      BY <2>1, <2>3, EndIsQueued
    <3> QED
      BY <2>1, <2>2, <3>1 DEF LeavesNext
  <2>4. CASE box = <<>> /\ UNCHANGED <<box, queue, sent>>
    <3>1. EndIsSaid \/ LeavesNext(now, transcript.lastPrompt)
      BY <2>1, <2>2, <2>4 DEF BumpLeavesNext
    <3> QED
      BY <2>1, <2>4, <3>1 DEF EndIsSaid, LeavesNext
  <2> QED
    BY <1>7, <2>3, <2>4 DEF Enter
<1> QED
  BY <1>1, <1>2, <1>3, <1>4, <1>5, <1>6, <1>7 DEF Next

\* The session of a plain keepalive that waits for its next one is guarded.
LEMMA WaitsForNext ==
  ASSUME TypeOK, TimesInv, SmoothInv, WarmInv, BumpLeavesNext, BackInTime,
         smooth, sent = "keepalive", transcript.idle, ~transcript.lastBumpSent, queue = <<>>,
         transcript.reqStart <= lastBump + 1, pc # "asleep"
  PROVE  /\ Guarded /\ now < Expiry /\ now <= transcript.lastPrompt + MaxIdle
         /\ LeavesNext(lastBump, transcript.lastPrompt)
<1>1. now <= transcript.lastPrompt + MaxIdle
  BY DEF BackInTime
<1>2. LeavesNext(lastBump, transcript.lastPrompt)
  <2>1. ~EndIsSaid
    <3>1. Len(queue) = 0
      BY EmptySeq
    <3> QED
      BY <3>1 DEF EndIsSaid
  <2> QED
    BY <2>1 DEF BumpLeavesNext
<1>3. {now, transcript.lastPrompt, MaxIdle} \subseteq Nat
  BY NumbersType, SettingsType
<1>4. ~PastMaxIdle
  BY <1>1, <1>3 DEF PastMaxIdle
<1>5. Guarded
  BY <1>4 DEF Guarded
<1> QED
  BY <1>1, <1>2, <1>5 DEF WarmInv

LEMMA BackInductive ==
  ASSUME Interval <= Lead, Cooldown + Lead <= Ttl, Ttl + Interval <= MaxIdle + Lead
  PROVE  /\ TypeOK /\ QueueInv /\ TimesInv /\ SmoothInv /\ WarmInv
         /\ NextFollows /\ BumpLeavesNext /\ BackInTime /\ [Next]_vars
         => BackInTime'
<1> SUFFICES ASSUME TypeOK, QueueInv, TimesInv, SmoothInv, WarmInv, NextFollows,
                    BumpLeavesNext, BackInTime, [Next]_vars,
                    smooth', sent' = "keepalive", ~transcript'.lastBumpSent, transcript'.idle,
                    queue' = <<>>, transcript'.reqStart <= lastBump' + 1
             PROVE  IF pc' = "asleep" THEN wake' <= transcript'.lastPrompt + MaxIdle
                                      ELSE now' <= transcript'.lastPrompt + MaxIdle
  BY DEF BackInTime
<1> USE DEF claudeVars, keeperVars, historyVars
<1>0. /\ {now, wake, lastBump, transcript.trigger, transcript.reqStart,
          transcript.lastPrompt} \subseteq Nat
      /\ {Ttl, Lead, Interval, Cooldown, MaxIdle} \subseteq Nat
  BY NumbersType, SettingsType
<1>1. LeavesNext(lastBump', transcript'.lastPrompt)
  <2>1. BumpLeavesNext'
    BY BumpLeavesNextInductive
  <2>2. Len(queue') = 0
    BY EmptySeq
  <2> QED
    BY <2>1, <2>2 DEF BumpLeavesNext, EndIsSaid
<1>2. CASE Tick \/ UNCHANGED vars
  <2>1. /\ UNCHANGED <<transcript, queue, smooth, sent, pc, wake, lastBump>>
        /\ now' = now \/ pc = "asleep"
    BY <1>2 DEF Tick, vars
  <2> QED
    BY <2>1 DEF BackInTime
<1>3. CASE OperatorTypes \/ ListFails \/ Excused \/ EnterLost \/ GiveUp \/ OperatorClears
  BY <1>3, Hindrances, ClearingHinders
<1>4. CASE OperatorSubmits
  <2>1. smooth /\ Submit("operator")
    BY <1>4 DEF OperatorSubmits
  <2> QED
    BY <2>1, Submitted
<1>5. CASE Record
  <2>1. PICK text : text = queue[1].text
    OBVIOUS
  <2> QED
    BY <1>5, <2>1, TurnRecorded
<1>6. CASE UseTool
  BY <1>6 DEF UseTool
<1>7. CASE EndTurn \/ Interrupt
  <2>1. UNCHANGED <<now, pc, wake, lastBump>> /\ InGoodTime(transcript')
    BY <1>7 DEF EndTurn, Interrupt
  <2>2. transcript'.lastPrompt = transcript.lastPrompt
    BY <1>7, TurnEffects
  <2>3. now + Lead < transcript'.reqStart + Ttl
    BY <1>7, <2>1, EndsInTime
  <2>4. transcript'.reqStart \in Nat
    <3>1. transcript'.reqStart \in {transcript.reqStart, transcript.trigger, now}
      BY <1>7, TurnEnds, TurnInterrupted
    <3> QED
      BY <1>0, <3>1
  <2>5. now + Interval <= transcript.lastPrompt + MaxIdle
    BY <1>0, <1>1, <2>1, <2>2, <2>3, <2>4 DEF LeavesNext
  <2>6. /\ now <= transcript.lastPrompt + MaxIdle
        /\ pc = "asleep" => wake <= transcript.lastPrompt + MaxIdle
    BY <1>0, <2>5 DEF TimesInv
  <2> QED
    BY <2>1, <2>2, <2>6
<1>8. CASE StartPass
  <2>1. /\ UNCHANGED <<now, transcript, queue, smooth, sent, lastBump>>
        /\ pc = "asleep" /\ pc' = "judge" /\ now <= wake
    BY <1>8 DEF StartPass, TimesInv
  <2>2. wake <= transcript.lastPrompt + MaxIdle
    BY <2>1 DEF BackInTime
  <2> QED
    BY <1>0, <2>1, <2>2
<1>9. CASE Judge \/ Look \/ Send
  <2>1. UNCHANGED <<now, transcript, queue, smooth, sent, lastBump>> /\ pc # "asleep"
    BY <1>9 DEF Judge, Look, Send
  <2>2. /\ Guarded /\ now < Expiry /\ now <= transcript.lastPrompt + MaxIdle
        /\ LeavesNext(lastBump, transcript.lastPrompt)
        /\ transcript.reqStart <= lastBump + 1
    BY <2>1, WaitsForNext
  <2>3. CASE pc' # "asleep"
    BY <2>1, <2>2, <2>3
  <2>4. CASE pc' = "asleep"
    <3>1. Judge /\ ~Due
      BY <1>9, <2>1, <2>4, LookedAtEmpty DEF Judge, Send
    <3>2. wake' = now + Interval
      BY <3>1 DEF Judge, EndPass
    <3>3. now + Lead < transcript.reqStart + Ttl \/ now < transcript.reqStart + Cooldown
      BY <2>2, <3>1, NotDueYet
    <3>4. now + Lead <= lastBump + Ttl
      BY <1>0, <2>2, <3>3
    <3>5. now + Interval <= transcript.lastPrompt + MaxIdle
      BY <1>0, <2>2, <3>4 DEF LeavesNext
    <3> QED
      BY <2>1, <2>4, <3>2, <3>5
  <2> QED
    BY <2>3, <2>4
<1>10. CASE Enter
  <2>1. /\ UNCHANGED <<now, transcript, smooth>> /\ lastBump' = now
        /\ pc' = "asleep" /\ wake' = now + Interval
    BY <1>10 DEF Enter, EndPass
  <2>2. LeavesNext(now, transcript.lastPrompt)
    BY <1>1, <2>1
  <2>3. now + Interval <= transcript.lastPrompt + MaxIdle
    BY <1>0, <2>2 DEF LeavesNext
  <2> QED
    BY <2>1, <2>3
<1> QED
  BY <1>2, <1>3, <1>4, <1>5, <1>6, <1>7, <1>8, <1>9, <1>10 DEF Next

\* A session that nothing hindered the keeper from reaching does not fall silent after
\* a plain keepalive that was recorded in time: the keeper says "last" before.
THEOREM EndIsAnnounced ==
  ASSUME Interval <= Lead, Cooldown + Lead <= Ttl, Ttl + Interval <= MaxIdle + Lead
  PROVE  Spec => []LastIsAnnounced
<1>0. Cooldown + Interval <= Ttl
  BY SettingsType
<1>1. Init => WarmInv /\ NextFollows /\ BumpLeavesNext /\ BackInTime
  BY DEF Init, WarmInv, Guarded, NextFollows, BumpLeavesNext, BackInTime, OnItsWay
<1>2. TypeOK /\ QueueInv /\ TimesInv /\ SmoothInv /\ WarmInv /\ [Next]_vars => WarmInv'
  BY <1>0, WarmInductive
<1>3. TypeOK /\ QueueInv /\ TimesInv /\ SmoothInv /\ NextFollows /\ [Next]_vars => NextFollows'
  BY NextFollowsInductive
<1>4. /\ TypeOK /\ QueueInv /\ TimesInv /\ SmoothInv /\ NextFollows /\ BumpLeavesNext
      /\ [Next]_vars
      => BumpLeavesNext'
  BY BumpLeavesNextInductive
<1>5. /\ TypeOK /\ QueueInv /\ TimesInv /\ SmoothInv /\ WarmInv
      /\ NextFollows /\ BumpLeavesNext /\ BackInTime /\ [Next]_vars
      => BackInTime'
  BY BackInductive
<1>6. TypeOK /\ TimesInv /\ BackInTime => LastIsAnnounced
  <2> SUFFICES ASSUME TypeOK, TimesInv, BackInTime, smooth, transcript.idle, queue = <<>>,
                      PastMaxIdle, sent = "keepalive", ~transcript.lastBumpSent,
                      ~(lastBump + 1 < transcript.reqStart)
               PROVE  FALSE
    BY DEF LastIsAnnounced
  <2>1. {now, wake, lastBump, transcript.reqStart, transcript.lastPrompt, MaxIdle} \subseteq Nat
    BY NumbersType, SettingsType
  <2>2. IF pc = "asleep" THEN wake <= transcript.lastPrompt + MaxIdle
                         ELSE now <= transcript.lastPrompt + MaxIdle
    BY <2>1 DEF BackInTime
  <2>3. now <= transcript.lastPrompt + MaxIdle
    BY <2>1, <2>2 DEF TimesInv
  <2> QED
    BY <2>1, <2>3 DEF PastMaxIdle
<1> QED
  BY <1>1, <1>2, <1>3, <1>4, <1>5, <1>6, SmoothAlways, PTL DEF Spec

-----------------------------------------------------------------------------
(* The owner of a family.                                                  *)

\* Who owns the family when the groups up to the k-th are looked at.
OwnerPassed(o, n, groups, f) ==
  /\ o[0] = 0 /\ Owner(groups, f) = o[n]
  /\ \A k \in 0..n : o[k] \in 0..n
  /\ \A k \in 1..n :
       o[k] = IF /\ f \in groups[k].families
                 /\ o[k - 1] = 0 \/ Better(groups[k], groups[o[k - 1]], f)
              THEN k ELSE o[k - 1]

LEMMA OwnerFold ==
  ASSUME NEW f, NEW groups, NEW n \in Nat, DOMAIN groups = 1..n
  PROVE  \E o : OwnerPassed(o, n, groups, f)
<1> DEFINE all == [i \in DOMAIN groups |-> i]
           IsIter(it) == it = [s \in SUBSET DOMAIN all |->
                      IF s = {} THEN 0
                      ELSE IF /\ f \in groups[all[Max(s)]].families
                              /\ \/ it[s \ {Max(s)}] = 0
                                 \/ Better(groups[all[Max(s)]], groups[it[s \ {Max(s)}]], f)
                           THEN all[Max(s)] ELSE it[s \ {Max(s)}]]
           iter == CHOOSE it : IsIter(it)
           step == [p \in (1..n) \X (0..n) |->
                      IF /\ f \in groups[p[1]].families
                         /\ p[2] = 0 \/ Better(groups[p[1]], groups[p[2]], f)
                      THEN p[1] ELSE p[2]]
<1>1. Owner(groups, f) = iter[DOMAIN all]
  BY DEF Owner, FoldLeftDomain, FoldLeft, MapThenFoldSet
<1>2. DOMAIN all = 1..n /\ \A i \in 1..n : all[i] = i
  OBVIOUS
<1>3. step \in [(1..n) \X (0..n) -> 0..n] /\ 0 \in 0..n
  OBVIOUS
<1>4. \A p \in 1..n, q \in 0..n :
        step[<<p, q>>] = IF f \in groups[p].families /\ (q = 0 \/ Better(groups[p], groups[q], f))
                         THEN p ELSE q
  OBVIOUS
<1> HIDE DEF all, step
<1>5. PICK g : IsFold(g, n, 0..n, 0, step)
  BY <1>3, FoldExists, Zenon
<1>6. ASSUME NEW s \in SUBSET (1..n), s # {}
      PROVE  g[s] = IF /\ f \in groups[all[Max(s)]].families
                       /\ \/ g[s \ {Max(s)}] = 0
                          \/ Better(groups[all[Max(s)]], groups[g[s \ {Max(s)}]], f)
                    THEN all[Max(s)] ELSE g[s \ {Max(s)}]
  <2>1. Max(s) \in 1..n
    BY <1>6, MaxIn
  <2>2. g[s \ {Max(s)}] \in 0..n
    BY <1>5 DEF IsFold
  <2>3. g[s] = step[<<Max(s), g[s \ {Max(s)}]>>] /\ all[Max(s)] = Max(s)
    BY <1>2, <1>5, <1>6, <2>1 DEF IsFold
  <2> DEFINE m == Max(s)
             q == g[s \ {m}]
  <2>4. m \in 1..n /\ q \in 0..n /\ g[s] = step[<<m, q>>]
    BY <2>1, <2>2, <2>3
  <2> HIDE DEF m, q
  <2>5. g[s] = IF f \in groups[m].families /\ (q = 0 \/ Better(groups[m], groups[q], f))
               THEN m ELSE q
    BY <1>4, <2>4, Zenon
  <2> QED
    BY <2>3, <2>5, Zenon DEF m, q
<1>7. IsIter(g)
  BY <1>2, <1>5, <1>6 DEF IsFold
<1>8. IsIter(iter)
  <2> HIDE DEF IsIter
  <2> QED
    BY <1>7
<1> HIDE DEF iter
<1> DEFINE o == [k \in 0..n |-> iter[1..k]]
<1>9. o[0] = 0 /\ o[n] = iter[1..n]
  <2>1. 1..0 = {} /\ iter[{}] = 0
    BY <1>2, <1>8
  <2> QED
    BY <2>1
<1>10. ASSUME NEW k \in 1..n
       PROVE  o[k] = IF /\ f \in groups[k].families
                        /\ o[k - 1] = 0 \/ Better(groups[k], groups[o[k - 1]], f)
                     THEN k ELSE o[k - 1]
  <2>1. /\ 1..k \in SUBSET (1..n) /\ 1..k # {}
        /\ Max(1..k) = k /\ (1..k) \ {Max(1..k)} = 1..(k - 1) /\ all[k] = k
    BY <1>2, UpToMax
  <2>2. iter[1..k] = IF /\ f \in groups[k].families
                        /\ \/ iter[1..(k - 1)] = 0
                           \/ Better(groups[k], groups[iter[1..(k - 1)]], f)
                     THEN k ELSE iter[1..(k - 1)]
    BY <1>2, <1>8, <2>1
  <2>3. k \in 0..n /\ k - 1 \in 0..n
    OBVIOUS
  <2> QED
    BY <2>2, <2>3
<1> HIDE DEF o
<1>11. \A k \in 0..n : o[k] \in 0..n
  <2> DEFINE S == {k \in 0..n : o[k] \in 0..n}
  <2>1. 0 \in S
    BY <1>9
  <2>2. ASSUME NEW k \in 0..(n - 1), k \in S PROVE k + 1 \in S
    <3>1. k + 1 \in 1..n /\ (k + 1) - 1 = k
      OBVIOUS
    <3>2. o[k + 1] \in {k + 1, o[k]}
      BY <1>10, <3>1
    <3> QED
      BY <2>2, <3>1, <3>2
  <2> HIDE DEF S
  <2>3. \A k \in 0..n : k \in S
    BY <2>1, <2>2, UpInduction
  <2> QED
    BY <2>3 DEF S
<1> QED
  BY <1>1, <1>2, <1>9, <1>10, <1>11 DEF OwnerPassed

LEMMA ScoreType == ASSUME NEW group, NEW f PROVE Score(group, f) \in 0..2
BY DEF Score

\* The best of the groups up to the k-th that list the family, and the first of those.
Best(o, k, groups, f) ==
  LET listing == {i \in 1..k : f \in groups[i].families}
  IN /\ o \in 0..k
     /\ IF listing = {} THEN o = 0 ELSE o \in listing
     /\ \A i \in listing :
          /\ Score(groups[i], f) <= Score(groups[o], f)
          /\ i < o => Score(groups[i], f) < Score(groups[o], f)

LEMMA OwnerBest ==
  ASSUME NEW f, NEW groups, NEW n \in Nat, DOMAIN groups = 1..n
  PROVE  Best(Owner(groups, f), n, groups, f)
<1>1. PICK o : OwnerPassed(o, n, groups, f)
  BY OwnerFold, Zenon
<1> DEFINE S == {k \in 0..n : Best(o[k], k, groups, f)}
<1>2. 0 \in S
  BY <1>1 DEF OwnerPassed, Best
<1>3. ASSUME NEW k \in 0..(n - 1), k \in S PROVE k + 1 \in S
  <2>1. k + 1 \in 1..n /\ (k + 1) - 1 = k /\ k \in 0..n
    OBVIOUS
  <2> DEFINE p == o[k]
  <2>2. Best(p, k, groups, f)
    BY <1>3
  <2>3. o[k + 1] = IF /\ f \in groups[k + 1].families
                      /\ p = 0 \/ Better(groups[k + 1], groups[p], f)
                   THEN k + 1 ELSE p
    BY <1>1, <2>1 DEF OwnerPassed
  <2> HIDE DEF p
  <2>4. \A i \in 1..(k + 1) : i \in 1..k \/ i = k + 1
    OBVIOUS
  <2>5. \A i : Score(groups[i], f) \in 0..2
    BY ScoreType
  <2>6. p \in 0..k
    BY <2>2 DEF Best
  <2>7. Best(o[k + 1], k + 1, groups, f)
    <3>1. CASE f \in groups[k + 1].families /\ (p = 0 \/ Better(groups[k + 1], groups[p], f))
      <4>1. o[k + 1] = k + 1
        BY <2>3, <3>1
      <4>2. \A i \in 1..k : f \in groups[i].families =>
              Score(groups[i], f) < Score(groups[k + 1], f)
        BY <2>2, <2>5, <2>6, <3>1 DEF Best, Better
      <4> QED
        BY <2>4, <2>5, <3>1, <4>1, <4>2 DEF Best
    <3>2. CASE ~(f \in groups[k + 1].families /\ (p = 0 \/ Better(groups[k + 1], groups[p], f)))
      <4>1. o[k + 1] = p
        BY <2>3, <3>2
      <4>2. f \in groups[k + 1].families => p # 0 /\ Score(groups[k + 1], f) <= Score(groups[p], f)
        BY <2>5, <3>2 DEF Better
      <4> QED
        BY <2>2, <2>4, <2>5, <2>6, <4>1, <4>2 DEF Best
    <3> QED
      BY <3>1, <3>2
  <2> QED
    BY <2>1, <2>7
<1> HIDE DEF S
<1>4. \A k \in 0..n : k \in S
  BY <1>2, <1>3, UpInduction
<1>5. n \in 0..n
  OBVIOUS
<1> QED
  BY <1>1, <1>4, <1>5 DEF S, OwnerPassed

-----------------------------------------------------------------------------
(* The groups of a reply.                                                  *)

NormalGroups(raw) == {NormalizeGroup(raw[i]) : i \in DOMAIN raw}

\* The groups that the first k of a reply become.
GroupsPassed(r, n, raw) ==
  /\ r[0] = <<>> /\ NormalizeGroups(raw) = r[n]
  /\ \A k \in 0..n : r[k] \in Seq(NormalGroups(raw))
  /\ \A k \in 1..n :
       r[k] = IF Recognized(raw[k]) THEN Append(r[k - 1], NormalizeGroup(raw[k])) ELSE r[k - 1]

LEMMA GroupsFold ==
  ASSUME NEW raw, NEW n \in Nat, DOMAIN raw = 1..n
  PROVE  \E r : GroupsPassed(r, n, raw)
<1> DEFINE State == Seq(NormalGroups(raw))
           IsIter(it) == it = [s \in SUBSET DOMAIN raw |->
                      IF s = {} THEN <<>>
                      ELSE IF Recognized(raw[Max(s)])
                           THEN Append(it[s \ {Max(s)}], NormalizeGroup(raw[Max(s)]))
                           ELSE it[s \ {Max(s)}]]
           iter == CHOOSE it : IsIter(it)
           step == [p \in (1..n) \X State |->
                      IF Recognized(raw[p[1]]) THEN Append(p[2], NormalizeGroup(raw[p[1]]))
                      ELSE p[2]]
<1>1. NormalizeGroups(raw) = iter[DOMAIN raw]
  BY DEF NormalizeGroups, FoldLeft, MapThenFoldSet
<1>2. \A i \in 1..n : NormalizeGroup(raw[i]) \in NormalGroups(raw)
  BY DEF NormalGroups
<1>3. step \in [(1..n) \X State -> State] /\ <<>> \in State
  BY <1>2, EmptySeq, AppendProperties
<1>4. \A i \in 1..n, q \in State :
        step[<<i, q>>] = IF Recognized(raw[i]) THEN Append(q, NormalizeGroup(raw[i])) ELSE q
  OBVIOUS
<1> HIDE DEF State, step
<1>5. PICK g : IsFold(g, n, State, <<>>, step)
  BY <1>3, FoldExists, Zenon
<1>6. ASSUME NEW s \in SUBSET (1..n), s # {}
      PROVE  g[s] = IF Recognized(raw[Max(s)])
                    THEN Append(g[s \ {Max(s)}], NormalizeGroup(raw[Max(s)]))
                    ELSE g[s \ {Max(s)}]
  <2>1. Max(s) \in 1..n
    BY <1>6, MaxIn
  <2>2. g[s \ {Max(s)}] \in State
    BY <1>5 DEF IsFold
  <2> DEFINE m == Max(s)
             q == g[s \ {m}]
  <2>3. m \in 1..n /\ q \in State /\ g[s] = step[<<m, q>>]
    BY <1>5, <1>6, <2>1, <2>2 DEF IsFold
  <2> HIDE DEF m, q
  <2>4. g[s] = IF Recognized(raw[m]) THEN Append(q, NormalizeGroup(raw[m])) ELSE q
    BY <1>4, <2>3, Zenon
  <2> QED
    BY <2>4, Zenon DEF m, q
<1>7. IsIter(g)
  BY <1>5, <1>6 DEF IsFold
<1>8. IsIter(iter)
  <2> HIDE DEF IsIter
  <2> QED
    BY <1>7
<1> HIDE DEF iter
<1> DEFINE r == [k \in 0..n |-> iter[1..k]]
<1>9. r[0] = <<>> /\ r[n] = iter[1..n]
  <2>1. 1..0 = {} /\ iter[{}] = <<>>
    BY <1>8
  <2> QED
    BY <2>1
<1>10. ASSUME NEW k \in 1..n
       PROVE  r[k] = IF Recognized(raw[k]) THEN Append(r[k - 1], NormalizeGroup(raw[k])) ELSE r[k - 1]
  <2>1. /\ 1..k \in SUBSET (1..n) /\ 1..k # {}
        /\ Max(1..k) = k /\ (1..k) \ {Max(1..k)} = 1..(k - 1)
    BY UpToMax
  <2>2. iter[1..k] = IF Recognized(raw[k]) THEN Append(iter[1..(k - 1)], NormalizeGroup(raw[k]))
                     ELSE iter[1..(k - 1)]
    BY <1>8, <2>1
  <2>3. k \in 0..n /\ k - 1 \in 0..n
    OBVIOUS
  <2> QED
    BY <2>2, <2>3
<1> HIDE DEF r
<1>11. \A k \in 0..n : r[k] \in State
  <2> DEFINE S == {k \in 0..n : r[k] \in State}
  <2>1. 0 \in S
    BY <1>3, <1>9
  <2>2. ASSUME NEW k \in 0..(n - 1), k \in S PROVE k + 1 \in S
    <3>1. k + 1 \in 1..n /\ (k + 1) - 1 = k /\ k + 1 \in 0..n
      OBVIOUS
    <3>2. r[k + 1] = IF Recognized(raw[k + 1]) THEN Append(r[k], NormalizeGroup(raw[k + 1])) ELSE r[k]
      BY <1>10, <3>1
    <3>3. Append(r[k], NormalizeGroup(raw[k + 1])) \in State
      BY <1>2, <2>2, <3>1, AppendProperties DEF State
    <3> QED
      BY <2>2, <3>1, <3>2, <3>3
  <2> HIDE DEF S
  <2>3. \A k \in 0..n : k \in S
    BY <2>1, <2>2, UpInduction
  <2> QED
    BY <2>3 DEF S
<1> QED
  BY <1>1, <1>9, <1>10, <1>11 DEF GroupsPassed, State

LEMMA GroupsType ==
  ASSUME NEW raw, NEW n \in Nat, DOMAIN raw = 1..n
  PROVE  NormalizeGroups(raw) \in Seq(NormalGroups(raw))
<1>1. PICK r : GroupsPassed(r, n, raw)
  BY GroupsFold, Zenon
<1>2. n \in 0..n
  OBVIOUS
<1> QED
  BY <1>1, <1>2 DEF GroupsPassed

-----------------------------------------------------------------------------
(* The answer of the command.                                              *)

Ended == verdict \in {"ok", "invalid"}

\* Once the promise is settled its timer and its signal are off, and who told the
\* child to stop has settled it; an answer was parsed when nothing was left to read.
AnswerInv ==
  /\ written \in Seq(UNION {Lines[n] : n \in DOMAIN Lines})
  /\ Pending => ~told
  /\ ~Pending => timer # "armed" /\ ~listening
  /\ Ended => child = "dead" /\ AnswerIsWhole

\* Lines are written one by one, so a line that was read is one that was written.
LEMMA AllRead ==
  ASSUME NEW S, NEW s \in Seq(S) PROVE SubSeq(s, 1, Len(s)) = s
OBVIOUS

LEMMA AnswerStart == ASSUME AgyInit PROVE AnswerInv
BY SMT DEF AgyInit, AnswerInv, Ended, Pending

LEMMA AnswerKept == ASSUME AnswerInv, AgyNext PROVE AnswerInv'
<1> USE DEF AnswerInv, Ended, Pending
<1>1. CASE Close
  <2>1. SubSeq(written, 1, read) = written
    BY <1>1, AllRead DEF Close, AtEnd
  <2>2. UNCHANGED <<written, exitCode, child, told>>
    BY <1>1 DEF Close, processVars
  <2>3. child = "dead" /\ ~told /\ timer' # "armed" /\ ~listening'
    BY <1>1 DEF Close, AtEnd, Finish
  <2>4. verdict' \in {"exit", "invalid", "ok"}
    BY <1>1 DEF Close, Finish
  <2>5. ASSUME Ended' PROVE AnswerIsWhole'
    <3>1. CASE verdict' = "ok"
      <4>1. exitCode = "zero" /\ Parses(written) /\ usage' = Parse(written)
        BY <1>1, <2>1, <3>1 DEF Close, Finish
      <4> QED
        BY <2>2, <2>3, <3>1, <4>1 DEF AnswerIsWhole, Parses, Parse
    <3>2. CASE verdict' = "invalid"
      <4>1. exitCode = "zero" /\ ~Parses(written)
        BY <1>1, <2>1, <3>2 DEF Close, Finish
      <4> QED
        BY <2>2, <2>3, <3>2, <4>1 DEF AnswerIsWhole, Parses
    <3> QED
      BY <2>5, <3>1, <3>2
  <2> QED
    BY <2>2, <2>3, <2>4, <2>5
<1>2. CASE TimeoutFires \/ Abort \/ SpawnFails
  <2>1. verdict' \notin {"pending", "ok", "invalid"} /\ timer' # "armed" /\ ~listening'
    BY <1>2 DEF TimeoutFires, Abort, SpawnFails, Finish
  <2>2. UNCHANGED written
    BY <1>2 DEF TimeoutFires, Abort, SpawnFails, processVars
  <2> QED
    BY <2>1, <2>2
<1>3. CASE Spawned \/ Read \/ OtherExits \/ KillFires
           \/ (\E code \in {"zero", "nonzero"} : ChildExits(code))
  <2>1. UNCHANGED <<written, verdict, timer, listening, told, usage>>
    BY <1>3 DEF Spawned, Read, OtherExits, KillFires, ChildExits, Dies, timerVars, processVars
  <2>2. child = "dead" => UNCHANGED <<child, exitCode>>
    BY <1>3 DEF Spawned, Read, OtherExits, KillFires, ChildExits, Dies, timerVars, processVars
  <2>3. Ended => AnswerIsWhole'
    BY <2>1, <2>2 DEF AnswerIsWhole, Parses, Parse
  <2> QED
    BY <2>1, <2>2, <2>3
<1>4. ASSUME NEW n \in {Len(written) + 1} \cap DOMAIN Lines, NEW line \in Lines[n], Write(line)
      PROVE AnswerInv'
  <2>1. UNCHANGED <<verdict, told>> /\ Pending
    BY <1>4 DEF Write, timerVars
  <2>2. written' \in Seq(UNION {Lines[m] : m \in DOMAIN Lines})
    BY <1>4 DEF Write
  <2> QED
    BY <2>1, <2>2
<1> QED
  BY <1>1, <1>2, <1>3, <1>4 DEF AgyNext

LEMMA AnswerAlways == UsageSpec => []AnswerInv
<1>1. UsageInit => AnswerInv
  BY AnswerStart DEF UsageInit
<1>2. AnswerInv /\ [UsageNext]_agyVars => AnswerInv'
  <2> SUFFICES ASSUME AnswerInv, UNCHANGED agyVars PROVE AnswerInv'
    BY AnswerKept DEF UsageNext
  <2>1. UNCHANGED <<child, exitCode, written, told, timer, listening, verdict, usage>>
    BY DEF agyVars, processVars, timerVars
  <2> QED
    BY <2>1 DEF AnswerInv, Ended, Pending, AnswerIsWhole, Parses, Parse
<1> QED
  BY <1>1, <1>2, PTL DEF UsageSpec

\* The usage, or the complaint that there is none, is about the whole output of a
\* child that ended well by itself, whatever it may write (agy-usage.ts:149-231).
THEOREM AnswerWhole == UsageSpec => []AnswerIsWhole
<1>1. AnswerInv => AnswerIsWhole
  BY DEF AnswerInv, Ended, AnswerIsWhole
<1> QED
  BY <1>1, AnswerAlways, PTL

LEMMA FirstIn ==
  ASSUME NEW S, NEW lines \in Seq(S)
  PROVE  /\ FirstResult(lines) = 0 \/ FirstResult(lines) \in 1..Len(lines)
         /\ FirstResult(lines) # 0 => lines[FirstResult(lines)].event # "noise"
<1> DEFINE I == {i \in 1..Len(lines) : lines[i].event # "noise"}
<1>1. FirstResult(lines) = IF I # {} THEN Min(I) ELSE 0
  BY DEF FirstResult, SelectInSeq
<1>2. I \in SUBSET Nat /\ I \subseteq 1..Len(lines)
  BY LenProperties
<1>3. \A i \in I : lines[i].event # "noise"
  OBVIOUS
<1> HIDE DEF I
<1>4. I # {} => Min(I) \in I
  BY <1>2, MinIn
<1> QED
  BY <1>1, <1>2, <1>3, <1>4

\* What a call resolved with is made of the groups of a reply.
LEMMA UsageOfReply ==
  ASSUME AnswerInv, FromAgy
  PROVE  LET raw == written[FirstResult(written)].groups
         IN IsReply(raw) /\ usage = [agent |-> "agy", groups |-> NormalizeGroups(raw)]
<1> DEFINE first == FirstResult(written)
<1>1. Parses(written) /\ usage = Parse(written)
  BY DEF AnswerInv, FromAgy, Ended, AnswerIsWhole
<1>2. first # 0 /\ written[first].event = "data"
  BY <1>1 DEF Parses
<1>3. first \in 1..Len(written) /\ written \in Seq(UNION {Lines[n] : n \in DOMAIN Lines})
  BY <1>2, FirstIn DEF AnswerInv
<1>4. written[first] \in UNION {Lines[n] : n \in DOMAIN Lines}
  BY <1>3, ElementOfSeq
<1>5. IsReply(written[first].groups)
  BY <1>2, <1>4, LinesAssumption
<1> QED
  BY <1>1, <1>5 DEF Parse

\* The groups of a usage are a list.
LEMMA GroupsAreListed ==
  ASSUME AnswerInv, FromAgy
  PROVE  \E n \in Nat : DOMAIN usage.groups = 1..n
<1> DEFINE raw == written[FirstResult(written)].groups
<1>1. IsReply(raw) /\ usage = [agent |-> "agy", groups |-> NormalizeGroups(raw)]
  BY UsageOfReply
<1> HIDE DEF raw
<1>2. Len(raw) \in Nat /\ DOMAIN raw = 1..Len(raw)
  BY <1>1, LenProperties DEF IsReply
<1>3. usage.groups \in Seq(NormalGroups(raw))
  BY <1>1, <1>2, GroupsType
<1> QED
  BY <1>3, LenProperties

LEMMA OwnerOfUsage == ASSUME AnswerInv PROVE OwnerIsBest
<1> SUFFICES ASSUME FromAgy, NEW f \in Families
             PROVE  LET groups == usage.groups
                        listing == {i \in DOMAIN groups : f \in groups[i].families}
                        o == Owner(groups, f)
                    IN /\ IF listing = {} THEN o = 0 ELSE o \in listing
                       /\ \A i \in listing :
                            /\ Score(groups[i], f) <= Score(groups[o], f)
                            /\ i < o => Score(groups[i], f) < Score(groups[o], f)
  BY DEF OwnerIsBest
<1>1. PICK n \in Nat : DOMAIN usage.groups = 1..n
  BY GroupsAreListed
<1>2. Best(Owner(usage.groups, f), n, usage.groups, f)
  BY <1>1, OwnerBest
<1> QED
  BY <1>1, <1>2 DEF Best

\* A family belongs to the first of the groups that match it best, however many
\* groups a reply has and whatever they mention (agy-usage.ts:434-452).
THEOREM OwnerOfFamily == UsageSpec => []OwnerIsBest
BY OwnerOfUsage, AnswerAlways, PTL

-----------------------------------------------------------------------------
(* The usage of a call.                                                    *)

\* An API has answered with the usage, or the command has.
UsageInv == AnswerInv /\ (FromHttp => usage \in HttpUsages)

LEMMA UsageAlways == UsageSpec => []UsageInv
<1> DEFINE Inv == FromHttp => usage \in HttpUsages
<1>1. UsageInit => Inv
  BY DEF UsageInit, Nothing, FromHttp
<1>2. Inv /\ [UsageNext]_agyVars => Inv'
  <2> SUFFICES ASSUME Inv, [UsageNext]_agyVars PROVE Inv'
    OBVIOUS
  <2>1. CASE UNCHANGED agyVars
    BY <2>1 DEF agyVars, FromHttp
  <2>2. CASE UsageNext
    <3>1. usage' = usage \/ usage'.agent = "agy"
      BY <2>2 DEF UsageNext, AgyNext, Spawned, SpawnFails, Write, Read, TimeoutFires, Abort,
                  KillFires, ChildExits, OtherExits, Close, Parse
    <3> QED
      BY <2>2, <3>1 DEF UsageNext, FromHttp
  <2> QED
    BY <2>1, <2>2
<1>3. AnswerInv /\ Inv => UsageInv
  BY DEF UsageInv
<1> QED
  BY <1>1, <1>2, <1>3, AnswerAlways, PTL DEF UsageSpec

LEMMA HttpUsageType ==
  ASSUME UsageInv, FromHttp
  PROVE  \/ usage.agent = "codex" /\ usage \in CodexUsage
         \/ usage.agent = "claude" /\ usage \in ClaudeUsage
<1>1. usage \in CodexUsage \/ usage \in ClaudeUsage
  BY HttpUsagesAssumption DEF UsageInv
<1> QED
  BY <1>1 DEF CodexUsage, ClaudeUsage

-----------------------------------------------------------------------------
(* The weekly pace.                                                        *)

LEMMA MinOfTwo ==
  ASSUME NEW a \in Int, NEW b \in Int
  PROVE  Min({a, b}) = IF a <= b THEN a ELSE b
<1>1. \E x \in {a, b} : \A y \in {a, b} : x <= y
  OBVIOUS
<1>2. Min({a, b}) \in {a, b} /\ \A y \in {a, b} : Min({a, b}) <= y
  BY <1>1 DEF Min
<1> QED
  BY <1>2

LEMMA MaxOfTwo ==
  ASSUME NEW a \in Int, NEW b \in Int
  PROVE  Max({a, b}) = IF a >= b THEN a ELSE b
<1>1. \E x \in {a, b} : \A y \in {a, b} : x >= y
  OBVIOUS
<1>2. Max({a, b}) \in {a, b} /\ \A y \in {a, b} : Max({a, b}) >= y
  BY <1>1 DEF Max
<1> QED
  BY <1>2

\* The index of the day is within 0..6, and a later day of the week has begun exactly
\* if its index is not above that.
LEMMA DaysOfWeek ==
  ASSUME NEW next \in Int
  PROVE  /\ DayOfWeek(next, Now) \in 0..6
         /\ \A d \in 1..6 : next - Week + d * Day <= Now <=> d <= DayOfWeek(next, Now)
<1> DEFINE day == (Now - (next - Week)) \div Day
<1>1. Now \in Int /\ Day = 2 /\ Week = 14
  BY TimesAssumption DEF Day, Week
<1>2. day \in Int /\ 2 * day <= Now - (next - 14) /\ Now - (next - 14) < 2 * day + 2
  BY <1>1
<1>3. Max({0, day}) = IF 0 >= day THEN 0 ELSE day
  BY <1>2, MaxOfTwo
<1>4. DayOfWeek(next, Now) = IF day <= 0 THEN 0 ELSE IF day >= 6 THEN 6 ELSE day
  <2>1. DayOfWeek(next, Now) = Min({6, Max({0, day})})
    BY DEF DayOfWeek
  <2>2. Max({0, day}) \in Int
    BY <1>2, <1>3
  <2> HIDE DEF day
  <2>3. Min({6, Max({0, day})}) = IF 6 <= Max({0, day}) THEN 6 ELSE Max({0, day})
    BY <2>2, MinOfTwo
  <2> QED
    BY <1>2, <1>3, <2>1, <2>3
<1> HIDE DEF day
<1> QED
  BY <1>1, <1>2, <1>4

LEMMA CountOfDays ==
  ASSUME NEW next \in Int
  PROVE  DaysBegun(next) = DayOfWeek(next, Now) + 1
<1> DEFINE k == DayOfWeek(next, Now)
<1>1. {d \in 0..6 : d = 0 \/ next - Week + d * Day <= Now} = 0..k
  BY DaysOfWeek
<1>2. k \in 0..6
  BY DaysOfWeek
<1>3. Cardinality(0..k) = k + 1
  BY <1>2, FS_Interval
<1> QED
  BY <1>1, <1>3 DEF DaysBegun

\* What the code takes for the end of the week is what a known reset foretells.
LEMMA ResetForetold ==
  ASSUME NEW known \in LastResets
  PROVE  /\ NextReset(Unknown, known, Now) = Unknown => Foretold(known) = {}
         /\ NextReset(Unknown, known, Now) # Unknown =>
              Foretold(known) = {NextReset(Unknown, known, Now)}
<1>1. Now \in Nat /\ known \in Nat \cup {Unknown} /\ Unknown = -1 /\ Week = 14
  BY TimesAssumption DEF Unknown, Week, Day
<1>2. CASE known = Unknown
  BY <1>1, <1>2 DEF NextReset, Foretold
<1>3. CASE known # Unknown /\ known > Now
  BY <1>1, <1>3 DEF NextReset, Foretold
<1>4. CASE known # Unknown /\ ~(known > Now)
  BY <1>1, <1>4 DEF NextReset, Foretold
<1> QED
  BY <1>2, <1>3, <1>4

LEMMA NextResetType ==
  ASSUME NEW reset \in Nat \cup {Unknown}, NEW known \in LastResets
  PROVE  NextReset(reset, known, Now) \in Nat \cup {Unknown}
BY TimesAssumption DEF NextReset, Unknown, Week, Day

\* For one policy and one known reset.
LEMMA BudgetOfWeek ==
  ASSUME NEW used \in Nat, NEW reset \in Nat \cup {Unknown}, NEW known \in LastResets,
         NEW weekly, weekly.max \in Nat, weekly.pacing = "daily"
  PROVE  OverPace(used, reset, weekly, known, Now)
           <=> \A next \in (IF reset # Unknown THEN {reset} ELSE Foretold(known)) :
                 used * 7 >= weekly.max * DaysBegun(next)
<1> DEFINE next == NextReset(reset, known, Now)
           resets == IF reset # Unknown THEN {reset} ELSE Foretold(known)
<1>1. next \in Nat \cup {Unknown} /\ used # Unknown
  BY NextResetType DEF Unknown
<1>2. CASE next = Unknown
  <2>1. Allowed7(reset, weekly, known, Now) = 0
    BY <1>2 DEF Allowed7
  <2>2. resets = {}
    <3>1. reset = Unknown
      BY <1>2 DEF NextReset
    <3> QED
      BY <1>2, <3>1, ResetForetold
  <2> QED
    BY <2>1, <2>2 DEF OverPace
<1>3. CASE next # Unknown
  <2>1. next \in Int
    BY <1>1, <1>3
  <2>2. resets = {next}
    BY <1>3, ResetForetold DEF NextReset
  <2>3. Allowed7(reset, weekly, known, Now) = DaysBegun(next) * weekly.max
    BY <1>3, <2>1, CountOfDays DEF Allowed7
  <2>4. DaysBegun(next) \in Nat
    BY <2>1, CountOfDays, DaysOfWeek
  <2>5. DaysBegun(next) * weekly.max = weekly.max * DaysBegun(next) /\ 7 * used = used * 7
    BY <2>4
  <2>6. OverPace(used, reset, weekly, known, Now) <=> used * 7 >= weekly.max * DaysBegun(next)
    BY <1>1, <2>3, <2>5 DEF OverPace
  <2> QED
    BY <2>2, <2>6
<1> QED
  BY <1>2, <1>3

\* The weekly budget grows by a seventh with each day that has begun and closes the
\* gate when it is used up, whatever the times, the budget and the usage are, and
\* stays closed without any idea of the week (agent-usage-evaluator.ts:105-122).
THEOREM PaceOfWeek == UsageSpec => []PaceIsTheBudget
<1>1. ASSUME UsageInv PROVE PaceIsTheBudget
  <2> SUFFICES ASSUME usage.agent = "codex", NEW policy \in Policies, NEW known \in LastResets,
                      policy.weekly.pacing = "daily"
               PROVE  LET resets == IF usage.reset # Unknown THEN {usage.reset} ELSE Foretold(known)
                      IN OverPace(usage.secondary.used, usage.reset, policy.weekly, known, Now)
                           <=> \A next \in resets :
                                 usage.secondary.used * 7 >= policy.weekly.max * DaysBegun(next)
    BY DEF PaceIsTheBudget
  <2>1. usage \in CodexUsage
    BY <1>1, HttpUsageType DEF FromHttp
  <2>2. /\ usage.secondary.used \in Nat /\ usage.reset \in Nat \cup {Unknown}
        /\ policy.weekly.max \in Nat
    BY <2>1, PoliciesAssumption DEF CodexUsage
  <2> QED
    BY <2>2, BudgetOfWeek
<1> QED
  BY <1>1, UsageAlways, PTL

-----------------------------------------------------------------------------
(* The reasons to refuse.                                                  *)

Codes == {"provider_blocked", "quota_limit", "five_hour_reserve", "missing_window",
          "family_unobserved", "family_unknown", "family_ambiguous", "weekly_pace"}

Refusal == [code : Codes, holds : BOOLEAN]

NoneHolds(reasons) == \A i \in 1..Len(reasons) : ~reasons[i].holds

LEMMA FirstReason ==
  ASSUME NEW reasons \in Seq(Refusal)
  PROVE  LET first == SelectInSeq(reasons, LAMBDA r : r.holds)
         IN (first = 0 \/ reasons[first].code = "available") <=> NoneHolds(reasons)
<1> DEFINE I == {i \in 1..Len(reasons) : reasons[i].holds}
           first == SelectInSeq(reasons, LAMBDA r : r.holds)
<1>1. first = IF I # {} THEN Min(I) ELSE 0
  BY DEF SelectInSeq
<1>2. I \in SUBSET Nat /\ I \subseteq 1..Len(reasons)
  BY LenProperties
<1>3. I = {} <=> NoneHolds(reasons)
  BY DEF NoneHolds
<1> HIDE DEF I, first
<1>4. ASSUME I # {} PROVE first \in 1..Len(reasons) /\ first # 0
  <2>1. Min(I) \in I
    BY <1>2, <1>4, MinIn
  <2>2. first = Min(I)
    BY <1>1, <1>4
  <2>3. first \in 1..Len(reasons)
    BY <1>2, <2>1, <2>2
  <2>4. Len(reasons) \in Nat
    BY LenProperties
  <2> QED
    BY <2>3, <2>4
<1>5. ASSUME NEW i \in 1..Len(reasons) PROVE reasons[i].code # "available"
  <2>1. reasons[i] \in Refusal
    BY ElementOfSeq
  <2> QED
    BY <2>1 DEF Refusal, Codes
<1>6. (first = 0 \/ reasons[first].code = "available") <=> NoneHolds(reasons)
  BY <1>1, <1>3, <1>4, <1>5
<1> QED
  BY <1>6 DEF first

LEMMA OpenIfNoneHolds ==
  ASSUME NEW u, NEW model, NEW policy, NEW known,
         Reasons(u, model, policy, known, Now) \in Seq(Refusal)
  PROVE  Open(u, model, policy, known) <=> NoneHolds(Reasons(u, model, policy, known, Now))
BY FirstReason DEF Open, Available, ReasonCode

LEMMA ReasonType ==
  ASSUME NEW c \in Codes, NEW h \in BOOLEAN
  PROVE  Reason(c, h) \in Refusal /\ (Reason(c, h).holds <=> h)
BY DEF Reason, Refusal

LEMMA NoneOfTwo ==
  ASSUME NEW R \in Seq(Refusal), NEW T \in Seq(Refusal)
  PROVE  R \o T \in Seq(Refusal) /\ (NoneHolds(R \o T) <=> NoneHolds(R) /\ NoneHolds(T))
<1>1. /\ R \o T \in Seq(Refusal) /\ Len(R \o T) = Len(R) + Len(T)
      /\ \A i \in 1..(Len(R) + Len(T)) : (R \o T)[i] = IF i <= Len(R) THEN R[i] ELSE T[i - Len(R)]
      /\ Len(R) \in Nat /\ Len(T) \in Nat
  BY ConcatProperties, LenProperties
<1> DEFINE C == R \o T
<1>2. /\ Len(C) = Len(R) + Len(T) 
      /\ \A i \in 1..(Len(R) + Len(T)) : C[i] = IF i <= Len(R) THEN R[i] ELSE T[i - Len(R)]
  BY <1>1
<1> HIDE DEF C
<1>3. ASSUME NoneHolds(C) PROVE NoneHolds(R) /\ NoneHolds(T)
  <2>1. ASSUME NEW i \in 1..Len(R) PROVE ~R[i].holds
    BY <1>1, <1>2, <1>3 DEF NoneHolds
  <2>2. ASSUME NEW i \in 1..Len(T) PROVE ~T[i].holds
    <3>1. C[Len(R) + i] = T[i] /\ Len(R) + i \in 1..Len(C)
      BY <1>1, <1>2
    <3> QED
      BY <1>3, <3>1 DEF NoneHolds
  <2> QED
    BY <2>1, <2>2 DEF NoneHolds
<1>4. ASSUME NoneHolds(R), NoneHolds(T) PROVE NoneHolds(C)
  <2> SUFFICES ASSUME NEW i \in 1..Len(C) PROVE ~C[i].holds
    BY DEF NoneHolds
  <2>1. CASE i <= Len(R)
    BY <1>1, <1>2, <1>4, <2>1 DEF NoneHolds
  <2>2. CASE i > Len(R)
    <3>1. i - Len(R) \in 1..Len(T) /\ C[i] = T[i - Len(R)]
      BY <1>1, <1>2, <2>2
    <3> QED
      BY <1>4, <3>1 DEF NoneHolds
  <2> QED
    BY <1>1, <1>2, <2>1, <2>2
<1> QED
  BY <1>1, <1>3, <1>4 DEF C

LEMMA NoneOfOne ==
  ASSUME NEW r \in Refusal
  PROVE  <<r>> \in Seq(Refusal) /\ (NoneHolds(<<r>>) <=> ~r.holds)
BY DEF NoneHolds

Paced(u, model, policy, known) ==
  /\ policy.weekly.pacing # "none"
  /\ OverPace(WeeklyUsed(u, model, policy), WeeklyReset(u, model, policy), policy.weekly, known, Now)

LEMMA PaceType ==
  ASSUME NEW u, NEW model, NEW policy, NEW known
  PROVE  /\ PaceReason(u, model, policy, known, Now) \in Refusal
         /\ PaceReason(u, model, policy, known, Now).holds <=> Paced(u, model, policy, known)
BY DEF PaceReason, Reason, Paced, Refusal, Codes, OverPace

\* Pace and the reasons of the agent are all there is.
LEMMA OpenParts ==
  ASSUME NEW u, NEW model, NEW policy, NEW known, NEW R \in Seq(Refusal),
         Reasons(u, model, policy, known, Now) = R \o <<PaceReason(u, model, policy, known, Now)>>
  PROVE  Open(u, model, policy, known) <=> NoneHolds(R) /\ ~Paced(u, model, policy, known)
<1> DEFINE p == PaceReason(u, model, policy, known, Now)
<1>1. p \in Refusal /\ (p.holds <=> Paced(u, model, policy, known))
  BY PaceType
<1> HIDE DEF p
<1>2. <<p>> \in Seq(Refusal) /\ (NoneHolds(<<p>>) <=> ~p.holds)
  BY <1>1, NoneOfOne
<1>3. R \o <<p>> \in Seq(Refusal) /\ (NoneHolds(R \o <<p>>) <=> NoneHolds(R) /\ NoneHolds(<<p>>))
  BY <1>2, NoneOfTwo
<1>4. Reasons(u, model, policy, known, Now) = R \o <<p>>
  BY DEF p
<1> QED
  BY <1>1, <1>2, <1>3, <1>4, OpenIfNoneHolds

LEMMA CodexOpen ==
  ASSUME NEW u \in CodexUsage, NEW model, NEW policy, NEW known
  PROVE  Open(u, model, policy, known) <=>
           /\ u.allowed /\ ~u.primary.limitReached /\ ~u.secondary.limitReached /\ ~u.limitReached
           /\ ~ReserveReached(u.primary.used, policy)
           /\ ~Paced(u, model, policy, known)
<1> DEFINE R == CodexReasons(u, policy)
           h1 == ~u.allowed
           h2 == u.primary.limitReached
           h3 == ReserveReached(u.primary.used, policy)
           h4 == u.secondary.limitReached
           h5 == u.limitReached
<1>1. R = << Reason("provider_blocked", h1), Reason("quota_limit", h2),
             Reason("five_hour_reserve", h3), Reason("quota_limit", h4), Reason("quota_limit", h5) >>
  BY DEF CodexReasons
<1>2. h1 \in BOOLEAN /\ h2 \in BOOLEAN /\ h3 \in BOOLEAN /\ h4 \in BOOLEAN /\ h5 \in BOOLEAN
  BY DEF CodexUsage, ReserveReached
<1>3. R \in Seq(Refusal) /\ (NoneHolds(R) <=> ~h1 /\ ~h2 /\ ~h3 /\ ~h4 /\ ~h5)
  <2> HIDE DEF R, h1, h2, h3, h4, h5
  <2> QED
    BY <1>1, <1>2, ReasonType DEF Codes, NoneHolds
<1>4. Reasons(u, model, policy, known, Now) = R \o <<PaceReason(u, model, policy, known, Now)>>
  BY DEF Reasons, CodexUsage
<1>5. Open(u, model, policy, known) <=> NoneHolds(R) /\ ~Paced(u, model, policy, known)
  BY <1>3, <1>4, OpenParts
<1> QED
  BY <1>3, <1>5

LEMMA ClaudeOpen ==
  ASSUME NEW u \in ClaudeUsage, NEW model, NEW policy, NEW known
  PROVE  LET windows == ClaudeWindows(u, model)
         IN Open(u, model, policy, known) <=>
              /\ ~(u.five_hour # Unknown /\ ReserveReached(u.five_hour, policy))
              /\ \A i \in DOMAIN windows : ~(windows[i] >= Full)
              /\ \E i \in DOMAIN windows : windows[i] # Unknown
              /\ \A l \in u.limits : ~LimitApplies(l, model)
              /\ ~(u.five_hour >= Full)
              /\ ~Paced(u, model, policy, known)
<1> DEFINE R == ClaudeReasons(u, policy, model)
           windows == ClaudeWindows(u, model)
           h1 == u.five_hour >= Full
           h2 == u.five_hour # Unknown /\ ReserveReached(u.five_hour, policy)
           h3 == \E i \in DOMAIN windows : windows[i] >= Full
           h4 == \A i \in DOMAIN windows : windows[i] = Unknown
           h5 == \E l \in u.limits : LimitApplies(l, model)
<1>1. R = << Reason("quota_limit", h1), Reason("five_hour_reserve", h2), Reason("quota_limit", h3),
             Reason("missing_window", h4), Reason("quota_limit", h5) >>
  BY DEF ClaudeReasons
<1>2. h1 \in BOOLEAN /\ h2 \in BOOLEAN /\ h3 \in BOOLEAN /\ h4 \in BOOLEAN /\ h5 \in BOOLEAN
  OBVIOUS
<1>3. R \in Seq(Refusal) /\ (NoneHolds(R) <=> ~h1 /\ ~h2 /\ ~h3 /\ ~h4 /\ ~h5)
  <2> HIDE DEF R, h1, h2, h3, h4, h5
  <2> QED
    BY <1>1, <1>2, ReasonType DEF Codes, NoneHolds
<1>4. Reasons(u, model, policy, known, Now) = R \o <<PaceReason(u, model, policy, known, Now)>>
  BY DEF Reasons, ClaudeUsage
<1>5. Open(u, model, policy, known) <=> NoneHolds(R) /\ ~Paced(u, model, policy, known)
  BY <1>3, <1>4, OpenParts
<1> QED
  BY <1>3, <1>5

WeeklyOnly(groups, model, policy) ==
  IF policy.group = "none" THEN AgyFamily(model) = {"argon"}
  ELSE \E i \in {AgyGroup(groups, policy)} \ {0} : groups[i].families = {"argon"}

Observed(groups, model, policy) ==
  /\ groups # <<>>
  /\ ~(policy.group # "none" /\ AgyGroup(groups, policy) = 0)
  /\ ~(policy.group = "none" /\ AgyFamily(model) = {})
  /\ ~(policy.group = "none" /\ Cardinality(AgyFamily(model)) > 1)
  /\ ~(policy.group = "none" /\ \A f \in AgyFamily(model) : Owner(groups, f) = 0)

LeavesOpen(bucket, policy) ==
  /\ ~(bucket # NoBucket /\ bucket.left = 0)
  /\ ~(bucket # NoBucket /\ bucket.window = "five_hour" /\ ReserveReached(Full - bucket.left, policy))

LEMMA BucketLeavesOpen ==
  ASSUME NEW bucket, NEW policy
  PROVE  /\ BucketReasons(bucket, policy) \in Seq(Refusal)
         /\ NoneHolds(BucketReasons(bucket, policy)) <=> LeavesOpen(bucket, policy)
<1> DEFINE R == BucketReasons(bucket, policy)
           h1 == bucket # NoBucket /\ bucket.left = 0
           h2 == bucket # NoBucket /\ bucket.window = "five_hour"
                   /\ ReserveReached(Full - bucket.left, policy)
<1>1. R = <<Reason("quota_limit", h1), Reason("five_hour_reserve", h2)>>
  BY DEF BucketReasons
<1>2. h1 \in BOOLEAN /\ h2 \in BOOLEAN
  OBVIOUS
<1>3. LeavesOpen(bucket, policy) <=> ~h1 /\ ~h2
  BY DEF LeavesOpen
<1>4. R \in Seq(Refusal) /\ (NoneHolds(R) <=> ~h1 /\ ~h2)
  <2> HIDE DEF R, h1, h2
  <2> QED
    BY <1>1, <1>2, ReasonType DEF Codes, NoneHolds
<1> QED
  BY <1>3, <1>4

LEMMA ObservedNone ==
  ASSUME NEW groups, NEW model, NEW policy
  PROVE  /\ AgyObserved(groups, model, policy) \in Seq(Refusal)
         /\ NoneHolds(AgyObserved(groups, model, policy)) <=> Observed(groups, model, policy)
<1> DEFINE R == AgyObserved(groups, model, policy)
           h1 == groups = <<>>
           h2 == policy.group # "none" /\ AgyGroup(groups, policy) = 0
           h3 == policy.group = "none" /\ AgyFamily(model) = {}
           h4 == policy.group = "none" /\ Cardinality(AgyFamily(model)) > 1
           h5 == policy.group = "none" /\ \A f \in AgyFamily(model) : Owner(groups, f) = 0
<1>1. R = << Reason("missing_window", h1), Reason("family_unobserved", h2), Reason("family_unknown", h3),
             Reason("family_ambiguous", h4), Reason("family_unobserved", h5) >>
  BY DEF AgyObserved
<1>2. h1 \in BOOLEAN /\ h2 \in BOOLEAN /\ h3 \in BOOLEAN /\ h4 \in BOOLEAN /\ h5 \in BOOLEAN
  OBVIOUS
<1>3. Observed(groups, model, policy) <=> ~h1 /\ ~h2 /\ ~h3 /\ ~h4 /\ ~h5
  BY DEF Observed
<1>4. R \in Seq(Refusal) /\ (NoneHolds(R) <=> ~h1 /\ ~h2 /\ ~h3 /\ ~h4 /\ ~h5)
  <2> HIDE DEF R, h1, h2, h3, h4, h5
  <2> QED
    BY <1>1, <1>2, ReasonType DEF Codes, NoneHolds
<1> QED
  BY <1>3, <1>4

LEMMA AgyOpen ==
  ASSUME NEW u, u.agent = "agy", NEW model, NEW policy, NEW known
  PROVE  LET five  == AgyWindow(u.groups, model, policy, "five_hour")
             seven == AgyWindow(u.groups, model, policy, "seven_day")
         IN Open(u, model, policy, known) <=>
              /\ Observed(u.groups, model, policy)
              /\ ~(seven = NoBucket \/ (~WeeklyOnly(u.groups, model, policy) /\ five = NoBucket))
              /\ LeavesOpen(five, policy) /\ LeavesOpen(seven, policy)
              /\ ~Paced(u, model, policy, known)
<1> DEFINE groups == u.groups
           five  == AgyWindow(groups, model, policy, "five_hour")
           seven == AgyWindow(groups, model, policy, "seven_day")
           h == seven = NoBucket \/ (~WeeklyOnly(groups, model, policy) /\ five = NoBucket)
           O == AgyObserved(groups, model, policy)
           M == <<Reason("missing_window", h)>>
           F == BucketReasons(five, policy)
           S == BucketReasons(seven, policy)
           R == AgyReasons(groups, model, policy)
<1>1. R = O \o (M \o F \o S)
  BY DEF AgyReasons, WindowReasons, WeeklyOnly
<1>2. M \in Seq(Refusal) /\ (NoneHolds(M) <=> ~h)
  <2>1. h \in BOOLEAN
    OBVIOUS
  <2> HIDE DEF h
  <2>2. Reason("missing_window", h) \in Refusal /\ (Reason("missing_window", h).holds <=> h)
    BY <2>1, ReasonType DEF Codes
  <2> QED
    BY <2>2, NoneOfOne
<1>3. O \in Seq(Refusal) /\ (NoneHolds(O) <=> Observed(groups, model, policy))
  BY ObservedNone
<1>4. /\ F \in Seq(Refusal) /\ (NoneHolds(F) <=> LeavesOpen(five, policy))
      /\ S \in Seq(Refusal) /\ (NoneHolds(S) <=> LeavesOpen(seven, policy))
  BY BucketLeavesOpen
<1>5. Reasons(u, model, policy, known, Now) = R \o <<PaceReason(u, model, policy, known, Now)>>
  BY DEF Reasons
<1>6. R \in Seq(Refusal) /\
        (NoneHolds(R) <=> NoneHolds(O) /\ NoneHolds(M) /\ NoneHolds(F) /\ NoneHolds(S))
  <2> HIDE DEF R, O, M, F, S
  <2>1. M \o F \in Seq(Refusal) /\ (NoneHolds(M \o F) <=> NoneHolds(M) /\ NoneHolds(F))
    BY <1>2, <1>4, NoneOfTwo
  <2>2. /\ M \o F \o S \in Seq(Refusal)
        /\ NoneHolds(M \o F \o S) <=> NoneHolds(M) /\ NoneHolds(F) /\ NoneHolds(S)
    BY <1>4, <2>1, NoneOfTwo
  <2> QED
    BY <1>1, <1>3, <2>2, NoneOfTwo
<1>7. Open(u, model, policy, known) <=> NoneHolds(R) /\ ~Paced(u, model, policy, known)
  BY <1>5, <1>6, OpenParts
<1> QED
  BY <1>2, <1>3, <1>4, <1>6, <1>7

-----------------------------------------------------------------------------
(* Policies.                                                               *)

\* Whoever gets past the strict policy gets past the other one.
IsStricter(strict, policy) ==
  /\ strict.group = policy.group
  /\ policy.fiveHourMax \in Int /\ strict.fiveHourMax \in Int
  /\ strict.fiveHourMax <= policy.fiveHourMax
  /\ policy.weekly.max \in Nat /\ strict.weekly.max \in Int
  /\ strict.weekly.max <= policy.weekly.max
  /\ policy.weekly.pacing \in {"none", "off", "daily"}
  /\ strict.weekly.pacing \in {policy.weekly.pacing, "off", "daily"}
  /\ policy.weekly.pacing = "daily" => strict.weekly.pacing = "daily"

LEMMA PolicyType ==
  ASSUME NEW policy \in Policies
  PROVE  policy \in [fiveHourMax : Nat, weekly : [pacing : {"none", "off", "daily"}, max : Nat],
                     group : STRING]
BY PoliciesAssumption

LEMMA StrictAsItself ==
  ASSUME NEW policy \in Policies
  PROVE  IsStricter(policy, policy)
BY PolicyType DEF IsStricter

LEMMA StricterIsStricter ==
  ASSUME NEW policy \in Policies, NEW strict \in Stricter(policy)
  PROVE  IsStricter(strict, policy)
<1> DEFINE p1 == [policy EXCEPT !.fiveHourMax = @ - 1]
           p2 == [policy EXCEPT !.weekly.max = @ - 1]
           p3 == [policy EXCEPT !.weekly.pacing = IF @ = "none" THEN "off" ELSE "daily"]
<1>1. IsStricter(p1, policy)
  BY PolicyType DEF IsStricter
<1>2. IsStricter(p2, policy)
  BY PolicyType DEF IsStricter
<1>3. IsStricter(p3, policy)
  BY PolicyType DEF IsStricter
<1>4. strict \in {p1, p2, p3}
  BY DEF Stricter
<1> HIDE DEF p1, p2, p3
<1> QED
  BY <1>1, <1>2, <1>3, <1>4

LEMMA ReserveMonotone ==
  ASSUME NEW used \in Int, NEW more \in Int, used <= more,
         NEW policy, NEW strict, IsStricter(strict, policy)
  PROVE  ReserveReached(used, policy) => ReserveReached(more, strict)
BY DEF IsStricter, ReserveReached, Full

LEMMA AllowedType ==
  ASSUME NEW reset \in Nat \cup {Unknown}, NEW known \in LastResets,
         NEW weekly, weekly.max \in Int
  PROVE  Allowed7(reset, weekly, known, Now) \in Int
<1> DEFINE next == NextReset(reset, known, Now)
<1>1. next \in Nat \cup {Unknown}
  BY NextResetType
<1>2. next # Unknown => DayOfWeek(next, Now) \in 0..6
  BY <1>1, DaysOfWeek
<1> QED
  BY <1>2 DEF Allowed7

LEMMA AllowedMonotone ==
  ASSUME NEW reset \in Nat \cup {Unknown}, NEW known \in LastResets,
         NEW policy, NEW strict, IsStricter(strict, policy), policy.weekly.pacing # "none"
  PROVE  /\ strict.weekly.pacing # "none"
         /\ Allowed7(reset, strict.weekly, known, Now) <= Allowed7(reset, policy.weekly, known, Now)
<1> DEFINE next == NextReset(reset, known, Now)
           k == DayOfWeek(next, Now) + 1
           a == strict.weekly.max
           b == policy.weekly.max
<1>1. a \in Int /\ b \in Nat /\ a <= b
  BY DEF IsStricter
<1>2. next \in Nat \cup {Unknown}
  BY NextResetType
<1>3. strict.weekly.pacing # "none"
  BY DEF IsStricter
<1>4. CASE next = Unknown
  <2>1. policy.weekly.pacing = "daily" => /\ strict.weekly.pacing = "daily"
          /\ Allowed7(reset, strict.weekly, known, Now) = 0
          /\ Allowed7(reset, policy.weekly, known, Now) = 0
    BY <1>4 DEF IsStricter, Allowed7
  <2>2. policy.weekly.pacing = "off" =>
          /\ Allowed7(reset, strict.weekly, known, Now) \in {0, 7 * a}
          /\ Allowed7(reset, policy.weekly, known, Now) = 7 * b
    BY <1>4 DEF IsStricter, Allowed7
  <2>3. policy.weekly.pacing \in {"off", "daily"}
    BY DEF IsStricter
  <2> HIDE DEF a, b
  <2> QED
    BY <1>1, <1>3, <2>1, <2>2, <2>3
<1>5. CASE next # Unknown
  <2>1. k \in 1..7
    BY <1>2, <1>5, DaysOfWeek
  <2>2. policy.weekly.pacing = "daily" => /\ strict.weekly.pacing = "daily"
          /\ Allowed7(reset, strict.weekly, known, Now) = k * a
          /\ Allowed7(reset, policy.weekly, known, Now) = k * b
    BY <1>5 DEF IsStricter, Allowed7
  <2>3. policy.weekly.pacing = "off" =>
          /\ Allowed7(reset, strict.weekly, known, Now) \in {k * a, 7 * a}
          /\ Allowed7(reset, policy.weekly, known, Now) = 7 * b
    BY <1>5 DEF IsStricter, Allowed7
  <2>4. policy.weekly.pacing \in {"off", "daily"}
    BY DEF IsStricter
  <2> HIDE DEF a, b, k
  <2>5. k * a <= k * b /\ k * a <= 7 * b /\ 7 * a <= 7 * b
    BY <1>1, <2>1
  <2> QED
    BY <1>1, <1>3, <2>2, <2>3, <2>4, <2>5
<1> QED
  BY <1>3, <1>4, <1>5

LEMMA PaceMonotone ==
  ASSUME NEW reset \in Nat \cup {Unknown}, NEW known \in LastResets,
         NEW policy, NEW strict, IsStricter(strict, policy), policy.weekly.pacing # "none",
         NEW used, NEW more, more = Unknown \/ (used \in Nat /\ more \in Nat /\ used <= more),
         OverPace(used, reset, policy.weekly, known, Now)
  PROVE  strict.weekly.pacing # "none" /\ OverPace(more, reset, strict.weekly, known, Now)
<1> DEFINE A == Allowed7(reset, policy.weekly, known, Now)
           B == Allowed7(reset, strict.weekly, known, Now)
<1>1. strict.weekly.pacing # "none" /\ B <= A
  BY AllowedMonotone
<1>2. A \in Int /\ B \in Int
  BY AllowedType DEF IsStricter
<1>3. more = Unknown \/ (used \in Nat /\ more \in Nat /\ used <= more)
  OBVIOUS
<1>4. used = Unknown \/ 7 * used >= A
  BY DEF OverPace
<1> HIDE DEF A, B
<1>5. more = Unknown \/ 7 * more >= B
  BY <1>1, <1>2, <1>3, <1>4 DEF Unknown
<1> QED
  BY <1>1, <1>5 DEF OverPace, B

-----------------------------------------------------------------------------
(* More is spent, or more kept in reserve.                                 *)

LEMMA CodexMonotone ==
  ASSUME NEW u \in CodexUsage, NEW v \in CodexUsage, NEW model, NEW known \in LastResets,
         NEW policy, NEW strict, IsStricter(strict, policy),
         v.allowed = u.allowed, v.limitReached = u.limitReached, v.reset = u.reset,
         v.primary.limitReached = u.primary.limitReached,
         v.secondary.limitReached = u.secondary.limitReached,
         u.primary.used <= v.primary.used, u.secondary.used <= v.secondary.used,
         Open(v, model, strict, known)
  PROVE  Open(u, model, policy, known)
<1>1. /\ u.primary.used \in Nat /\ v.primary.used \in Nat
      /\ u.secondary.used \in Nat /\ v.secondary.used \in Nat /\ u.reset \in Nat \cup {Unknown}
  BY DEF CodexUsage
<1>2. /\ v.allowed /\ ~v.primary.limitReached /\ ~v.secondary.limitReached /\ ~v.limitReached
      /\ ~ReserveReached(v.primary.used, strict) /\ ~Paced(v, model, strict, known)
  BY CodexOpen
<1>3. /\ u.allowed /\ ~u.primary.limitReached /\ ~u.secondary.limitReached /\ ~u.limitReached
  BY <1>2
<1>4. ~ReserveReached(u.primary.used, policy)
  BY <1>1, <1>2, ReserveMonotone
<1>5. ~Paced(u, model, policy, known)
  <2>1. /\ WeeklyUsed(u, model, policy) = u.secondary.used /\ WeeklyReset(u, model, policy) = u.reset
        /\ WeeklyUsed(v, model, strict) = v.secondary.used /\ WeeklyReset(v, model, strict) = u.reset
    BY DEF WeeklyUsed, WeeklyReset, CodexUsage
  <2> QED
    BY <1>1, <1>2, <2>1, PaceMonotone DEF Paced
<1> QED
  BY <1>3, <1>4, <1>5, CodexOpen

ClaudeWindowNames == {"five_hour", "seven_day", "seven_day_opus", "seven_day_sonnet"}

\* A window that was not reported is not reported, and no other has less.
MoreUsed(used, more) ==
  \/ used = Unknown /\ more = Unknown
  \/ used \in Nat /\ more \in Nat /\ used <= more

\* The same of the windows in a list.
AllMoreUsed(before, after) ==
  /\ before \in Seq(Percentage) /\ after \in Seq(Percentage) /\ Len(before) = Len(after)
  /\ \A i \in 1..Len(after) : MoreUsed(before[i], after[i])

LEMMA MoreJoined ==
  ASSUME NEW R, NEW S, NEW T, NEW U, AllMoreUsed(R, S), AllMoreUsed(T, U)
  PROVE  AllMoreUsed(R \o T, S \o U)
<1>1. /\ R \in Seq(Percentage) /\ S \in Seq(Percentage) /\ Len(R) = Len(S)
      /\ T \in Seq(Percentage) /\ U \in Seq(Percentage) /\ Len(T) = Len(U)
      /\ Len(R) \in Nat /\ Len(T) \in Nat
  BY LenProperties DEF AllMoreUsed
<1> DEFINE n == Len(R)
           m == Len(T)
           C == R \o T
           D == S \o U
<1>2. /\ C \in Seq(Percentage) /\ Len(C) = n + m
      /\ \A i \in 1..(n + m) : C[i] = IF i <= n THEN R[i] ELSE T[i - n]
  BY <1>1, ConcatProperties
<1>3. /\ D \in Seq(Percentage) /\ Len(D) = n + m
      /\ \A i \in 1..(n + m) : D[i] = IF i <= n THEN S[i] ELSE U[i - n]
  BY <1>1, ConcatProperties
<1>4. /\ \A i \in 1..n : MoreUsed(R[i], S[i])
      /\ \A i \in 1..m : MoreUsed(T[i], U[i])
  BY <1>1 DEF AllMoreUsed
<1>5. n \in Nat /\ m \in Nat
  BY <1>1
<1> HIDE DEF n, m, C, D
<1>6. ASSUME NEW i \in 1..(n + m) PROVE MoreUsed(C[i], D[i])
  <2>1. CASE i <= n
    BY <1>2, <1>3, <1>4, <1>5, <2>1
  <2>2. CASE i > n
    <3>1. i - n \in 1..m /\ C[i] = T[i - n] /\ D[i] = U[i - n]
      BY <1>2, <1>3, <1>5, <2>2
    <3> QED
      BY <1>4, <3>1
  <2> QED
    BY <1>5, <2>1, <2>2
<1>7. AllMoreUsed(C, D)
  BY <1>2, <1>3, <1>6 DEF AllMoreUsed
<1> QED
  BY <1>7 DEF C, D

LEMMA MoreOfOne ==
  ASSUME NEW a, NEW x, MoreUsed(a, x)
  PROVE  AllMoreUsed(<<a>>, <<x>>)
BY DEF AllMoreUsed, MoreUsed, Percentage

LEMMA MoreOfTwo ==
  ASSUME NEW a, NEW b, NEW x, NEW y, MoreUsed(a, x), MoreUsed(b, y)
  PROVE  AllMoreUsed(<<a, b>>, <<x, y>>)
<1>1. /\ <<a, b>> \in Seq(Percentage) /\ <<x, y>> \in Seq(Percentage)
      /\ Len(<<a, b>>) = 2 /\ Len(<<x, y>>) = 2
  BY DEF MoreUsed, Percentage
<1>2. ASSUME NEW i \in 1..2 PROVE MoreUsed(<<a, b>>[i], <<x, y>>[i])
  <2>1. i = 1 \/ i = 2
    OBVIOUS
  <2>2. CASE i = 1
    BY <2>2
  <2>3. CASE i = 2
    BY <2>3
  <2> QED
    BY <2>1, <2>2, <2>3
<1> QED
  BY <1>1, <1>2 DEF AllMoreUsed

LEMMA MoreOfNone == AllMoreUsed(<<>>, <<>>)
BY DEF AllMoreUsed

LEMMA ClaudeMonotone ==
  ASSUME NEW u \in ClaudeUsage, NEW v \in ClaudeUsage, NEW model, NEW known \in LastResets,
         NEW policy, NEW strict, IsStricter(strict, policy),
         v.limits = u.limits, v.reset = u.reset,
         \A w \in ClaudeWindowNames : MoreUsed(u[w], v[w]),
         Open(v, model, strict, known)
  PROVE  Open(u, model, policy, known)
<1> DEFINE before == ClaudeWindows(u, model)
           after  == ClaudeWindows(v, model)
<1>1. /\ MoreUsed(u.five_hour, v.five_hour) /\ MoreUsed(u.seven_day, v.seven_day)
      /\ MoreUsed(u.seven_day_opus, v.seven_day_opus)
      /\ MoreUsed(u.seven_day_sonnet, v.seven_day_sonnet)
  BY DEF ClaudeWindowNames
<1>2. AllMoreUsed(before, after)
  <2> DEFINE opus(w)   == IF model = "opus" THEN <<w.seven_day_opus>> ELSE <<>>
             sonnet(w) == IF model = "sonnet" THEN <<w.seven_day_sonnet>> ELSE <<>>
  <2>1. AllMoreUsed(<<u.five_hour, u.seven_day>>, <<v.five_hour, v.seven_day>>)
    BY <1>1, MoreOfTwo
  <2>2. AllMoreUsed(opus(u), opus(v))
    BY <1>1, MoreOfOne, MoreOfNone
  <2>3. AllMoreUsed(sonnet(u), sonnet(v))
    BY <1>1, MoreOfOne, MoreOfNone
  <2>4. /\ before = <<u.five_hour, u.seven_day>> \o opus(u) \o sonnet(u)
        /\ after = <<v.five_hour, v.seven_day>> \o opus(v) \o sonnet(v)
    BY DEF ClaudeWindows
  <2> HIDE DEF opus, sonnet, before, after
  <2>5. AllMoreUsed(<<u.five_hour, u.seven_day>> \o opus(u), <<v.five_hour, v.seven_day>> \o opus(v))
    BY <2>1, <2>2, MoreJoined
  <2> QED
    BY <2>3, <2>4, <2>5, MoreJoined
<1> HIDE DEF before, after
<1>9. /\ DOMAIN before = 1..Len(after) /\ DOMAIN after = 1..Len(after)
      /\ \A i \in 1..Len(after) : MoreUsed(before[i], after[i])
  BY <1>2, LenProperties DEF AllMoreUsed
<1>3. /\ ~(v.five_hour # Unknown /\ ReserveReached(v.five_hour, strict))
      /\ \A i \in DOMAIN after : ~(after[i] >= Full)
      /\ \E i \in DOMAIN after : after[i] # Unknown
      /\ \A l \in v.limits : ~LimitApplies(l, model)
      /\ ~(v.five_hour >= Full)
      /\ ~Paced(v, model, strict, known)
  BY ClaudeOpen DEF after
<1>4. ~(u.five_hour # Unknown /\ ReserveReached(u.five_hour, policy))
  <2>1. CASE u.five_hour = Unknown
    BY <2>1
  <2>2. CASE u.five_hour # Unknown
    <3>1. u.five_hour \in Nat /\ v.five_hour \in Nat /\ u.five_hour <= v.five_hour /\ v.five_hour # Unknown
      BY <1>1, <2>2 DEF MoreUsed, Unknown
    <3> QED
      BY <1>3, <3>1, ReserveMonotone
  <2> QED
    BY <2>1, <2>2
<1>5. \A i \in DOMAIN before : ~(before[i] >= Full)
  BY <1>9, <1>3 DEF MoreUsed, Unknown, Full
<1>6. \E i \in DOMAIN before : before[i] # Unknown
  BY <1>9, <1>3 DEF MoreUsed, Unknown
<1>7. ~(u.five_hour >= Full)
  BY <1>1, <1>3 DEF MoreUsed, Unknown, Full
<1>8. ~Paced(u, model, policy, known)
  <2>1. /\ WeeklyUsed(u, model, policy) = u.seven_day /\ WeeklyReset(u, model, policy) = u.reset
        /\ WeeklyUsed(v, model, strict) = v.seven_day /\ WeeklyReset(v, model, strict) = u.reset
    BY DEF WeeklyUsed, WeeklyReset, ClaudeUsage
  <2>2. u.reset \in Nat \cup {Unknown}
    BY DEF ClaudeUsage
  <2>3. v.seven_day = Unknown \/ (u.seven_day \in Nat /\ v.seven_day \in Nat /\ u.seven_day <= v.seven_day)
    BY <1>1 DEF MoreUsed
  <2> QED
    BY <1>3, <2>1, <2>2, <2>3, PaceMonotone DEF Paced
<1> QED
  BY <1>3, <1>4, <1>5, <1>6, <1>7, <1>8, ClaudeOpen DEF before

-----------------------------------------------------------------------------
(* Groups and their windows.                                               *)

NormalGroup == [label : STRING, name : SUBSET STRING, buckets : Seq(RawBucket),
                families : SUBSET Families]

\* What FirstOf finds.
LEMMA FirstOfIs ==
  ASSUME NEW buckets \in Seq(RawBucket), NEW window
  PROVE  LET found == {i \in 1..Len(buckets) : buckets[i].window = window}
         IN /\ FirstOf(buckets, window) = IF found = {} THEN NoBucket ELSE buckets[Min(found)]
            /\ found # {} =>
                 /\ Min(found) \in found
                 /\ \A i \in found : Min(found) <= i
                 /\ buckets[Min(found)] \in RawBucket
                 /\ buckets[Min(found)] # NoBucket
<1> DEFINE found == {i \in 1..Len(buckets) : buckets[i].window = window}
           first == SelectInSeq(buckets, LAMBDA b : b.window = window)
<1>1. first = IF found # {} THEN Min(found) ELSE 0
  BY DEF SelectInSeq
<1>2. FirstOf(buckets, window) = IF first = 0 THEN NoBucket ELSE buckets[first]
  BY DEF FirstOf
<1>3. found \in SUBSET Nat /\ found \subseteq 1..Len(buckets) /\ Len(buckets) \in Nat
  BY LenProperties
<1> HIDE DEF found, first
<1>4. ASSUME found # {}
      PROVE  /\ Min(found) \in found /\ \A i \in found : Min(found) <= i
             /\ buckets[Min(found)] \in RawBucket /\ buckets[Min(found)] # NoBucket
             /\ Min(found) # 0
  <2>1. Min(found) \in found /\ \A i \in found : Min(found) <= i
    BY <1>3, <1>4, MinIn
  <2>2. Min(found) \in 1..Len(buckets)
    BY <1>3, <2>1
  <2>3. buckets[Min(found)] \in RawBucket
    BY <2>2, ElementOfSeq
  <2>4. \A b \in RawBucket : b # NoBucket
    BY DEF RawBucket, NoBucket
  <2>5. Min(found) # 0
    BY <1>3, <2>2
  <2> QED
    BY <2>1, <2>3, <2>4, <2>5
<1>5. FirstOf(buckets, window) = IF found = {} THEN NoBucket ELSE buckets[Min(found)]
  BY <1>1, <1>2, <1>4
<1> QED
  BY <1>4, <1>5 DEF found

\* A window that is there in both, with as much left in the one as in the other or less.
Closer(b, c) ==
  \/ b = NoBucket /\ c = NoBucket
  \/ /\ b # NoBucket /\ c # NoBucket
     /\ b.window = c.window /\ b.reset = c.reset
     /\ c.reset \in Nat \cup {Unknown}
     /\ b.left \in 0..Full /\ c.left \in 0..Full /\ b.left <= c.left

LEMMA CloserLeavesOpen ==
  ASSUME NEW b, NEW c, Closer(b, c), NEW policy, NEW strict, IsStricter(strict, policy),
         LeavesOpen(b, strict)
  PROVE  LeavesOpen(c, policy)
<1>1. CASE c = NoBucket
  BY <1>1 DEF LeavesOpen
<1>2. CASE c # NoBucket
  <2>1. /\ b # NoBucket /\ b.window = c.window
        /\ b.left \in 0..Full /\ c.left \in 0..Full /\ b.left <= c.left
    BY <1>2 DEF Closer
  <2>2. /\ Full - c.left \in Int /\ Full - b.left \in Int /\ Full - c.left <= Full - b.left
        /\ b.left # 0 => c.left # 0
    BY <2>1 DEF Full
  <2>3. ReserveReached(Full - c.left, policy) => ReserveReached(Full - b.left, strict)
    BY <2>2, ReserveMonotone
  <2> QED
    BY <1>2, <2>1, <2>2, <2>3 DEF LeavesOpen
<1> QED
  BY <1>1, <1>2

\* The gate goes by the windows and by what there is of the family.
LEMMA AgyMonotone ==
  ASSUME NEW u, NEW v, u.agent = "agy", v.agent = "agy",
         NEW model, NEW known \in LastResets,
         NEW policy, NEW strict, IsStricter(strict, policy),
         u.groups = <<>> => v.groups = <<>>,
         AgyGroup(u.groups, policy) = AgyGroup(v.groups, strict),
         WeeklyOnly(u.groups, model, policy) <=> WeeklyOnly(v.groups, model, strict),
         policy.group = "none" =>
           \A f \in AgyFamily(model) : Owner(u.groups, f) = 0 => Owner(v.groups, f) = 0,
         \A window \in {"five_hour", "seven_day"} :
           Closer(AgyWindow(v.groups, model, strict, window), AgyWindow(u.groups, model, policy, window)),
         Open(v, model, strict, known)
  PROVE  Open(u, model, policy, known)
<1> DEFINE five  == AgyWindow(u.groups, model, policy, "five_hour")
           seven == AgyWindow(u.groups, model, policy, "seven_day")
           five2  == AgyWindow(v.groups, model, strict, "five_hour")
           seven2 == AgyWindow(v.groups, model, strict, "seven_day")
<1>1. Closer(five2, five) /\ Closer(seven2, seven)
  OBVIOUS
<1>2. /\ Observed(v.groups, model, strict)
      /\ ~(seven2 = NoBucket \/ (~WeeklyOnly(v.groups, model, strict) /\ five2 = NoBucket))
      /\ LeavesOpen(five2, strict) /\ LeavesOpen(seven2, strict)
      /\ ~Paced(v, model, strict, known)
  BY AgyOpen
<1>3. policy.group = strict.group
  BY DEF IsStricter
<1>4. Observed(u.groups, model, policy)
  BY <1>2, <1>3 DEF Observed
<1>5. ~(seven = NoBucket \/ (~WeeklyOnly(u.groups, model, policy) /\ five = NoBucket))
  <2> HIDE DEF five, seven, five2, seven2
  <2> QED
    BY <1>1, <1>2 DEF Closer
<1>6. LeavesOpen(five, policy) /\ LeavesOpen(seven, policy)
  <2> HIDE DEF five, seven, five2, seven2
  <2> QED
    BY <1>1, <1>2, CloserLeavesOpen
<1>7. ~Paced(u, model, policy, known)
  <2>1. /\ WeeklyUsed(u, model, policy) = IF seven = NoBucket THEN Unknown ELSE Full - seven.left
        /\ WeeklyUsed(v, model, strict) = IF seven2 = NoBucket THEN Unknown ELSE Full - seven2.left
        /\ WeeklyReset(u, model, policy) = seven.reset
        /\ WeeklyReset(v, model, strict) = seven2.reset
    BY DEF WeeklyUsed, WeeklyReset
  <2> HIDE DEF five, seven, five2, seven2
  <2>2. /\ seven # NoBucket /\ seven2 # NoBucket /\ seven.reset = seven2.reset
        /\ seven.reset \in Nat \cup {Unknown}
        /\ seven.left \in 0..Full /\ seven2.left \in 0..Full /\ seven2.left <= seven.left
    BY <1>1, <1>2 DEF Closer
  <2>3. /\ Full - seven.left \in Nat /\ Full - seven2.left \in Nat
        /\ Full - seven.left <= Full - seven2.left
    BY <2>2 DEF Full
  <2>4. SUFFICES ASSUME Paced(u, model, policy, known) PROVE FALSE
    OBVIOUS
  <2>5. /\ policy.weekly.pacing # "none"
        /\ OverPace(Full - seven.left, seven.reset, policy.weekly, known, Now)
    BY <2>1, <2>2, <2>4 DEF Paced
  <2>6. /\ strict.weekly.pacing # "none"
        /\ OverPace(Full - seven2.left, seven.reset, strict.weekly, known, Now)
    <3> DEFINE used == Full - seven.left
               more == Full - seven2.left
    <3>1. used \in Nat /\ more \in Nat /\ used <= more
      BY <2>3
    <3>2. OverPace(used, seven.reset, policy.weekly, known, Now)
      BY <2>5
    <3>3. seven.reset \in Nat \cup {Unknown} /\ policy.weekly.pacing # "none"
      BY <2>2, <2>5
    <3> HIDE DEF used, more
    <3>4. /\ strict.weekly.pacing # "none"
          /\ OverPace(more, seven.reset, strict.weekly, known, Now)
      BY <3>1, <3>2, <3>3, PaceMonotone
    <3> QED
      BY <3>4 DEF more
  <2>7. Paced(v, model, strict, known)
    BY <2>1, <2>2, <2>6 DEF Paced
  <2> QED
    BY <1>2, <2>7
<1> QED
  BY <1>4, <1>5, <1>6, <1>7, AgyOpen

-----------------------------------------------------------------------------
(* Lists of groups that agree.                                             *)

LEMMA SameOwner ==
  ASSUME NEW n \in Nat, NEW G, NEW H, DOMAIN G = 1..n, DOMAIN H = 1..n, NEW f,
         \A k \in 1..n : /\ f \in G[k].families <=> f \in H[k].families
                         /\ f \in G[k].families => Score(G[k], f) = Score(H[k], f)
  PROVE  Owner(G, f) = Owner(H, f)
<1> DEFINE o == Owner(G, f)
           p == Owner(H, f)
           L == {i \in 1..n : f \in G[i].families}
           M == {i \in 1..n : f \in H[i].families}
<1>1. L = M
  OBVIOUS
<1>2. Best(o, n, G, f) /\ Best(p, n, H, f)
  BY OwnerBest
<1>3. /\ IF L = {} THEN o = 0 ELSE o \in L
      /\ \A i \in L : Score(G[i], f) <= Score(G[o], f) /\ (i < o => Score(G[i], f) < Score(G[o], f))
  BY <1>2 DEF Best
<1>4. /\ IF M = {} THEN p = 0 ELSE p \in M
      /\ \A i \in M : Score(H[i], f) <= Score(H[p], f) /\ (i < p => Score(H[i], f) < Score(H[p], f))
  BY <1>2 DEF Best
<1>5. \A i \in L : Score(G[i], f) = Score(H[i], f)
  OBVIOUS
<1>6. \A i : Score(G[i], f) \in Int /\ Score(H[i], f) \in Int
  BY ScoreType
<1>7. L \subseteq Int
  OBVIOUS
<1> HIDE DEF o, p, L, M
<1>8. L = {} => o = p
  BY <1>1, <1>3, <1>4
<1>9. ASSUME L # {} PROVE o = p
  <2>1. o \in L /\ p \in L
    BY <1>1, <1>3, <1>4, <1>9
  <2>2. o \in M /\ p \in M
    BY <1>1, <2>1
  <2>3. Score(G[p], f) <= Score(G[o], f) /\ (p < o => Score(G[p], f) < Score(G[o], f))
    BY <1>3, <2>1
  <2>4. Score(H[o], f) <= Score(H[p], f) /\ (o < p => Score(H[o], f) < Score(H[p], f))
    BY <1>4, <2>2
  <2>5. Score(G[o], f) = Score(H[o], f) /\ Score(G[p], f) = Score(H[p], f)
    BY <1>5, <2>1
  <2>6. Score(G[o], f) \in Int /\ Score(G[p], f) \in Int
    BY <1>6
  <2>7. ~(p < o) /\ ~(o < p)
    BY <2>3, <2>4, <2>5, <2>6
  <2> QED
    BY <1>7, <2>1, <2>7
<1>10. o = p
  BY <1>8, <1>9
<1> QED
  BY <1>10 DEF o, p

LEMMA AgyGroupIs ==
  ASSUME NEW groups \in Seq(NormalGroup), NEW policy
  PROVE  LET named == {i \in 1..Len(groups) : groups[i].label = policy.group}
         IN /\ AgyGroup(groups, policy) = IF named # {} THEN Min(named) ELSE 0
            /\ AgyGroup(groups, policy) \in 0..Len(groups)
            /\ AgyGroup(groups, policy) # 0 => groups[AgyGroup(groups, policy)].label = policy.group
<1> DEFINE named == {i \in 1..Len(groups) : groups[i].label = policy.group}
<1>1. AgyGroup(groups, policy) = IF named # {} THEN Min(named) ELSE 0
  BY DEF AgyGroup, SelectInSeq
<1>2. named \in SUBSET Nat /\ named \subseteq 1..Len(groups) /\ Len(groups) \in Nat
  BY LenProperties
<1>3. \A i \in named : groups[i].label = policy.group
  OBVIOUS
<1> HIDE DEF named
<1>4. ASSUME named # {}
      PROVE Min(named) \in 1..Len(groups) /\ groups[Min(named)].label = policy.group
  <2>1. Min(named) \in named
    BY <1>2, <1>4, MinIn
  <2> QED
    BY <1>2, <1>3, <2>1
<1>5. /\ AgyGroup(groups, policy) \in 0..Len(groups)
      /\ AgyGroup(groups, policy) # 0 => groups[AgyGroup(groups, policy)].label = policy.group
  BY <1>1, <1>2, <1>4
<1> QED
  BY <1>1, <1>5 DEF named

LEMMA SameGroup ==
  ASSUME NEW G \in Seq(NormalGroup), NEW H \in Seq(NormalGroup), Len(G) = Len(H),
         NEW policy, NEW strict, policy.group = strict.group,
         \A i \in 1..Len(G) : G[i].label = H[i].label
  PROVE  AgyGroup(G, policy) = AgyGroup(H, strict)
<1> DEFINE A == {i \in 1..Len(G) : G[i].label = policy.group}
           B == {i \in 1..Len(H) : H[i].label = strict.group}
<1>1. A = B
  OBVIOUS
<1>2. AgyGroup(G, policy) = IF A # {} THEN Min(A) ELSE 0
  BY AgyGroupIs
<1>3. AgyGroup(H, strict) = IF B # {} THEN Min(B) ELSE 0
  BY AgyGroupIs
<1> HIDE DEF A, B
<1> QED
  BY <1>1, <1>2, <1>3

\* The buckets of a group, and the same when some have spent more.
BucketsSpent(more, buckets) ==
  /\ more \in Seq(RawBucket) /\ buckets \in Seq(RawBucket) /\ Len(more) = Len(buckets)
  /\ \A i \in 1..Len(buckets) :
       /\ more[i].id = buckets[i].id /\ more[i].window = buckets[i].window
       /\ more[i].reset = buckets[i].reset /\ more[i].left <= buckets[i].left

LEMMA FirstCloser ==
  ASSUME NEW more, NEW buckets, BucketsSpent(more, buckets), NEW window
  PROVE  Closer(FirstOf(more, window), FirstOf(buckets, window))
<1> DEFINE A == {i \in 1..Len(more) : more[i].window = window}
           B == {i \in 1..Len(buckets) : buckets[i].window = window}
<1>1. A = B /\ more \in Seq(RawBucket) /\ buckets \in Seq(RawBucket)
  BY DEF BucketsSpent
<1>2. /\ FirstOf(more, window) = IF A = {} THEN NoBucket ELSE more[Min(A)]
      /\ A # {} => /\ Min(A) \in A /\ more[Min(A)] \in RawBucket /\ more[Min(A)] # NoBucket
  BY <1>1, FirstOfIs
<1>3. /\ FirstOf(buckets, window) = IF B = {} THEN NoBucket ELSE buckets[Min(B)]
      /\ B # {} => /\ Min(B) \in B /\ buckets[Min(B)] \in RawBucket /\ buckets[Min(B)] # NoBucket
  BY <1>1, FirstOfIs
<1>4. B \subseteq 1..Len(buckets)
  OBVIOUS
<1> HIDE DEF A, B
<1>5. CASE B = {}
  BY <1>1, <1>2, <1>3, <1>5 DEF Closer
<1>6. CASE B # {}
  <2> DEFINE m == Min(B)
  <2>1. /\ FirstOf(more, window) = more[m] /\ FirstOf(buckets, window) = buckets[m]
        /\ m \in 1..Len(buckets) /\ more[m] # NoBucket /\ buckets[m] # NoBucket
        /\ more[m] \in RawBucket /\ buckets[m] \in RawBucket
    BY <1>1, <1>2, <1>3, <1>4, <1>6
  <2> HIDE DEF m
  <2>2. /\ more[m].window = buckets[m].window /\ more[m].reset = buckets[m].reset
        /\ more[m].left <= buckets[m].left
    BY <2>1 DEF BucketsSpent
  <2>3. /\ more[m].left \in 0..Full /\ buckets[m].left \in 0..Full
        /\ buckets[m].reset \in Nat \cup {Unknown}
    BY <2>1 DEF RawBucket
  <2>4. Closer(more[m], buckets[m])
    BY <2>1, <2>2, <2>3 DEF Closer
  <2> QED
    BY <2>1, <2>4
<1> QED
  BY <1>5, <1>6

\* The groups of a usage, and the same when some windows have spent more.
GroupsSpent(more, groups) ==
  /\ more \in Seq(NormalGroup) /\ groups \in Seq(NormalGroup) /\ Len(more) = Len(groups)
  /\ \A i \in 1..Len(groups) :
       /\ more[i].label = groups[i].label /\ more[i].name = groups[i].name
       /\ more[i].families = groups[i].families
       /\ BucketsSpent(more[i].buckets, groups[i].buckets)

LEMMA SameScore ==
  ASSUME NEW g, NEW h, g.name = h.name, BucketsSpent(g.buckets, h.buckets), NEW f
  PROVE  Score(g, f) = Score(h, f)
<1> DEFINE A == g.buckets
           B == h.buckets
<1>1. /\ A \in Seq(RawBucket) /\ B \in Seq(RawBucket) /\ Len(A) = Len(B)
      /\ \A i \in 1..Len(B) : A[i].id = B[i].id
  BY DEF BucketsSpent
<1>2. DOMAIN A = 1..Len(B) /\ DOMAIN B = 1..Len(B)
  BY <1>1, LenProperties
<1>3. /\ ToSet(A) = {A[i] : i \in 1..Len(B)}
      /\ ToSet(B) = {B[i] : i \in 1..Len(B)}
  BY <1>2 DEF ToSet
<1> HIDE DEF A, B
<1>4. (\E b \in ToSet(A) : f \in b.id) <=> (\E b \in ToSet(B) : f \in b.id)
  BY <1>1, <1>3
<1> QED
  BY <1>4 DEF Score, A, B

LEMMA SpentOwner ==
  ASSUME NEW G, NEW H, GroupsSpent(G, H), NEW f
  PROVE  /\ Owner(G, f) = Owner(H, f)
         /\ Owner(H, f) \in 0..Len(H)
<1>1. /\ Len(G) = Len(H) /\ Len(H) \in Nat /\ DOMAIN G = 1..Len(H) /\ DOMAIN H = 1..Len(H)
  BY LenProperties DEF GroupsSpent
<1>2. ASSUME NEW k \in 1..Len(H)
      PROVE  /\ f \in G[k].families <=> f \in H[k].families
             /\ f \in G[k].families => Score(G[k], f) = Score(H[k], f)
  <2>1. G[k].name = H[k].name /\ G[k].families = H[k].families /\ BucketsSpent(G[k].buckets, H[k].buckets)
    BY DEF GroupsSpent
  <2> QED
    BY <2>1, SameScore
<1>3. Owner(G, f) = Owner(H, f)
  BY <1>1, <1>2, SameOwner
<1>4. Best(Owner(H, f), Len(H), H, f)
  BY <1>1, OwnerBest
<1> QED
  BY <1>3, <1>4 DEF Best

LEMMA SpentWindow ==
  ASSUME NEW G, NEW H, GroupsSpent(G, H), NEW model, NEW policy, NEW strict,
         policy.group = strict.group, NEW window
  PROVE  Closer(AgyWindow(G, model, strict, window), AgyWindow(H, model, policy, window))
<1>1. /\ G \in Seq(NormalGroup) /\ H \in Seq(NormalGroup) /\ Len(G) = Len(H) /\ Len(H) \in Nat
      /\ \A i \in 1..Len(H) : G[i].label = H[i].label /\ BucketsSpent(G[i].buckets, H[i].buckets)
  BY LenProperties DEF GroupsSpent
<1>2. Closer(NoBucket, NoBucket)
  BY DEF Closer
<1>3. CASE policy.group # "none"
  <2> DEFINE i == AgyGroup(H, policy)
  <2>1. AgyGroup(G, strict) = i
    BY <1>1, SameGroup
  <2>2. i \in 0..Len(H)
    BY <1>1, AgyGroupIs
  <2>3. /\ AgyWindow(H, model, policy, window) = IF i = 0 THEN NoBucket ELSE GroupWindow(H[i], window)
        /\ AgyWindow(G, model, strict, window) = IF i = 0 THEN NoBucket ELSE GroupWindow(G[i], window)
    BY <1>3, <2>1 DEF AgyWindow
  <2> HIDE DEF i
  <2>4. CASE i = 0
    BY <1>2, <2>3, <2>4
  <2>5. CASE i # 0
    <3>1. BucketsSpent(G[i].buckets, H[i].buckets)
      BY <1>1, <2>2, <2>5
    <3> DEFINE b == FirstOf(G[i].buckets, window)
               c == FirstOf(H[i].buckets, window)
               b7 == FirstOf(G[i].buckets, "7d")
               c7 == FirstOf(H[i].buckets, "7d")
    <3>2. Closer(b, c) /\ Closer(b7, c7)
      BY <3>1, FirstCloser
    <3>3. /\ GroupWindow(G[i], window) = IF b = NoBucket /\ window = "seven_day" THEN b7 ELSE b
          /\ GroupWindow(H[i], window) = IF c = NoBucket /\ window = "seven_day" THEN c7 ELSE c
      BY DEF GroupWindow
    <3> HIDE DEF b, c, b7, c7
    <3>4. b = NoBucket <=> c = NoBucket
      BY <3>2 DEF Closer
    <3>5. Closer(GroupWindow(G[i], window), GroupWindow(H[i], window))
      BY <3>2, <3>3, <3>4
    <3> QED
      BY <2>3, <2>5, <3>5
  <2> QED
    BY <2>4, <2>5
<1>4. CASE policy.group = "none"
  <2> DEFINE F == AgyFamily(model)
             f == CHOOSE x \in F : TRUE
             o == Owner(H, f)
  <2>1. Owner(G, f) = o /\ o \in 0..Len(H)
    BY SpentOwner
  <2>2. /\ AgyWindow(H, model, policy, window) =
             IF Cardinality(F) # 1 \/ o = 0 THEN NoBucket ELSE FirstOf(H[o].buckets, window)
        /\ AgyWindow(G, model, strict, window) =
             IF Cardinality(F) # 1 \/ o = 0 THEN NoBucket ELSE FirstOf(G[o].buckets, window)
    BY <1>4, <2>1 DEF AgyWindow, FamilyWindow
  <2> HIDE DEF F, f, o
  <2>3. CASE Cardinality(F) # 1 \/ o = 0
    BY <1>2, <2>2, <2>3
  <2>4. CASE ~(Cardinality(F) # 1 \/ o = 0)
    <3>1. BucketsSpent(G[o].buckets, H[o].buckets)
      BY <1>1, <2>1, <2>4
    <3>2. Closer(FirstOf(G[o].buckets, window), FirstOf(H[o].buckets, window))
      BY <3>1, FirstCloser
    <3> QED
      BY <2>2, <2>4, <3>2
  <2> QED
    BY <2>3, <2>4
<1> QED
  BY <1>3, <1>4

LEMMA SpentMonotone ==
  ASSUME NEW u, NEW v, u.agent = "agy", v.agent = "agy", GroupsSpent(v.groups, u.groups),
         NEW model, NEW known \in LastResets, NEW policy, NEW strict, IsStricter(strict, policy),
         Open(v, model, strict, known)
  PROVE  Open(u, model, policy, known)
<1> DEFINE G == v.groups
           H == u.groups
<1>1. /\ G \in Seq(NormalGroup) /\ H \in Seq(NormalGroup) /\ Len(G) = Len(H) /\ Len(H) \in Nat
      /\ \A i \in 1..Len(H) : G[i].label = H[i].label /\ G[i].families = H[i].families
  BY LenProperties DEF GroupsSpent
<1>2. policy.group = strict.group
  BY DEF IsStricter
<1>3. H = <<>> => G = <<>>
  <2> HIDE DEF G, H
  <2>1. (H = <<>> <=> Len(H) = 0) /\ (G = <<>> <=> Len(G) = 0)
    BY <1>1, EmptySeq
  <2> QED
    BY <1>1, <2>1
<1>4. AgyGroup(H, policy) = AgyGroup(G, strict) /\ AgyGroup(H, policy) \in 0..Len(H)
  <2> HIDE DEF G, H
  <2>1. Len(H) = Len(G) /\ \A i \in 1..Len(H) : H[i].label = G[i].label
    BY <1>1
  <2>2. AgyGroup(H, policy) = AgyGroup(G, strict)
    BY <1>1, <1>2, <2>1, SameGroup
  <2> QED
    BY <1>1, <2>2, AgyGroupIs
<1>5. WeeklyOnly(H, model, policy) <=> WeeklyOnly(G, model, strict)
  <2> HIDE DEF G, H
  <2>1. CASE policy.group = "none"
    BY <1>2, <2>1 DEF WeeklyOnly
  <2>2. CASE policy.group # "none"
    <3> DEFINE a == AgyGroup(H, policy)
    <3>1. a = 0 \/ (a # 0 /\ G[a].families = H[a].families)
      BY <1>1, <1>4
    <3>2. /\ WeeklyOnly(H, model, policy) <=> a # 0 /\ H[a].families = {"argon"}
          /\ WeeklyOnly(G, model, strict) <=> a # 0 /\ G[a].families = {"argon"}
      BY <1>2, <1>4, <2>2 DEF WeeklyOnly
    <3> QED
      BY <3>1, <3>2
  <2> QED
    BY <2>1, <2>2
<1>6. \A f \in AgyFamily(model) : Owner(H, f) = Owner(G, f)
  BY SpentOwner
<1>7. \A window \in {"five_hour", "seven_day"} :
        Closer(AgyWindow(G, model, strict, window), AgyWindow(H, model, policy, window))
  BY <1>2, SpentWindow
<1> QED
  BY <1>3, <1>4, <1>5, <1>6, <1>7, AgyMonotone

-----------------------------------------------------------------------------
(* The families of a group.                                                *)

SetsPassed(r, n, sets) ==
  /\ r[0] = {} /\ FirstNonEmpty(sets) = r[n]
  /\ \A k \in 1..n : r[k] = IF r[k - 1] = {} THEN sets[k] ELSE r[k - 1]

LEMMA SetsFold ==
  ASSUME NEW sets, NEW n \in Nat, DOMAIN sets = 1..n
  PROVE  \E r : SetsPassed(r, n, sets)
<1> DEFINE State == {{}} \cup {sets[i] : i \in 1..n}
           IsIter(it) == it = [s \in SUBSET DOMAIN sets |->
                      IF s = {} THEN {}
                      ELSE IF it[s \ {Max(s)}] = {} THEN sets[Max(s)] ELSE it[s \ {Max(s)}]]
           iter == CHOOSE it : IsIter(it)
           step == [p \in (1..n) \X State |-> IF p[2] = {} THEN sets[p[1]] ELSE p[2]]
<1>1. FirstNonEmpty(sets) = iter[DOMAIN sets]
  BY DEF FirstNonEmpty, FoldLeft, MapThenFoldSet
<1>3. step \in [(1..n) \X State -> State] /\ {} \in State
  OBVIOUS
<1>4. \A i \in 1..n, q \in State : step[<<i, q>>] = IF q = {} THEN sets[i] ELSE q
  OBVIOUS
<1> HIDE DEF State, step
<1>5. PICK g : IsFold(g, n, State, {}, step)
  BY <1>3, FoldExists, Zenon
<1>6. ASSUME NEW s \in SUBSET (1..n), s # {}
      PROVE  g[s] = IF g[s \ {Max(s)}] = {} THEN sets[Max(s)] ELSE g[s \ {Max(s)}]
  <2>1. Max(s) \in 1..n
    BY <1>6, MaxIn
  <2>2. g[s \ {Max(s)}] \in State
    BY <1>5 DEF IsFold
  <2> DEFINE m == Max(s)
             q == g[s \ {m}]
  <2>3. m \in 1..n /\ q \in State /\ g[s] = step[<<m, q>>]
    BY <1>5, <1>6, <2>1, <2>2 DEF IsFold
  <2> HIDE DEF m, q
  <2>4. g[s] = IF q = {} THEN sets[m] ELSE q
    BY <1>4, <2>3, Zenon
  <2> QED
    BY <2>4, Zenon DEF m, q
<1>7. IsIter(g)
  BY <1>5, <1>6 DEF IsFold
<1>8. IsIter(iter)
  <2> HIDE DEF IsIter
  <2> QED
    BY <1>7
<1> HIDE DEF iter
<1> DEFINE r == [k \in 0..n |-> iter[1..k]]
<1>9. r[0] = {} /\ r[n] = iter[1..n]
  <2>1. 1..0 = {} /\ iter[{}] = {}
    BY <1>8
  <2> QED
    BY <2>1
<1>10. ASSUME NEW k \in 1..n
       PROVE  r[k] = IF r[k - 1] = {} THEN sets[k] ELSE r[k - 1]
  <2>1. /\ 1..k \in SUBSET (1..n) /\ 1..k # {}
        /\ Max(1..k) = k /\ (1..k) \ {Max(1..k)} = 1..(k - 1)
    BY UpToMax
  <2>2. iter[1..k] = IF iter[1..(k - 1)] = {} THEN sets[k] ELSE iter[1..(k - 1)]
    BY <1>8, <2>1
  <2>3. k \in 0..n /\ k - 1 \in 0..n
    OBVIOUS
  <2> QED
    BY <2>2, <2>3
<1> HIDE DEF r
<1> QED
  BY <1>1, <1>9, <1>10 DEF SetsPassed

LEMMA FirstOfFour ==
  ASSUME NEW a, NEW b, NEW c, NEW d
  PROVE  FirstNonEmpty(<<a, b, c, d>>) =
           IF a # {} THEN a ELSE IF b # {} THEN b ELSE IF c # {} THEN c ELSE d
<1> DEFINE sets == <<a, b, c, d>>
<1>1. DOMAIN sets = 1..4 /\ sets[1] = a /\ sets[2] = b /\ sets[3] = c /\ sets[4] = d
  OBVIOUS
<1> HIDE DEF sets
<1>2. PICK r : SetsPassed(r, 4, sets)
  BY <1>1, SetsFold
<1>3. /\ r[0] = {} /\ FirstNonEmpty(sets) = r[4]
      /\ r[1] = IF r[0] = {} THEN sets[1] ELSE r[0]
      /\ r[2] = IF r[1] = {} THEN sets[2] ELSE r[1]
      /\ r[3] = IF r[2] = {} THEN sets[3] ELSE r[2]
      /\ r[4] = IF r[3] = {} THEN sets[4] ELSE r[3]
  BY <1>2 DEF SetsPassed
<1>4. FirstNonEmpty(sets) = IF a # {} THEN a ELSE IF b # {} THEN b ELSE IF c # {} THEN c ELSE d
  BY <1>1, <1>3
<1> QED
  BY <1>4 DEF sets

LEMMA FamiliesIs ==
  ASSUME NEW name, NEW models, NEW buckets
  PROVE  LET listed   == UNION {MentionedIn(m) : m \in models}
             slug     == IF "slug" \in name THEN MentionedIn(name) ELSE {}
             named    == MentionedIn(name) \ (IF "argon" \in listed THEN {"gemini"} ELSE {})
             inBucket == UNION {b.id \cup b.name : b \in ToSet(buckets)}
             own      == listed \cup slug \cup named
         IN ResolveFamilies(name, models, buckets) =
              IF own # {} THEN own
              ELSE IF ThirdParty(name) # {} THEN ThirdParty(name)
              ELSE IF MentionedIn(inBucket) # {} THEN MentionedIn(inBucket)
              ELSE ThirdParty(inBucket)
<1> DEFINE listed   == UNION {MentionedIn(m) : m \in models}
           slug     == IF "slug" \in name THEN MentionedIn(name) ELSE {}
           named    == MentionedIn(name) \ (IF "argon" \in listed THEN {"gemini"} ELSE {})
           inBucket == UNION {b.id \cup b.name : b \in ToSet(buckets)}
           own      == listed \cup slug \cup named
           third    == ThirdParty(name)
           inB      == MentionedIn(inBucket)
           thirdB   == ThirdParty(inBucket)
<1>1. ResolveFamilies(name, models, buckets) = FirstNonEmpty(<<own, third, inB, thirdB>>)
  BY Zenon DEF ResolveFamilies
<1> HIDE DEF own, third, inB, thirdB
<1>2. ResolveFamilies(name, models, buckets) =
        IF own # {} THEN own ELSE IF third # {} THEN third ELSE IF inB # {} THEN inB ELSE thirdB
  <2> DEFINE first == IF own # {} THEN own ELSE IF third # {} THEN third
                      ELSE IF inB # {} THEN inB ELSE thirdB
  <2>1. FirstNonEmpty(<<own, third, inB, thirdB>>) = first
    BY FirstOfFour
  <2> HIDE DEF first
  <2>2. ResolveFamilies(name, models, buckets) = first
    BY <1>1, <2>1, Zenon
  <2> QED
    BY <2>2, Zenon DEF first
<1> QED
  BY <1>2, Zenon DEF own, third, inB, thirdB

LEMMA FamiliesType ==
  ASSUME NEW name, NEW models, NEW buckets
  PROVE  ResolveFamilies(name, models, buckets) \subseteq Families
<1>1. \A text : MentionedIn(text) \subseteq Families
  BY DEF MentionedIn, Families
<1>2. \A text : ThirdParty(text) \subseteq Families
  BY DEF ThirdParty, Families
<1> DEFINE listed   == UNION {MentionedIn(m) : m \in models}
           slug     == IF "slug" \in name THEN MentionedIn(name) ELSE {}
           named    == MentionedIn(name) \ (IF "argon" \in listed THEN {"gemini"} ELSE {})
           inBucket == UNION {b.id \cup b.name : b \in ToSet(buckets)}
           own      == listed \cup slug \cup named
<1>3. own \subseteq Families
  BY <1>1
<1>4. ResolveFamilies(name, models, buckets) =
              IF own # {} THEN own
              ELSE IF ThirdParty(name) # {} THEN ThirdParty(name)
              ELSE IF MentionedIn(inBucket) # {} THEN MentionedIn(inBucket)
              ELSE ThirdParty(inBucket)
  BY FamiliesIs
<1> HIDE DEF own, inBucket
<1> QED
  BY <1>1, <1>2, <1>3, <1>4

LEMMA NormalType ==
  ASSUME NEW group \in RawGroup
  PROVE  NormalizeGroup(group) \in NormalGroup
<1> DEFINE buckets == IF group.form = "whole" THEN group.buckets ELSE <<>>
           families == ResolveFamilies(group.name, group.models, buckets)
<1>1. buckets \in Seq(RawBucket) /\ group.label \in STRING /\ group.name \in SUBSET STRING
  BY EmptySeq DEF RawGroup
<1>2. families \in SUBSET Families
  BY FamiliesType
<1> HIDE DEF families, buckets
<1>3. NormalizeGroup(group) = [label |-> group.label, name |-> group.name, buckets |-> buckets,
                               families |-> families]
  BY DEF NormalizeGroup, families, buckets
<1> QED
  BY <1>1, <1>2, <1>3 DEF NormalGroup

-----------------------------------------------------------------------------
(* One window of one group that has spent a part more.                     *)

LEMMA BucketSpent ==
  ASSUME NEW bucket \in RawBucket, bucket.left > 0
  PROVE  LET less == [bucket EXCEPT !.left = @ - 1]
         IN /\ less \in RawBucket /\ less.id = bucket.id /\ less.window = bucket.window
            /\ less.reset = bucket.reset /\ less.left <= bucket.left
<1>1. bucket.left \in 0..Full /\ bucket.left - 1 \in 0..Full
  BY DEF RawBucket, Full
<1>2. bucket.left - 1 <= bucket.left
  BY <1>1
<1> QED
  BY <1>1, <1>2 DEF RawBucket

LEMMA LeftType ==
  ASSUME NEW buckets \in Seq(RawBucket)
  PROVE  \A i \in 1..Len(buckets) : buckets[i].left \in Int
<1> SUFFICES ASSUME NEW i \in 1..Len(buckets) PROVE buckets[i].left \in Int
  OBVIOUS
<1>1. buckets[i] \in RawBucket
  BY ElementOfSeq
<1> QED
  BY <1>1 DEF RawBucket

LEMMA OneBucketSpent ==
  ASSUME NEW buckets \in Seq(RawBucket), NEW b \in DOMAIN buckets, buckets[b].left > 0
  PROVE  BucketsSpent([buckets EXCEPT ![b].left = @ - 1], buckets)
<1> DEFINE less == [buckets[b] EXCEPT !.left = @ - 1]
           more == [buckets EXCEPT ![b] = less]
<1>1. [buckets EXCEPT ![b].left = @ - 1] = more
  OBVIOUS
<1>2. b \in 1..Len(buckets) /\ buckets[b] \in RawBucket
  BY LenProperties, ElementOfSeq
<1>3. /\ less \in RawBucket /\ less.id = buckets[b].id /\ less.window = buckets[b].window
      /\ less.reset = buckets[b].reset /\ less.left <= buckets[b].left
  BY <1>2, BucketSpent
<1> HIDE DEF less
<1>4. more \in Seq(RawBucket) /\ Len(more) = Len(buckets)
  BY <1>2, <1>3, ExceptSeq, Zenon
<1>5. \A i \in 1..Len(buckets) : more[i] = IF i = b THEN less ELSE buckets[i]
  BY <1>2
<1>6. \A i \in 1..Len(buckets) : buckets[i].left \in Int
  BY LeftType
<1> HIDE DEF more
<1>7. BucketsSpent(more, buckets)
  BY <1>2, <1>3, <1>4, <1>5, <1>6 DEF BucketsSpent
<1> QED
  BY <1>1, <1>7, Zenon

LEMMA NoneSpent ==
  ASSUME NEW buckets \in Seq(RawBucket)
  PROVE  BucketsSpent(buckets, buckets)
<1>1. \A i \in 1..Len(buckets) : buckets[i].left \in Int
  BY LeftType
<1> QED
  BY <1>1 DEF BucketsSpent

LEMMA NoGroupSpent ==
  ASSUME NEW groups \in Seq(NormalGroup)
  PROVE  GroupsSpent(groups, groups)
<1>1. ASSUME NEW j \in 1..Len(groups) PROVE BucketsSpent(groups[j].buckets, groups[j].buckets)
  <2>1. groups[j] \in NormalGroup
    BY ElementOfSeq
  <2>2. groups[j].buckets \in Seq(RawBucket)
    BY <2>1 DEF NormalGroup
  <2> QED
    BY <2>2, NoneSpent
<1> QED
  BY <1>1 DEF GroupsSpent

LEMMA OneGroupSpent ==
  ASSUME NEW groups \in Seq(NormalGroup), NEW i \in DOMAIN groups,
         NEW b \in DOMAIN groups[i].buckets, groups[i].buckets[b].left > 0
  PROVE  GroupsSpent([groups EXCEPT ![i].buckets[b].left = @ - 1], groups)
<1> DEFINE spent == [groups[i].buckets EXCEPT ![b].left = @ - 1]
           group == [groups[i] EXCEPT !.buckets = spent]
           more  == [groups EXCEPT ![i] = group]
<1>1. [groups EXCEPT ![i].buckets[b].left = @ - 1] = more
  OBVIOUS
<1>2. i \in 1..Len(groups) /\ groups[i] \in NormalGroup
  BY LenProperties, ElementOfSeq
<1>3. groups[i].buckets \in Seq(RawBucket)
  BY <1>2 DEF NormalGroup
<1>4. BucketsSpent(spent, groups[i].buckets)
  BY <1>3, OneBucketSpent
<1>5. spent \in Seq(RawBucket)
  BY <1>4 DEF BucketsSpent
<1> HIDE DEF spent
<1>6. /\ group \in NormalGroup /\ group.label = groups[i].label /\ group.name = groups[i].name
      /\ group.families = groups[i].families /\ group.buckets = spent
  BY <1>2, <1>5 DEF NormalGroup
<1> HIDE DEF group
<1>7. more \in Seq(NormalGroup) /\ Len(more) = Len(groups)
  BY <1>2, <1>6, ExceptSeq, Zenon
<1>8. \A j \in 1..Len(groups) : more[j] = IF j = i THEN group ELSE groups[j]
  BY <1>2
<1>9. \A j \in 1..Len(groups) : BucketsSpent(groups[j].buckets, groups[j].buckets)
  BY NoGroupSpent DEF GroupsSpent
<1> HIDE DEF more
<1>10. GroupsSpent(more, groups)
  BY <1>4, <1>6, <1>7, <1>8, <1>9 DEF GroupsSpent
<1> QED
  BY <1>1, <1>10

-----------------------------------------------------------------------------
(* What a usage of agy lists.                                              *)

LEMMA RawGroupsType ==
  ASSUME NEW raw \in Seq(RawGroup)
  PROVE  /\ Len(raw) \in Nat /\ DOMAIN raw = 1..Len(raw)
         /\ \A i \in DOMAIN raw : raw[i] \in RawGroup
BY LenProperties, ElementOfSeq

LEMMA NormalGroupsType ==
  ASSUME NEW raw \in Seq(RawGroup)
  PROVE  NormalizeGroups(raw) \in Seq(NormalGroup)
<1>1. Len(raw) \in Nat /\ DOMAIN raw = 1..Len(raw) /\ \A i \in DOMAIN raw : raw[i] \in RawGroup
  BY RawGroupsType
<1>2. NormalizeGroups(raw) \in Seq(NormalGroups(raw))
  BY <1>1, GroupsType
<1>3. NormalGroups(raw) \subseteq NormalGroup
  BY <1>1, NormalType DEF NormalGroups
<1> QED
  BY <1>2, <1>3, SeqDef

LEMMA AgyUsageType ==
  ASSUME UsageInv, FromAgy
  PROVE  usage \in [agent : {"agy"}, groups : Seq(NormalGroup)]
<1> DEFINE raw == written[FirstResult(written)].groups
<1>1. IsReply(raw) /\ usage = [agent |-> "agy", groups |-> NormalizeGroups(raw)]
  BY UsageOfReply DEF UsageInv
<1> HIDE DEF raw
<1>2. NormalizeGroups(raw) \in Seq(NormalGroup)
  BY <1>1, NormalGroupsType DEF IsReply
<1> QED
  BY <1>1, <1>2

-----------------------------------------------------------------------------
(* The gate is monotone.                                                   *)

LEMMA SpendingCodex ==
  ASSUME usage \in CodexUsage, NEW more \in SpentMore, NEW model,
         NEW policy \in Policies, NEW known \in LastResets, Open(more, model, policy, known)
  PROVE  Open(usage, model, policy, known)
<1>1. usage.agent = "codex"
  BY DEF CodexUsage
<1>2. more \in {[usage EXCEPT !.primary.used = @ + 1], [usage EXCEPT !.secondary.used = @ + 1]}
  BY <1>1 DEF SpentMore
<1>3. /\ more \in CodexUsage
      /\ more.allowed = usage.allowed /\ more.limitReached = usage.limitReached
      /\ more.reset = usage.reset
      /\ more.primary.limitReached = usage.primary.limitReached
      /\ more.secondary.limitReached = usage.secondary.limitReached
      /\ usage.primary.used <= more.primary.used /\ usage.secondary.used <= more.secondary.used
  BY <1>2 DEF CodexUsage
<1> QED
  BY <1>3, StrictAsItself, CodexMonotone

LEMMA SpendingClaude ==
  ASSUME usage \in ClaudeUsage, NEW more \in SpentMore, NEW model,
         NEW policy \in Policies, NEW known \in LastResets, Open(more, model, policy, known)
  PROVE  Open(usage, model, policy, known)
<1>1. usage.agent = "claude"
  BY DEF ClaudeUsage
<1>2. PICK w \in {v \in ClaudeWindowNames : usage[v] # Unknown} : more = [usage EXCEPT ![w] = @ + 1]
  BY <1>1 DEF SpentMore, ClaudeWindowNames
<1>3. \A v \in ClaudeWindowNames : usage[v] \in Percentage
  BY DEF ClaudeUsage, ClaudeWindowNames
<1>4. usage[w] \in Nat
  BY <1>2, <1>3 DEF Percentage
<1>5. \A v \in ClaudeWindowNames : more[v] = IF v = w THEN usage[v] + 1 ELSE usage[v]
  BY <1>2 DEF ClaudeUsage, ClaudeWindowNames
<1>6. \A v \in ClaudeWindowNames : MoreUsed(usage[v], more[v])
  <2> SUFFICES ASSUME NEW v \in ClaudeWindowNames PROVE MoreUsed(usage[v], more[v])
    OBVIOUS
  <2> DEFINE x == usage[v]
             y == more[v]
  <2>1. (x = Unknown \/ x \in Nat) /\ (y = x \/ (y = x + 1 /\ x \in Nat))
    BY <1>3, <1>4, <1>5 DEF Percentage
  <2> HIDE DEF x, y
  <2>2. MoreUsed(x, y)
    BY <2>1 DEF MoreUsed
  <2> QED
    BY <2>2 DEF x, y
<1>7. more \in ClaudeUsage /\ more.limits = usage.limits /\ more.reset = usage.reset
  BY <1>2, <1>4 DEF ClaudeUsage, ClaudeWindowNames, Percentage
<1> QED
  BY <1>6, <1>7, StrictAsItself, ClaudeMonotone

LEMMA SpendingAgy ==
  ASSUME usage \in [agent : {"agy"}, groups : Seq(NormalGroup)], NEW more \in SpentMore, NEW model,
         NEW policy \in Policies, NEW known \in LastResets, Open(more, model, policy, known)
  PROVE  Open(usage, model, policy, known)
<1>1. usage.agent = "agy" /\ usage.groups \in Seq(NormalGroup)
  OBVIOUS
<1>2. PICK i \in DOMAIN usage.groups :
        \E b \in {c \in DOMAIN usage.groups[i].buckets : usage.groups[i].buckets[c].left > 0} :
           more = [usage EXCEPT !.groups[i].buckets[b].left = @ - 1]
  BY <1>1 DEF SpentMore
<1>3. PICK b \in DOMAIN usage.groups[i].buckets :
        /\ usage.groups[i].buckets[b].left > 0
        /\ more = [usage EXCEPT !.groups[i].buckets[b].left = @ - 1]
  BY <1>2
<1>4. more.agent = "agy" /\ more.groups = [usage.groups EXCEPT ![i].buckets[b].left = @ - 1]
  BY <1>3
<1> DEFINE groups == usage.groups
<1>5. GroupsSpent([groups EXCEPT ![i].buckets[b].left = @ - 1], groups)
  BY <1>1, <1>2, <1>3, OneGroupSpent
<1>6. GroupsSpent(more.groups, usage.groups)
  BY <1>4, <1>5
<1> QED
  BY <1>1, <1>4, <1>6, StrictAsItself, SpentMonotone

\* Spending more opens no gate, up to a limit and past it, nor does a policy that
\* keeps more in reserve, for every usage of codex and claude, every reply of agy,
\* and whatever the models, the policies and the time of the decision are
\* (agent-usage-evaluator.ts:105-428).
THEOREM GateMonotone == UsageSpec => []GateIsMonotone
<1>1. ASSUME UsageInv PROVE GateIsMonotone
  <2> SUFFICES ASSUME FromAgy \/ FromHttp, NEW model \in Models[usage.agent],
                      NEW policy \in Policies, NEW known \in LastResets
               PROVE  /\ \A more \in SpentMore :
                           Open(more, model, policy, known) => Open(usage, model, policy, known)
                      /\ \A strict \in Stricter(policy) :
                           Open(usage, model, strict, known) => Open(usage, model, policy, known)
    BY DEF GateIsMonotone
  <2>1. CASE usage.agent = "codex" /\ usage \in CodexUsage
    <3>1. ASSUME NEW strict \in Stricter(policy), Open(usage, model, strict, known)
          PROVE  Open(usage, model, policy, known)
      <4>1. usage.primary.used <= usage.primary.used /\ usage.secondary.used <= usage.secondary.used
        BY <2>1 DEF CodexUsage
      <4> QED
        BY <2>1, <3>1, <4>1, StricterIsStricter, CodexMonotone
    <3> QED
      BY <2>1, <3>1, SpendingCodex
  <2>2. CASE usage.agent = "claude" /\ usage \in ClaudeUsage
    <3>1. ASSUME NEW strict \in Stricter(policy), Open(usage, model, strict, known)
          PROVE  Open(usage, model, policy, known)
      <4>1. ASSUME NEW w \in ClaudeWindowNames PROVE MoreUsed(usage[w], usage[w])
        <5>1. usage[w] \in Nat \cup {Unknown}
          BY <2>2 DEF ClaudeUsage, ClaudeWindowNames, Percentage
        <5> QED
          BY <5>1 DEF MoreUsed
      <4> QED
        BY <2>2, <3>1, <4>1, StricterIsStricter, ClaudeMonotone
    <3> QED
      BY <2>2, <3>1, SpendingClaude
  <2>3. CASE usage \in [agent : {"agy"}, groups : Seq(NormalGroup)]
    <3>1. ASSUME NEW strict \in Stricter(policy), Open(usage, model, strict, known)
          PROVE  Open(usage, model, policy, known)
      <4>1. GroupsSpent(usage.groups, usage.groups)
        <5>1. usage.groups \in Seq(NormalGroup)
          BY <2>3
        <5> QED
          BY <5>1, NoGroupSpent
      <4> QED
        BY <2>3, <3>1, <4>1, StricterIsStricter, SpentMonotone
    <3> QED
      BY <2>3, <3>1, SpendingAgy
  <2> QED
    BY <1>1, <2>1, <2>2, <2>3, HttpUsageType, AgyUsageType
<1> QED
  BY <1>1, UsageAlways, PTL

-----------------------------------------------------------------------------
(* A malformed group.                                                      *)

Damaged(group) == [group EXCEPT !.form = "malformed"]

LEMMA DamagedType ==
  ASSUME NEW g \in RawGroup
  PROVE  /\ Damaged(g) \in RawGroup /\ Damaged(g).form = "malformed"
         /\ Damaged(g).label = g.label /\ Damaged(g).name = g.name /\ Damaged(g).models = g.models
BY DEF RawGroup, Damaged

LEMMA NoneIn == ToSet(<<>>) = {}
BY DEF ToSet

\* A group that has families without its buckets has the same with them.
LEMMA DamagedFamilies ==
  ASSUME NEW name, NEW models, NEW buckets, ResolveFamilies(name, models, <<>>) # {}
  PROVE  ResolveFamilies(name, models, buckets) = ResolveFamilies(name, models, <<>>)
<1> DEFINE listed == UNION {MentionedIn(m) : m \in models}
           slug   == IF "slug" \in name THEN MentionedIn(name) ELSE {}
           named  == MentionedIn(name) \ (IF "argon" \in listed THEN {"gemini"} ELSE {})
           texts  == UNION {b.id \cup b.name : b \in ToSet(buckets)}
           none   == UNION {b.id \cup b.name : b \in ToSet(<<>>)}
           own    == listed \cup slug \cup named
<1>1. ResolveFamilies(name, models, buckets) =
        IF own # {} THEN own
        ELSE IF ThirdParty(name) # {} THEN ThirdParty(name)
        ELSE IF MentionedIn(texts) # {} THEN MentionedIn(texts)
        ELSE ThirdParty(texts)
  BY FamiliesIs
<1>2. ResolveFamilies(name, models, <<>>) =
        IF own # {} THEN own
        ELSE IF ThirdParty(name) # {} THEN ThirdParty(name)
        ELSE IF MentionedIn(none) # {} THEN MentionedIn(none)
        ELSE ThirdParty(none)
  BY FamiliesIs
<1>3. none = {}
  BY NoneIn
<1>4. MentionedIn(none) = {} /\ ThirdParty(none) = {}
  BY <1>3 DEF MentionedIn, ThirdParty
<1> HIDE DEF own, texts, none
<1> QED
  BY <1>1, <1>2, <1>4

\* A group whose name mentions a family has families without its buckets.
LEMMA NamedHasFamilies ==
  ASSUME NEW name, NEW models, NEW f \in Families, f \in name
  PROVE  ResolveFamilies(name, models, <<>>) # {}
<1> DEFINE listed == UNION {MentionedIn(m) : m \in models}
           slug   == IF "slug" \in name THEN MentionedIn(name) ELSE {}
           named  == MentionedIn(name) \ (IF "argon" \in listed THEN {"gemini"} ELSE {})
           none   == UNION {b.id \cup b.name : b \in ToSet(<<>>)}
           own    == listed \cup slug \cup named
<1>1. ResolveFamilies(name, models, <<>>) =
        IF own # {} THEN own
        ELSE IF ThirdParty(name) # {} THEN ThirdParty(name)
        ELSE IF MentionedIn(none) # {} THEN MentionedIn(none)
        ELSE ThirdParty(none)
  BY FamiliesIs
<1>2. MentionedIn(name) # {}
  BY DEF MentionedIn, Families
<1>3. own # {}
  BY <1>2
<1> HIDE DEF own, none
<1> QED
  BY <1>1, <1>3

\* What is not tied by its buckets is not lost with them.
LEMMA DamagedGroup ==
  ASSUME NEW g \in RawGroup, g.form = "whole"
  PROVE  LET m == NormalizeGroup(Damaged(g))
             n == NormalizeGroup(g)
         IN /\ m.label = n.label /\ m.buckets = <<>>
            /\ \A f \in Families :
                 ~TiedByBuckets(g, f) => /\ f \in m.families <=> f \in n.families
                                         /\ Score(m, f) = Score(n, f)
<1> DEFINE m == NormalizeGroup(Damaged(g))
           n == NormalizeGroup(g)
<1>1. /\ n.label = g.label /\ n.name = g.name /\ n.buckets = g.buckets
      /\ n.families = ResolveFamilies(g.name, g.models, g.buckets)
  BY DEF NormalizeGroup
<1>2. /\ m.label = g.label /\ m.name = g.name /\ m.buckets = <<>>
      /\ m.families = ResolveFamilies(g.name, g.models, <<>>)
  BY DamagedType DEF NormalizeGroup
<1> HIDE DEF m, n
<1>3. ASSUME NEW f \in Families, ~TiedByBuckets(g, f)
      PROVE  (f \in m.families <=> f \in n.families) /\ Score(m, f) = Score(n, f)
  <2>1. ResolveFamilies(g.name, g.models, <<>>) # {}
    BY <1>3, NamedHasFamilies DEF TiedByBuckets
  <2>2. m.families = n.families
    BY <1>1, <1>2, <2>1, DamagedFamilies
  <2>3. CASE f \in g.name
    BY <1>1, <1>2, <2>2, <2>3 DEF Score
  <2>4. CASE f \notin g.name
    <3>1. \A b \in ToSet(g.buckets) : f \notin b.id
      BY <1>3, <2>4 DEF TiedByBuckets
    <3>2. Score(n, f) = 0
      BY <1>1, <2>4, <3>1 DEF Score
    <3>3. Score(m, f) = 0
      BY <1>2, <2>4, NoneIn DEF Score
    <3> QED
      BY <2>2, <3>2, <3>3
  <2> QED
    BY <2>3, <2>4
<1> QED
  BY <1>1, <1>2, <1>3 DEF m, n

\* Two lists of groups, in one of which m stands for n at some places.
Stands(m, n, G, H) ==
  /\ Len(G) = Len(H)
  /\ \A j \in 1..Len(H) : G[j] = H[j] \/ (G[j] = m /\ H[j] = n)

LEMMA StandsAppended ==
  ASSUME NEW S, NEW T, NEW G \in Seq(S), NEW H \in Seq(T), NEW m, NEW n, Stands(m, n, G, H),
         NEW x \in S, NEW y \in T, x = y \/ (x = m /\ y = n)
  PROVE  Stands(m, n, Append(G, x), Append(H, y))
<1>1. /\ Len(Append(G, x)) = Len(G) + 1 /\ Append(G, x)[Len(G) + 1] = x
      /\ \A j \in 1..Len(G) : Append(G, x)[j] = G[j]
  BY AppendProperties
<1>2. /\ Len(Append(H, y)) = Len(H) + 1 /\ Append(H, y)[Len(H) + 1] = y
      /\ \A j \in 1..Len(H) : Append(H, y)[j] = H[j]
  BY AppendProperties
<1>3. Len(G) \in Nat /\ Len(G) = Len(H)
  BY LenProperties DEF Stands
<1>4. \A j \in 1..(Len(H) + 1) : j \in 1..Len(H) \/ j = Len(H) + 1
  BY <1>3
<1> QED
  BY <1>1, <1>2, <1>3, <1>4 DEF Stands

LEMMA DamagedReply ==
  ASSUME NEW raw \in Seq(RawGroup), NEW i \in DOMAIN raw, raw[i].form = "whole"
  PROVE  LET malformed == [raw EXCEPT ![i].form = "malformed"]
         IN /\ malformed \in Seq(RawGroup)
            /\ Stands(NormalizeGroup(Damaged(raw[i])), NormalizeGroup(raw[i]),
                      NormalizeGroups(malformed), NormalizeGroups(raw))
<1> DEFINE malformed == [raw EXCEPT ![i] = Damaged(raw[i])]
           n == Len(raw)
           N == NormalizeGroup(raw[i])
           M == NormalizeGroup(Damaged(raw[i]))
<1>1. [raw EXCEPT ![i].form = "malformed"] = malformed
  BY DEF Damaged
<1>2. n \in Nat /\ DOMAIN raw = 1..n /\ raw[i] \in RawGroup
  BY RawGroupsType
<1>3. Damaged(raw[i]) \in RawGroup /\ Damaged(raw[i]).form = "malformed"
  BY <1>2, DamagedType
<1>4. malformed \in Seq(RawGroup)
  BY <1>2, <1>3, ExceptSeq, Zenon
<1>5. /\ DOMAIN malformed = 1..n
      /\ \A k \in 1..n : malformed[k] = IF k = i THEN Damaged(raw[i]) ELSE raw[k]
  BY <1>2
<1> HIDE DEF malformed
<1>6. PICK r : GroupsPassed(r, n, raw)
  BY <1>2, GroupsFold, Zenon
<1>7. PICK q : GroupsPassed(q, n, malformed)
  BY <1>2, <1>5, GroupsFold, Zenon
<1> DEFINE S == {k \in 0..n : Stands(M, N, q[k], r[k])}
<1>8. 0 \in S
  <2>1. q[0] = <<>> /\ r[0] = <<>>
    BY <1>6, <1>7 DEF GroupsPassed
  <2>2. Stands(M, N, <<>>, <<>>)
    BY EmptySeq DEF Stands
  <2> QED
    BY <1>2, <2>1, <2>2
<1>9. ASSUME NEW k \in 0..(n - 1), k \in S PROVE k + 1 \in S
  <2>1. k + 1 \in 1..n /\ (k + 1) - 1 = k /\ k + 1 \in 0..n /\ k \in 0..n
    BY <1>2
  <2> DEFINE g == raw[k + 1]
             h == malformed[k + 1]
  <2>2. r[k + 1] = IF Recognized(g) THEN Append(r[k], NormalizeGroup(g)) ELSE r[k]
    BY <1>6, <2>1 DEF GroupsPassed
  <2>3. q[k + 1] = IF Recognized(h) THEN Append(q[k], NormalizeGroup(h)) ELSE q[k]
    BY <1>7, <2>1 DEF GroupsPassed
  <2>4. r[k] \in Seq(NormalGroups(raw)) /\ q[k] \in Seq(NormalGroups(malformed))
    BY <1>6, <1>7, <2>1 DEF GroupsPassed
  <2>5. NormalizeGroup(g) \in NormalGroups(raw) /\ NormalizeGroup(h) \in NormalGroups(malformed)
    BY <1>2, <1>5, <2>1 DEF NormalGroups
  <2>6. /\ Recognized(g) <=> Recognized(h)
        /\ NormalizeGroup(h) = NormalizeGroup(g) \/ (NormalizeGroup(h) = M /\ NormalizeGroup(g) = N)
    <3>1. CASE k + 1 = i
      <4>1. h = Damaged(raw[i]) /\ g = raw[i]
        BY <1>5, <2>1, <3>1
      <4> QED
        BY <1>3, <4>1 DEF Recognized
    <3>2. CASE k + 1 # i
      <4>1. h = g
        BY <1>5, <2>1, <3>2
      <4> QED
        BY <4>1
    <3> QED
      BY <3>1, <3>2
  <2>7. Stands(M, N, q[k], r[k])
    BY <1>9
  <2> HIDE DEF g, h, M, N
  <2>8. CASE Recognized(g)
    <3>1. Stands(M, N, Append(q[k], NormalizeGroup(h)), Append(r[k], NormalizeGroup(g)))
      BY <2>4, <2>5, <2>6, <2>7, StandsAppended
    <3> QED
      BY <2>1, <2>2, <2>3, <2>6, <2>8, <3>1
  <2>9. CASE ~Recognized(g)
    BY <2>1, <2>2, <2>3, <2>6, <2>7, <2>9
  <2> QED
    BY <2>8, <2>9
<1> HIDE DEF S
<1>10. \A k \in 0..n : k \in S
  BY <1>2, <1>8, <1>9, UpInduction
<1>11. Stands(M, N, q[n], r[n])
  BY <1>2, <1>10 DEF S
<1>12. NormalizeGroups(raw) = r[n] /\ NormalizeGroups(malformed) = q[n]
  BY <1>6, <1>7 DEF GroupsPassed
<1> QED
  BY <1>1, <1>4, <1>11, <1>12

LEMMA EmptyWindow ==
  ASSUME NEW group, group.buckets = <<>>, NEW window
  PROVE  FirstOf(group.buckets, window) = NoBucket /\ GroupWindow(group, window) = NoBucket
<1>1. \A w : FirstOf(<<>>, w) = NoBucket
  <2> SUFFICES ASSUME NEW w PROVE FirstOf(<<>>, w) = NoBucket
    OBVIOUS
  <2> DEFINE found == {k \in 1..Len(<<>>) : <<>>[k].window = w}
  <2>1. <<>> \in Seq(RawBucket) /\ found = {}
    BY EmptySeq
  <2>2. FirstOf(<<>>, w) = IF found = {} THEN NoBucket ELSE <<>>[Min(found)]
    BY <2>1, FirstOfIs
  <2> HIDE DEF found
  <2> QED
    BY <2>1, <2>2
<1> QED
  BY <1>1 DEF GroupWindow

\* The gate of a usage in which a group without buckets stands for another one.
LEMMA StandingOpensNone ==
  ASSUME NEW u, NEW v, u.agent = "agy", v.agent = "agy",
         u.groups \in Seq(NormalGroup), v.groups \in Seq(NormalGroup),
         NEW m, NEW n, Stands(m, n, v.groups, u.groups), m.label = n.label, m.buckets = <<>>,
         NEW model, NEW policy \in Policies, NEW known \in LastResets,
         policy.group = "none" =>
           \A f \in AgyFamily(model) : Owner(v.groups, f) \in {0, Owner(u.groups, f)},
         Open(v, model, policy, known)
  PROVE  Open(u, model, policy, known)
<1> DEFINE G == v.groups
           H == u.groups
           F == AgyFamily(model)
           Window(groups, w) == AgyWindow(groups, model, policy, w)
<1>1. /\ G \in Seq(NormalGroup) /\ H \in Seq(NormalGroup) /\ Stands(m, n, G, H)
      /\ Len(G) = Len(H) /\ Len(H) \in Nat /\ DOMAIN G = 1..Len(H) /\ DOMAIN H = 1..Len(H)
  BY LenProperties DEF Stands
<1>2. Window(G, "seven_day") # NoBucket
  BY AgyOpen
<1>3. H = <<>> => G = <<>>
  <2> HIDE DEF G, H
  <2>1. (H = <<>> <=> Len(H) = 0) /\ (G = <<>> <=> Len(G) = 0)
    BY <1>1, EmptySeq
  <2> QED
    BY <1>1, <2>1
<1> HIDE DEF G, H
<1>4. ASSUME policy.group = "none", NEW f \in F
      PROVE  Owner(G, f) \in {0, Owner(H, f)} /\ Owner(H, f) \in 0..Len(H)
  <2>1. Owner(G, f) \in {0, Owner(H, f)}
    BY <1>4 DEF G, H
  <2>2. Best(Owner(H, f), Len(H), H, f)
    BY <1>1, OwnerBest
  <2> QED
    BY <2>1, <2>2 DEF Best
<1>5. AgyGroup(H, policy) = AgyGroup(G, policy) /\ AgyGroup(H, policy) \in 0..Len(H)
  <2>1. Len(H) = Len(G) /\ \A k \in 1..Len(H) : H[k].label = G[k].label
    BY <1>1 DEF Stands
  <2>2. AgyGroup(H, policy) = AgyGroup(G, policy)
    <3> DEFINE strict == policy
    <3>1. policy.group = strict.group
      OBVIOUS
    <3> HIDE DEF strict
    <3>2. AgyGroup(H, policy) = AgyGroup(G, strict)
      BY <1>1, <2>1, <3>1, SameGroup
    <3> QED
      BY <3>2 DEF strict
  <2> QED
    BY <1>1, <2>2, AgyGroupIs
<1>6. ASSUME policy.group # "none"
      PROVE  /\ \A w : Window(G, w) = Window(H, w)
             /\ WeeklyOnly(H, model, policy) <=> WeeklyOnly(G, model, policy)
  <2> DEFINE a == AgyGroup(H, policy)
  <2>1. \A w : /\ Window(G, w) = IF a = 0 THEN NoBucket ELSE GroupWindow(G[a], w)
               /\ Window(H, w) = IF a = 0 THEN NoBucket ELSE GroupWindow(H[a], w)
    BY <1>5, <1>6 DEF AgyWindow
  <2>2. a # 0 /\ G[a].buckets # <<>>
    BY <1>2, <2>1, EmptyWindow
  <2>3. G[a] = H[a]
    BY <1>1, <1>5, <2>2 DEF Stands
  <2>4. \A w : Window(G, w) = Window(H, w)
    BY <2>1, <2>3
  <2>5. WeeklyOnly(H, model, policy) <=> WeeklyOnly(G, model, policy)
    BY <1>5, <1>6, <2>3 DEF WeeklyOnly
  <2> QED
    BY <2>4, <2>5
<1>7. ASSUME policy.group = "none"
      PROVE  /\ \A w : Window(G, w) = Window(H, w)
             /\ WeeklyOnly(H, model, policy) <=> WeeklyOnly(G, model, policy)
  <2> DEFINE f == CHOOSE x \in F : TRUE
             o == Owner(H, f)
  <2>1. Cardinality(F) = 1
    BY <1>2, <1>7 DEF AgyWindow
  <2>2. f \in F
    <3>1. Cardinality({}) = 0
      BY FS_EmptySet
    <3>2. F = {} => Cardinality(F) = 0
      BY <3>1, Zenon
    <3>3. F # {}
      BY <2>1, <3>2
    <3> QED
      BY <3>3, Zenon
  <2>3. Owner(G, f) \in {0, o} /\ o \in 0..Len(H)
    BY <1>4, <1>7, <2>2
  <2>4. /\ \A w : Window(G, w) = FamilyWindow(G, f, w)
        /\ \A w : Window(H, w) = FamilyWindow(H, f, w)
    BY <1>7, <2>1 DEF AgyWindow
  <2> HIDE DEF f
  <2>5. Owner(G, f) # 0
    BY <1>2, <2>4 DEF FamilyWindow
  <2>6. /\ Owner(G, f) = o /\ Owner(H, f) = o
        /\ \A w : /\ Window(G, w) = IF o = 0 THEN NoBucket ELSE FirstOf(G[o].buckets, w)
                  /\ Window(H, w) = IF o = 0 THEN NoBucket ELSE FirstOf(H[o].buckets, w)
    BY <2>3, <2>4, <2>5 DEF FamilyWindow
  <2> HIDE DEF o
  <2>7. o # 0 /\ G[o].buckets # <<>>
    BY <1>2, <2>6, EmptyWindow
  <2>8. G[o] = H[o]
    BY <1>1, <2>3, <2>7 DEF Stands
  <2>9. \A w : Window(G, w) = Window(H, w)
    BY <2>6, <2>8
  <2>10. WeeklyOnly(H, model, policy) <=> WeeklyOnly(G, model, policy)
    BY <1>7 DEF WeeklyOnly
  <2> QED
    BY <2>9, <2>10
<1>8. \A w : Window(G, w) = Window(H, w)
  BY <1>6, <1>7
<1>9. WeeklyOnly(H, model, policy) <=> WeeklyOnly(G, model, policy)
  BY <1>6, <1>7
<1>10. \A w : Closer(Window(G, w), Window(H, w))
  <2>1. GroupsSpent(H, H)
    BY <1>1, NoGroupSpent
  <2> QED
    BY <1>8, <2>1, SpentWindow
<1>11. IsStricter(policy, policy)
  BY StrictAsItself
<1>12. \A w : Closer(AgyWindow(v.groups, model, policy, w), AgyWindow(u.groups, model, policy, w))
  BY <1>10 DEF G, H
<1>13. /\ u.groups = <<>> => v.groups = <<>>
       /\ AgyGroup(u.groups, policy) = AgyGroup(v.groups, policy)
       /\ WeeklyOnly(u.groups, model, policy) <=> WeeklyOnly(v.groups, model, policy)
       /\ policy.group = "none" =>
            \A f \in F : Owner(u.groups, f) = 0 => Owner(v.groups, f) = 0
  <2>1. ASSUME policy.group = "none", NEW f \in F, Owner(H, f) = 0 PROVE Owner(G, f) = 0
    BY <1>4, <2>1
  <2> QED
    BY <1>3, <1>5, <1>9, <2>1 DEF G, H
<1> QED
  BY <1>11, <1>12, <1>13, AgyMonotone

\* A reply in which a group is malformed opens no gate that the whole group closes,
\* unless another group takes over a family for which only the lost buckets spoke:
\* whatever the reply lists, and whatever the model and the policy are.
THEOREM MalformedClosed == UsageSpec => []MalformedNeverOpens
<1>1. ASSUME UsageInv PROVE MalformedNeverOpens
  <2> DEFINE raw == written[FirstResult(written)].groups
             With(groups) == [agent |-> "agy", groups |-> NormalizeGroups(groups)]
             Malformed(i) == [raw EXCEPT ![i].form = "malformed"]
             OwnerIn(groups, f) == Owner(NormalizeGroups(groups), f)
             PassesOn(i, f) == /\ TiedByBuckets(raw[i], f)
                               /\ OwnerIn(Malformed(i), f) \notin {0, OwnerIn(raw, f)}
  <2> SUFFICES ASSUME FromAgy
               PROVE  \A i \in DOMAIN raw, model \in Models["agy"], policy \in Policies, known \in LastResets :
                        raw[i].form = "whole" /\ Open(With(Malformed(i)), model, policy, known) =>
                          \/ Open(With(raw), model, policy, known)
                          \/ policy.group = "none" /\ \E f \in AgyFamily(model) : PassesOn(i, f)
    BY DEF MalformedNeverOpens
  <2> SUFFICES ASSUME NEW i \in DOMAIN raw, NEW model \in Models["agy"],
                      NEW policy \in Policies, NEW known \in LastResets,
                      raw[i].form = "whole", Open(With(Malformed(i)), model, policy, known),
                      ~(policy.group = "none" /\ \E f \in AgyFamily(model) : PassesOn(i, f))
               PROVE  Open(With(raw), model, policy, known)
    OBVIOUS
  <2>1. raw \in Seq(RawGroup)
    BY <1>1, UsageOfReply DEF UsageInv, IsReply
  <2> HIDE DEF raw
  <2> DEFINE m == NormalizeGroup(Damaged(raw[i]))
             n == NormalizeGroup(raw[i])
             G == NormalizeGroups(Malformed(i))
             H == NormalizeGroups(raw)
  <2>2. Malformed(i) \in Seq(RawGroup) /\ Stands(m, n, G, H)
    BY <2>1, DamagedReply
  <2>3. G \in Seq(NormalGroup) /\ H \in Seq(NormalGroup)
    BY <2>1, <2>2, NormalGroupsType
  <2>4. raw[i] \in RawGroup
    BY <2>1, RawGroupsType
  <2>5. /\ m.label = n.label /\ m.buckets = <<>>
        /\ \A f \in Families :
             ~TiedByBuckets(raw[i], f) => /\ f \in m.families <=> f \in n.families
                                          /\ Score(m, f) = Score(n, f)
    BY <2>4, DamagedGroup
  <2>6. AgyFamily(model) \subseteq Families
    BY FamiliesType DEF AgyFamily
  <2>7. policy.group = "none" =>
          \A f \in AgyFamily(model) : TiedByBuckets(raw[i], f) => Owner(G, f) \in {0, Owner(H, f)}
    OBVIOUS
  <2> DEFINE u == With(raw)
             v == With(Malformed(i))
  <2>8. u.agent = "agy" /\ v.agent = "agy" /\ u.groups = H /\ v.groups = G
    OBVIOUS
  <2>9. Open(v, model, policy, known)
    OBVIOUS
  <2> HIDE DEF m, n, u, v, G, H
  <2>10. ASSUME NEW f \in Families, ~TiedByBuckets(raw[i], f) PROVE Owner(G, f) = Owner(H, f)
    <3>1. /\ Len(H) \in Nat /\ DOMAIN G = 1..Len(H) /\ DOMAIN H = 1..Len(H)
      BY <2>2, <2>3, LenProperties DEF Stands
    <3>2. \A k \in 1..Len(H) : /\ f \in G[k].families <=> f \in H[k].families
                               /\ f \in G[k].families => Score(G[k], f) = Score(H[k], f)
      BY <2>2, <2>5, <2>10 DEF Stands
    <3> QED
      BY <3>1, <3>2, SameOwner
  <2>11. policy.group = "none" =>
           \A f \in AgyFamily(model) : Owner(v.groups, f) \in {0, Owner(u.groups, f)}
    BY <2>6, <2>7, <2>8, <2>10
  <2>12. Open(u, model, policy, known)
    BY <2>2, <2>3, <2>5, <2>8, <2>9, <2>11, StandingOpensNone
  <2> QED
    BY <2>12 DEF u
<1> QED
  BY <1>1, UsageAlways, PTL

-----------------------------------------------------------------------------
(* The gauges and the gate.                                                *)

\* A group that is called like a family has one.
LabelsCount(groups) ==
  \A i \in DOMAIN groups : groups[i].label \in Families => groups[i].families # {}

LEMMA NamedFamilies ==
  ASSUME NEW name, NEW models, NEW buckets, NEW f \in Families, f \in name
  PROVE  ResolveFamilies(name, models, buckets) # {}
<1> DEFINE listed   == UNION {MentionedIn(m) : m \in models}
           slug     == IF "slug" \in name THEN MentionedIn(name) ELSE {}
           named    == MentionedIn(name) \ (IF "argon" \in listed THEN {"gemini"} ELSE {})
           inBucket == UNION {b.id \cup b.name : b \in ToSet(buckets)}
           own      == listed \cup slug \cup named
<1>1. MentionedIn(name) # {}
  BY DEF MentionedIn, Families
<1>2. own # {}
  BY <1>1
<1>3. ResolveFamilies(name, models, buckets) =
              IF own # {} THEN own
              ELSE IF ThirdParty(name) # {} THEN ThirdParty(name)
              ELSE IF MentionedIn(inBucket) # {} THEN MentionedIn(inBucket)
              ELSE ThirdParty(inBucket)
  BY FamiliesIs
<1> HIDE DEF own, inBucket
<1> QED
  BY <1>2, <1>3

LEMMA LabelsOfReply ==
  ASSUME NEW raw, IsReply(raw)
  PROVE  LabelsCount(NormalizeGroups(raw))
<1> DEFINE groups == NormalizeGroups(raw)
<1>1. /\ Len(raw) \in Nat /\ DOMAIN raw = 1..Len(raw)
      /\ ToSet(raw) = {raw[i] : i \in DOMAIN raw}
  BY RawGroupsType DEF IsReply, ToSet
<1>2. groups \in Seq(NormalGroups(raw))
  BY <1>1, GroupsType
<1>3. SUFFICES ASSUME NEW j \in DOMAIN groups, groups[j].label \in Families
               PROVE  groups[j].families # {}
  BY DEF LabelsCount
<1>4. groups[j] \in NormalGroups(raw)
  BY <1>2, ElementOfSeq, LenProperties
<1>5. PICK i \in DOMAIN raw : groups[j] = NormalizeGroup(raw[i])
  BY <1>4 DEF NormalGroups
<1> DEFINE g == raw[i]
           buckets == IF g.form = "whole" THEN g.buckets ELSE <<>>
<1>6. /\ groups[j].label = g.label
      /\ groups[j].families = ResolveFamilies(g.name, g.models, buckets)
  BY <1>5 DEF NormalizeGroup
<1>7. g.label \in Families => g.label \in g.name
  BY <1>1 DEF IsReply
<1> HIDE DEF groups, g, buckets
<1> QED
  BY <1>3, <1>6, <1>7, NamedFamilies

\* A family counts for the group that owns it.
LEMMA ScopeIsOwner ==
  ASSUME NEW groups \in Seq(NormalGroup), LabelsCount(groups), NEW i \in DOMAIN groups,
         NEW f \in Families
  PROVE  f \in ScopesOf(groups, i) <=> Owner(groups, f) = i
<1>1. Len(groups) \in Nat /\ DOMAIN groups = 1..Len(groups)
  BY LenProperties
<1>2. Best(Owner(groups, f), Len(groups), groups, f)
  BY <1>1, OwnerBest
<1>3. Owner(groups, f) = i => f \in groups[i].families
  BY <1>1, <1>2 DEF Best
<1>4. groups[i].label = f => groups[i].families # {}
  BY DEF LabelsCount
<1> QED
  BY <1>3, <1>4 DEF ScopesOf

\* The bucket b of group i is the first of its window for a scope.
FirstAt(groups, i, b, scope) ==
  \A j \in DOMAIN groups : \A c \in DOMAIN groups[j].buckets :
    /\ j < i \/ (j = i /\ c < b)
    /\ groups[j].buckets[c].window = groups[i].buckets[b].window
    => scope \notin ScopesOf(groups, j)

SampleAt(groups, i, b, scope) ==
  [window |-> groups[i].buckets[b].window, scope |-> scope, left |-> groups[i].buckets[b].left]

LEMMA SampleIs ==
  ASSUME NEW groups, NEW t
  PROVE  t \in Samples(groups) <=>
           \E i \in DOMAIN groups : \E b \in DOMAIN groups[i].buckets :
             \E scope \in ScopesOf(groups, i) :
               FirstAt(groups, i, b, scope) /\ t = SampleAt(groups, i, b, scope)
<1> DEFINE Sources == UNION {{i} \X DOMAIN groups[i].buckets : i \in DOMAIN groups}
           BucketAt(s) == groups[s[1]].buckets[s[2]]
           Yields(r, s, scope) ==
             /\ r[1] < s[1] \/ (r[1] = s[1] /\ r[2] < s[2])
             /\ BucketAt(r).window = BucketAt(s).window
             => scope \notin ScopesOf(groups, r[1])
           First(s, scope) == \A r \in Sources : Yields(r, s, scope)
           At(s, scope) == [window |-> BucketAt(s).window, scope |-> scope, left |-> BucketAt(s).left]
           Gives(s) == \E scope \in ScopesOf(groups, s[1]) : First(s, scope) /\ t = At(s, scope)
<1>1. Samples(groups) = UNION {{At(s, scope) : scope \in {c \in ScopesOf(groups, s[1]) : First(s, c)}} :
                                 s \in Sources}
  BY DEF Samples
<1>2. \A s : s \in Sources <=>
               \E i \in DOMAIN groups : \E b \in DOMAIN groups[i].buckets : s = <<i, b>>
  OBVIOUS
<1>3. ASSUME NEW i \in DOMAIN groups, NEW b \in DOMAIN groups[i].buckets, NEW scope
      PROVE  /\ First(<<i, b>>, scope) <=> FirstAt(groups, i, b, scope)
             /\ At(<<i, b>>, scope) = SampleAt(groups, i, b, scope)
  <2>1. ASSUME NEW j, NEW c
        PROVE  Yields(<<j, c>>, <<i, b>>, scope) <=>
                 ( /\ j < i \/ (j = i /\ c < b)
                   /\ groups[j].buckets[c].window = groups[i].buckets[b].window
                   => scope \notin ScopesOf(groups, j) )
    OBVIOUS
  <2>2. At(<<i, b>>, scope) = SampleAt(groups, i, b, scope)
    BY DEF SampleAt
  <2> HIDE DEF Sources, Yields
  <2>3. First(<<i, b>>, scope) <=>
          \A j \in DOMAIN groups : \A c \in DOMAIN groups[j].buckets :
            Yields(<<j, c>>, <<i, b>>, scope)
    <3>1. ASSUME First(<<i, b>>, scope), NEW j \in DOMAIN groups, NEW c \in DOMAIN groups[j].buckets
          PROVE  Yields(<<j, c>>, <<i, b>>, scope)
      <4>1. <<j, c>> \in Sources
        BY <1>2
      <4> QED
        BY <3>1, <4>1, Zenon
    <3>2. ASSUME NEW r \in Sources,
                 \A j \in DOMAIN groups : \A c \in DOMAIN groups[j].buckets :
                   Yields(<<j, c>>, <<i, b>>, scope)
          PROVE  Yields(r, <<i, b>>, scope)
      <4>1. PICK j \in DOMAIN groups : \E c \in DOMAIN groups[j].buckets : r = <<j, c>>
        BY <1>2
      <4>2. PICK c \in DOMAIN groups[j].buckets : r = <<j, c>>
        BY <4>1
      <4>3. Yields(<<j, c>>, <<i, b>>, scope)
        BY <3>2
      <4> QED
        BY <4>2, <4>3, Zenon
    <3> QED
      BY <3>1, <3>2, Zenon
  <2>4. First(<<i, b>>, scope) <=> FirstAt(groups, i, b, scope)
    BY <2>1, <2>3, Zenon DEF FirstAt
  <2> QED
    BY <2>2, <2>4
<1> HIDE DEF Sources, First, At
<1>4. ASSUME NEW i \in DOMAIN groups, NEW b \in DOMAIN groups[i].buckets
      PROVE  Gives(<<i, b>>) <=>
               \E scope \in ScopesOf(groups, i) :
                 FirstAt(groups, i, b, scope) /\ t = SampleAt(groups, i, b, scope)
  BY <1>3
<1>5. t \in Samples(groups) <=> \E s \in Sources : Gives(s)
  BY <1>1
<1> HIDE DEF Gives
<1>6. ASSUME t \in Samples(groups)
      PROVE  \E i \in DOMAIN groups : \E b \in DOMAIN groups[i].buckets : Gives(<<i, b>>)
  <2>1. PICK s \in Sources : Gives(s)
    BY <1>5, <1>6
  <2>2. PICK i \in DOMAIN groups : \E b \in DOMAIN groups[i].buckets : s = <<i, b>>
    BY <1>2
  <2>3. PICK b \in DOMAIN groups[i].buckets : s = <<i, b>>
    BY <2>2
  <2> QED
    BY <2>1, <2>3, Zenon
<1>7. ASSUME NEW i \in DOMAIN groups, NEW b \in DOMAIN groups[i].buckets, Gives(<<i, b>>)
      PROVE  t \in Samples(groups)
  <2>1. <<i, b>> \in Sources
    BY <1>2
  <2> QED
    BY <1>5, <1>7, <2>1, Zenon
<1> QED
  BY <1>4, <1>6, <1>7, Zenon

LEMMA ShownIs ==
  ASSUME NEW window, NEW f, NEW left
  PROVE  left \in Shown(window, f) <=>
           \E i \in DOMAIN usage.groups : \E b \in DOMAIN usage.groups[i].buckets :
             /\ f \in ScopesOf(usage.groups, i) /\ FirstAt(usage.groups, i, b, f)
             /\ usage.groups[i].buckets[b].window = window
             /\ usage.groups[i].buckets[b].left = left
<1> DEFINE groups == usage.groups
           Is(i, b) == /\ f \in ScopesOf(groups, i) /\ FirstAt(groups, i, b, f)
                       /\ groups[i].buckets[b].window = window
                       /\ groups[i].buckets[b].left = left
<1>1. ASSUME left \in Shown(window, f)
      PROVE  \E i \in DOMAIN groups : \E b \in DOMAIN groups[i].buckets : Is(i, b)
  <2>1. PICK t \in Samples(groups) : t.window = window /\ t.scope = f /\ t.left = left
    BY <1>1 DEF Shown
  <2> HIDE DEF groups
  <2>2. PICK i \in DOMAIN groups : \E b \in DOMAIN groups[i].buckets :
               \E scope \in ScopesOf(groups, i) :
                 FirstAt(groups, i, b, scope) /\ t = SampleAt(groups, i, b, scope)
    BY <2>1, SampleIs
  <2>3. PICK b \in DOMAIN groups[i].buckets :
               \E scope \in ScopesOf(groups, i) :
                 FirstAt(groups, i, b, scope) /\ t = SampleAt(groups, i, b, scope)
    BY <2>2
  <2>4. PICK scope \in ScopesOf(groups, i) :
               FirstAt(groups, i, b, scope) /\ t = SampleAt(groups, i, b, scope)
    BY <2>3
  <2>5. scope = f /\ groups[i].buckets[b].window = window /\ groups[i].buckets[b].left = left
    BY <2>1, <2>4 DEF SampleAt
  <2>6. Is(i, b)
    BY <2>4, <2>5
  <2> QED
    BY <2>6
<1>2. ASSUME NEW i \in DOMAIN groups, NEW b \in DOMAIN groups[i].buckets, Is(i, b)
      PROVE  left \in Shown(window, f)
  <2> DEFINE t == SampleAt(groups, i, b, f)
  <2>1. t \in Samples(groups)
    BY <1>2, SampleIs
  <2>2. t.window = window /\ t.scope = f /\ t.left = left
    BY <1>2 DEF SampleAt
  <2> HIDE DEF t
  <2> QED
    BY <2>1, <2>2 DEF Shown
<1> QED
  BY <1>1, <1>2

\* What the gauges show of a family is what its gate reads.
LEMMA GaugeOfFamily ==
  ASSUME usage.groups \in Seq(NormalGroup), LabelsCount(usage.groups), NEW f \in Families, NEW window
  PROVE  LET bucket == FamilyWindow(usage.groups, f, window)
         IN Shown(window, f) = IF bucket = NoBucket THEN {} ELSE {bucket.left}
<1> DEFINE groups == usage.groups
           o == Owner(groups, f)
<1>1. ASSUME NEW left
      PROVE  left \in Shown(window, f) <=>
               \E i \in DOMAIN groups : \E b \in DOMAIN groups[i].buckets :
                 /\ f \in ScopesOf(groups, i) /\ FirstAt(groups, i, b, f)
                 /\ groups[i].buckets[b].window = window
                 /\ groups[i].buckets[b].left = left
  BY ShownIs
<1>2. groups \in Seq(NormalGroup) /\ LabelsCount(groups)
  OBVIOUS
<1> HIDE DEF groups
<1>3. Len(groups) \in Nat /\ DOMAIN groups = 1..Len(groups)
  BY <1>2, LenProperties
<1>4. o \in 0..Len(groups)
  <2>1. Best(o, Len(groups), groups, f)
    BY <1>3, OwnerBest
  <2> QED
    BY <2>1 DEF Best
<1>5. \A i \in DOMAIN groups : f \in ScopesOf(groups, i) <=> i = o
  BY <1>2, ScopeIsOwner
<1>6. FamilyWindow(groups, f, window) = IF o = 0 THEN NoBucket ELSE FirstOf(groups[o].buckets, window)
  BY DEF FamilyWindow
<1> HIDE DEF o
<1>7. CASE o = 0
  <2>1. Shown(window, f) = {}
    BY <1>1, <1>3, <1>5, <1>7
  <2> QED
    BY <1>6, <1>7, <2>1 DEF groups
<1>8. CASE o # 0
  <2> DEFINE buckets == groups[o].buckets
             found == {b \in 1..Len(buckets) : buckets[b].window = window}
  <2>1. o \in DOMAIN groups /\ groups[o] \in NormalGroup
    BY <1>2, <1>3, <1>4, <1>8, ElementOfSeq
  <2>2. buckets \in Seq(RawBucket)
    BY <2>1 DEF NormalGroup
  <2>3. DOMAIN buckets = 1..Len(buckets) /\ Len(buckets) \in Nat
    BY <2>2, LenProperties
  <2>4. ASSUME NEW b \in DOMAIN buckets, buckets[b].window = window
        PROVE  FirstAt(groups, o, b, f) <=> \A c \in found : ~(c < b)
    BY <1>3, <1>5, <2>1, <2>3, <2>4 DEF FirstAt
  <2>5. ASSUME NEW left
        PROVE  left \in Shown(window, f) <=>
                 \E b \in found : (\A c \in found : ~(c < b)) /\ buckets[b].left = left
    <3>1. left \in Shown(window, f) <=>
            \E b \in DOMAIN buckets : /\ FirstAt(groups, o, b, f)
                                      /\ buckets[b].window = window /\ buckets[b].left = left
      BY <1>1, <1>5, <2>1
    <3> QED
      BY <2>3, <2>4, <3>1
  <2>6. /\ FirstOf(buckets, window) = IF found = {} THEN NoBucket ELSE buckets[Min(found)]
        /\ found # {} =>
             /\ Min(found) \in found /\ \A i \in found : Min(found) <= i
             /\ buckets[Min(found)] # NoBucket
    BY <2>2, FirstOfIs
  <2>7. found \subseteq Nat
    BY <2>3
  <2>8. FamilyWindow(groups, f, window) = FirstOf(buckets, window)
    BY <1>6, <1>8
  <2> HIDE DEF buckets, found
  <2>9. CASE found = {}
    <3>1. Shown(window, f) = {}
      BY <2>5, <2>9
    <3> QED
      BY <2>6, <2>8, <2>9, <3>1 DEF groups
  <2>10. CASE found # {}
    <3> DEFINE m == Min(found)
    <3>1. /\ m \in found /\ \A c \in found : m <= c
          /\ FamilyWindow(groups, f, window) = buckets[m] /\ buckets[m] # NoBucket
      BY <2>6, <2>8, <2>10
    <3> HIDE DEF m
    <3>2. \A b \in found : (\A c \in found : ~(c < b)) <=> b = m
      BY <2>7, <3>1
    <3>3. Shown(window, f) = {buckets[m].left}
      BY <2>5, <3>1, <3>2
    <3> QED
      BY <3>1, <3>3 DEF groups
  <2> QED
    BY <2>9, <2>10
<1> QED
  BY <1>7, <1>8

LEMMA FamiliesFinite == ASSUME NEW F \in SUBSET Families PROVE IsFiniteSet(F)
<1>1. IsFiniteSet(Families)
  <2>1. IsFiniteSet({"gemini"})
    BY FS_Singleton
  <2>2. IsFiniteSet({"gemini"} \cup {"argon"})
    BY <2>1, FS_AddElement
  <2>3. IsFiniteSet({"gemini"} \cup {"argon"} \cup {"claude"})
    BY <2>2, FS_AddElement
  <2>4. IsFiniteSet({"gemini"} \cup {"argon"} \cup {"claude"} \cup {"gpt"})
    BY <2>3, FS_AddElement
  <2>5. Families = {"gemini"} \cup {"argon"} \cup {"claude"} \cup {"gpt"}
    BY DEF Families
  <2> QED
    BY <2>4, <2>5
<1> QED
  BY <1>1, FS_Subset

\* Behind an open gate there is headroom.
LEMMA OpenHasHeadroom ==
  ASSUME NEW u, u.agent = "agy", u.groups \in Seq(NormalGroup), NEW model,
         NEW policy \in Policies, policy.group = "none", NEW known \in LastResets,
         Open(u, model, policy, known)
  PROVE  \E f \in Families :
           LET Bucket(window) == FamilyWindow(u.groups, f, window)
           IN /\ AgyFamily(model) = {f}
              /\ Bucket("seven_day") # NoBucket /\ Bucket("seven_day").left > 0
              /\ f = "argon" \/ /\ Bucket("five_hour") # NoBucket
                                /\ Bucket("five_hour").left > 0
                                /\ Bucket("five_hour").left > Full - policy.fiveHourMax
<1> DEFINE G == u.groups
           F == AgyFamily(model)
           five  == AgyWindow(G, model, policy, "five_hour")
           seven == AgyWindow(G, model, policy, "seven_day")
<1>1. /\ seven # NoBucket
      /\ WeeklyOnly(G, model, policy) \/ five # NoBucket
      /\ LeavesOpen(five, policy) /\ LeavesOpen(seven, policy)
  BY AgyOpen
<1>2. Cardinality(F) = 1
  BY <1>1 DEF AgyWindow
<1>3. F \in SUBSET Families
  BY FamiliesType DEF AgyFamily
<1>4. PICK f : F = {f}
  <2>1. IsFiniteSet(F)
    BY <1>3, FamiliesFinite
  <2> QED
    BY <1>2, <2>1, FS_Singleton
<1>5. f \in Families /\ (CHOOSE x \in F : TRUE) = f
  BY <1>3, <1>4
<1>6. /\ five = FamilyWindow(G, f, "five_hour")
      /\ seven = FamilyWindow(G, f, "seven_day")
  BY <1>2, <1>5 DEF AgyWindow
<1>7. WeeklyOnly(G, model, policy) <=> f = "argon"
  BY <1>4 DEF WeeklyOnly
<1>8. ASSUME NEW window
      PROVE  LET bucket == FamilyWindow(G, f, window)
             IN bucket # NoBucket => bucket \in RawBucket /\ bucket.window = window
  <2> DEFINE o == Owner(G, f)
             buckets == G[o].buckets
             found == {b \in 1..Len(buckets) : buckets[b].window = window}
  <2>1. Len(G) \in Nat /\ DOMAIN G = 1..Len(G)
    BY LenProperties
  <2>2. Best(o, Len(G), G, f)
    BY <2>1, OwnerBest
  <2>3. o \in 0..Len(G)
    BY <2>2 DEF Best
  <2>4. FamilyWindow(G, f, window) = IF o = 0 THEN NoBucket ELSE FirstOf(buckets, window)
    BY DEF FamilyWindow
  <2>5. CASE o # 0
    <3>1. G[o] \in NormalGroup
      BY <2>1, <2>3, <2>5, ElementOfSeq
    <3>2. buckets \in Seq(RawBucket)
      BY <3>1 DEF NormalGroup
    <3>3. /\ FirstOf(buckets, window) = IF found = {} THEN NoBucket ELSE buckets[Min(found)]
          /\ found # {} => Min(found) \in found /\ buckets[Min(found)] \in RawBucket
      BY <3>2, FirstOfIs
    <3>4. \A b \in found : buckets[b].window = window
      OBVIOUS
    <3> HIDE DEF buckets, found
    <3> QED
      BY <2>4, <2>5, <3>3, <3>4
  <2> QED
    BY <2>4, <2>5
<1> DEFINE B5 == FamilyWindow(G, f, "five_hour")
           B7 == FamilyWindow(G, f, "seven_day")
<1>9. /\ B5 # NoBucket => B5 \in RawBucket /\ B5.window = "five_hour"
      /\ B7 # NoBucket => B7 \in RawBucket
  BY <1>8
<1>10. /\ B7 # NoBucket /\ (f = "argon" \/ B5 # NoBucket)
       /\ LeavesOpen(B5, policy) /\ LeavesOpen(B7, policy)
  BY <1>1, <1>6, <1>7
<1> HIDE DEF B5, B7
<1>11. B7.left > 0
  <2>1. B7.left \in 0..Full /\ B7.left # 0
    BY <1>9, <1>10 DEF LeavesOpen, RawBucket
  <2> QED
    BY <2>1
<1>12. ASSUME f # "argon" PROVE B5.left > 0 /\ B5.left > Full - policy.fiveHourMax
  <2>1. B5.left \in 0..Full /\ B5.left # 0 /\ ~ReserveReached(Full - B5.left, policy)
    BY <1>9, <1>10, <1>12 DEF LeavesOpen, RawBucket
  <2>2. policy.fiveHourMax \in Nat
    BY PolicyType
  <2>3. ~(policy.fiveHourMax < Full /\ Full - B5.left >= policy.fiveHourMax)
    BY <2>1 DEF ReserveReached
  <2> QED
    BY <2>1, <2>2, <2>3 DEF Full
<1> QED
  BY <1>4, <1>5, <1>10, <1>11, <1>12 DEF B5, B7

\* The gauges show of each family and window just what its gate reads, and behind an
\* open gate they show headroom, whatever a reply lists (usage-proxy.ts:316-357).
THEOREM GaugesAgree == UsageSpec => []GateAndGaugesAgree
<1>1. ASSUME UsageInv, FromAgy PROVE GateAndGaugesAgree
  <2> DEFINE raw == written[FirstResult(written)].groups
  <2>1. IsReply(raw) /\ usage = [agent |-> "agy", groups |-> NormalizeGroups(raw)]
    BY <1>1, UsageOfReply DEF UsageInv
  <2> HIDE DEF raw
  <2>2. usage.groups \in Seq(NormalGroup) /\ LabelsCount(usage.groups) /\ usage.agent = "agy"
    <3>1. NormalizeGroups(raw) \in Seq(NormalGroup)
      BY <2>1, NormalGroupsType DEF IsReply
    <3>2. LabelsCount(NormalizeGroups(raw))
      BY <2>1, LabelsOfReply
    <3> QED
      BY <2>1, <3>1, <3>2
  <2>3. ASSUME NEW f \in Families, NEW window
        PROVE  LET bucket == FamilyWindow(usage.groups, f, window)
               IN Shown(window, f) = (IF bucket = NoBucket THEN {} ELSE {bucket.left})
    BY <2>2, GaugeOfFamily
  <2>4. ASSUME NEW model \in Models["agy"], NEW policy \in Policies, NEW known \in LastResets,
               policy.group = "none", Open(usage, model, policy, known)
        PROVE  \E f \in Families :
                 /\ AgyFamily(model) = {f}
                 /\ \E left \in Shown("seven_day", f) : left > 0
                 /\ f = "argon" \/ \E left \in Shown("five_hour", f) :
                                     left > 0 /\ left > Full - policy.fiveHourMax
    <3>1. PICK f \in Families :
            LET Bucket(window) == FamilyWindow(usage.groups, f, window)
            IN /\ AgyFamily(model) = {f}
               /\ Bucket("seven_day") # NoBucket /\ Bucket("seven_day").left > 0
               /\ f = "argon" \/ /\ Bucket("five_hour") # NoBucket
                                 /\ Bucket("five_hour").left > 0
                                 /\ Bucket("five_hour").left > Full - policy.fiveHourMax
      BY <2>2, <2>4, OpenHasHeadroom
    <3> DEFINE B5 == FamilyWindow(usage.groups, f, "five_hour")
               B7 == FamilyWindow(usage.groups, f, "seven_day")
    <3>2. /\ B7 # NoBucket => B7.left \in Shown("seven_day", f)
          /\ B5 # NoBucket => B5.left \in Shown("five_hour", f)
      BY <2>3
    <3>3. AgyFamily(model) = {f} /\ B7 # NoBucket /\ B7.left > 0
      BY <3>1
    <3>4. f = "argon" \/ /\ B5 # NoBucket /\ B5.left > 0
                         /\ B5.left > Full - policy.fiveHourMax
      BY <3>1
    <3> HIDE DEF B5, B7
    <3> QED
      BY <3>2, <3>3, <3>4
  <2> QED
    BY <2>3, <2>4 DEF GateAndGaugesAgree
<1>2. UsageInv => GateAndGaugesAgree
  BY <1>1 DEF GateAndGaugesAgree
<1> QED
  BY <1>2, UsageAlways, PTL

=============================================================================
